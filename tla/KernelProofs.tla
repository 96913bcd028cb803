---------------------------- MODULE KernelProofs ----------------------------
(***************************************************************************)
(* Proofs about Kernel: for every sequence of programs launched at boot,   *)
(* any number of tasks, and programs that make any calls in any order.     *)
(***************************************************************************)
EXTENDS Kernel, SequenceTheorems, TLAPS

KernelInv == TypeOK /\ ContextsOK

-----------------------------------------------------------------------------
(***************************************************************************)
(* Stacks: what the operators on sequences do to the one, two or three     *)
(* activations a context has.                                              *)
(***************************************************************************)
LEMMA Stack1 ==
    ASSUME NEW a, NEW s, s = <<a>>
    PROVE  Last(s) = a /\ Len(s) = 1 /\ s[1] = a
BY DEF Last

LEMMA Stack2 ==
    ASSUME NEW a, NEW b, NEW s, s = <<a, b>>
    PROVE  /\ Last(s) = b /\ Len(s) = 2 /\ s[1] = a /\ s[2] = b
           /\ \A d : ReplaceAt(s, Len(s), d) = <<a, d>>
BY DEF Last, ReplaceAt

LEMMA Stack3 ==
    ASSUME NEW a, NEW b, NEW c, NEW s, s = <<a, b, c>>
    PROVE  /\ Last(s) = c /\ Len(s) = 3 /\ s[1] = a /\ s[2] = b /\ s[3] = c
           /\ \A d : ReplaceAt(s, Len(s), d) = <<a, b, d>>
BY DEF Last, ReplaceAt

LEMMA StackOps ==
    ASSUME NEW a, NEW b, NEW c
    PROVE  /\ Front(<<a, b>>) = <<a>> /\ Front(<<a, b, c>>) = <<a, b>>
           /\ <<a>> \o <<b, c>> = <<a, b, c>>
           /\ Append(<<a>>, b) = <<a, b>>
<1> DEFINE S == {a, b, c}
<1>1. /\ <<a>> \in Seq(S) /\ <<a, b>> \in Seq(S)
      /\ <<b, c>> \in Seq(S) /\ <<a, b, c>> \in Seq(S)
  OBVIOUS
<1>2. Front(<<a, b>>) = <<a>>
  <2> DEFINE f == SubSeq(<<a, b>>, 1, 1)
             g == <<a>>
  <2>1. f \in Seq(S) /\ Len(f) = 1 /\ f[1] = a
    BY <1>1
  <2>2. g \in Seq(S) /\ Len(g) = 1 /\ g[1] = a
    BY <1>1
  <2> HIDE DEF f, g
  <2>3. Len(f) = Len(g) /\ \A i \in 1..Len(f) : f[i] = g[i]
    BY <2>1, <2>2
  <2>4. f = g
    BY <2>1, <2>2, <2>3, SeqEqual
  <2> QED BY <2>4 DEF f, g, Front
<1>3. Front(<<a, b, c>>) = <<a, b>>
  <2> DEFINE f == SubSeq(<<a, b, c>>, 1, 2)
             g == <<a, b>>
  <2>1. f \in Seq(S) /\ Len(f) = 2 /\ f[1] = a /\ f[2] = b
    BY <1>1
  <2>2. g \in Seq(S) /\ Len(g) = 2 /\ g[1] = a /\ g[2] = b
    BY <1>1
  <2> HIDE DEF f, g
  <2>3. Len(f) = Len(g) /\ \A i \in 1..Len(f) : f[i] = g[i]
    BY <2>1, <2>2
  <2>4. f = g
    BY <2>1, <2>2, <2>3, SeqEqual
  <2> QED BY <2>4 DEF f, g, Front
<1>4. <<a>> \o <<b, c>> = <<a, b, c>>
  <2> DEFINE f == <<a>> \o <<b, c>>
             g == <<a, b, c>>
  <2>1. f \in Seq(S) /\ Len(f) = 3 /\ f[1] = a /\ f[2] = b /\ f[3] = c
    BY <1>1
  <2>2. g \in Seq(S) /\ Len(g) = 3 /\ g[1] = a /\ g[2] = b /\ g[3] = c
    BY <1>1
  <2> HIDE DEF f, g
  <2>3. Len(f) = Len(g) /\ \A i \in 1..Len(f) : f[i] = g[i]
    BY <2>1, <2>2
  <2>4. f = g
    BY <2>1, <2>2, <2>3, SeqEqual
  <2> QED BY <2>4 DEF f, g
<1>5. Append(<<a>>, b) = <<a, b>>
  <2> DEFINE f == Append(<<a>>, b)
             g == <<a, b>>
  <2>1. f \in Seq(S) /\ Len(f) = 2 /\ f[1] = a /\ f[2] = b
    BY <1>1
  <2>2. g \in Seq(S) /\ Len(g) = 2 /\ g[1] = a /\ g[2] = b
    BY <1>1
  <2> HIDE DEF f, g
  <2>3. Len(f) = Len(g) /\ \A i \in 1..Len(f) : f[i] = g[i]
    BY <2>1, <2>2
  <2>4. f = g
    BY <2>1, <2>2, <2>3, SeqEqual
  <2> QED BY <2>4 DEF f, g
<1> QED BY <1>2, <1>3, <1>4, <1>5

\* An activation has the fields it was made with.
LEMMA Fields ==
    ASSUME NEW p, NEW t, NEW c
    PROVE  /\ Activation(p, t, c).pc = p
           /\ Activation(p, t, c).task = t
           /\ Activation(p, t, c).cand = c
BY DEF Activation

LEMMA ActivationType ==
    ASSUME NEW p \in PCs, NEW t \in 0..MaxTasks, NEW c \in 0..MaxTasks
    PROVE  Activation(p, t, c) \in Activations
BY DEF Activation, Activations

LEMMA StackType ==
    ASSUME NEW a \in Activations, NEW b \in Activations, NEW c \in Activations
    PROVE  /\ <<a>> \in Seq(Activations) /\ <<a>> # <<>>
           /\ <<a, b>> \in Seq(Activations) /\ <<a, b>> # <<>>
           /\ <<a, b, c>> \in Seq(Activations) /\ <<a, b, c>> # <<>>
OBVIOUS

-----------------------------------------------------------------------------
(***************************************************************************)
(* Reading the invariant.                                                  *)
(***************************************************************************)
\* The owner of the running context and the contexts of the other tasks.
World(o) ==
    /\ o \in Tasks
    /\ Executing(o) \/ InSchedule(o)
    /\ \A t \in Tasks \ {o} : Parked(t, esp[t], ParkedState(t))

LEMMA WorldExists == KernelInv /\ boot # 0 => \E o \in Tasks : World(o)
BY DEF KernelInv, ContextsOK, AfterTasking, World

LEMMA TaskSet ==
    KernelInv => /\ Tasks \subseteq TaskIds
                 /\ Tasks \subseteq Nat
                 /\ boot # 0 => 1 \in Tasks
BY MaxTasksAssumption, LaunchAssumption
   DEF KernelInv, TypeOK, ContextsOK, AfterTasking, Tasks, TaskIds

\* Where a context stands tells in which part of the invariant it is.
LEMMA ExecutingTop ==
    ASSUME NEW o, Executing(o)
    PROVE  Last(cpu).pc \notin SchedulePCs /\ Len(cpu) # 3 /\ cpu[1] = Code(o)
<1>1. ASSUME NEW a, cpu = <<a>> PROVE Last(cpu) = a /\ Len(cpu) # 3 /\ cpu[1] = a
  BY <1>1, Stack1
<1>2. ASSUME NEW a, NEW b, cpu = <<a, b>>
      PROVE  Last(cpu) = b /\ Len(cpu) # 3 /\ cpu[1] = a
  BY <1>2, Stack2
<1> QED BY <1>1, <1>2, Fields DEF Executing, SchedulePCs, Code, Act, ActOf

LEMMA ScheduleTop ==
    ASSUME NEW o, InSchedule(o)
    PROVE  Last(cpu) = cpu[3] /\ Last(cpu).pc \in SchedulePCs /\ cpu[1] = Code(o)
<1> DEFINE b == cpu[2]
           c == cpu[3]
<1>0. cpu = <<Code(o), b, c>>
  BY DEF InSchedule
<1> HIDE DEF b, c
<1>1. Last(cpu) = c /\ cpu[1] = Code(o)
  BY <1>0, Stack3
<1>2. cpu[3].pc \in SchedulePCs
  BY Fields DEF InSchedule, Scheduling, SchedulePCs, Act, ActOf
<1> QED BY <1>1, <1>2 DEF c

LEMMA WorldOwner ==
    ASSUME NEW o, World(o)
    PROVE  Owner = o
BY ExecutingTop, ScheduleTop, Fields DEF World, Owner, Code, ActOf

LEMMA CallerTypes ==
    ASSUME NEW o \in TaskIds, NEW b, NEW st, Caller(o, b, st)
    PROVE  b \in Activations /\ Code(o) \in Activations
<1>1. 0 \in 0..MaxTasks /\ TaskIds \subseteq 0..MaxTasks
  BY MaxTasksAssumption DEF TaskIds
<1>2. {"irq0", "gets_return", "exit_return", "exec_return", "code"} \subseteq PCs
  BY DEF PCs, ExecPCs, SchedulePCs
<1> QED BY <1>1, <1>2, ActivationType DEF Caller, Code, Act, ActOf, NULL

\* schedule() is on top: who runs it, who called it, and how far it is.
LEMMA InScheduleState ==
    ASSUME KernelInv, boot # 0, Last(cpu).pc \in SchedulePCs
    PROVE  \E o \in Tasks, st \in TaskStates, b \in Activations :
             /\ World(o) /\ in_service
             /\ cpu = <<Code(o), b, Last(cpu)>>
             /\ Caller(o, b, st) /\ Scheduling(o, st, Last(cpu))
<1>1. PICK o \in Tasks : World(o)
  BY WorldExists
<1>2. InSchedule(o)
  BY <1>1, ExecutingTop DEF World
<1>3. PICK st \in TaskStates : Caller(o, cpu[2], st) /\ Scheduling(o, st, cpu[3])
  BY <1>2 DEF InSchedule
<1>4. cpu[3] = Last(cpu) /\ in_service /\ cpu = <<Code(o), cpu[2], cpu[3]>>
  BY <1>2, ScheduleTop DEF InSchedule
<1>5. cpu[2] \in Activations
  BY <1>1, <1>3, CallerTypes, TaskSet
<1> QED BY <1>1, <1>3, <1>4, <1>5

\* The caller of schedule() is parked where it will be resumed.
LEMMA CallerParks ==
    ASSUME NEW o, NEW b, NEW st, Caller(o, b, st)
    PROVE  Parked(o, <<Code(o), b>>, Yielded(st))
BY DEF Caller, Parked, Yielded

LEMMA NotElected ==
    ASSUME Len(cpu) # 3 \/ cpu[3].pc \notin {"current", "switch"}, NEW t
    PROVE  ParkedState(t) = state[t]
BY DEF ParkedState, Elected

\* kmain is never blocked, and a parked task is never RUNNING.
LEMMA ParkedStates ==
    ASSUME NEW t, NEW ctx, NEW st, Parked(t, ctx, st)
    PROVE  /\ st \in {"READY", "WAITING_FOR_KEYBOARD", "WAITING_FOR_CHILD",
                      "TERMINATED"}
           /\ t = 1 => st = "READY"
BY DEF Parked

\* The queue, as the scan walks it: downwards, to kmain.
LEMMA QueueStep ==
    ASSUME KernelInv, boot # 0, NEW c \in Tasks
    PROVE  /\ next[c] \in Tasks
           /\ c # 1 => next[c] < c
<1>1. boot > 0 /\ next_task_id > 1 /\ next_task_id \in Nat
  BY LaunchAssumption DEF KernelInv, TypeOK, ContextsOK, AfterTasking
<1>2. /\ next[1] = IF next_task_id = 2 THEN 1 ELSE next_task_id - 1
      /\ \A t \in Tasks \ {1} : next[t] = IF t = 2 THEN 1 ELSE t - 1
  BY <1>1 DEF KernelInv, ContextsOK, QueueOrder
<1>3. CASE c = 1
  BY <1>1, <1>2, <1>3 DEF Tasks
<1>4. CASE c # 1
  BY <1>1, <1>2, <1>4 DEF Tasks
<1> QED BY <1>3, <1>4

\* Outside schedule(), the code the CPU is at tells the context and the state.
LEMMA ExecutingAt ==
    ASSUME NEW o, Executing(o)
    PROVE  LET pc == Last(cpu).pc
               c == Last(cpu).task
           IN
           /\ pc = "code" => /\ cpu = <<Code(o)>> /\ state[o] = "RUNNING"
                             /\ in_service = (o # 1)
           /\ pc = "irq0" => /\ o = 1 /\ cpu = <<Code(o), Act("irq0")>>
                             /\ state[o] = "RUNNING" /\ in_service
           /\ pc = "gets_return" => cpu = <<Code(o), Act("gets_return")>>
           /\ pc = "exec_failed" => cpu = <<Code(o), Act("exec_failed")>>
           /\ pc \in ExecPCs \ {"exec_failed"} =>
                cpu = <<Code(o), ActOf(pc, c)>> /\ c \in TaskIds
           /\ pc \in ExecPCs \cup {"gets_return"} =>
                /\ o # 1 /\ in_service
                /\ state[o] = IF pc \in {"exec_note", "exec_call"}
                                THEN "WAITING_FOR_CHILD" ELSE "RUNNING"
           /\ pc \in ExecPCs \cup {"code", "irq0", "gets_return"}
<1> USE Fields DEF Code, Act, ActOf, ExecPCs
<1>1. CASE cpu = <<Code(o)>> /\ state[o] = "RUNNING" /\ in_service = (o # 1)
  BY <1>1, Stack1
<1>2. CASE /\ o = 1 /\ cpu = <<Code(1), Act("irq0")>>
           /\ state[1] = "RUNNING" /\ in_service
  BY <1>2, Stack2
<1>3. ASSUME NEW a, cpu = <<Code(o), a>> PROVE Last(cpu) = a
  BY <1>3, Stack2
<1>4. CASE /\ o # 1 /\ in_service /\ state[o] = "RUNNING"
           /\ \/ cpu = <<Code(o), Act("gets_return")>>
              \/ cpu = <<Code(o), Act("exec_failed")>>
  <2>1. CASE cpu = <<Code(o), Act("gets_return")>>
    <3>1. Last(cpu).pc = "gets_return"
      BY <1>3, <2>1
    <3> QED BY <3>1, <2>1, <1>4
  <2>2. CASE cpu = <<Code(o), Act("exec_failed")>>
    <3>1. Last(cpu).pc = "exec_failed"
      BY <1>3, <2>2
    <3> QED BY <3>1, <2>2, <1>4
  <2> QED BY <1>4, <2>1, <2>2
<1>5. ASSUME NEW c \in TaskIds, o # 1, in_service,
             \/ /\ state[o] = "RUNNING"
                /\ \/ cpu = <<Code(o), ActOf("exec_block", c)>>
                   \/ cpu = <<Code(o), ActOf("exec_return", c)>>
             \/ /\ state[o] = "WAITING_FOR_CHILD"
                /\ \/ cpu = <<Code(o), ActOf("exec_note", c)>>
                   \/ cpu = <<Code(o), ActOf("exec_call", c)>>
      PROVE  /\ Last(cpu).pc \in {"exec_block", "exec_return", "exec_note",
                                  "exec_call"}
             /\ Last(cpu).task = c
             /\ cpu = <<Code(o), ActOf(Last(cpu).pc, c)>>
             /\ state[o] = IF Last(cpu).pc \in {"exec_note", "exec_call"}
                             THEN "WAITING_FOR_CHILD" ELSE "RUNNING"
  <2>1. ASSUME NEW pc \in {"exec_block", "exec_return", "exec_note", "exec_call"},
               cpu = <<Code(o), ActOf(pc, c)>>
        PROVE  Last(cpu).pc = pc /\ Last(cpu).task = c
    BY <1>3, <2>1
  <2> QED BY <1>5, <2>1
<1> QED BY <1>1, <1>2, <1>4, <1>5 DEF Executing

\* Outside schedule(), some task executes and every other one is parked.
LEMMA Outside ==
    ASSUME KernelInv, boot # 0, Last(cpu).pc \notin SchedulePCs
    PROVE  \E o \in Tasks : /\ World(o) /\ Executing(o) /\ Owner = o
                            /\ current_task = o /\ o \in TaskIds
<1>1. PICK o \in Tasks : World(o)
  BY WorldExists
<1>2. Executing(o)
  BY <1>1, ScheduleTop DEF World
<1> QED BY <1>1, <1>2, WorldOwner, TaskSet DEF Executing

LEMMA CodeTypes ==
    /\ \A t \in TaskIds : Code(t) \in Activations
    /\ \A pc \in PCs : Act(pc) \in Activations
    /\ \A pc \in PCs, t \in TaskIds : ActOf(pc, t) \in Activations
    /\ \A pc \in PCs, t \in TaskIds, c \in TaskIds :
         Activation(pc, t, c) \in Activations
<1>1. 0 \in 0..MaxTasks /\ TaskIds \subseteq 0..MaxTasks
  BY MaxTasksAssumption DEF TaskIds
<1> QED BY <1>1, ActivationType DEF Code, Act, ActOf, NULL, PCs

-----------------------------------------------------------------------------
(***************************************************************************)
(* The steps.                                                              *)
(***************************************************************************)
Others(o) == \A t \in Tasks \ {o} : Parked(t, esp[t], ParkedState(t))

\* A step that creates no task: what is left to show.
LEMMA Assemble ==
    ASSUME KernelInv, boot # 0, ~halted',
           UNCHANGED <<boot, next, task_queue_head, next_task_id, program>>,
           NEW o \in Tasks, (Executing(o) \/ InSchedule(o))', Others(o)',
           \A t \in TaskIds \ Tasks : state'[t] = state[t],
           task_waiting_for_input' # NULL =>
             state'[task_waiting_for_input'] = "WAITING_FOR_KEYBOARD"
    PROVE  ContextsOK'
<1>1. Tasks' = Tasks /\ TaskIds' = TaskIds
  BY DEF Tasks
<1>2. AfterTasking'
  BY <1>1 DEF KernelInv, ContextsOK, AfterTasking, Others
<1>3. QueueOrder'
  BY DEF KernelInv, ContextsOK, QueueOrder, Tasks
<1> QED BY <1>2, <1>3 DEF KernelInv, ContextsOK, NeverHalted

\* A step that leaves the states and the parked contexts alone.
LEMMA OthersKept ==
    ASSUME NEW o, Others(o), UNCHANGED <<next_task_id, esp, state>>,
           \A t \in Tasks \ {o} : Elected(t)' <=> Elected(t)
    PROVE  Others(o)'
<1>1. \A t \in Tasks \ {o} : ParkedState(t)' = ParkedState(t)
  BY DEF ParkedState
<1>2. Tasks' = Tasks
  BY DEF Tasks
<1>3. ASSUME NEW t \in Tasks \ {o} PROVE Parked(t, esp[t], ParkedState(t))'
  <2> DEFINE p == ParkedState(t)
  <2>1. p' = p /\ esp'[t] = esp[t] /\ Parked(t, esp[t], p)
    BY <1>1 DEF Others
  <2> HIDE DEF p
  <2>2. Parked(t, esp[t], p)'
    BY <2>1 DEF Parked
  <2> QED BY <2>2 DEF p
<1> QED BY <1>2, <1>3 DEF Others

\* The code schedule() is at tells its locals and the state of its caller.
LEMMA SchedulingAt ==
    ASSUME NEW o, NEW st, NEW act, Scheduling(o, st, act)
    PROVE  LET c == act.cand IN
           /\ act.pc = "schedule" =>
                act = Act("schedule") /\ current_task = o /\ state[o] = st
           /\ act.pc # "schedule" =>
                /\ c \in Tasks /\ (o # 1 => c < o) /\ act.task = o
                /\ act = Activation(act.pc, o, c)
           /\ act.pc = "scan" => current_task = o /\ state[o] = st
           /\ act.pc = "yield" => current_task = o /\ state[o] = st /\ ~Blocked(c)
           /\ act.pc = "run" =>
                current_task = o /\ state[o] = Yielded(st) /\ ~Blocked(c)
           /\ act.pc = "current" => current_task = o
           /\ act.pc = "switch" => current_task = c
           /\ act.pc \in {"current", "switch"} =>
                state[c] = "RUNNING" /\ (c # o => state[o] = Yielded(st))
<1> USE Fields
<1>1. CASE act = Act("schedule") /\ current_task = o /\ state[o] = st
  BY <1>1 DEF Act, ActOf
<1>2. ASSUME NEW c \in Tasks, NEW pc, act = Activation(pc, o, c)
      PROVE  act.pc = pc /\ act.cand = c /\ act.task = o
  BY <1>2
<1>3. ASSUME NEW c \in Tasks, o # 1 => c < o, act = Activation("scan", o, c),
             current_task = o, state[o] = st
      PROVE  /\ act.pc = "scan" /\ act.cand = c /\ act.task = o
  BY <1>2, <1>3
<1> QED BY <1>1, <1>2, <1>3 DEF Scheduling

\* Task o, called from b in state st, is in schedule() at act.
AtSchedule(o, st, b, act) ==
    /\ o \in Tasks /\ o \in TaskIds /\ st \in TaskStates
    /\ b \in Activations /\ Code(o) \in Activations
    /\ Others(o) /\ in_service /\ ~halted
    /\ cpu = <<Code(o), b, act>> /\ Last(cpu) = act
    /\ Len(cpu) = 3 /\ cpu[3] = act
    /\ Caller(o, b, st) /\ Scheduling(o, st, act)

LEMMA ScheduleStart ==
    ASSUME KernelInv, boot # 0, NEW pc \in SchedulePCs, At(pc)
    PROVE  \E o, st, b, act : AtSchedule(o, st, b, act) /\ act.pc = pc
<1>1. PICK o \in Tasks, st \in TaskStates, b \in Activations :
             /\ World(o) /\ in_service
             /\ cpu = <<Code(o), b, Last(cpu)>>
             /\ Caller(o, b, st) /\ Scheduling(o, st, Last(cpu))
  BY InScheduleState DEF At
<1>2. PICK act : act = Last(cpu)
  OBVIOUS
<1>3. cpu = <<Code(o), b, act>>
  BY <1>1, <1>2
<1>4. Len(cpu) = 3 /\ cpu[3] = act
  BY <1>3, Stack3
<1>5. Others(o)
  BY <1>1 DEF World, Others
<1>6. o \in TaskIds /\ Code(o) \in Activations
  BY <1>1, TaskSet, CodeTypes
<1> QED BY <1>1, <1>2, <1>3, <1>4, <1>5, <1>6 DEF At, AtSchedule

\* Goto and Return, in schedule().
LEMMA ScheduleStack ==
    ASSUME NEW o, NEW st, NEW b, NEW act, AtSchedule(o, st, b, act)
    PROVE  /\ \A d : Goto(d) => cpu' = <<Code(o), b, d>>
           /\ Return => cpu' = <<Code(o), b>>
<1>1. PICK a : a = Code(o)
  OBVIOUS
<1>2. cpu = <<a, b, act>>
  BY <1>1 DEF AtSchedule
<1>3. \A d : ReplaceAt(cpu, Len(cpu), d) = <<a, b, d>>
  BY <1>2 DEF ReplaceAt
<1>4. Front(cpu) = <<a, b>>
  BY <1>2, StackOps
<1> QED BY <1>1, <1>3, <1>4 DEF Goto, Return

\* schedule() goes on, on the same stack.
LEMMA StillInSchedule ==
    ASSUME KernelInv, boot # 0, ~halted', in_service',
           UNCHANGED <<boot, next, task_queue_head, next_task_id, program,
                       task_waiting_for_input>>,
           NEW o, NEW st, NEW b, NEW act0, AtSchedule(o, st, b, act0),
           NEW act, cpu' = <<Code(o), b, act>>, Scheduling(o, st, act)',
           cpu'[3] = act => Others(o)',
           \A t \in TaskIds : state[t] \in {"unused", "WAITING_FOR_KEYBOARD"} =>
                                state'[t] = state[t]
    PROVE  ContextsOK'
<1>1. Len(cpu') = 3 /\ cpu'[2] = b /\ cpu'[3] = act
  OBVIOUS
<1>2. InSchedule(o)'
  BY <1>1 DEF InSchedule, AtSchedule
<1>3. \A t \in TaskIds \ Tasks : state'[t] = state[t]
  BY DEF KernelInv, ContextsOK, AfterTasking
<1>4. task_waiting_for_input' # NULL =>
        state'[task_waiting_for_input'] = "WAITING_FOR_KEYBOARD"
  BY DEF KernelInv, TypeOK, ContextsOK, AfterTasking, TaskIds, NULL
<1> QED BY <1>1, <1>2, <1>3, <1>4, Assemble DEF AtSchedule

LEMMA EntryStep ==
    ASSUME KernelInv, boot # 0, schedule_entry
    PROVE  KernelInv'
<1>0. At("schedule") /\ "schedule" \in SchedulePCs
  BY DEF schedule_entry, SchedulePCs
<1>1. PICK o, st, b, act : AtSchedule(o, st, b, act) /\ act.pc = "schedule"
  BY <1>0, ScheduleStart
<1>2. current_task = o /\ state[o] = st /\ o \in Tasks /\ o \in TaskIds
  BY <1>1, SchedulingAt DEF AtSchedule
<1>3. PICK c : c = next[o]
  OBVIOUS
<1>4. c \in Tasks /\ c \in TaskIds /\ (o # 1 => c < o) /\ o # NULL
  <2>1. c \in Tasks /\ (o # 1 => c < o)
    BY <1>2, <1>3, QueueStep
  <2>2. o # NULL
    BY <1>2 DEF NULL, TaskIds
  <2> QED BY <2>1, <2>2, TaskSet
<1>5. PICK new : new = Activation("scan", o, c)
  OBVIOUS
<1>6. cpu' = <<Code(o), b, new>>
  BY <1>1, <1>2, <1>3, <1>4, <1>5, ScheduleStack DEF schedule_entry
<1>7. new \in Activations /\ new.pc = "scan"
  BY <1>2, <1>4, <1>5, CodeTypes, Fields DEF PCs, SchedulePCs
<1>8. TypeOK'
  BY <1>1, <1>6, <1>7, StackType
     DEF schedule_entry, KernelInv, TypeOK, globals, family, keyboard, user,
         AtSchedule
<1>9. Scheduling(o, st, new)'
  BY <1>2, <1>4, <1>5 DEF schedule_entry, Scheduling, Tasks, globals
<1>10. ASSUME cpu'[3] = new PROVE Others(o)'
  <2>1. \A t : ~Elected(t) /\ ~Elected(t)'
    BY <1>1, <1>7, <1>10 DEF Elected, AtSchedule
  <2>2. Others(o) /\ UNCHANGED <<next_task_id, esp, state>>
    BY <1>1 DEF AtSchedule, schedule_entry, globals
  <2> QED BY <2>1, <2>2, OthersKept
<1>11. ContextsOK'
  BY <1>1, <1>6, <1>9, <1>10, StillInSchedule
     DEF schedule_entry, globals, keyboard, user, AtSchedule
<1> QED BY <1>8, <1>11 DEF KernelInv

\* A step within schedule() that leaves the states alone, but for the halt
\* branches, which the invariant excludes.
LEMMA ScanStep ==
    ASSUME KernelInv, boot # 0, schedule_scan
    PROVE  KernelInv'
<1>0. At("scan") /\ "scan" \in SchedulePCs
  BY DEF schedule_scan, SchedulePCs
<1>1. PICK o, st, b, act : AtSchedule(o, st, b, act) /\ act.pc = "scan"
  BY <1>0, ScheduleStart
<1>2. /\ current_task = o /\ state[o] = st /\ o \in Tasks /\ o \in TaskIds
      /\ act.cand \in Tasks /\ (o # 1 => act.cand < o) /\ act.task = o
      /\ Last(cpu) = act
  BY <1>1, SchedulingAt DEF AtSchedule
<1>3. PICK c, succ : c = act.cand /\ succ = next[c]
  OBVIOUS
<1>4. c \in Tasks /\ c \in TaskIds /\ (o # 1 => c < o)
  BY <1>2, <1>3, TaskSet
<1>5. succ \in Tasks /\ succ \in TaskIds /\ (c # 1 => succ < c)
  BY <1>3, <1>4, QueueStep, TaskSet
<1>6. o \in Nat /\ c \in Nat /\ succ \in Nat
  BY <1>2, <1>4, <1>5, TaskSet
<1>7. o = 1 => b = Act("irq0") /\ st = "RUNNING" /\ ~Blocked(o)
  BY <1>1, <1>2 DEF AtSchedule, Caller, Blocked
<1>8. \A t : ~Elected(t) /\ ParkedState(t) = state[t]
  BY <1>1 DEF Elected, ParkedState, AtSchedule
<1>9. o # 1 => ~Blocked(1) /\ 1 \in Tasks
  <2>1. 1 \in Tasks
    BY TaskSet
  <2>2. o # 1 => Parked(1, esp[1], state[1])
    BY <1>1, <1>8, <2>1 DEF AtSchedule, Others
  <2> QED BY <2>1, <2>2, ParkedStates DEF Blocked
<1> DEFINE stay == Blocked(c) /\ c # o
<1>10. stay /\ o # 1 => succ # o
  BY <1>4, <1>5, <1>6, <1>9
<1>11. Others(o) /\ UNCHANGED <<next_task_id, esp, state>>
  BY <1>1 DEF AtSchedule, schedule_scan, globals
<1>12. \/ ~halted' /\ stay /\ Goto(Activation("scan", o, succ))
       \/ ~halted' /\ stay /\ o = 1 /\ Return
       \/ ~halted' /\ ~stay /\ Goto(Activation("yield", o, c))
  BY <1>1, <1>2, <1>3, <1>7, <1>10 DEF schedule_scan, AtSchedule
<1>13. ASSUME NEW new \in Activations, ~halted', Scheduling(o, st, new)',
              cpu' = <<Code(o), b, new>>, new.pc \in {"scan", "yield"}
       PROVE  KernelInv'
  <2>1. TypeOK'
    BY <1>1, <1>13, StackType
       DEF schedule_scan, KernelInv, TypeOK, globals, family, keyboard, user,
           AtSchedule
  <2>2. ASSUME cpu'[3] = new PROVE Others(o)'
    <3>1. \A t : ~Elected(t)'
      BY <1>13, <2>2 DEF Elected
    <3> QED BY <1>8, <1>11, <3>1, OthersKept
  <2>3. ContextsOK'
    BY <1>1, <1>13, <2>2, StillInSchedule
       DEF schedule_scan, globals, keyboard, user, AtSchedule
  <2> QED BY <2>1, <2>3 DEF KernelInv
<1>14. CASE ~halted' /\ stay /\ Goto(Activation("scan", o, succ))
  <2>1. PICK new : new = Activation("scan", o, succ)
    OBVIOUS
  <2>2. cpu' = <<Code(o), b, new>>
    BY <1>1, <1>14, <2>1, ScheduleStack
  <2>3. new \in Activations /\ new.pc = "scan"
    BY <1>2, <1>5, <2>1, CodeTypes, Fields DEF PCs, SchedulePCs
  <2>4. o # 1 => succ < o
    BY <1>4, <1>5, <1>6, <1>9, <1>14
  <2>5. Scheduling(o, st, new)'
    BY <1>2, <1>5, <2>1, <2>4 DEF schedule_scan, Scheduling, Tasks, globals
  <2> QED BY <1>13, <1>14, <2>2, <2>3, <2>5
<1>15. CASE ~halted' /\ ~stay /\ Goto(Activation("yield", o, c))
  <2>1. PICK new : new = Activation("yield", o, c)
    OBVIOUS
  <2>2. cpu' = <<Code(o), b, new>>
    BY <1>1, <1>15, <2>1, ScheduleStack
  <2>3. new \in Activations /\ new.pc = "yield"
    BY <1>2, <1>4, <2>1, CodeTypes, Fields DEF PCs, SchedulePCs
  <2>4. ~Blocked(c)
    BY <1>4, <1>6, <1>7, <1>15
  <2>5. Scheduling(o, st, new)'
    BY <1>2, <1>4, <2>1, <2>4
       DEF schedule_scan, Scheduling, Tasks, globals, Blocked
  <2> QED BY <1>13, <1>15, <2>2, <2>3, <2>5
<1>16. CASE ~halted' /\ stay /\ o = 1 /\ Return
  <2>1. cpu' = <<Code(o), b>>
    BY <1>1, <1>16, ScheduleStack
  <2>2. TypeOK'
    BY <1>1, <2>1, <1>16, StackType
       DEF schedule_scan, KernelInv, TypeOK, globals, family, keyboard, user,
           AtSchedule
  <2>3. Len(cpu') # 3
    BY <2>1
  <2>4. \A t : ~Elected(t)'
    BY <2>3 DEF Elected
  <2>5. Others(o)'
    BY <1>8, <1>11, <2>4, OthersKept
  <2>6. Executing(o)'
    BY <1>1, <1>2, <1>7, <1>16, <2>1
       DEF Executing, schedule_scan, globals, AtSchedule
  <2>7. ContextsOK'
    BY <1>2, <1>16, <2>5, <2>6, Assemble
       DEF schedule_scan, globals, keyboard, user, KernelInv, ContextsOK,
           AfterTasking
  <2> QED BY <2>2, <2>7 DEF KernelInv
<1> QED BY <1>12, <1>14, <1>15, <1>16

LEMMA YieldStep ==
    ASSUME KernelInv, boot # 0, schedule_yield
    PROVE  KernelInv'
<1>0. At("yield") /\ "yield" \in SchedulePCs
  BY DEF schedule_yield, SchedulePCs
<1>1. PICK o, st, b, act : AtSchedule(o, st, b, act) /\ act.pc = "yield"
  BY <1>0, ScheduleStart
<1>2. /\ current_task = o /\ state[o] = st /\ o \in Tasks /\ o \in TaskIds
      /\ act.cand \in Tasks /\ (o # 1 => act.cand < o) /\ act.task = o
      /\ ~Blocked(act.cand) /\ Last(cpu) = act
  BY <1>1, SchedulingAt DEF AtSchedule
<1>3. PICK c : c = act.cand
  OBVIOUS
<1>4. c \in Tasks /\ c \in TaskIds /\ (o # 1 => c < o) /\ ~Blocked(c)
  BY <1>2, <1>3, TaskSet
<1>5. PICK new : new = Activation("run", o, c)
  OBVIOUS
<1>6. /\ cpu' = <<Code(o), b, new>> /\ ~halted' /\ in_service'
      /\ state' = [state EXCEPT ![o] = Yielded(st)]
      /\ state \in [TaskIds -> TaskStates]
  <2>1. /\ Goto(new) /\ halted' = halted /\ ~halted /\ in_service' = in_service
        /\ in_service
        /\ state' = IF state[o] = "RUNNING" THEN [state EXCEPT ![o] = "READY"]
                                            ELSE state
    BY <1>1, <1>2, <1>3, <1>5 DEF schedule_yield, AtSchedule
  <2>2. state \in [TaskIds -> TaskStates]
    BY DEF KernelInv, TypeOK
  <2>3. state' = [state EXCEPT ![o] = Yielded(st)]
    BY <1>2, <2>1, <2>2 DEF Yielded
  <2> QED BY <1>1, <2>1, <2>2, <2>3, ScheduleStack
<1>7. new \in Activations /\ new.pc = "run"
  BY <1>2, <1>4, <1>5, CodeTypes, Fields DEF PCs, SchedulePCs
<1>8. TypeOK'
  <2>1. Yielded(st) \in TaskStates
    BY <1>1 DEF Yielded, TaskStates, AtSchedule
  <2> QED BY <1>1, <1>6, <1>7, <2>1, StackType
     DEF schedule_yield, KernelInv, TypeOK, globals, family, keyboard, user,
         AtSchedule
<1>9. Scheduling(o, st, new)'
  <2>1. ~Blocked(c)'
    BY <1>2, <1>4, <1>6 DEF Blocked, Yielded
  <2>2. current_task' = o /\ state'[o] = Yielded(st) /\ c \in Tasks'
    BY <1>2, <1>4, <1>6 DEF schedule_yield, globals, Tasks
  <2> QED BY <1>4, <1>5, <2>1, <2>2 DEF Scheduling
<1>10. ASSUME cpu'[3] = new PROVE Others(o)'
  <2>1. \A t : ~Elected(t) /\ ~Elected(t)'
    BY <1>1, <1>7, <1>10 DEF Elected, AtSchedule
  <2>2. Tasks' = Tasks /\ esp' = esp
    BY DEF schedule_yield, globals, Tasks
  <2>3. \A t \in Tasks \ {o} : state'[t] = state[t]
    BY <1>6, TaskSet
  <2>4. \A t \in Tasks \ {o} : Parked(t, esp[t], state[t])
    BY <1>1, <2>1 DEF AtSchedule, Others, ParkedState
  <2>5. \A t : ParkedState(t)' = state'[t]
    BY <2>1 DEF ParkedState
  <2> QED BY <2>2, <2>3, <2>4, <2>5 DEF Others, Parked
<1>11. ContextsOK'
  BY <1>1, <1>2, <1>6, <1>9, <1>10, StillInSchedule
     DEF schedule_yield, globals, keyboard, user, AtSchedule, Yielded
<1> QED BY <1>8, <1>11 DEF KernelInv

LEMMA RunStep ==
    ASSUME KernelInv, boot # 0, schedule_run
    PROVE  KernelInv'
<1>0. At("run") /\ "run" \in SchedulePCs
  BY DEF schedule_run, SchedulePCs
<1>1. PICK o, st, b, act : AtSchedule(o, st, b, act) /\ act.pc = "run"
  BY <1>0, ScheduleStart
<1>2. /\ current_task = o /\ state[o] = Yielded(st) /\ o \in Tasks
      /\ o \in TaskIds /\ act.cand \in Tasks /\ (o # 1 => act.cand < o)
      /\ act.task = o /\ ~Blocked(act.cand) /\ Last(cpu) = act
  BY <1>1, SchedulingAt DEF AtSchedule
<1>3. PICK c : c = act.cand
  OBVIOUS
<1>4. c \in Tasks /\ c \in TaskIds /\ (o # 1 => c < o) /\ ~Blocked(c)
  BY <1>2, <1>3, TaskSet
<1>5. PICK new : new = Activation("current", o, c)
  OBVIOUS
<1>6. /\ cpu' = <<Code(o), b, new>> /\ ~halted' /\ in_service'
      /\ state' = [state EXCEPT ![c] = "RUNNING"]
      /\ state \in [TaskIds -> TaskStates]
  <2>1. /\ Goto(new) /\ ~halted' /\ in_service'
        /\ state' = [state EXCEPT ![c] = "RUNNING"]
    BY <1>1, <1>2, <1>3, <1>5 DEF schedule_run, AtSchedule
  <2>2. state \in [TaskIds -> TaskStates]
    BY DEF KernelInv, TypeOK
  <2> QED BY <1>1, <2>1, <2>2, ScheduleStack
<1>7. new \in Activations /\ new.pc = "current" /\ new.cand = c
  BY <1>2, <1>4, <1>5, CodeTypes, Fields DEF PCs, SchedulePCs
<1>8. TypeOK'
  <2>1. "RUNNING" \in TaskStates
    BY DEF TaskStates
  <2>2. state' \in [TaskIds -> TaskStates]
    BY <1>6, <2>1
  <2>3. cpu' \in Seq(Activations) /\ cpu' # <<>>
    BY <1>1, <1>6, <1>7, StackType DEF AtSchedule
  <2> QED BY <2>2, <2>3
     DEF schedule_run, KernelInv, TypeOK, globals, family, keyboard, user
<1>9. Scheduling(o, st, new)'
  <2>1. /\ current_task' = o /\ state'[c] = "RUNNING" /\ c \in Tasks'
        /\ c # o => state'[o] = Yielded(st)
    BY <1>2, <1>4, <1>6 DEF schedule_run, globals, Tasks
  <2> QED BY <1>4, <1>5, <2>1 DEF Scheduling
<1>10. \A t \in Tasks \ {o} : Parked(t, esp[t], state[t])
  <2>1. \A t : ~Elected(t)
    BY <1>1 DEF Elected, AtSchedule
  <2> QED BY <1>1, <2>1 DEF AtSchedule, Others, ParkedState
<1>11. c # o => state[c] = "READY"
  <2>1. c # o => Parked(c, esp[c], state[c])
    BY <1>4, <1>10
  <2> QED BY <1>4, <2>1 DEF Parked, Blocked
<1>12. ASSUME cpu'[3] = new PROVE Others(o)'
  <2>1. \A t : Elected(t)' <=> t = c
    BY <1>6, <1>7, <1>12 DEF Elected
  <2>2. Tasks' = Tasks /\ esp' = esp
    BY DEF schedule_run, globals, Tasks
  <2>3. \A t \in Tasks \ {o, c} : state'[t] = state[t] /\ ParkedState(t)' = state[t]
    BY <1>6, <2>1, TaskSet DEF ParkedState
  <2>4. c # o => ParkedState(c)' = state[c]
    BY <1>11, <2>1 DEF ParkedState
  <2> QED BY <1>10, <2>2, <2>3, <2>4 DEF Others, Parked
<1>13. \A t \in TaskIds : state[t] \in {"unused", "WAITING_FOR_KEYBOARD"} =>
                            state'[t] = state[t]
  <2>0. st # "unused"
    BY <1>1 DEF AtSchedule, Caller
  <2>1. c = o => state[c] \notin {"unused", "WAITING_FOR_KEYBOARD"}
    BY <1>2, <1>4, <2>0 DEF Yielded, Blocked
  <2> QED BY <1>6, <1>11, <2>1
<1>14. ContextsOK'
  BY <1>1, <1>2, <1>6, <1>9, <1>12, <1>13, StillInSchedule
     DEF schedule_run, globals, keyboard, user
<1> QED BY <1>8, <1>14 DEF KernelInv

LEMMA CurrentStep ==
    ASSUME KernelInv, boot # 0, schedule_current
    PROVE  KernelInv'
<1>0. At("current") /\ "current" \in SchedulePCs
  BY DEF schedule_current, SchedulePCs
<1>1. PICK o, st, b, act : AtSchedule(o, st, b, act) /\ act.pc = "current"
  BY <1>0, ScheduleStart
<1>2. /\ o \in Tasks /\ o \in TaskIds /\ act.cand \in Tasks
      /\ (o # 1 => act.cand < o) /\ act.task = o /\ Last(cpu) = act
      /\ state[act.cand] = "RUNNING" /\ (act.cand # o => state[o] = Yielded(st))
  BY <1>1, SchedulingAt DEF AtSchedule
<1>3. PICK c : c = act.cand
  OBVIOUS
<1>4. c \in Tasks /\ c \in TaskIds /\ (o # 1 => c < o)
  BY <1>2, <1>3, TaskSet
<1>5. PICK new : new = Activation("switch", o, c)
  OBVIOUS
<1>6. cpu' = <<Code(o), b, new>> /\ ~halted' /\ in_service' /\ current_task' = c
  BY <1>1, <1>2, <1>3, <1>5, ScheduleStack DEF schedule_current, AtSchedule
<1>7. new \in Activations /\ new.pc = "switch" /\ new.cand = c
  BY <1>2, <1>4, <1>5, CodeTypes, Fields DEF PCs, SchedulePCs
<1>8. TypeOK'
  <2>1. c \in 0..MaxTasks
    BY <1>4, MaxTasksAssumption DEF TaskIds
  <2> QED BY <1>1, <1>6, <1>7, <2>1, StackType
     DEF schedule_current, KernelInv, TypeOK, family, keyboard, user,
         AtSchedule
<1>9. Scheduling(o, st, new)'
  BY <1>2, <1>3, <1>4, <1>5, <1>6 DEF Scheduling, schedule_current, Tasks
<1>10. ASSUME cpu'[3] = new PROVE Others(o)'
  <2>1. \A t : Elected(t) <=> t = c
    BY <1>1, <1>3 DEF Elected, AtSchedule
  <2>2. \A t : Elected(t)' <=> t = c
    BY <1>6, <1>7, <1>10 DEF Elected
  <2>3. Others(o) /\ UNCHANGED <<next_task_id, esp, state>>
    BY <1>1 DEF AtSchedule, schedule_current
  <2> QED BY <2>1, <2>2, <2>3, OthersKept
<1>11. ContextsOK'
  BY <1>1, <1>6, <1>9, <1>10, StillInSchedule
     DEF schedule_current, keyboard, user
<1> QED BY <1>8, <1>11 DEF KernelInv

\* A parked task that is READY executes when its context is resumed.
LEMMA ParkedExecutes ==
    ASSUME NEW c, NEW ctx, Parked(c, ctx, "READY"), cpu' = ctx,
           current_task' = c, state'[c] = "RUNNING", in_service'
    PROVE  Executing(c)'
BY DEF Parked, Executing

LEMMA ParkedLength ==
    ASSUME NEW t, NEW ctx, NEW st, Parked(t, ctx, st)
    PROVE  ctx # <<>> /\ Len(ctx) # 3
<1>1. ASSUME NEW a, ctx = <<a>> PROVE ctx # <<>> /\ Len(ctx) # 3
  BY <1>1
<1>2. ASSUME NEW a, NEW b, ctx = <<a, b>> PROVE ctx # <<>> /\ Len(ctx) # 3
  BY <1>2
<1> QED BY <1>1, <1>2 DEF Parked

LEMMA SwitchStep ==
    ASSUME KernelInv, boot # 0, context_switch
    PROVE  KernelInv'
<1>0. At("switch") /\ "switch" \in SchedulePCs
  BY DEF context_switch, SchedulePCs
<1>1. PICK o, st, b, act : AtSchedule(o, st, b, act) /\ act.pc = "switch"
  BY <1>0, ScheduleStart
<1>2. /\ o \in Tasks /\ o \in TaskIds /\ act.cand \in Tasks
      /\ (o # 1 => act.cand < o) /\ act.task = o /\ Last(cpu) = act
      /\ state[act.cand] = "RUNNING" /\ (act.cand # o => state[o] = Yielded(st))
      /\ current_task = act.cand
  BY <1>1, SchedulingAt DEF AtSchedule
<1>3. PICK c : c = act.cand
  OBVIOUS
<1>4. c \in Tasks /\ c \in TaskIds /\ (o # 1 => c < o) /\ o \in Nat
  BY <1>2, <1>3, TaskSet
<1>5. PICK ctx : ctx = <<Code(o), b>>
  OBVIOUS
<1>6. Front(cpu) = ctx
  <2>1. PICK a : a = Code(o)
    OBVIOUS
  <2>2. cpu = <<a, b, act>>
    BY <1>1, <2>1 DEF AtSchedule
  <2> QED BY <1>5, <2>1, <2>2, StackOps
<1>7. ctx \in Seq(Activations) /\ ctx # <<>> /\ Len(ctx) = 2
  BY <1>1, <1>5, StackType DEF AtSchedule
<1>8. /\ esp' = [esp EXCEPT ![o] = ctx] /\ cpu' = esp'[c]
      /\ esp \in [TaskIds -> Seq(Activations)]
      /\ UNCHANGED <<globals, state, next, family, keyboard, in_service,
                     halted, boot, user, worker_task_char>>
  BY <1>2, <1>3, <1>6 DEF context_switch, KernelInv, TypeOK
<1>9. /\ \A t \in TaskIds \ {o} : esp'[t] = esp[t]
      /\ esp'[o] = ctx
      /\ esp' \in [TaskIds -> Seq(Activations)]
  BY <1>2, <1>7, <1>8
<1>10. in_service' /\ ~halted' /\ state[c] = "RUNNING" /\ current_task = c
  BY <1>1, <1>2, <1>3, <1>8 DEF AtSchedule
<1>11. /\ \A t \in Tasks \ {o, c} : Parked(t, esp[t], state[t])
       /\ c # o => Parked(c, esp[c], "READY")
  <2>1. \A t : Elected(t) <=> t = c
    BY <1>1, <1>3 DEF Elected, AtSchedule
  <2> QED BY <1>1, <1>4, <2>1 DEF AtSchedule, Others, ParkedState
<1>12. Parked(o, ctx, Yielded(st))
  BY <1>1, <1>5, CallerParks DEF AtSchedule
<1>13. Executing(c)' /\ cpu' # <<>> /\ Len(cpu') # 3
  <2>1. CASE c = o
    <3>1. o = 1 /\ b = Act("irq0")
      BY <1>1, <1>4, <2>1 DEF AtSchedule, Caller
    <3>2. cpu' = <<Code(1), Act("irq0")>>
      BY <1>5, <1>8, <1>9, <2>1, <3>1
    <3>3. Executing(c)'
      BY <1>8, <1>10, <2>1, <3>1, <3>2 DEF Executing, globals
    <3> QED BY <3>2, <3>3
  <2>2. CASE c # o
    <3>1. cpu' = esp[c] /\ Parked(c, esp[c], "READY")
      BY <1>4, <1>8, <1>9, <1>11, <2>2
    <3>2. Executing(c)'
      BY <1>8, <1>10, <3>1, ParkedExecutes DEF globals
    <3>3. esp[c] # <<>> /\ Len(esp[c]) # 3
      BY <3>1, ParkedLength
    <3> QED BY <3>1, <3>2, <3>3
  <2> QED BY <2>1, <2>2
<1>14. TypeOK'
  <2>1. cpu' \in Seq(Activations)
    BY <1>4, <1>8, <1>9
  <2> QED BY <1>8, <1>9, <1>13, <2>1
     DEF KernelInv, TypeOK, globals, family, keyboard, user
<1>15. Others(c)'
  <2>1. \A t : ParkedState(t)' = state[t]
    BY <1>8, <1>13 DEF Elected, ParkedState
  <2>2. Tasks' = Tasks
    BY <1>8 DEF globals, Tasks
  <2>3. ASSUME NEW t \in Tasks \ {c} PROVE Parked(t, esp[t], ParkedState(t))'
    <3>1. CASE t = o
      <4>1. Parked(o, esp'[o], state[o])
        BY <1>2, <1>3, <1>9, <1>12, <2>3, <3>1
      <4> QED BY <2>1, <3>1, <4>1 DEF Parked
    <3>2. CASE t # o
      <4>1. esp'[t] = esp[t] /\ Parked(t, esp[t], state[t])
        BY <1>9, <1>11, <2>3, <3>2, TaskSet
      <4> QED BY <2>1, <4>1 DEF Parked
    <3> QED BY <3>1, <3>2
  <2> QED BY <2>2, <2>3 DEF Others
<1>16. ContextsOK'
  BY <1>4, <1>8, <1>10, <1>13, <1>15, Assemble
     DEF globals, keyboard, user, KernelInv, ContextsOK, AfterTasking
<1> QED BY <1>14, <1>16 DEF KernelInv

-----------------------------------------------------------------------------
(***************************************************************************)
(* Steps outside schedule().                                               *)
(***************************************************************************)
AtExecuting(o) ==
    /\ o \in Tasks /\ o \in TaskIds /\ Code(o) \in Activations
    /\ Executing(o) /\ Owner = o /\ current_task = o /\ ~halted
    /\ \A t \in Tasks \ {o} : Parked(t, esp[t], state[t])

LEMMA ExecutingStart ==
    ASSUME KernelInv, boot # 0, NEW pc, pc \notin SchedulePCs,
           Last(cpu).pc = pc
    PROVE  \E o : AtExecuting(o)
<1>1. PICK o \in Tasks : /\ World(o) /\ Executing(o) /\ Owner = o
                         /\ current_task = o /\ o \in TaskIds
  BY Outside
<1>2. \A t : ParkedState(t) = state[t]
  BY <1>1, ExecutingTop DEF ParkedState, Elected
<1> QED BY <1>1, <1>2, CodeTypes
        DEF AtExecuting, World, KernelInv, ContextsOK, NeverHalted

\* A step on the stack of task o that creates no task.
LEMMA StillOutside ==
    ASSUME KernelInv, boot # 0, ~halted',
           UNCHANGED <<boot, next, task_queue_head, next_task_id, program, esp>>,
           NEW o \in Tasks,
           \/ Executing(o)' /\ Len(cpu') # 3
           \/ InSchedule(o)' /\ cpu'[3].pc = "schedule",
           \A t \in Tasks \ {o} : Parked(t, esp[t], state'[t]),
           \A t \in TaskIds \ Tasks : state'[t] = state[t],
           task_waiting_for_input' # NULL =>
             state'[task_waiting_for_input'] = "WAITING_FOR_KEYBOARD"
    PROVE  ContextsOK'
<1>1. \A t : ParkedState(t)' = state'[t]
  BY DEF ParkedState, Elected
<1>2. Others(o)'
  BY <1>1 DEF Others, Tasks, Parked
<1> QED BY <1>2, Assemble

\* A call of schedule() from outside.
LEMMA CallsSchedule ==
    ASSUME NEW o, NEW b, NEW st \in TaskStates, Caller(o, b, st),
           cpu' = <<Code(o), b, Act("schedule")>>, in_service',
           current_task' = o, state'[o] = st
    PROVE  InSchedule(o)' /\ cpu'[3].pc = "schedule"
<1>1. PICK act : act = Act("schedule")
  OBVIOUS
<1>2. Len(cpu') = 3 /\ cpu'[2] = b /\ cpu'[3] = act
  BY <1>1
<1>3. Scheduling(o, st, act)'
  BY <1>1 DEF Scheduling
<1>4. act.pc = "schedule"
  BY <1>1, Fields DEF Act, ActOf
<1> QED BY <1>1, <1>2, <1>3, <1>4 DEF InSchedule

\* Program text of task o goes on.
LEMMA RunsCode ==
    ASSUME NEW o, cpu' = <<Code(o)>>, current_task' = o,
           state'[o] = "RUNNING", in_service' = (o # 1)
    PROVE  Executing(o)' /\ Len(cpu') # 3
<1>1. Executing(o)'
  BY DEF Executing
<1>2. Len(cpu') = 1
  OBVIOUS
<1> QED BY <1>1, <1>2

LEMMA TickStep ==
    ASSUME KernelInv, boot # 0, irq0
    PROVE  KernelInv'
<1>1. Last(cpu).pc \notin SchedulePCs
  BY ScheduleStart DEF irq0, Interruptible, At, AtSchedule
<1>2. PICK o : AtExecuting(o)
  BY <1>1, ExecutingStart
<1>3. o = 1 /\ cpu = <<Code(o)>> /\ state[o] = "RUNNING"
  BY <1>2, ExecutingAt DEF AtExecuting, Executing, irq0, Interruptible
<1>4. cpu' = <<Code(o), Act("irq0"), Act("schedule")>>
  BY <1>3, StackOps DEF irq0
<1>5. TypeOK'
  <2>1. cpu' \in Seq(Activations) /\ cpu' # <<>>
    BY <1>2, <1>4, CodeTypes, StackType DEF AtExecuting, PCs, SchedulePCs
  <2> QED BY <2>1 DEF irq0, KernelInv, TypeOK, globals, family, keyboard, user
<1>6. InSchedule(o)' /\ cpu'[3].pc = "schedule"
  BY <1>2, <1>3, <1>4, CallsSchedule
     DEF irq0, globals, AtExecuting, Caller, TaskStates
<1>7. ContextsOK'
  BY <1>2, <1>6, StillOutside
     DEF irq0, globals, keyboard, user, AtExecuting, KernelInv, ContextsOK,
         AfterTasking
<1> QED BY <1>5, <1>7 DEF KernelInv

LEMMA EoiStep ==
    ASSUME KernelInv, boot # 0, irq0_eoi
    PROVE  KernelInv'
<1>1. Last(cpu).pc = "irq0" /\ "irq0" \notin SchedulePCs
  BY DEF irq0_eoi, At, SchedulePCs
<1>2. PICK o : AtExecuting(o)
  BY <1>1, ExecutingStart
<1>3. o = 1 /\ cpu = <<Code(o), Act("irq0")>> /\ state[o] = "RUNNING"
  BY <1>1, <1>2, ExecutingAt DEF AtExecuting
<1>4. cpu' = <<Code(o)>>
  BY <1>3, StackOps DEF irq0_eoi, Return
<1>5. TypeOK'
  <2>1. cpu' \in Seq(Activations) /\ cpu' # <<>>
    BY <1>2, <1>4, StackType DEF AtExecuting
  <2> QED BY <2>1 DEF irq0_eoi, KernelInv, TypeOK, globals, family, keyboard,
                      user
<1>6. Executing(o)' /\ Len(cpu') # 3
  <2>1. current_task' = o /\ state'[o] = "RUNNING"
    BY <1>2, <1>3 DEF irq0_eoi, globals, AtExecuting
  <2>2. in_service' = (o # 1)
    BY <1>3 DEF irq0_eoi
  <2> QED BY <1>4, <2>1, <2>2, RunsCode
<1>7. ContextsOK'
  BY <1>2, <1>6, StillOutside
     DEF irq0_eoi, globals, keyboard, user, AtExecuting, KernelInv, ContextsOK,
         AfterTasking
<1> QED BY <1>5, <1>7 DEF KernelInv

LEMMA KeyStep ==
    ASSUME KernelInv, boot # 0, NEW n \in LineLengths, keyboard_handler_main(n)
    PROVE  KernelInv'
<1>1. Last(cpu).pc \notin SchedulePCs
  BY ScheduleStart
     DEF keyboard_handler_main, Interruptible, At, AtSchedule
<1>2. PICK o : AtExecuting(o)
  BY <1>1, ExecutingStart
<1>3. o = 1 /\ cpu = <<Code(o)>> /\ state[o] = "RUNNING"
  BY <1>2, ExecutingAt
     DEF AtExecuting, Executing, keyboard_handler_main, Interruptible
<1>4. PICK w : w = task_waiting_for_input
  OBVIOUS
<1>5. w \in TaskIds /\ state[w] = "WAITING_FOR_KEYBOARD"
  BY <1>4 DEF keyboard_handler_main, KernelInv, TypeOK, ContextsOK,
              AfterTasking, TaskIds, NULL
<1>6. w \in Tasks /\ w # o
  BY <1>3, <1>5 DEF KernelInv, ContextsOK, AfterTasking
<1>7. /\ state' = [state EXCEPT ![w] = "READY"]
      /\ state \in [TaskIds -> TaskStates]
      /\ task_waiting_for_input' = NULL
      /\ syscall_retval' = [syscall_retval EXCEPT ![w] = n]
      /\ UNCHANGED <<globals, next, family, esp, cpu, in_service, halted, boot,
                     user, worker_task_char>>
  BY <1>4 DEF keyboard_handler_main, KernelInv, TypeOK
<1>8. TypeOK'
  <2>1. /\ state' \in [TaskIds -> TaskStates]
        /\ syscall_retval' \in [TaskIds -> LineLengths \cup {0}]
        /\ task_waiting_for_input' \in 0..MaxTasks
    <3>1. "READY" \in TaskStates /\ NULL \in 0..MaxTasks
      BY MaxTasksAssumption DEF TaskStates, NULL
    <3>2. syscall_retval \in [TaskIds -> LineLengths \cup {0}]
      BY DEF KernelInv, TypeOK
    <3> QED BY <1>7, <3>1, <3>2
  <2> QED BY <1>7, <2>1 DEF KernelInv, TypeOK, globals, family, user
<1>9. Executing(o)' /\ Len(cpu') # 3
  BY <1>2, <1>3, <1>6, <1>7 DEF Executing, globals, AtExecuting
<1>10. \A t \in Tasks \ {o} : Parked(t, esp[t], state'[t])
  <2>1. Parked(w, esp[w], "READY")
    BY <1>2, <1>5, <1>6 DEF AtExecuting, Parked
  <2> QED BY <1>2, <1>5, <1>7, <2>1, TaskSet DEF AtExecuting
<1>11. ContextsOK'
  BY <1>2, <1>6, <1>7, <1>9, <1>10, StillOutside
     DEF globals, user, AtExecuting
<1> QED BY <1>8, <1>11 DEF KernelInv

\* A system call comes from the program text of a user task.
LEMMA SyscallStart ==
    ASSUME KernelInv, NEW call, Int80(call)
    PROVE  /\ boot # 0
           /\ \E o : /\ AtExecuting(o) /\ o # 1 /\ cpu = <<Code(o)>>
                     /\ state[o] = "RUNNING" /\ in_service
<1>1. Owner # 1 /\ Last(cpu).pc = "code" /\ "code" \notin SchedulePCs
  BY DEF Int80, At, KernelInv, ContextsOK, UserPrograms, SchedulePCs
<1>2. boot # 0
  <2>1. SUFFICES ASSUME boot = 0 PROVE FALSE
    OBVIOUS
  <2>2. PICK a : a = Code(1)
    OBVIOUS
  <2>3. cpu[1] = a
    BY <2>1, <2>2 DEF KernelInv, ContextsOK, BeforeTasking
  <2> QED BY <1>1, <2>2, <2>3, Fields DEF Owner, Code, ActOf
<1>3. PICK o : AtExecuting(o)
  BY <1>1, <1>2, ExecutingStart
<1>4. o # 1
  BY <1>1, <1>3 DEF AtExecuting
<1> QED BY <1>1, <1>2, <1>3, <1>4, ExecutingAt DEF AtExecuting

\* The calls that return at once change EAX and nothing else.
LEMMA SimpleStep ==
    ASSUME KernelInv, NEW call, NEW result \in {0, Error}, sys_simple(call, result)
    PROVE  KernelInv'
<1>1. boot # 0 /\ \E o : /\ AtExecuting(o) /\ o # 1 /\ cpu = <<Code(o)>>
                         /\ state[o] = "RUNNING" /\ in_service
  BY SyscallStart DEF sys_simple
<1>2. PICK o : /\ AtExecuting(o) /\ o # 1 /\ cpu = <<Code(o)>>
               /\ state[o] = "RUNNING" /\ in_service
  BY <1>1
<1>3. TypeOK'
  <2>1. eax' \in [TaskIds -> Statuses \cup LineLengths \cup {Error}]
    BY DEF sys_simple, KernelInv, TypeOK, Statuses
  <2> QED BY <2>1 DEF sys_simple, KernelInv, TypeOK, globals, family, keyboard
<1>4. Executing(o)' /\ Len(cpu') # 3
  <2>1. /\ cpu' = <<Code(o)>> /\ current_task' = o /\ state'[o] = "RUNNING"
        /\ in_service' = in_service
    BY <1>2 DEF sys_simple, globals, AtExecuting
  <2>2. in_service' = (o # 1)
    BY <1>2, <2>1 DEF KernelInv, TypeOK
  <2> QED BY <2>1, <2>2, RunsCode
<1>5. ContextsOK'
  BY <1>1, <1>2, <1>4, StillOutside
     DEF sys_simple, globals, keyboard, AtExecuting, KernelInv, ContextsOK,
         AfterTasking
<1> QED BY <1>3, <1>5 DEF KernelInv

LEMMA WorkerStep ==
    ASSUME KernelInv, kernel_worker_task_main
    PROVE  KernelInv'
<1>1. TypeOK'
  BY DEF kernel_worker_task_main, KernelInv, TypeOK, globals, family, keyboard,
         user
<1>2. UNCHANGED <<globals, state, next, family, keyboard, esp, cpu, in_service,
                  halted, boot, user>>
  BY DEF kernel_worker_task_main
<1>3. ContextsOK'
  BY <1>2
     DEF KernelInv, globals, keyboard, user, ContextsOK, NeverHalted,
         QueueOrder, BeforeTasking, AfterTasking, Tasks, Executing, InSchedule,
         Scheduling, Blocked, ParkedState, Elected, Parked
<1> QED BY <1>1, <1>3 DEF KernelInv

LEMMA GetsStep ==
    ASSUME KernelInv, sys_gets
    PROVE  KernelInv'
<1>1. boot # 0 /\ \E o : /\ AtExecuting(o) /\ o # 1 /\ cpu = <<Code(o)>>
                         /\ state[o] = "RUNNING" /\ in_service
  BY SyscallStart DEF sys_gets
<1>2. PICK o : /\ AtExecuting(o) /\ o # 1 /\ cpu = <<Code(o)>>
               /\ state[o] = "RUNNING" /\ in_service
  BY <1>1
<1>3. /\ state' = [state EXCEPT ![o] = "WAITING_FOR_KEYBOARD"]
      /\ state \in [TaskIds -> TaskStates] /\ o \in Tasks /\ o \in TaskIds
      /\ current_task = o
      /\ task_waiting_for_input' = IF task_waiting_for_input # NULL
                                     THEN task_waiting_for_input ELSE o
      /\ UNCHANGED <<globals, next, family, syscall_retval, esp, in_service,
                     halted, boot, user, worker_task_char>>
  BY <1>2 DEF sys_gets, keyboard_prepare_for_gets, AtExecuting, KernelInv, TypeOK
<1>4. cpu' = <<Code(o), Act("gets_return"), Act("schedule")>>
  BY <1>2, StackOps DEF sys_gets
<1>5. TypeOK'
  <2>1. cpu' \in Seq(Activations) /\ cpu' # <<>>
    BY <1>2, <1>4, CodeTypes, StackType DEF AtExecuting, PCs, SchedulePCs
  <2>2. state' \in [TaskIds -> TaskStates]
    BY <1>3 DEF TaskStates
  <2>3. task_waiting_for_input' \in 0..MaxTasks
    BY <1>3 DEF KernelInv, TypeOK, TaskIds
  <2> QED BY <1>3, <2>1, <2>2, <2>3 DEF KernelInv, TypeOK, globals, family, user
<1>6. InSchedule(o)' /\ cpu'[3].pc = "schedule"
  BY <1>2, <1>3, <1>4, CallsSchedule DEF globals, Caller, TaskStates
<1>7. task_waiting_for_input' # NULL =>
         state'[task_waiting_for_input'] = "WAITING_FOR_KEYBOARD"
  <2>1. CASE task_waiting_for_input # NULL
    <3>1. state[task_waiting_for_input] = "WAITING_FOR_KEYBOARD"
      BY <1>1, <2>1 DEF KernelInv, ContextsOK, AfterTasking
    <3>2. task_waiting_for_input \in TaskIds /\ task_waiting_for_input # o
      BY <1>2, <2>1, <3>1 DEF KernelInv, TypeOK, TaskIds, NULL
    <3> QED BY <1>3, <2>1, <3>1, <3>2
  <2>2. CASE task_waiting_for_input = NULL
    BY <1>3, <2>2
  <2> QED BY <2>1, <2>2
<1>8. /\ \A t \in Tasks \ {o} : Parked(t, esp[t], state'[t])
      /\ \A t \in TaskIds \ Tasks : state'[t] = state[t]
  BY <1>2, <1>3, TaskSet DEF AtExecuting
<1>9. ContextsOK'
  BY <1>1, <1>2, <1>3, <1>6, <1>7, <1>8, StillOutside
     DEF globals, user, AtExecuting
<1> QED BY <1>5, <1>9 DEF KernelInv

LEMMA ExitStep ==
    ASSUME KernelInv, NEW status \in ExitCodes, sys_exit(status)
    PROVE  KernelInv'
<1>1. boot # 0 /\ \E o : /\ AtExecuting(o) /\ o # 1 /\ cpu = <<Code(o)>>
                         /\ state[o] = "RUNNING" /\ in_service
  BY SyscallStart DEF sys_exit
<1>2. PICK o : /\ AtExecuting(o) /\ o # 1 /\ cpu = <<Code(o)>>
               /\ state[o] = "RUNNING" /\ in_service
  BY <1>1
<1>3. /\ state \in [TaskIds -> TaskStates] /\ o \in Tasks /\ o \in TaskIds
      /\ current_task = o
      /\ UNCHANGED <<globals, next, parent, keyboard, esp, in_service, halted,
                     boot, program, eax, worker_task_char>>
  BY <1>2 DEF sys_exit, AtExecuting, KernelInv, TypeOK
<1>4. cpu' = <<Code(o), Act("exit_return"), Act("schedule")>>
  BY <1>2, StackOps DEF sys_exit
<1>5. PICK par, dead : par = parent[o] /\ dead = [state EXCEPT ![o] = "TERMINATED"]
  OBVIOUS
<1>6. \/ /\ par # NULL /\ dead[par] = "WAITING_FOR_CHILD"
         /\ state' = [dead EXCEPT ![par] = "READY"]
         /\ child_exit_status' = [child_exit_status EXCEPT ![par] = status]
         /\ child_pid_waiting_on' = [child_pid_waiting_on EXCEPT ![par] = 0]
      \/ /\ state' = dead
         /\ UNCHANGED <<child_exit_status, child_pid_waiting_on>>
  BY <1>3, <1>5 DEF sys_exit
<1>7. par \in 0..MaxTasks /\ dead \in [TaskIds -> TaskStates]
      /\ dead[o] = "TERMINATED" /\ \A t \in TaskIds \ {o} : dead[t] = state[t]
  BY <1>3, <1>5 DEF KernelInv, TypeOK, TaskStates
<1>8. ASSUME par # NULL, dead[par] = "WAITING_FOR_CHILD"
      PROVE  /\ par \in Tasks /\ par \in TaskIds /\ par # o
             /\ state[par] = "WAITING_FOR_CHILD" /\ Parked(par, esp[par], "READY")
  <2>1. par \in TaskIds /\ par # o
    BY <1>7, <1>8 DEF TaskIds, NULL
  <2>2. state[par] = "WAITING_FOR_CHILD"
    BY <1>7, <1>8, <2>1
  <2>3. par \in Tasks
    BY <1>1, <2>1, <2>2 DEF KernelInv, ContextsOK, AfterTasking
  <2>4. Parked(par, esp[par], state[par])
    BY <1>2, <2>1, <2>3 DEF AtExecuting
  <2> QED BY <2>1, <2>2, <2>3, <2>4 DEF Parked
<1>9. state' \in [TaskIds -> TaskStates] /\ state'[o] = "TERMINATED"
  BY <1>3, <1>6, <1>7, <1>8 DEF TaskStates
<1>10. \A t \in TaskIds : t # o /\ (t = par => dead[par] # "WAITING_FOR_CHILD")
                           => state'[t] = state[t]
  BY <1>3, <1>6, <1>7
<1>11. TypeOK'
  <2>1. cpu' \in Seq(Activations) /\ cpu' # <<>>
    BY <1>2, <1>4, CodeTypes, StackType DEF AtExecuting, PCs, SchedulePCs
  <2>2. exit_code' \in [TaskIds -> Statuses]
    BY <1>3 DEF sys_exit, KernelInv, TypeOK, Statuses
  <2>3. child_exit_status' \in [TaskIds -> Statuses]
    BY <1>6 DEF KernelInv, TypeOK, Statuses
  <2>4. child_pid_waiting_on' \in [TaskIds -> 0..MaxTasks]
    <3>1. /\ 0 \in 0..MaxTasks
          /\ child_pid_waiting_on \in [TaskIds -> 0..MaxTasks]
      BY MaxTasksAssumption DEF KernelInv, TypeOK
    <3> QED BY <1>6, <3>1
  <2> QED BY <1>3, <1>9, <2>1, <2>2, <2>3, <2>4
          DEF KernelInv, TypeOK, globals, keyboard
<1>12. InSchedule(o)' /\ cpu'[3].pc = "schedule"
  BY <1>2, <1>3, <1>4, <1>9, CallsSchedule DEF globals, Caller, TaskStates
<1>13. task_waiting_for_input' # NULL =>
         state'[task_waiting_for_input'] = "WAITING_FOR_KEYBOARD"
  <2>1. SUFFICES ASSUME task_waiting_for_input # NULL
                 PROVE  state'[task_waiting_for_input] = "WAITING_FOR_KEYBOARD"
    BY <1>3 DEF keyboard
  <2>2. state[task_waiting_for_input] = "WAITING_FOR_KEYBOARD"
    BY <1>1, <2>1 DEF KernelInv, ContextsOK, AfterTasking
  <2>3. task_waiting_for_input \in TaskIds /\ task_waiting_for_input # o
    BY <1>2, <2>1, <2>2 DEF KernelInv, TypeOK, TaskIds, NULL
  <2>4. task_waiting_for_input = par => dead[par] # "WAITING_FOR_CHILD"
    BY <1>7, <2>2, <2>3
  <2> QED BY <1>10, <2>2, <2>3, <2>4
<1>14. \A t \in Tasks \ {o} : Parked(t, esp[t], state'[t])
  <2>1. SUFFICES ASSUME NEW t \in Tasks \ {o} PROVE Parked(t, esp[t], state'[t])
    OBVIOUS
  <2>2. Parked(t, esp[t], state[t]) /\ t \in TaskIds
    BY <1>2, TaskSet DEF AtExecuting
  <2>3. CASE t = par /\ dead[par] = "WAITING_FOR_CHILD"
    <3>1. par # NULL
      BY <2>2, <2>3 DEF TaskIds, NULL
    <3>2. state'[t] \in {"READY", state[t]}
      BY <1>6, <1>7, <2>2, <2>3
    <3> QED BY <1>8, <2>2, <2>3, <3>1, <3>2
  <2>4. CASE ~(t = par /\ dead[par] = "WAITING_FOR_CHILD")
    BY <1>10, <2>2, <2>4
  <2> QED BY <2>3, <2>4
<1>15. \A t \in TaskIds \ Tasks : state'[t] = state[t]
  <2>1. SUFFICES ASSUME NEW t \in TaskIds \ Tasks PROVE state'[t] = state[t]
    OBVIOUS
  <2>2. t # o
    BY <1>3
  <2>3. t = par => dead[par] # "WAITING_FOR_CHILD"
    BY <1>8 DEF TaskIds, NULL
  <2> QED BY <1>10, <2>2, <2>3
<1>16. ContextsOK'
  BY <1>1, <1>2, <1>3, <1>12, <1>13, <1>14, <1>15, StillOutside
     DEF globals, AtExecuting
<1> QED BY <1>11, <1>16 DEF KernelInv

\* Steps of SYS_EXEC and of the way back to the program: one activation on
\* top of the program's, and no task but the running one concerned.
LEMMA AboveCode ==
    ASSUME KernelInv, NEW pc \in ExecPCs \cup {"gets_return", "exit_return"}, At(pc)
    PROVE  /\ boot # 0
           /\ \E o : /\ AtExecuting(o) /\ o # 1 /\ in_service /\ pc # "exit_return"
                     /\ Front(cpu) = <<Code(o)>> /\ Last(cpu).pc = pc
                     /\ \A d : Goto(d) => cpu' = <<Code(o), d>>
                     /\ pc \in {"exec_block", "exec_note", "exec_call", "exec_return"} =>
                          /\ Last(cpu).task \in TaskIds
                          /\ Last(cpu).task \in 0..MaxTasks
                     /\ state[o] = IF pc \in {"exec_note", "exec_call"}
                                     THEN "WAITING_FOR_CHILD" ELSE "RUNNING"
<1>1. Last(cpu).pc = pc /\ pc \notin SchedulePCs \cup {"code", "irq0"}
  BY DEF At, SchedulePCs, ExecPCs
<1>2. boot # 0
  <2>1. SUFFICES ASSUME boot = 0 PROVE FALSE
    OBVIOUS
  <2>2. ASSUME NEW a, cpu = <<a>> PROVE Last(cpu) = a
    BY <2>2, Stack1
  <2>3. ASSUME NEW a, NEW b, cpu = <<a, b>> PROVE Last(cpu) = b
    BY <2>3, Stack2
  <2>4. ASSUME NEW a, NEW b, NEW c, cpu = <<a, b, c>> PROVE Last(cpu) = c
    BY <2>4, Stack3
  <2>5. Last(cpu).pc \in {"code", "irq0", "schedule"}
    BY <2>1, <2>2, <2>3, <2>4, Fields
       DEF KernelInv, ContextsOK, BeforeTasking, Code, Act, ActOf
  <2> QED BY <1>1, <2>5 DEF SchedulePCs
<1>3. PICK o : AtExecuting(o)
  BY <1>1, <1>2, ExecutingStart
<1>4. pc # "exit_return" /\ o # 1 /\ in_service
  BY <1>1, <1>3, ExecutingAt DEF AtExecuting, ExecPCs
<1>5. \E b : cpu = <<Code(o), b>>
  BY <1>1, <1>3, <1>4, ExecutingAt DEF AtExecuting, ExecPCs
<1>6. PICK b : cpu = <<Code(o), b>>
  BY <1>5
<1>7. PICK a : a = Code(o)
  OBVIOUS
<1>8. cpu = <<a, b>>
  BY <1>6, <1>7
<1>9. Front(cpu) = <<Code(o)>>
  BY <1>7, <1>8, StackOps
<1>10. \A d : ReplaceAt(cpu, Len(cpu), d) = <<Code(o), d>>
  BY <1>7, <1>8 DEF ReplaceAt
<1>11. pc \in {"exec_block", "exec_note", "exec_call", "exec_return"} =>
         /\ Last(cpu).task \in TaskIds
         /\ Last(cpu).task \in 0..MaxTasks
  BY <1>1, <1>3, ExecutingAt, MaxTasksAssumption DEF AtExecuting, ExecPCs, TaskIds
<1>12. state[o] = IF pc \in {"exec_note", "exec_call"}
                                     THEN "WAITING_FOR_CHILD" ELSE "RUNNING"
  BY <1>1, <1>3, <1>4, ExecutingAt DEF AtExecuting, ExecPCs
<1> QED BY <1>1, <1>2, <1>3, <1>4, <1>9, <1>10, <1>11, <1>12 DEF Goto

LEMMA ReturnStep ==
    ASSUME KernelInv, NEW pc \in {"exec_failed", "gets_return", "exec_return",
                                  "exit_return"},
           At(pc), Return,
           eax' \in [TaskIds -> Statuses \cup LineLengths \cup {Error}],
           UNCHANGED <<globals, state, next, family, keyboard, esp, in_service,
                       halted, boot, program, exit_code, worker_task_char>>
    PROVE  KernelInv'
<1>1. boot # 0 /\ \E o : /\ AtExecuting(o) /\ o # 1 /\ in_service
                         /\ Front(cpu) = <<Code(o)>> /\ state[o] = "RUNNING"
  BY AboveCode DEF ExecPCs
<1>2. PICK o : /\ AtExecuting(o) /\ o # 1 /\ in_service
               /\ Front(cpu) = <<Code(o)>> /\ state[o] = "RUNNING"
  BY <1>1
<1>3. cpu' = <<Code(o)>>
  BY <1>2 DEF Return
<1>4. TypeOK'
  <2>1. cpu' \in Seq(Activations) /\ cpu' # <<>>
    BY <1>2, <1>3, StackType DEF AtExecuting
  <2> QED BY <2>1 DEF KernelInv, TypeOK, globals, family, keyboard
<1>5. Executing(o)' /\ Len(cpu') # 3
  <2>1. current_task' = o /\ state'[o] = "RUNNING" /\ in_service' = in_service
    BY <1>2 DEF globals, AtExecuting
  <2>2. in_service' = (o # 1)
    BY <1>2, <2>1 DEF KernelInv, TypeOK
  <2> QED BY <1>3, <2>1, <2>2, RunsCode
<1>6. ContextsOK'
  BY <1>1, <1>2, <1>5, StillOutside
     DEF globals, keyboard, AtExecuting, KernelInv, ContextsOK, AfterTasking
<1> QED BY <1>4, <1>6 DEF KernelInv

LEMMA ResumeStep ==
    ASSUME KernelInv, syscall_resume \/ sys_exec_failed
    PROVE  KernelInv'
<1>1. CASE syscall_resume
  <2>1. \E pc \in {"gets_return", "exec_return", "exit_return"} : At(pc)
    BY <1>1 DEF syscall_resume
  <2>2. eax' \in [TaskIds -> Statuses \cup LineLengths \cup {Error}]
    <3>1. ASSUME NEW pc \in {"gets_return", "exec_return"}, At(pc)
          PROVE  current_task \in TaskIds
      BY <3>1, AboveCode DEF AtExecuting, ExecPCs
    <3>2. /\ current_task \in TaskIds =>
               /\ syscall_retval[current_task] \in LineLengths \cup {0}
               /\ child_exit_status[current_task] \in Statuses
          /\ 0 \in Statuses
      BY DEF KernelInv, TypeOK, Statuses
    <3>3. eax \in [TaskIds -> Statuses \cup LineLengths \cup {Error}]
      BY DEF KernelInv, TypeOK
    <3>4. CASE /\ At("gets_return")
               /\ eax' = [eax EXCEPT ![Owner] = syscall_retval[current_task]]
      BY <3>1, <3>2, <3>3, <3>4
    <3>5. CASE /\ At("exec_return")
               /\ eax' = [eax EXCEPT ![Owner] = child_exit_status[current_task]]
      BY <3>1, <3>2, <3>3, <3>5
    <3>6. CASE eax' = eax
      BY <3>3, <3>6
    <3> QED BY <1>1, <3>4, <3>5, <3>6 DEF syscall_resume
  <2> QED BY <1>1, <2>1, <2>2, ReturnStep DEF syscall_resume
<1>2. CASE sys_exec_failed
  <2>1. eax' \in [TaskIds -> Statuses \cup LineLengths \cup {Error}]
    BY <1>2 DEF sys_exec_failed, KernelInv, TypeOK
  <2> QED BY <1>2, <2>1, ReturnStep DEF sys_exec_failed
<1> QED BY <1>1, <1>2

\* SYS_EXEC, after the child is there: one step up to the call of schedule().
LEMMA BlockStep ==
    ASSUME KernelInv, sys_exec_block
    PROVE  KernelInv'
<1>1. boot # 0 /\ \E o : /\ AtExecuting(o) /\ o # 1 /\ in_service
                         /\ \A d : Goto(d) => cpu' = <<Code(o), d>>
                         /\ Last(cpu).task \in TaskIds /\ state[o] = "RUNNING"
  BY AboveCode DEF ExecPCs, sys_exec_block
<1>2. PICK o : /\ AtExecuting(o) /\ o # 1 /\ in_service
               /\ \A d : Goto(d) => cpu' = <<Code(o), d>>
               /\ Last(cpu).task \in TaskIds /\ state[o] = "RUNNING"
  BY <1>1
<1>3. PICK c \in TaskIds : c = Last(cpu).task
  BY <1>2
<1>4. /\ cpu' = <<Code(o), ActOf("exec_note", c)>> /\ o \in Tasks /\ o \in TaskIds
      /\ state' = [state EXCEPT ![o] = "WAITING_FOR_CHILD"]
      /\ state \in [TaskIds -> TaskStates] /\ current_task = o
      /\ UNCHANGED <<globals, next, family, keyboard, esp, in_service, halted,
                     boot, user, worker_task_char>>
  BY <1>2, <1>3 DEF sys_exec_block, AtExecuting, KernelInv, TypeOK
<1>5. TypeOK'
  <2>1. cpu' \in Seq(Activations) /\ cpu' # <<>>
    BY <1>2, <1>4, CodeTypes, StackType DEF AtExecuting, PCs, ExecPCs
  <2>2. state' \in [TaskIds -> TaskStates]
    BY <1>4 DEF TaskStates
  <2> QED BY <1>4, <2>1, <2>2 DEF KernelInv, TypeOK, globals, family, keyboard, user
<1>6. Executing(o)' /\ Len(cpu') # 3
  <2>1. PICK act : act = ActOf("exec_note", c)
    OBVIOUS
  <2>2. Len(cpu') # 3
    BY <1>4, <2>1
  <2> QED BY <1>2, <1>4, <2>2 DEF Executing, globals
<1>7. \A t \in TaskIds : t # o => state'[t] = state[t]
  BY <1>4
<1>8. task_waiting_for_input' # NULL =>
         state'[task_waiting_for_input'] = "WAITING_FOR_KEYBOARD"
  BY <1>1, <1>2, <1>4, <1>7
     DEF keyboard, KernelInv, TypeOK, ContextsOK, AfterTasking, TaskIds, NULL
<1>9. ContextsOK'
  BY <1>1, <1>2, <1>4, <1>6, <1>7, <1>8, TaskSet, StillOutside
     DEF globals, keyboard, user, AtExecuting
<1> QED BY <1>5, <1>9 DEF KernelInv

LEMMA NoteStep ==
    ASSUME KernelInv, sys_exec_note
    PROVE  KernelInv'
<1>1. boot # 0 /\ \E o : /\ AtExecuting(o) /\ o # 1 /\ in_service
                         /\ \A d : Goto(d) => cpu' = <<Code(o), d>>
                         /\ Last(cpu).task \in TaskIds
                         /\ Last(cpu).task \in 0..MaxTasks
                         /\ state[o] = "WAITING_FOR_CHILD"
  BY AboveCode DEF ExecPCs, sys_exec_note
<1>2. PICK o : /\ AtExecuting(o) /\ o # 1 /\ in_service
               /\ \A d : Goto(d) => cpu' = <<Code(o), d>>
               /\ Last(cpu).task \in TaskIds /\ Last(cpu).task \in 0..MaxTasks
               /\ state[o] = "WAITING_FOR_CHILD"
  BY <1>1
<1>3. PICK c \in TaskIds : c = Last(cpu).task /\ c \in 0..MaxTasks
  BY <1>2
<1>4. /\ cpu' = <<Code(o), ActOf("exec_call", c)>> /\ current_task = o
      /\ child_pid_waiting_on' = [child_pid_waiting_on EXCEPT ![o] = c]
      /\ UNCHANGED <<globals, state, next, parent, child_exit_status, keyboard,
                     esp, in_service, halted, boot, user, worker_task_char>>
  BY <1>2, <1>3 DEF sys_exec_note, AtExecuting
<1>5. TypeOK'
  <2>1. cpu' \in Seq(Activations) /\ cpu' # <<>>
    BY <1>2, <1>4, CodeTypes, StackType DEF AtExecuting, PCs, ExecPCs
  <2>2. child_pid_waiting_on' \in [TaskIds -> 0..MaxTasks]
    BY <1>3, <1>4 DEF KernelInv, TypeOK
  <2> QED BY <1>4, <2>1, <2>2 DEF KernelInv, TypeOK, globals, keyboard, user
<1>6. Executing(o)' /\ Len(cpu') # 3
  <2>1. PICK act : act = ActOf("exec_call", c)
    OBVIOUS
  <2>2. Len(cpu') # 3
    BY <1>4, <2>1
  <2> QED BY <1>2, <1>4, <2>2 DEF Executing, globals
<1>7. ContextsOK'
  BY <1>1, <1>2, <1>4, <1>6, StillOutside
     DEF globals, keyboard, user, AtExecuting, KernelInv, ContextsOK,
         AfterTasking
<1> QED BY <1>5, <1>7 DEF KernelInv

LEMMA CallStep ==
    ASSUME KernelInv, sys_exec_call
    PROVE  KernelInv'
<1>1. boot # 0 /\ \E o : /\ AtExecuting(o) /\ o # 1 /\ in_service
                         /\ Front(cpu) = <<Code(o)>>
                         /\ Last(cpu).task \in TaskIds
                         /\ state[o] = "WAITING_FOR_CHILD"
  BY AboveCode DEF ExecPCs, sys_exec_call
<1>2. PICK o : /\ AtExecuting(o) /\ o # 1 /\ in_service
               /\ Front(cpu) = <<Code(o)>> /\ Last(cpu).task \in TaskIds
               /\ state[o] = "WAITING_FOR_CHILD"
  BY <1>1
<1>3. PICK b : b = ActOf("exec_return", Last(cpu).task)
  OBVIOUS
<1>4. cpu' = <<Code(o), b, Act("schedule")>>
  BY <1>2, <1>3, StackOps DEF sys_exec_call
<1>5. Caller(o, b, "WAITING_FOR_CHILD") /\ b \in Activations
  BY <1>2, <1>3, CodeTypes DEF Caller, PCs, ExecPCs
<1>6. TypeOK'
  <2>1. cpu' \in Seq(Activations) /\ cpu' # <<>>
    BY <1>2, <1>4, <1>5, CodeTypes, StackType DEF AtExecuting, PCs, SchedulePCs
  <2> QED BY <2>1 DEF sys_exec_call, KernelInv, TypeOK, globals, family,
                      keyboard, user
<1>7. InSchedule(o)' /\ cpu'[3].pc = "schedule"
  BY <1>2, <1>4, <1>5, CallsSchedule
     DEF sys_exec_call, globals, AtExecuting, TaskStates
<1>8. ContextsOK'
  BY <1>1, <1>2, <1>7, StillOutside
     DEF sys_exec_call, globals, keyboard, user, AtExecuting, KernelInv,
         ContextsOK, AfterTasking
<1> QED BY <1>6, <1>8 DEF KernelInv

-----------------------------------------------------------------------------
(***************************************************************************)
(* Steps that create a task.                                               *)
(***************************************************************************)
LEMMA LinkTypes ==
    ASSUME KernelInv, boot # 0, NEW prog \in Programs, NEW par \in 0..MaxTasks,
           LinkTask(prog, par)
    PROVE  /\ next_task_id' \in 1..(MaxTasks + 1)
           /\ state' \in [TaskIds -> TaskStates]
           /\ parent' \in [TaskIds -> 0..MaxTasks]
           /\ program' \in [TaskIds -> Programs]
           /\ esp' \in [TaskIds -> Seq(Activations)]
           /\ next' \in [TaskIds -> 0..MaxTasks]
<1>1. PICK t : t = next_task_id
  OBVIOUS
<1>2. /\ t \in TaskIds /\ next_task_id' = t + 1
      /\ state' = [state EXCEPT ![t] = "READY"]
      /\ parent' = [parent EXCEPT ![t] = par]
      /\ program' = [program EXCEPT ![t] = prog]
      /\ esp' = [esp EXCEPT ![t] = <<Code(t)>>]
      /\ next' = [next EXCEPT ![t] = next[task_queue_head],
                              ![task_queue_head] = t]
  BY <1>1 DEF LinkTask
<1>3. t \in 0..MaxTasks /\ t + 1 \in 1..(MaxTasks + 1)
  BY <1>2, MaxTasksAssumption DEF TaskIds
<1>4. task_queue_head = 1 /\ 1 \in TaskIds
  BY LaunchAssumption, TaskSet
     DEF KernelInv, TypeOK, ContextsOK, QueueOrder
<1>5. <<Code(t)>> \in Seq(Activations)
  BY <1>2, CodeTypes, StackType
<1>6. state' \in [TaskIds -> TaskStates]
  BY <1>2 DEF KernelInv, TypeOK, TaskStates
<1>7. esp' \in [TaskIds -> Seq(Activations)]
  BY <1>2, <1>5 DEF KernelInv, TypeOK
<1>8. next' \in [TaskIds -> 0..MaxTasks]
  <2>1. next \in [TaskIds -> 0..MaxTasks]
    BY DEF KernelInv, TypeOK
  <2> QED BY <1>2, <1>3, <1>4, <2>1
<1>9. parent' \in [TaskIds -> 0..MaxTasks] /\ program' \in [TaskIds -> Programs]
  BY <1>2 DEF KernelInv, TypeOK
<1> QED BY <1>2, <1>3, <1>6, <1>7, <1>8, <1>9

LEMMA LinkStep ==
    ASSUME KernelInv, boot # 0, ~halted', boot' # 0,
           NEW prog \in Programs, NEW par \in 0..MaxTasks, LinkTask(prog, par),
           UNCHANGED <<task_queue_head, task_waiting_for_input>>,
           NEW o, AtExecuting(o), Executing(o)', Len(cpu') # 3
    PROVE  ContextsOK'
<1>1. PICK t : t = next_task_id
  OBVIOUS
<1>2. /\ t \in TaskIds /\ next_task_id' = t + 1
      /\ state' = [state EXCEPT ![t] = "READY"]
      /\ program' = [program EXCEPT ![t] = prog]
      /\ esp' = [esp EXCEPT ![t] = <<Code(t)>>]
      /\ next' = [next EXCEPT ![t] = next[task_queue_head],
                              ![task_queue_head] = t]
  BY <1>1 DEF LinkTask
<1>3. t \in Nat /\ t > 1 /\ TaskIds' = TaskIds
  BY <1>1, <1>2 DEF KernelInv, ContextsOK, AfterTasking, TaskIds
<1>4. /\ Tasks = 1..(t - 1) /\ Tasks' = Tasks \cup {t} /\ t \notin Tasks
      /\ Tasks \subseteq TaskIds
  <2>1. Tasks = 1..(t - 1)
    BY <1>1 DEF Tasks
  <2>2. Tasks' = 1..t
    BY <1>2, <1>3 DEF Tasks
  <2> QED BY <1>3, <2>1, <2>2, TaskSet
<1>5. task_queue_head = 1 /\ 1 \in TaskIds
  BY LaunchAssumption, TaskSet
     DEF KernelInv, TypeOK, ContextsOK, QueueOrder
<1>6. /\ next[1] = IF t = 2 THEN 1 ELSE t - 1
      /\ \A u \in Tasks \ {1} : next[u] = IF u = 2 THEN 1 ELSE u - 1
  BY <1>1, LaunchAssumption DEF KernelInv, TypeOK, ContextsOK, QueueOrder
<1>7. QueueOrder'
  <2>1. next \in [TaskIds -> 0..MaxTasks]
    BY DEF KernelInv, TypeOK
  <2>2. next'[1] = t /\ next'[t] = next[1]
    BY <1>2, <1>3, <1>5, <2>1
  <2>3. \A u \in Tasks \ {1} : next'[u] = next[u]
    BY <1>2, <1>4, <1>5, <2>1
  <2>4. \A u \in Tasks' \ {1} : next'[u] = IF u = 2 THEN 1 ELSE u - 1
    BY <1>3, <1>4, <1>6, <2>2, <2>3
  <2>5. next'[1] = IF next_task_id' = 2 THEN 1 ELSE next_task_id' - 1
    BY <1>2, <1>3, <2>2
  <2> QED BY <1>5, <2>4, <2>5 DEF QueueOrder
<1>8. program'[1] = "kmain"
  BY <1>2, <1>3, <1>5 DEF KernelInv, TypeOK, ContextsOK
<1>9. /\ \A u \in TaskIds \ {t} : state'[u] = state[u] /\ esp'[u] = esp[u]
      /\ state'[t] = "READY" /\ esp'[t] = <<Code(t)>>
  BY <1>2 DEF KernelInv, TypeOK
<1>10. \A u : ParkedState(u)' = state'[u]
  BY DEF ParkedState, Elected
<1>11. o \in Tasks
  BY DEF AtExecuting
<1>12. ASSUME NEW u \in Tasks' \ {o} PROVE Parked(u, esp[u], ParkedState(u))'
  <2>1. CASE u = t
    <3>1. Parked(u, <<Code(u)>>, "READY")
      BY <1>3, <2>1 DEF Parked
    <3>2. esp'[u] = <<Code(u)>> /\ ParkedState(u)' = "READY"
      BY <1>9, <1>10, <2>1
    <3> QED BY <3>1, <3>2 DEF Parked
  <2>2. CASE u # t
    <3>1. Parked(u, esp[u], state[u])
      BY <1>4, <1>12, <2>2 DEF AtExecuting
    <3>2. esp'[u] = esp[u] /\ ParkedState(u)' = state[u]
      BY <1>4, <1>9, <1>10, <1>12, <2>2
    <3> QED BY <3>1, <3>2 DEF Parked
  <2> QED BY <2>1, <2>2
<1>13. task_waiting_for_input' # NULL =>
         state'[task_waiting_for_input'] = "WAITING_FOR_KEYBOARD"
  <2>1. SUFFICES ASSUME task_waiting_for_input # NULL
                 PROVE  state'[task_waiting_for_input] = "WAITING_FOR_KEYBOARD"
    OBVIOUS
  <2>2. state[task_waiting_for_input] = "WAITING_FOR_KEYBOARD"
    BY <2>1 DEF KernelInv, ContextsOK, AfterTasking
  <2>3. task_waiting_for_input \in TaskIds
    BY <2>1 DEF KernelInv, TypeOK, TaskIds, NULL
  <2>4. state[t] = "unused"
    BY <1>2, <1>4 DEF KernelInv, ContextsOK, AfterTasking
  <2> QED BY <1>9, <2>2, <2>3, <2>4
<1>14. \A u \in TaskIds \ Tasks' : state'[u] = "unused"
  BY <1>4, <1>9 DEF KernelInv, ContextsOK, AfterTasking
<1>15. AfterTasking'
  BY <1>2, <1>3, <1>4, <1>11, <1>12, <1>13, <1>14 DEF AfterTasking
<1> QED BY <1>7, <1>8, <1>15 DEF ContextsOK, NeverHalted

LEMMA ExecStep ==
    ASSUME KernelInv, NEW path \in Paths, sys_exec(path)
    PROVE  KernelInv'
<1>1. boot # 0 /\ \E o : /\ AtExecuting(o) /\ o # 1 /\ cpu = <<Code(o)>>
                         /\ state[o] = "RUNNING" /\ in_service
  BY SyscallStart DEF sys_exec
<1>2. PICK o : /\ AtExecuting(o) /\ o # 1 /\ cpu = <<Code(o)>>
               /\ state[o] = "RUNNING" /\ in_service
  BY <1>1
<1>3. /\ o \in Tasks /\ o \in TaskIds /\ current_task = o /\ ~halted
      /\ UNCHANGED <<current_task, task_queue_head, child_pid_waiting_on,
                     child_exit_status, keyboard, in_service, halted, boot, eax,
                     exit_code, worker_task_char>>
  BY <1>2 DEF sys_exec, AtExecuting
<1>4. CASE /\ path \in DOMAIN Image /\ LinkTask(Image[path], current_task)
           /\ cpu' = Append(cpu, ActOf("exec_block", next_task_id))
  <2>1. PICK t, prog : t = next_task_id /\ prog = Image[path]
    OBVIOUS
  <2>2. t \in TaskIds /\ state' = [state EXCEPT ![t] = "READY"] /\ t # o
    BY <1>3, <1>4, <2>1 DEF LinkTask, Tasks
  <2>3. prog \in Programs /\ LinkTask(prog, o) /\ o \in 0..MaxTasks
    BY <1>3, <1>4, <2>1 DEF Image, Programs, UserPrograms, TaskIds
  <2>4. cpu' = <<Code(o), ActOf("exec_block", t)>>
    BY <1>2, <1>4, <2>1, StackOps
  <2>5. cpu' \in Seq(Activations) /\ cpu' # <<>>
    BY <1>2, <2>2, <2>4, CodeTypes, StackType DEF AtExecuting, PCs, ExecPCs
  <2>6. TypeOK'
    BY <1>1, <1>3, <2>3, <2>5, LinkTypes DEF KernelInv, TypeOK, keyboard
  <2>7. Executing(o)' /\ Len(cpu') # 3
    <3>1. PICK act : act = ActOf("exec_block", t)
      OBVIOUS
    <3>2. Len(cpu') # 3
      BY <2>4, <3>1
    <3>3. state'[o] = "RUNNING"
      BY <1>2, <1>3, <2>2 DEF KernelInv, TypeOK
    <3> QED BY <1>2, <1>3, <2>2, <2>4, <3>2, <3>3 DEF Executing
  <2>8. ContextsOK'
    BY <1>1, <1>2, <1>3, <2>3, <2>7, LinkStep DEF keyboard
  <2> QED BY <2>6, <2>8 DEF KernelInv
<1>5. CASE /\ cpu' = Append(cpu, Act("exec_failed"))
           /\ UNCHANGED <<next_task_id, state, parent, program, esp, next>>
  <2>1. cpu' = <<Code(o), Act("exec_failed")>>
    BY <1>2, <1>5, StackOps
  <2>2. cpu' \in Seq(Activations) /\ cpu' # <<>>
    BY <1>2, <2>1, CodeTypes, StackType DEF AtExecuting, PCs, ExecPCs
  <2>3. TypeOK'
    BY <1>3, <1>5, <2>2 DEF KernelInv, TypeOK, keyboard
  <2>4. Executing(o)' /\ Len(cpu') # 3
    <3>1. PICK act : act = Act("exec_failed")
      OBVIOUS
    <3>2. Len(cpu') # 3
      BY <2>1, <3>1
    <3> QED BY <1>2, <1>3, <1>5, <2>1, <3>2 DEF Executing
  <2>5. ContextsOK'
    BY <1>1, <1>2, <1>3, <1>5, <2>4, StillOutside
       DEF keyboard, AtExecuting, KernelInv, ContextsOK, AfterTasking
  <2> QED BY <2>3, <2>5 DEF KernelInv
<1> QED BY <1>4, <1>5 DEF sys_exec

\* kmain launches a program.
LEMMA LaunchStep ==
    ASSUME KernelInv, create_task \/ launch_shell
    PROVE  KernelInv'
<1>1. /\ InKmain /\ boot \in 1..Len(Launch) /\ boot' = boot + 1
      /\ \/ LinkTask("worker", NULL)
         \/ LinkTask("shell", current_task)
      /\ UNCHANGED <<current_task, task_queue_head, child_pid_waiting_on,
                     child_exit_status, keyboard, cpu, in_service, halted, eax,
                     exit_code, worker_task_char>>
  BY DEF create_task, launch_shell
<1>2. boot # 0 /\ boot' # 0 /\ boot' \in 0..(Len(Launch) + 1)
  BY <1>1, LaunchAssumption
<1>3. Last(cpu).pc = "code" /\ "code" \notin SchedulePCs /\ Owner = 1
  BY <1>1 DEF InKmain, At, SchedulePCs
<1>4. PICK o : AtExecuting(o)
  BY <1>2, <1>3, ExecutingStart
<1>5. /\ o = 1 /\ o \in Tasks /\ o \in TaskIds /\ current_task = o /\ ~halted
      /\ cpu = <<Code(o)>> /\ state[o] = "RUNNING" /\ in_service = (o # 1)
  BY <1>3, <1>4, ExecutingAt DEF AtExecuting
<1>6. PICK prog \in Programs, par \in 0..MaxTasks : LinkTask(prog, par)
  <2>1. /\ "worker" \in Programs /\ "shell" \in Programs
        /\ NULL \in 0..MaxTasks /\ current_task \in 0..MaxTasks
    BY MaxTasksAssumption DEF Programs, UserPrograms, NULL, KernelInv, TypeOK
  <2> QED BY <1>1, <2>1
<1>7. TypeOK'
  BY <1>1, <1>2, <1>6, LinkTypes DEF KernelInv, TypeOK, keyboard
<1>8. Executing(o)' /\ Len(cpu') # 3
  <2>1. next_task_id \in TaskIds /\ state' = [state EXCEPT ![next_task_id] = "READY"]
    BY <1>6 DEF LinkTask
  <2>2. state'[o] = "RUNNING"
    BY <1>5, <2>1 DEF KernelInv, TypeOK, Tasks
  <2> QED BY <1>1, <1>5, <2>2, RunsCode
<1>9. ContextsOK'
  BY <1>1, <1>2, <1>4, <1>5, <1>6, <1>8, LinkStep DEF keyboard
<1> QED BY <1>7, <1>9 DEF KernelInv

-----------------------------------------------------------------------------
(***************************************************************************)
(* Before tasking_init: ticks that find no current task.                   *)
(***************************************************************************)
LEMMA BeforeTaskingAt ==
    ASSUME KernelInv, boot = 0
    PROVE  LET pc == Last(cpu).pc IN
           /\ pc \in {"code", "irq0", "schedule"}
           /\ pc = "code" => cpu = <<Code(1)>> /\ ~in_service
           /\ pc = "irq0" => cpu = <<Code(1), Act("irq0")>> /\ in_service
           /\ pc = "schedule" =>
                cpu = <<Code(1), Act("irq0"), Act("schedule")>> /\ in_service
<1> USE Fields DEF Code, Act, ActOf
<1>1. CASE cpu = <<Code(1)>> /\ ~in_service
  <2>1. Last(cpu) = Code(1)
    BY <1>1, Stack1
  <2> QED BY <1>1, <2>1
<1>2. CASE cpu = <<Code(1), Act("irq0")>> /\ in_service
  <2>1. Last(cpu) = Act("irq0")
    BY <1>2, Stack2
  <2> QED BY <1>2, <2>1
<1>3. CASE cpu = <<Code(1), Act("irq0"), Act("schedule")>> /\ in_service
  <2>1. Last(cpu) = Act("schedule")
    BY <1>3, Stack3
  <2> QED BY <1>3, <2>1
<1> QED BY <1>1, <1>2, <1>3 DEF KernelInv, ContextsOK, BeforeTasking

LEMMA TaskingStep ==
    ASSUME KernelInv, tasking_init
    PROVE  KernelInv'
<1>1. /\ boot = 0 /\ current_task' = 1 /\ task_queue_head' = 1
      /\ next_task_id' = 2 /\ boot' = 1
      /\ state' = [state EXCEPT ![1] = "RUNNING"]
      /\ next' = [next EXCEPT ![1] = 1]
      /\ UNCHANGED <<family, keyboard, esp, cpu, in_service, halted, user,
                     worker_task_char>>
  BY DEF tasking_init, KernelInv, ContextsOK, BeforeTasking
<1>2. Last(cpu).pc = "code"
  BY DEF tasking_init, InKmain, At
<1>3. cpu = <<Code(1)>> /\ ~in_service
  BY <1>1, <1>2, BeforeTaskingAt
<1>4. /\ 1 \in TaskIds /\ 1 \in 0..MaxTasks /\ 2 \in 1..(MaxTasks + 1)
      /\ 1 \in 0..(Len(Launch) + 1)
  BY MaxTasksAssumption, LaunchAssumption DEF TaskIds
<1>5. TypeOK'
  BY <1>1, <1>4
     DEF KernelInv, TypeOK, TaskStates, family, keyboard, user
<1>6. /\ state'[1] = "RUNNING" /\ next'[1] = 1
      /\ \A t \in TaskIds \ {1} : state'[t] = "unused"
  BY <1>1, <1>4 DEF KernelInv, TypeOK, ContextsOK, BeforeTasking
<1>7. Tasks' = {1}
  <2>1. Tasks' = 1..1
    BY <1>1 DEF Tasks
  <2> QED BY <2>1
<1>8. Executing(1)'
  <2>1. in_service' = (1 # 1)
    BY <1>1, <1>3 DEF KernelInv, TypeOK
  <2> QED BY <1>1, <1>3, <1>6, <2>1, RunsCode
<1>9. AfterTasking'
  BY <1>1, <1>6, <1>7, <1>8
     DEF AfterTasking, KernelInv, ContextsOK, BeforeTasking, keyboard
<1>10. QueueOrder'
  BY <1>1, <1>6, <1>7 DEF QueueOrder
<1> QED BY <1>1, <1>5, <1>9, <1>10
        DEF KernelInv, ContextsOK, NeverHalted, user

LEMMA BootStep ==
    ASSUME KernelInv, boot = 0, irq0 \/ irq0_eoi \/ schedule_entry
    PROVE  KernelInv'
<1> DEFINE Rest == UNCHANGED <<globals, state, next, family, keyboard, esp,
                               halted, boot, user, worker_task_char>>
<1>1. ASSUME Rest, in_service' \in BOOLEAN,
             \/ cpu' = <<Code(1)>> /\ ~in_service'
             \/ cpu' = <<Code(1), Act("irq0")>> /\ in_service'
             \/ cpu' = <<Code(1), Act("irq0"), Act("schedule")>> /\ in_service'
      PROVE  KernelInv'
  <2>1. 1 \in TaskIds
    BY MaxTasksAssumption, LaunchAssumption DEF TaskIds
  <2>2. cpu' \in Seq(Activations) /\ cpu' # <<>>
    BY <1>1, <2>1, CodeTypes, StackType DEF PCs, SchedulePCs
  <2>3. TypeOK'
    BY <1>1, <2>2 DEF KernelInv, TypeOK, globals, family, keyboard, user
  <2>4. BeforeTasking'
    BY <1>1 DEF KernelInv, ContextsOK, BeforeTasking, globals, keyboard
  <2>5. boot' = 0 /\ ~halted' /\ program'[1] = "kmain"
    BY <1>1 DEF KernelInv, ContextsOK, NeverHalted, user
  <2>6. QueueOrder'
    BY <2>5 DEF QueueOrder
  <2> QED BY <2>3, <2>4, <2>5, <2>6 DEF KernelInv, ContextsOK, NeverHalted
<1>2. CASE irq0
  <2>1. cpu = <<Code(1)>>
    BY <1>2, BeforeTaskingAt DEF irq0, Interruptible
  <2>2. cpu' = <<Code(1), Act("irq0"), Act("schedule")>>
    BY <1>2, <2>1, StackOps DEF irq0
  <2> QED BY <1>1, <1>2, <2>2 DEF irq0
<1>3. CASE irq0_eoi
  <2>1. cpu = <<Code(1), Act("irq0")>>
    BY <1>3, BeforeTaskingAt DEF irq0_eoi, At
  <2>2. cpu' = <<Code(1)>>
    BY <1>3, <2>1, StackOps DEF irq0_eoi, Return
  <2> QED BY <1>1, <1>3, <2>2 DEF irq0_eoi
<1>4. CASE schedule_entry
  <2>1. cpu = <<Code(1), Act("irq0"), Act("schedule")>> /\ in_service
    BY <1>4, BeforeTaskingAt DEF schedule_entry, At
  <2>2. current_task = NULL
    BY DEF KernelInv, ContextsOK, BeforeTasking
  <2>3. cpu' = <<Code(1), Act("irq0")>>
    BY <1>4, <2>1, <2>2, StackOps DEF schedule_entry, Return
  <2> QED BY <1>1, <1>4, <2>1, <2>3 DEF schedule_entry
<1> QED BY <1>2, <1>3, <1>4

\* Before tasking_init nothing else of schedule() runs, and no key is read.
LEMMA BootStops ==
    ASSUME KernelInv,
           \/ schedule_scan \/ schedule_yield \/ schedule_run
           \/ schedule_current \/ context_switch
           \/ \E n \in LineLengths : keyboard_handler_main(n)
    PROVE  boot # 0
<1>1. SUFFICES ASSUME boot = 0 PROVE FALSE
  OBVIOUS
<1>2. Last(cpu).pc \in {"code", "irq0", "schedule"} /\ task_waiting_for_input = NULL
  BY <1>1, BeforeTaskingAt DEF KernelInv, ContextsOK, BeforeTasking
<1> QED BY <1>2 DEF schedule_scan, schedule_yield, schedule_run,
                    schedule_current, context_switch, keyboard_handler_main, At

-----------------------------------------------------------------------------
(***************************************************************************)
(* The invariant is inductive.                                             *)
(***************************************************************************)
LEMMA InitInv == Init => KernelInv
<1> SUFFICES ASSUME Init PROVE KernelInv
  OBVIOUS
<1>1. 1 \in TaskIds /\ 0 \in 0..MaxTasks /\ 1 \in 1..(MaxTasks + 1)
      /\ 0 \in 0..(Len(Launch) + 1)
  BY MaxTasksAssumption, LaunchAssumption DEF TaskIds
<1>2. cpu \in Seq(Activations) /\ cpu # <<>>
  BY <1>1, CodeTypes, StackType DEF Init
<1>3. [t \in TaskIds |-> <<>>] \in [TaskIds -> Seq(Activations)]
  OBVIOUS
<1>4. "unused" \in TaskStates /\ 0 \in Statuses /\ "kmain" \in Programs
  BY DEF TaskStates, Statuses, Programs
<1>5. TypeOK
  BY <1>1, <1>2, <1>3, <1>4 DEF Init, TypeOK, NULL
<1>6. ContextsOK
  BY <1>1 DEF Init, ContextsOK, NeverHalted, QueueOrder, BeforeTasking
<1> QED BY <1>5, <1>6 DEF KernelInv

LEMMA StutterInv == KernelInv /\ UNCHANGED vars => KernelInv'
<1> SUFFICES ASSUME KernelInv, UNCHANGED vars PROVE KernelInv'
  OBVIOUS
<1> USE DEF vars, globals, family, keyboard, user
<1>1. TypeOK'
  BY DEF KernelInv, TypeOK
<1>2. ContextsOK'
  BY DEF KernelInv, ContextsOK, NeverHalted, QueueOrder, BeforeTasking,
         AfterTasking, Tasks, Executing, InSchedule, Scheduling, Blocked,
         ParkedState, Elected, Parked
<1> QED BY <1>1, <1>2 DEF KernelInv

LEMMA NextInv == KernelInv /\ Next => KernelInv'
<1> SUFFICES ASSUME KernelInv, Next PROVE KernelInv'
  OBVIOUS
<1>1. CASE Kmain
  BY <1>1, TaskingStep, LaunchStep DEF Kmain
<1>2. CASE Schedule
  BY <1>2, BootStops, BootStep, EntryStep, ScanStep, YieldStep, RunStep,
     CurrentStep, SwitchStep DEF Schedule
<1>3. CASE Exec
  BY <1>3, ResumeStep, BlockStep, NoteStep, CallStep DEF Exec
<1>4. CASE syscall_resume
  BY <1>4, ResumeStep
<1>5. CASE irq0 \/ irq0_eoi
  BY <1>5, BootStep, TickStep, EoiStep
<1>6. CASE Syscall
  <2>1. CASE sys_putc \/ sys_gets_invalid \/ sys_exec_invalid \/ sys_unknown
    BY <2>1, SimpleStep
       DEF sys_putc, sys_gets_invalid, sys_exec_invalid, sys_unknown
  <2> QED BY <1>6, <2>1, GetsStep, ExitStep, ExecStep DEF Syscall, Exit
<1>7. CASE Keyboard
  BY <1>7, BootStops, KeyStep DEF Keyboard
<1>8. CASE kernel_worker_task_main
  BY <1>8, WorkerStep
<1> QED BY <1>1, <1>2, <1>3, <1>4, <1>5, <1>6, <1>7, <1>8 DEF Next, KernelStep

LEMMA Invariant == Spec => []KernelInv
<1>1. KernelInv /\ [Next]_vars => KernelInv'
  BY NextInv, StutterInv
<1> QED BY InitInv, <1>1, PTL DEF Spec

-----------------------------------------------------------------------------
(***************************************************************************)
(* What follows.                                                           *)
(***************************************************************************)
\* Every variable keeps its type, and context_switch never resumes a stack
\* that is not there.
THEOREM TypeCorrect == Spec => []TypeOK
<1>1. KernelInv => TypeOK
  BY DEF KernelInv
<1> QED BY <1>1, Invariant, PTL

\* The inductive invariant itself: every context, running or parked, is one
\* the scheduler can go on from.
THEOREM ContextsAgree == Spec => []ContextsOK
<1>1. KernelInv => ContextsOK
  BY DEF KernelInv
<1> QED BY <1>1, Invariant, PTL

\* However create_task, create_user_process and schedule() alternate, the task
\* queue is one ring through every task.
THEOREM QueueIsARing == Spec => []QueueOrder
<1>1. KernelInv => QueueOrder
  BY DEF KernelInv, ContextsOK
<1> QED BY <1>1, Invariant, PTL

\* schedule() never stops the machine: kmain is always there to run.
THEOREM SchedulerNeverHalts == Spec => []NeverHalted
<1>1. KernelInv => NeverHalted
  BY DEF KernelInv, ContextsOK
<1> QED BY <1>1, Invariant, PTL

\* Program text executes as current_task, the one RUNNING task.
THEOREM CurrentTaskRuns == Spec => []CurrentRuns
<1>1. KernelInv => CurrentRuns
  <2>1. SUFFICES ASSUME KernelInv, At("code"), boot > 0
                 PROVE  /\ current_task = Owner
                        /\ {t \in TaskIds : state[t] = "RUNNING"} = {Owner}
    BY DEF CurrentRuns
  <2>2. boot # 0 /\ Last(cpu).pc = "code" /\ "code" \notin SchedulePCs
    BY <2>1 DEF At, SchedulePCs, KernelInv, TypeOK
  <2>3. PICK o : AtExecuting(o)
    BY <2>1, <2>2, ExecutingStart
  <2>4. state[o] = "RUNNING" /\ o \in TaskIds /\ Owner = o /\ current_task = o
    BY <2>2, <2>3, ExecutingAt DEF AtExecuting
  <2>5. ASSUME NEW t \in TaskIds, t # o PROVE state[t] # "RUNNING"
    <3>1. CASE t \in Tasks
      BY <2>3, <2>5, <3>1, ParkedStates DEF AtExecuting
    <3>2. CASE t \notin Tasks
      BY <2>1, <2>2, <2>5, <3>2 DEF KernelInv, ContextsOK, AfterTasking
    <3> QED BY <3>1, <3>2
  <2> QED BY <2>4, <2>5
<1> QED BY <1>1, Invariant, PTL

\* While any task but kmain executes, the tick that elected it is still in
\* service: interrupts reach kmain alone.
THEOREM OnlyKmainIsPreempted == Spec => []OnlyIdleIsInterrupted
<1>1. KernelInv => OnlyIdleIsInterrupted
  <2>1. SUFFICES ASSUME KernelInv, ~in_service PROVE Owner = 1
    BY DEF OnlyIdleIsInterrupted
  <2>2. CASE boot = 0
    <3>1. cpu = <<Code(1)>>
      BY <2>1, <2>2 DEF KernelInv, ContextsOK, BeforeTasking
    <3>2. cpu[1] = Code(1)
      BY <3>1, Stack1
    <3> QED BY <3>2, Fields DEF Owner, Code, ActOf
  <2>3. CASE boot # 0
    <3>1. PICK o \in Tasks : World(o)
      BY <2>1, <2>3, WorldExists
    <3>2. o = 1
      BY <2>1, <3>1 DEF World, Executing, InSchedule, KernelInv, TypeOK
    <3> QED BY <3>1, <3>2, WorldOwner
  <2> QED BY <2>2, <2>3
<1> QED BY <1>1, Invariant, PTL

\* No sequence of ticks, keys, system calls and task switches brings a task
\* that has called SYS_EXIT back.
THEOREM ExitIsForGood == Spec => TerminatedForGood
<1>1. ASSUME KernelInv, [Next]_vars, NEW t \in TaskIds, state[t] = "TERMINATED"
      PROVE  state'[t] = "TERMINATED"
  <2> DEFINE Goal == state'[t] = "TERMINATED"
  <2>1. state \in [TaskIds -> TaskStates]
    BY <1>1 DEF KernelInv, TypeOK
  <2>2. CASE state' = state
    BY <1>1, <2>2
  <2>3. CASE tasking_init
    BY <1>1, <2>3 DEF tasking_init, KernelInv, ContextsOK, BeforeTasking
  <2>4. ASSUME NEW prog, NEW par, LinkTask(prog, par), boot # 0 PROVE Goal
    <3>1. next_task_id \notin Tasks /\ next_task_id \in TaskIds
      BY <1>1, <2>4 DEF Tasks, LinkTask
    <3>2. state[next_task_id] = "unused"
      BY <1>1, <2>4, <3>1 DEF KernelInv, ContextsOK, AfterTasking
    <3> QED BY <1>1, <2>1, <2>4, <3>2 DEF LinkTask
  <2>5. CASE create_task \/ launch_shell
    BY <2>4, <2>5, LaunchAssumption DEF create_task, launch_shell
  <2>6. CASE schedule_yield
    <3>1. state' = state \/ \E u : /\ state[u] = "RUNNING"
                                  /\ state' = [state EXCEPT ![u] = "READY"]
      BY <2>6 DEF schedule_yield
    <3> QED BY <1>1, <2>1, <3>1
  <2>7. CASE schedule_run
    <3>1. boot # 0 /\ At("run") /\ "run" \in SchedulePCs
      BY <1>1, <2>7, BootStops DEF schedule_run, SchedulePCs
    <3>2. PICK o, st, b, act : AtSchedule(o, st, b, act) /\ act.pc = "run"
      BY <1>1, <3>1, ScheduleStart
    <3>3. Last(cpu) = act /\ ~Blocked(act.cand)
      BY <3>2, SchedulingAt DEF AtSchedule
    <3>4. PICK c : c = act.cand /\ state[c] # "TERMINATED"
      BY <3>3 DEF Blocked
    <3>5. state' = [state EXCEPT ![c] = "RUNNING"]
      BY <2>7, <3>3, <3>4 DEF schedule_run
    <3> QED BY <1>1, <2>1, <3>4, <3>5
  <2>8. CASE \E n \in LineLengths : keyboard_handler_main(n)
    <3>1. boot # 0 /\ task_waiting_for_input # NULL
      BY <1>1, <2>8, BootStops DEF keyboard_handler_main
    <3>2. state[task_waiting_for_input] = "WAITING_FOR_KEYBOARD"
      BY <1>1, <3>1 DEF KernelInv, ContextsOK, AfterTasking
    <3> QED BY <1>1, <2>1, <2>8, <3>2 DEF keyboard_handler_main
  <2>9. CASE sys_gets
    <3>1. PICK o : AtExecuting(o) /\ state[o] = "RUNNING"
      BY <1>1, <2>9, SyscallStart DEF sys_gets
    <3> QED BY <1>1, <2>1, <2>9, <3>1 DEF sys_gets, AtExecuting
  <2>10. CASE sys_exec_block
    <3>1. PICK o : AtExecuting(o) /\ state[o] = "RUNNING"
      BY <1>1, <2>10, AboveCode DEF sys_exec_block, ExecPCs
    <3> QED BY <1>1, <2>1, <2>10, <3>1 DEF sys_exec_block, AtExecuting
  <2>11. CASE Exit
    <3>1. PICK status \in ExitCodes : sys_exit(status)
      BY <2>11 DEF Exit
    <3>2. PICK dead, par :
            /\ dead = [state EXCEPT ![current_task] = "TERMINATED"]
            /\ \/ /\ dead[par] = "WAITING_FOR_CHILD"
                  /\ state' = [dead EXCEPT ![par] = "READY"]
               \/ state' = dead
      BY <3>1 DEF sys_exit
    <3>3. dead \in [TaskIds -> TaskStates] /\ dead[t] = "TERMINATED"
      BY <1>1, <2>1, <3>2 DEF TaskStates
    <3> QED BY <1>1, <3>2, <3>3
  <2>12. CASE \E path \in Paths : sys_exec(path)
    <3>1. boot # 0
      BY <1>1, <2>12, SyscallStart DEF sys_exec
    <3> QED BY <2>2, <2>4, <2>12, <3>1 DEF sys_exec
  <2>13. CASE \/ schedule_entry \/ schedule_scan \/ schedule_current
              \/ context_switch \/ irq0 \/ irq0_eoi \/ syscall_resume
              \/ sys_exec_failed \/ sys_exec_note \/ sys_exec_call
              \/ sys_putc \/ sys_gets_invalid \/ sys_exec_invalid \/ sys_unknown
              \/ kernel_worker_task_main \/ UNCHANGED vars
    BY <2>2, <2>13
       DEF schedule_entry, schedule_scan, schedule_current, context_switch,
           irq0, irq0_eoi, syscall_resume, sys_exec_failed, sys_exec_note,
           sys_exec_call, sys_putc, sys_gets_invalid, sys_exec_invalid,
           sys_unknown, sys_simple, kernel_worker_task_main, vars
  <2> QED BY <1>1, <2>3, <2>5, <2>6, <2>7, <2>8, <2>9, <2>10, <2>11, <2>12, <2>13
          DEF Next, KernelStep, Kmain, Schedule, Exec, Syscall, Keyboard
<1>2. KernelInv /\ [Next]_vars =>
        [\A t \in TaskIds : state[t] = "TERMINATED" => state'[t] = "TERMINATED"]_vars
  BY <1>1
<1> QED BY <1>2, Invariant, PTL DEF Spec, TerminatedForGood
=============================================================================
