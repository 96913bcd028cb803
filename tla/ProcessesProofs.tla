-------------------------- MODULE ProcessesProofs --------------------------
(***************************************************************************)
(* Proofs about Kernel as its programs see it: SYS_EXEC waits for the      *)
(* child it made and returns its status, and SYS_GETS is never left        *)
(* without the task it is for.                                             *)
(***************************************************************************)
EXTENDS KernelProofs

(***************************************************************************)
(* The inductive invariant, to go with KernelInv.  Which child a task      *)
(* waits for is on its stack, in the activation of SYS_EXEC; the books of  *)
(* task.c must agree with it.                                              *)
(***************************************************************************)
\* What the task has below it when schedule() runs: where its system call is.
Stage(t) == IF Len(Context(t)) > 1 THEN Context(t)[2].pc ELSE "code"

\* Task t is in SYS_EXEC, with c for its child_pid.  Until c exits it lives,
\* and once t is parked c can find it; afterwards its status is there.
Expects(t, c) ==
    /\ t \in Tasks /\ c \in Tasks /\ c # t /\ parent[c] = t
    /\ \/ /\ state[c] # "TERMINATED"
          /\ Stage(t) \in {"exec_call", "exec_return"} =>
               /\ state[t] = "WAITING_FOR_CHILD"
               /\ child_pid_waiting_on[t] = c
       \/ /\ state[c] = "TERMINATED"
          /\ Stage(t) = "exec_return"
          /\ state[t] # "WAITING_FOR_CHILD"
          /\ child_exit_status[t] = exit_code[c]

Families == \A t \in TaskIds : Awaited(t) # 0 => Expects(t, Awaited(t))

\* No stack is there before its task.
Fresh == \A t \in TaskIds \ Tasks : esp[t] = <<>>

ProcInv == KernelInv /\ Fresh /\ Families

-----------------------------------------------------------------------------
(***************************************************************************)
(* Contexts.                                                               *)
(***************************************************************************)
\* What Awaited and Stage read of a stack.
AwaitedIn(ctx) ==
    IF Len(ctx) > 1 /\ ctx[2].pc \in ExecPCs THEN ctx[2].task ELSE 0
StageIn(ctx) == IF Len(ctx) > 1 THEN ctx[2].pc ELSE "code"

LEMMA ContextIn ==
    ASSUME NEW t
    PROVE  Awaited(t) = AwaitedIn(Context(t)) /\ Stage(t) = StageIn(Context(t))
BY DEF Awaited, AwaitedIn, Stage, StageIn

LEMMA ContextInNext ==
    ASSUME NEW t
    PROVE  /\ Awaited(t)' = AwaitedIn(Context(t)')
           /\ Stage(t)' = StageIn(Context(t)')
BY DEF Awaited, AwaitedIn, Stage, StageIn

LEMMA StageOfStack ==
    ASSUME NEW a, NEW b, NEW c
    PROVE  /\ AwaitedIn(<<>>) = 0 /\ AwaitedIn(<<a>>) = 0
           /\ StageIn(<<a>>) = "code"
           /\ AwaitedIn(<<a, b>>) = IF b.pc \in ExecPCs THEN b.task ELSE 0
           /\ AwaitedIn(<<a, b, c>>) = IF b.pc \in ExecPCs THEN b.task ELSE 0
           /\ StageIn(<<a, b>>) = b.pc /\ StageIn(<<a, b, c>>) = b.pc
<1>1. Len(<<>>) = 0 /\ Len(<<a>>) = 1
  OBVIOUS
<1>2. Len(<<a, b>>) = 2 /\ <<a, b>>[2] = b
  OBVIOUS
<1>3. Len(<<a, b, c>>) = 3 /\ <<a, b, c>>[2] = b
  OBVIOUS
<1>4. AwaitedIn(<<>>) = 0 /\ AwaitedIn(<<a>>) = 0 /\ StageIn(<<a>>) = "code"
  BY <1>1 DEF AwaitedIn, StageIn
<1>5. /\ AwaitedIn(<<a, b>>) = IF b.pc \in ExecPCs THEN b.task ELSE 0
      /\ StageIn(<<a, b>>) = b.pc
  BY <1>2 DEF AwaitedIn, StageIn
<1>6. /\ AwaitedIn(<<a, b, c>>) = IF b.pc \in ExecPCs THEN b.task ELSE 0
      /\ StageIn(<<a, b, c>>) = b.pc
  BY <1>3 DEF AwaitedIn, StageIn
<1> QED BY <1>4, <1>5, <1>6

\* An activation of SYS_EXEC names its child, every other one none.
LEMMA StageFields ==
    /\ \A pc, c : ActOf(pc, c).pc = pc /\ ActOf(pc, c).task = c
    /\ \A pc : Act(pc).pc = pc /\ Act(pc).task = 0
    /\ {"code", "irq0", "gets_return", "exit_return", "schedule"} \cap ExecPCs = {}
    /\ {"exec_failed", "exec_block", "exec_note", "exec_call", "exec_return"} = ExecPCs
BY Fields DEF Act, ActOf, ExecPCs, NULL

\* A task's own stack begins with its program.
LEMMA OwnStack ==
    ASSUME NEW o, NEW s, \/ s = <<Code(o)>>
                         \/ \E b : s = <<Code(o), b>>
                         \/ \E b, c : s = <<Code(o), b, c>>
    PROVE  s[1].task = o
<1>1. s[1] = Code(o)
  BY Stack1, Stack2, Stack3
<1> QED BY <1>1, Fields DEF Code, ActOf

\* A step on the stack of o alone.
LEMMA SameOwner ==
    ASSUME NEW o, Owner = o, UNCHANGED esp, cpu'[1].task = o
    PROVE  /\ Context(o) = cpu /\ Context(o)' = cpu'
           /\ \A t : t # o => /\ Awaited(t)' = Awaited(t)
                              /\ Stage(t)' = Stage(t)
<1>1. Owner' = o
  BY DEF Owner
<1>2. ASSUME NEW t, t # o PROVE Context(t)' = Context(t)
  BY <1>1, <1>2 DEF Context
<1>3. ASSUME NEW t, t # o PROVE Awaited(t)' = Awaited(t) /\ Stage(t)' = Stage(t)
  BY <1>2, <1>3, ContextIn, ContextInNext
<1> QED BY <1>1, <1>3 DEF Context

\* A task that was created is in use, and one that waits for a child does so
\* inside SYS_EXEC: within its schedule() once another task is current.
LEMMA LiveTasks ==
    ASSUME KernelInv, boot # 0, NEW t \in Tasks
    PROVE  state[t] # "unused"
<1>1. PICK o \in Tasks : World(o)
  BY WorldExists
<1>2. CASE t # o
  <2>1. Parked(t, esp[t], ParkedState(t))
    BY <1>1, <1>2 DEF World
  <2>2. ParkedState(t) # "unused"
    BY <2>1, ParkedStates
  <2>3. CASE ~Elected(t)
    BY <2>2, <2>3 DEF ParkedState
  <2>4. CASE Elected(t)
    <3>1. InSchedule(o) /\ cpu[3].pc \in {"current", "switch"} /\ cpu[3].cand = t
      BY <1>1, <2>4, ExecutingTop DEF World, Elected
    <3>2. PICK st : Scheduling(o, st, cpu[3])
      BY <3>1 DEF InSchedule
    <3> QED BY <3>1, <3>2, SchedulingAt
  <2> QED BY <2>3, <2>4
<1>3. CASE t = o /\ Executing(o)
  BY <1>3 DEF Executing
<1>4. CASE t = o /\ InSchedule(o)
  <2>1. PICK st : Caller(o, cpu[2], st) /\ Scheduling(o, st, cpu[3])
    BY <1>4 DEF InSchedule
  <2>2. st # "unused" /\ Yielded(st) # "unused"
    BY <2>1 DEF Caller, Yielded
  <2>3. state[o] \in {st, Yielded(st), "RUNNING"}
    BY <2>1 DEF Scheduling
  <2> QED BY <1>4, <2>2, <2>3
<1> QED BY <1>1, <1>2, <1>3, <1>4 DEF World

-----------------------------------------------------------------------------
(***************************************************************************)
(* Quiet steps: the family, and where the tasks stand in SYS_EXEC, are     *)
(* left alone.                                                             *)
(***************************************************************************)
Quiet ==
    /\ UNCHANGED <<next_task_id, family, exit_code>>
    /\ \A t \in TaskIds \ Tasks : esp'[t] = esp[t]
    /\ \A t \in TaskIds :
         /\ Awaited(t)' = Awaited(t)
         /\ Awaited(t) # 0 => Stage(t)' = Stage(t)
         /\ Phase(t)' = Phase(t)
         /\ state'[t] = "WAITING_FOR_CHILD" <=> state[t] = "WAITING_FOR_CHILD"

LEMMA QuietKeeps ==
    ASSUME ProcInv, KernelInv', Quiet
    PROVE  ProcInv'
<1>1. Tasks' = Tasks /\ Tasks \subseteq TaskIds
  BY TaskSet DEF Quiet, Tasks, ProcInv
<1>2. Fresh'
  BY <1>1 DEF Quiet, ProcInv, Fresh
<1>3. ASSUME NEW t \in TaskIds, Awaited(t)' # 0 PROVE Expects(t, Awaited(t))'
  <2>1. PICK c : c = Awaited(t)
    OBVIOUS
  <2>2. Awaited(t)' = c /\ c # 0 /\ Stage(t)' = Stage(t) /\ Expects(t, c)
    BY <1>3, <2>1 DEF Quiet, ProcInv, Families
  <2>3. c \in TaskIds
    BY <1>1, <2>2 DEF Expects
  <2>4. state'[c] = "TERMINATED" <=> state[c] = "TERMINATED"
    BY <2>3 DEF Quiet, Phase
  <2>5. Expects(t, c)'
    BY <1>1, <2>2, <2>4 DEF Quiet, Expects, family
  <2> QED BY <2>2, <2>5
<1> QED BY <1>2, <1>3 DEF ProcInv, Families

\* A task that goes on to live without a child to wait for.
Lively == {"READY", "RUNNING", "WAITING_FOR_KEYBOARD"}

LEMMA SameLife ==
    ASSUME state \in [TaskIds -> TaskStates],
           \/ state' = state
           \/ \E u \in TaskIds, st \in Lively :
                state[u] \in Lively /\ state' = [state EXCEPT ![u] = st],
           NEW t \in TaskIds
    PROVE  /\ Phase(t)' = Phase(t)
           /\ state'[t] = "WAITING_FOR_CHILD" <=> state[t] = "WAITING_FOR_CHILD"
<1>1. CASE state' = state
  BY <1>1 DEF Phase
<1>2. CASE state' # state
  <2>1. PICK u \in TaskIds, st \in Lively :
               state[u] \in Lively /\ state' = [state EXCEPT ![u] = st]
    BY <1>2
  <2>2. state'[t] = IF t = u THEN st ELSE state[t]
    BY <2>1
  <2>3. CASE t = u
    BY <2>1, <2>2, <2>3 DEF Lively, Phase
  <2>4. CASE t # u
    BY <2>2, <2>4 DEF Phase
  <2> QED BY <2>3, <2>4
<1> QED BY <1>1, <1>2

\* A step on the stack of o that leaves its system call where it is.
LEMMA QuietOn ==
    ASSUME KernelInv, NEW o, Owner = o, cpu'[1].task = o,
           UNCHANGED <<next_task_id, family, exit_code, esp>>,
           AwaitedIn(cpu') = AwaitedIn(cpu),
           AwaitedIn(cpu) # 0 => StageIn(cpu') = StageIn(cpu),
           \/ state' = state
           \/ \E u \in TaskIds, st \in Lively :
                state[u] \in Lively /\ state' = [state EXCEPT ![u] = st]
    PROVE  Quiet
<1>1. state \in [TaskIds -> TaskStates]
  BY DEF KernelInv, TypeOK
<1>2. ASSUME NEW t \in TaskIds
      PROVE  Awaited(t)' = Awaited(t) /\ (Awaited(t) # 0 => Stage(t)' = Stage(t))
  <2>1. Context(o) = cpu /\ Context(o)' = cpu'
    BY SameOwner
  <2>2. CASE t = o
    BY <2>1, <2>2, ContextIn, ContextInNext
  <2>3. CASE t # o
    BY <2>3, SameOwner
  <2> QED BY <2>2, <2>3
<1> QED BY <1>1, <1>2, SameLife DEF Quiet

LEMMA SchedulerQuiet ==
    ASSUME KernelInv, boot # 0, NEW pc \in SchedulePCs, At(pc),
           Return \/ \E d : Goto(d),
           UNCHANGED <<next_task_id, family, exit_code, esp>>,
           \/ state' = state
           \/ \E u \in TaskIds, st \in Lively :
                state[u] \in Lively /\ state' = [state EXCEPT ![u] = st]
    PROVE  Quiet
<1>1. PICK o, st, b, act : AtSchedule(o, st, b, act) /\ act.pc = pc
  BY ScheduleStart
<1>2. cpu' = <<Code(o), b>> \/ \E d : cpu' = <<Code(o), b, d>>
  BY <1>1, ScheduleStack
<1>3. cpu = <<Code(o), b, act>>
  BY <1>1 DEF AtSchedule
<1>4. /\ AwaitedIn(cpu) = IF b.pc \in ExecPCs THEN b.task ELSE 0
      /\ StageIn(cpu) = b.pc
  BY <1>3, StageOfStack
<1>5. AwaitedIn(cpu') = AwaitedIn(cpu) /\ StageIn(cpu') = StageIn(cpu)
  <2>1. ASSUME NEW a, cpu' = <<a, b>> \/ \E d : cpu' = <<a, b, d>>
        PROVE  /\ AwaitedIn(cpu') = IF b.pc \in ExecPCs THEN b.task ELSE 0
               /\ StageIn(cpu') = b.pc
    <3>1. CASE cpu' = <<a, b>>
      BY <3>1, StageOfStack
    <3>2. ASSUME NEW d, cpu' = <<a, b, d>>
          PROVE  /\ AwaitedIn(cpu') = IF b.pc \in ExecPCs THEN b.task ELSE 0
                 /\ StageIn(cpu') = b.pc
      BY <3>2, StageOfStack
    <3> QED BY <2>1, <3>1, <3>2
  <2>2. /\ AwaitedIn(cpu') = IF b.pc \in ExecPCs THEN b.task ELSE 0
        /\ StageIn(cpu') = b.pc
    BY <1>2, <2>1
  <2> QED BY <1>4, <2>2
<1>6. Owner = o /\ cpu'[1].task = o
  BY <1>2, <1>3, OwnStack DEF Owner
<1> QED BY <1>5, <1>6, QuietOn

LEMMA ScheduleQuiet ==
    ASSUME KernelInv, boot # 0, ~halted',
           \/ schedule_entry \/ schedule_scan \/ schedule_yield
           \/ schedule_run \/ schedule_current
    PROVE  Quiet /\ UNCHANGED <<eax, program>>
<1> USE DEF globals, family, keyboard, user, SchedulePCs
<1>1. CASE schedule_entry
  <2>1. At("schedule")
    BY <1>1 DEF schedule_entry
  <2>2. PICK o, st, b, act : AtSchedule(o, st, b, act) /\ act.pc = "schedule"
    BY <2>1, ScheduleStart
  <2>3. current_task # NULL
    BY <2>2, SchedulingAt DEF AtSchedule, TaskIds, NULL
  <2>4. Goto(Activation("scan", current_task, next[current_task]))
    BY <1>1, <2>3 DEF schedule_entry
  <2> QED BY <1>1, <2>1, <2>4, SchedulerQuiet DEF schedule_entry
<1>2. CASE schedule_scan
  <2>1. At("scan") /\ (Return \/ \E d : Goto(d))
    BY <1>2 DEF schedule_scan
  <2> QED BY <1>2, <2>1, SchedulerQuiet DEF schedule_scan
<1>3. CASE schedule_yield
  <2>1. At("yield") /\ \E d : Goto(d)
    BY <1>3 DEF schedule_yield
  <2>2. PICK o, st, b, act : AtSchedule(o, st, b, act) /\ act.pc = "yield"
    BY <2>1, ScheduleStart
  <2>3. Last(cpu).task \in TaskIds
    BY <2>2, SchedulingAt DEF AtSchedule
  <2>4. \/ state' = state
        \/ \E u \in TaskIds, st1 \in Lively :
             state[u] \in Lively /\ state' = [state EXCEPT ![u] = st1]
    BY <1>3, <2>3 DEF schedule_yield, Lively
  <2> QED BY <1>3, <2>1, <2>4, SchedulerQuiet DEF schedule_yield
<1>4. CASE schedule_run
  <2>1. At("run") /\ \E d : Goto(d)
    BY <1>4 DEF schedule_run
  <2>2. PICK o, st, b, act : AtSchedule(o, st, b, act) /\ act.pc = "run"
    BY <2>1, ScheduleStart
  <2>3. PICK c : c = act.cand
    OBVIOUS
  <2>4. Last(cpu) = act /\ c \in Tasks /\ c \in TaskIds /\ ~Blocked(c)
    BY <2>2, <2>3, SchedulingAt, TaskSet DEF AtSchedule
  <2>5. state[c] \in Lively
    BY <2>2, <2>4, LiveTasks DEF Blocked, Lively, KernelInv, TypeOK, TaskStates
  <2>6. state' = [state EXCEPT ![c] = "RUNNING"]
    BY <1>4, <2>3, <2>4 DEF schedule_run
  <2>7. \E u \in TaskIds, st1 \in Lively :
             state[u] \in Lively /\ state' = [state EXCEPT ![u] = st1]
    BY <2>4, <2>5, <2>6 DEF Lively
  <2> QED BY <1>4, <2>1, <2>7, SchedulerQuiet DEF schedule_run
<1>5. CASE schedule_current
  <2>1. At("current") /\ \E d : Goto(d)
    BY <1>5 DEF schedule_current
  <2> QED BY <1>5, <2>1, SchedulerQuiet DEF schedule_current
<1> QED BY <1>1, <1>2, <1>3, <1>4, <1>5

LEMMA SwitchQuiet ==
    ASSUME ProcInv, boot # 0, context_switch
    PROVE  Quiet /\ UNCHANGED <<eax, program>>
<1>1. At("switch") /\ "switch" \in SchedulePCs /\ KernelInv
  BY DEF context_switch, SchedulePCs, ProcInv
<1>2. PICK o, st, b, act : AtSchedule(o, st, b, act) /\ act.pc = "switch"
  BY <1>1, ScheduleStart
<1>3. PICK c : c = act.cand
  OBVIOUS
<1>4. /\ o \in TaskIds /\ c \in Tasks /\ c \in TaskIds /\ act.task = o
      /\ Last(cpu) = act /\ current_task = c
  BY <1>1, <1>2, <1>3, SchedulingAt, TaskSet DEF AtSchedule
<1>5. cpu = <<Code(o), b, act>> /\ Front(cpu) = <<Code(o), b>>
  <2>1. PICK a : a = Code(o)
    OBVIOUS
  <2>2. cpu = <<a, b, act>>
    BY <1>2, <2>1 DEF AtSchedule
  <2> QED BY <2>1, <2>2, StackOps
<1>6. /\ esp' = [esp EXCEPT ![o] = <<Code(o), b>>] /\ cpu' = esp'[c]
      /\ esp \in [TaskIds -> Seq(Activations)]
  BY <1>1, <1>4, <1>5 DEF context_switch, KernelInv, TypeOK
<1>7. /\ \A t \in TaskIds \ {o} : esp'[t] = esp[t]
      /\ esp'[o] = <<Code(o), b>>
  BY <1>4, <1>6
<1>8. Owner = o /\ o \in Tasks
  BY <1>2, <1>5, OwnStack DEF Owner, AtSchedule
<1>9. Owner' = c
  <2>1. CASE c = o
    BY <1>6, <1>7, <2>1, OwnStack DEF Owner
  <2>2. CASE c # o
    <3>1. Parked(c, esp[c], ParkedState(c)) /\ esp'[c] = esp[c]
      BY <1>2, <1>4, <1>7, <2>2 DEF AtSchedule, Others
    <3>2. \/ esp[c] = <<Code(c)>>
          \/ \E d : esp[c] = <<Code(c), d>>
      BY <3>1 DEF Parked
    <3>3. esp[c][1].task = c
      BY <3>2, OwnStack
    <3> QED BY <1>6, <3>1, <3>3 DEF Owner
  <2> QED BY <2>1, <2>2
<1>10. ASSUME NEW t \in TaskIds
       PROVE  Awaited(t)' = Awaited(t) /\ Stage(t)' = Stage(t)
  <2>1. Context(t)' = esp'[t]
    BY <1>6, <1>9 DEF Context
  <2>2. CASE t = o
    <3>1. Context(t) = <<Code(o), b, act>> /\ Context(t)' = <<Code(o), b>>
      BY <1>5, <1>7, <1>8, <2>1, <2>2 DEF Context
    <3>2. PICK a : a = Code(o)
      OBVIOUS
    <3>3. /\ AwaitedIn(<<a, b, act>>) = AwaitedIn(<<a, b>>)
          /\ StageIn(<<a, b, act>>) = StageIn(<<a, b>>)
      BY StageOfStack
    <3> QED BY <3>1, <3>2, <3>3, ContextIn, ContextInNext
  <2>3. CASE t # o
    <3>1. Context(t)' = Context(t)
      BY <1>7, <1>8, <2>1, <2>3 DEF Context
    <3> QED BY <3>1, ContextIn, ContextInNext
  <2> QED BY <2>2, <2>3
<1>11. \A t \in TaskIds \ Tasks : esp'[t] = esp[t]
  BY <1>7, <1>8
<1>12. UNCHANGED <<next_task_id, family, exit_code, state, eax, program>>
  BY DEF context_switch, globals, family, user
<1> QED BY <1>10, <1>11, <1>12 DEF Quiet, Phase

LEMMA BootQuiet ==
    ASSUME KernelInv, boot = 0, irq0 \/ irq0_eoi \/ schedule_entry
    PROVE  Quiet /\ UNCHANGED <<eax, program>>
<1> DEFINE Early(s) == \/ s = <<Code(1)>>
                       \/ s = <<Code(1), Act("irq0")>>
                       \/ s = <<Code(1), Act("irq0"), Act("schedule")>>
<1>1. Early(cpu)
  BY DEF KernelInv, ContextsOK, BeforeTasking
<1>2. KernelInv' /\ boot' = 0
  BY BootStep DEF irq0, irq0_eoi, schedule_entry
<1>3. Early(cpu')
  BY <1>2 DEF KernelInv, ContextsOK, BeforeTasking
<1>4. ASSUME NEW s, Early(s) PROVE s[1].task = 1 /\ AwaitedIn(s) = 0
  <2>1. s[1].task = 1
    BY <1>4, OwnStack
  <2>2. ASSUME NEW a, NEW b, NEW d, b.pc \notin ExecPCs,
               s = <<a>> \/ s = <<a, b>> \/ s = <<a, b, d>>
        PROVE  AwaitedIn(s) = 0
    BY <2>2, StageOfStack
  <2>3. Act("irq0").pc \notin ExecPCs
    BY StageFields
  <2> QED BY <1>4, <2>1, <2>2, <2>3
<1> HIDE DEF Early
<1>5. /\ UNCHANGED <<next_task_id, family, exit_code, esp>> /\ state' = state
      /\ UNCHANGED <<eax, program>>
  BY DEF irq0, irq0_eoi, schedule_entry, globals, family, user
<1>6. Owner = 1 /\ cpu'[1].task = 1 /\ AwaitedIn(cpu') = 0 /\ AwaitedIn(cpu) = 0
  BY <1>1, <1>3, <1>4 DEF Owner
<1> QED BY <1>5, <1>6, QuietOn

\* Ticks and their end, outside schedule(), on kmain's stack.
LEMMA TickQuiet ==
    ASSUME KernelInv, boot # 0, irq0 \/ irq0_eoi
    PROVE  Quiet /\ UNCHANGED <<eax, program>>
<1>1. /\ UNCHANGED <<next_task_id, family, exit_code, esp>> /\ state' = state
      /\ UNCHANGED <<eax, program>>
  BY DEF irq0, irq0_eoi, globals, family, user
<1>2. Last(cpu).pc \notin SchedulePCs
  BY ScheduleStart DEF irq0, irq0_eoi, SchedulePCs, Interruptible, At, AtSchedule
<1>3. PICK o : AtExecuting(o)
  BY <1>2, ExecutingStart
<1>4. CASE irq0
  <2>1. cpu = <<Code(o)>>
    BY <1>3, <1>4, ExecutingAt DEF AtExecuting, Executing, irq0, Interruptible
  <2>2. cpu' = <<Code(o), Act("irq0"), Act("schedule")>>
    BY <1>4, <2>1, StackOps DEF irq0
  <2>3. cpu'[1].task = o
    BY <2>2, OwnStack
  <2>4. AwaitedIn(cpu) = 0 /\ AwaitedIn(cpu') = 0
    <3>1. PICK a, b, d : a = Code(o) /\ b = Act("irq0") /\ d = Act("schedule")
      OBVIOUS
    <3>2. b.pc \notin ExecPCs
      BY <3>1, StageFields
    <3>3. AwaitedIn(<<a>>) = 0 /\ AwaitedIn(<<a, b, d>>) = 0
      BY <3>2, StageOfStack
    <3> QED BY <2>1, <2>2, <3>1, <3>3
  <2> QED BY <1>1, <1>3, <2>3, <2>4, QuietOn DEF AtExecuting
<1>5. CASE irq0_eoi
  <2>1. cpu = <<Code(o), Act("irq0")>>
    BY <1>3, <1>5, ExecutingAt DEF AtExecuting, irq0_eoi, At
  <2>2. cpu' = <<Code(o)>>
    BY <1>5, <2>1, StackOps DEF irq0_eoi, Return
  <2>3. cpu'[1].task = o
    BY <2>2, OwnStack
  <2>4. AwaitedIn(cpu) = 0 /\ AwaitedIn(cpu') = 0
    BY <2>1, <2>2, StageOfStack, StageFields
  <2> QED BY <1>1, <1>3, <2>3, <2>4, QuietOn DEF AtExecuting
<1> QED BY <1>4, <1>5

LEMMA KeyQuiet ==
    ASSUME KernelInv, NEW n \in LineLengths, keyboard_handler_main(n)
    PROVE  Quiet /\ UNCHANGED <<eax, program>>
<1>1. boot # 0 /\ task_waiting_for_input # NULL
  BY BootStops DEF keyboard_handler_main
<1>2. PICK t : t = task_waiting_for_input
  OBVIOUS
<1>3. t \in TaskIds /\ state[t] = "WAITING_FOR_KEYBOARD"
  BY <1>1, <1>2
     DEF KernelInv, TypeOK, ContextsOK, AfterTasking, TaskIds, NULL
<1>4. /\ state' = [state EXCEPT ![t] = "READY"]
      /\ UNCHANGED <<next_task_id, family, exit_code, esp, cpu>>
      /\ UNCHANGED <<eax, program>>
  BY <1>2 DEF keyboard_handler_main, globals, family, user
<1>5. \E u \in TaskIds, st \in Lively :
        state[u] \in Lively /\ state' = [state EXCEPT ![u] = st]
  BY <1>3, <1>4 DEF Lively
<1>6. PICK o \in Tasks : Owner = o
  BY <1>1, WorldExists, WorldOwner
<1>7. cpu'[1].task = o
  BY <1>4, <1>6 DEF Owner
<1> QED BY <1>4, <1>5, <1>6, <1>7, QuietOn

\* The worker's loop, and the system calls that return at once.
LEMMA CodeQuiet ==
    ASSUME KernelInv, NEW call, NEW result,
           \/ kernel_worker_task_main
           \/ sys_simple(call, result)
    PROVE  Quiet /\ UNCHANGED program
<1>1. /\ UNCHANGED <<next_task_id, family, exit_code, esp, cpu>>
      /\ state' = state /\ UNCHANGED program
  BY DEF kernel_worker_task_main, sys_simple, globals, family, user
<1>2. PICK o : Owner = o
  OBVIOUS
<1>3. cpu'[1].task = o
  BY <1>1, <1>2 DEF Owner
<1> QED BY <1>1, <1>2, <1>3, QuietOn

LEMMA GetsQuiet ==
    ASSUME KernelInv, sys_gets
    PROVE  Quiet /\ UNCHANGED <<eax, program>>
<1>1. PICK o : /\ AtExecuting(o) /\ o # 1 /\ cpu = <<Code(o)>>
               /\ state[o] = "RUNNING"
  BY SyscallStart DEF sys_gets
<1>2. PICK a, b, d : /\ a = Code(o) /\ b = Act("gets_return")
                     /\ d = Act("schedule")
  OBVIOUS
<1>3. cpu = <<a>> /\ cpu' = <<a, b, d>>
  BY <1>1, <1>2, StackOps DEF sys_gets
<1>4. AwaitedIn(cpu) = 0 /\ AwaitedIn(cpu') = 0
  <2>1. b.pc \notin ExecPCs
    BY <1>2, StageFields
  <2>2. AwaitedIn(<<a>>) = 0 /\ AwaitedIn(<<a, b, d>>) = 0
    BY <2>1, StageOfStack
  <2> QED BY <1>3, <2>2
<1>5. cpu'[1].task = o
  BY <1>2, <1>3, OwnStack
<1>6. /\ state' = [state EXCEPT ![o] = "WAITING_FOR_KEYBOARD"]
      /\ UNCHANGED <<next_task_id, family, exit_code, esp, eax, program>>
  BY <1>1 DEF sys_gets, AtExecuting, globals, family, user
<1>7. \E u \in TaskIds, st \in Lively :
        state[u] \in Lively /\ state' = [state EXCEPT ![u] = st]
  BY <1>1, <1>6 DEF AtExecuting, Lively
<1> QED BY <1>1, <1>4, <1>5, <1>6, <1>7, QuietOn DEF AtExecuting

\* SYS_GETS returns, and so does SYS_EXEC without a child.
LEMMA ReturnQuiet ==
    ASSUME KernelInv, NEW pc \in {"exec_failed", "gets_return", "exit_return"},
           At(pc), Return,
           UNCHANGED <<next_task_id, state, family, exit_code, esp>>
    PROVE  Quiet
<1>1. boot # 0 /\ pc # "exit_return"
  BY AboveCode DEF ExecPCs
<1>2. PICK o : AtExecuting(o) /\ Front(cpu) = <<Code(o)>>
  BY AboveCode DEF ExecPCs
<1>3. Last(cpu).pc = pc
  BY DEF At
<1>4. cpu = <<Code(o), Act("gets_return")>> \/ cpu = <<Code(o), Act("exec_failed")>>
  BY <1>1, <1>2, <1>3, ExecutingAt DEF AtExecuting
<1>5. AwaitedIn(cpu) = 0
  <2>1. ASSUME NEW a, NEW b, b.task = 0 PROVE AwaitedIn(<<a, b>>) = 0
    BY <2>1, StageOfStack
  <2> QED BY <1>4, <2>1, StageFields
<1>6. AwaitedIn(cpu') = 0 /\ cpu'[1].task = o
  BY <1>2, StageOfStack, OwnStack DEF Return
<1> QED BY <1>2, <1>5, <1>6, QuietOn DEF AtExecuting

\* create_user_process refuses: SYS_EXEC has no child to wait for.
LEMMA RefusedQuiet ==
    ASSUME KernelInv, Int80("SYS_EXEC"), cpu' = Append(cpu, Act("exec_failed")),
           UNCHANGED <<next_task_id, state, family, exit_code, esp>>
    PROVE  Quiet
<1>1. PICK o : AtExecuting(o) /\ cpu = <<Code(o)>>
  BY SyscallStart
<1>2. PICK a, b : a = Code(o) /\ b = Act("exec_failed")
  OBVIOUS
<1>3. cpu = <<a>> /\ cpu' = <<a, b>>
  BY <1>1, <1>2, StackOps
<1>4. AwaitedIn(cpu) = 0 /\ AwaitedIn(cpu') = 0
  <2>1. b.task = 0
    BY <1>2, StageFields
  <2>2. AwaitedIn(<<a>>) = 0 /\ AwaitedIn(<<a, b>>) = 0
    BY <2>1, StageOfStack
  <2> QED BY <1>3, <2>2
<1>5. cpu'[1].task = o
  BY <1>2, <1>3, OwnStack
<1> QED BY <1>1, <1>4, <1>5, QuietOn DEF AtExecuting

-----------------------------------------------------------------------------
(***************************************************************************)
(* Steps that change who waits for whom.                                   *)
(***************************************************************************)
\* Code in the middle of SYS_EXEC, and the child it is about.
LEMMA InExec ==
    ASSUME ProcInv, NEW pc \in {"exec_block", "exec_note", "exec_call",
                                "exec_return"}, At(pc)
    PROVE  \E o, c :
             /\ boot # 0 /\ AtExecuting(o) /\ cpu = <<Code(o), ActOf(pc, c)>>
             /\ Last(cpu).task = c /\ c \in TaskIds /\ c # 0
             /\ Awaited(o) = c /\ Stage(o) = pc /\ Expects(o, c)
             /\ \A d : Goto(d) => cpu' = <<Code(o), d>>
             /\ Front(cpu) = <<Code(o)>>
             /\ state[o] = IF pc \in {"exec_note", "exec_call"}
                             THEN "WAITING_FOR_CHILD" ELSE "RUNNING"
<1>1. pc \in ExecPCs \cup {"gets_return", "exit_return"} /\ KernelInv
  BY DEF ExecPCs, ProcInv
<1>2. boot # 0
  BY <1>1, AboveCode
<1>3. PICK o : /\ AtExecuting(o) /\ Front(cpu) = <<Code(o)>>
               /\ Last(cpu).pc = pc
               /\ \A d : Goto(d) => cpu' = <<Code(o), d>>
               /\ Last(cpu).task \in TaskIds
               /\ state[o] = IF pc \in {"exec_note", "exec_call"}
                               THEN "WAITING_FOR_CHILD" ELSE "RUNNING"
  BY <1>1, AboveCode
<1>4. PICK c : c = Last(cpu).task
  OBVIOUS
<1>5. cpu = <<Code(o), ActOf(pc, c)>>
  BY <1>1, <1>3, <1>4, ExecutingAt DEF AtExecuting, ExecPCs
<1>6. c \in TaskIds /\ c # 0
  BY <1>3, <1>4 DEF TaskIds
<1>7. AwaitedIn(cpu) = c /\ StageIn(cpu) = pc
  <2>1. PICK a, b : a = Code(o) /\ b = ActOf(pc, c)
    OBVIOUS
  <2>2. b.pc = pc /\ b.task = c /\ pc \in ExecPCs
    BY <2>1, StageFields
  <2>3. AwaitedIn(<<a, b>>) = c /\ StageIn(<<a, b>>) = pc
    BY <2>2, StageOfStack
  <2> QED BY <1>5, <2>1, <2>3
<1>8. Awaited(o) = c /\ Stage(o) = pc
  BY <1>3, <1>7, ContextIn DEF Context, AtExecuting
<1>9. Expects(o, c)
  BY <1>3, <1>6, <1>8 DEF ProcInv, Families, AtExecuting
<1> QED BY <1>2, <1>3, <1>4, <1>5, <1>6, <1>8, <1>9

\* The parent's own steps between the child's creation and schedule().
LEMMA GoesOnWaiting ==
    ASSUME ProcInv, KernelInv', NEW pc \in {"exec_note", "exec_call", "exec_return"},
           NEW o, NEW c, AtExecuting(o), Expects(o, c), c # 0, Awaited(o) = c,
           state[c] # "TERMINATED",
           \/ cpu' = <<Code(o), ActOf(pc, c)>>
           \/ \E d : cpu' = <<Code(o), ActOf(pc, c), d>>,
           UNCHANGED <<next_task_id, parent, child_exit_status, exit_code, esp>>,
           state' = [state EXCEPT ![o] = "WAITING_FOR_CHILD"],
           \A t \in TaskIds : t # o =>
             child_pid_waiting_on'[t] = child_pid_waiting_on[t],
           pc # "exec_note" => child_pid_waiting_on'[o] = c
    PROVE  ProcInv' /\ \A t \in TaskIds : /\ Awaited(t)' = Awaited(t)
                                          /\ Phase(t)' = Phase(t)
<1>1. Owner = o /\ cpu'[1].task = o /\ o \in TaskIds
  BY OwnStack DEF AtExecuting
<1>2. Awaited(o)' = c /\ Stage(o)' = pc
  <2>1. AwaitedIn(cpu') = c /\ StageIn(cpu') = pc
    <3>1. PICK a, b : a = Code(o) /\ b = ActOf(pc, c)
      OBVIOUS
    <3>2. b.pc = pc /\ b.task = c /\ pc \in ExecPCs
      BY <3>1, StageFields
    <3>3. /\ AwaitedIn(<<a, b>>) = c /\ StageIn(<<a, b>>) = pc
          /\ \A d : AwaitedIn(<<a, b, d>>) = c /\ StageIn(<<a, b, d>>) = pc
      BY <3>2, StageOfStack
    <3>4. cpu' = <<a, b>> \/ \E d : cpu' = <<a, b, d>>
      BY <3>1
    <3> QED BY <3>3, <3>4
  <2>2. Context(o)' = cpu'
    BY <1>1, SameOwner
  <2> QED BY <2>1, <2>2, ContextInNext
<1>3. \A t : t # o => Awaited(t)' = Awaited(t) /\ Stage(t)' = Stage(t)
  BY <1>1, SameOwner
<1>4. Tasks' = Tasks /\ Tasks \subseteq TaskIds
  BY TaskSet DEF Tasks, ProcInv
<1>5. state[o] \in {"RUNNING", "WAITING_FOR_CHILD"}
  BY DEF AtExecuting, Executing
<1>6. \A t \in TaskIds : /\ t # o => state'[t] = state[t]
                         /\ state'[o] = "WAITING_FOR_CHILD"
  BY <1>1 DEF ProcInv, KernelInv, TypeOK
<1>7. \A t \in TaskIds : /\ Phase(t)' = Phase(t)
                         /\ state'[t] = "TERMINATED" <=> state[t] = "TERMINATED"
  BY <1>5, <1>6 DEF Phase
<1>8. Fresh'
  BY <1>4 DEF ProcInv, Fresh
<1>9. ASSUME NEW t \in TaskIds, Awaited(t)' # 0 PROVE Expects(t, Awaited(t))'
  <2>1. CASE t = o
    <3>1. c \in Tasks /\ c # o /\ parent[c] = o /\ o \in Tasks
      BY DEF Expects
    <3>2. state'[c] # "TERMINATED"
      BY <1>4, <1>7, <3>1
    <3>3. Expects(o, c)'
      BY <1>2, <1>4, <1>6, <3>1, <3>2, <1>1 DEF Expects
    <3> QED BY <1>2, <2>1, <3>3
  <2>2. CASE t # o
    <3>1. PICK d : d = Awaited(t)
      OBVIOUS
    <3>2. Awaited(t)' = d /\ d # 0 /\ Stage(t)' = Stage(t) /\ Expects(t, d)
      BY <1>3, <1>9, <2>2, <3>1 DEF ProcInv, Families
    <3>3. d \in TaskIds
      BY <1>4, <3>2 DEF Expects
    <3>4. Expects(t, d)'
      BY <1>4, <1>6, <1>7, <1>9, <2>2, <3>2, <3>3 DEF Expects
    <3> QED BY <3>2, <3>4
  <2> QED BY <2>1, <2>2
<1> QED BY <1>2, <1>3, <1>7, <1>8, <1>9 DEF ProcInv, Families

LEMMA ExecGoesOn ==
    ASSUME ProcInv, KernelInv', sys_exec_block \/ sys_exec_note \/ sys_exec_call
    PROVE  /\ ProcInv' /\ UNCHANGED <<eax, exit_code, program>>
           /\ \A t \in TaskIds : Awaited(t)' = Awaited(t) /\ Phase(t)' = Phase(t)
<1> USE DEF globals, family, user
<1>1. \E pc \in {"exec_block", "exec_note", "exec_call"} : At(pc)
  BY DEF sys_exec_block, sys_exec_note, sys_exec_call
<1>2. PICK pc \in {"exec_block", "exec_note", "exec_call"} : At(pc)
  BY <1>1
<1>3. PICK o, c :
        /\ boot # 0 /\ AtExecuting(o) /\ cpu = <<Code(o), ActOf(pc, c)>>
        /\ Last(cpu).task = c /\ c \in TaskIds /\ c # 0
        /\ Awaited(o) = c /\ Stage(o) = pc /\ Expects(o, c)
        /\ \A d : Goto(d) => cpu' = <<Code(o), d>>
        /\ Front(cpu) = <<Code(o)>>
        /\ state[o] = IF pc \in {"exec_note", "exec_call"}
                        THEN "WAITING_FOR_CHILD" ELSE "RUNNING"
  BY <1>2, InExec
<1>4. /\ current_task = o /\ o \in TaskIds /\ state[c] # "TERMINATED"
      /\ state \in [TaskIds -> TaskStates]
      /\ child_pid_waiting_on \in [TaskIds -> 0..MaxTasks]
      /\ pc = "exec_call" => child_pid_waiting_on[o] = c
  BY <1>2, <1>3 DEF AtExecuting, Expects, ProcInv, KernelInv, TypeOK
<1>5. CASE sys_exec_block
  <2>1. /\ cpu' = <<Code(o), ActOf("exec_note", c)>>
        /\ state' = [state EXCEPT ![o] = "WAITING_FOR_CHILD"]
        /\ UNCHANGED <<next_task_id, family, exit_code, esp, eax, program>>
    BY <1>3, <1>4, <1>5 DEF sys_exec_block
  <2> QED BY <1>3, <1>4, <2>1, GoesOnWaiting
<1>6. CASE sys_exec_note
  <2>1. pc = "exec_note"
    BY <1>2, <1>6 DEF sys_exec_note, At
  <2>2. /\ cpu' = <<Code(o), ActOf("exec_call", c)>>
        /\ UNCHANGED <<next_task_id, parent, child_exit_status, exit_code, esp,
                       eax, program>>
        /\ child_pid_waiting_on' = [child_pid_waiting_on EXCEPT ![o] = c]
    BY <1>3, <1>4, <1>6 DEF sys_exec_note
  <2>3. state' = [state EXCEPT ![o] = "WAITING_FOR_CHILD"]
    BY <1>3, <1>4, <1>6, <2>1 DEF sys_exec_note
  <2> QED BY <1>3, <1>4, <2>2, <2>3, GoesOnWaiting
<1>7. CASE sys_exec_call
  <2>1. pc = "exec_call"
    BY <1>2, <1>7 DEF sys_exec_call, At
  <2>2. /\ cpu' = <<Code(o), ActOf("exec_return", c), Act("schedule")>>
        /\ UNCHANGED <<next_task_id, family, exit_code, esp, eax, program>>
    BY <1>3, <1>7, StackOps DEF sys_exec_call
  <2>3. state' = [state EXCEPT ![o] = "WAITING_FOR_CHILD"]
    BY <1>3, <1>4, <1>7, <2>1 DEF sys_exec_call
  <2> QED BY <1>3, <1>4, <2>1, <2>2, <2>3, GoesOnWaiting
<1> QED BY <1>5, <1>6, <1>7

\* Outside SYS_EXEC's own steps, a task that waits for a child is parked in
\* the call of schedule() it makes there.
LEMMA ParkedStage ==
    ASSUME NEW t \in TaskIds, NEW st, Parked(t, esp[t], st), Owner # t
    PROVE  /\ Awaited(t) # 0 => Stage(t) = "exec_return"
           /\ st = "WAITING_FOR_CHILD" => Awaited(t) # 0
<1>1. Context(t) = esp[t]
  BY DEF Context
<1>2. PICK a : a = Code(t)
  OBVIOUS
<1>3. ASSUME NEW b, esp[t] = <<a, b>>, b.pc \notin ExecPCs PROVE Awaited(t) = 0
  BY <1>1, <1>3, StageOfStack, ContextIn
<1>4. ASSUME NEW c \in TaskIds, esp[t] = <<Code(t), ActOf("exec_return", c)>>
      PROVE  Awaited(t) = c /\ c # 0 /\ Stage(t) = "exec_return"
  <2>1. PICK b : b = ActOf("exec_return", c)
    OBVIOUS
  <2>2. b.pc = "exec_return" /\ b.task = c /\ "exec_return" \in ExecPCs
    BY <2>1, StageFields
  <2>3. AwaitedIn(<<a, b>>) = c /\ StageIn(<<a, b>>) = "exec_return"
    BY <2>2, StageOfStack
  <2> QED BY <1>1, <1>2, <1>4, <2>1, <2>3, ContextIn DEF TaskIds
<1>5. CASE esp[t] = <<Code(t)>> /\ st = "READY"
  <2>1. Awaited(t) = 0
    BY <1>1, <1>2, <1>5, StageOfStack, ContextIn
  <2> QED BY <1>5, <2>1
<1>6. ASSUME NEW pc \in {"irq0", "gets_return", "exit_return"},
             esp[t] = <<Code(t), Act(pc)>>
      PROVE  Awaited(t) = 0
  <2>1. PICK b : b = Act(pc)
    OBVIOUS
  <2>2. b.pc \notin ExecPCs
    BY <2>1, StageFields
  <2> QED BY <1>2, <1>3, <1>6, <2>1, <2>2
<1>7. CASE t = 1
  BY <1>6, <1>7 DEF Parked
<1>8. CASE t # 1
  BY <1>4, <1>5, <1>6, <1>8 DEF Parked
<1> QED BY <1>7, <1>8

\* A task that is not there awaits nobody.
LEMMA FreshAwaits ==
    ASSUME ProcInv, boot # 0, NEW t \in TaskIds \ Tasks
    PROVE  Awaited(t) = 0 /\ Owner # t
<1>1. PICK o \in Tasks : Owner = o
  BY WorldExists, WorldOwner DEF ProcInv
<1>2. Context(t) = <<>>
  BY <1>1 DEF Context, ProcInv, Fresh
<1> QED BY <1>1, <1>2, StageOfStack, ContextIn

LEMMA WaitingStage ==
    ASSUME KernelInv, boot # 0, NEW t \in Tasks, state[t] = "WAITING_FOR_CHILD"
    PROVE  /\ Awaited(t) # 0
           /\ t # current_task => Stage(t) = "exec_return"
<1>1. PICK o \in Tasks : World(o)
  BY WorldExists
<1>2. Owner = o /\ t \in TaskIds
  BY <1>1, WorldOwner, TaskSet
<1>3. CASE t # o
  <2>1. ~Elected(t)
    <3>1. SUFFICES ASSUME Elected(t) PROVE FALSE
      OBVIOUS
    <3>2. InSchedule(o) /\ cpu[3].pc \in {"current", "switch"} /\ cpu[3].cand = t
      BY <1>1, <3>1, ExecutingTop DEF World, Elected
    <3>3. PICK st : Scheduling(o, st, cpu[3])
      BY <3>2 DEF InSchedule
    <3> QED BY <3>2, <3>3, SchedulingAt
  <2>2. Parked(t, esp[t], "WAITING_FOR_CHILD")
    BY <1>1, <1>3, <2>1 DEF World, ParkedState
  <2> QED BY <1>2, <1>3, <2>2, ParkedStage
<1>4. ASSUME NEW pc \in ExecPCs, NEW c \in TaskIds,
             \/ cpu = <<Code(o), ActOf(pc, c)>>
             \/ \E d : cpu = <<Code(o), ActOf(pc, c), d>>
      PROVE  Awaited(o) # 0 /\ Stage(o) = pc
  <2>1. PICK a, b : a = Code(o) /\ b = ActOf(pc, c)
    OBVIOUS
  <2>2. b.pc = pc /\ b.task = c /\ pc \in ExecPCs
    BY <2>1, StageFields
  <2>3. /\ AwaitedIn(<<a, b>>) = c /\ StageIn(<<a, b>>) = pc
        /\ \A d : AwaitedIn(<<a, b, d>>) = c /\ StageIn(<<a, b, d>>) = pc
    BY <2>2, StageOfStack
  <2>4. cpu = <<a, b>> \/ \E d : cpu = <<a, b, d>>
    BY <1>4, <2>1
  <2>5. AwaitedIn(cpu) = c /\ StageIn(cpu) = pc
    BY <2>3, <2>4
  <2> QED BY <1>2, <2>5, ContextIn DEF Context, TaskIds
<1>5. CASE t = o /\ Executing(o)
  <2>1. \E pc \in ExecPCs, c \in TaskIds : cpu = <<Code(o), ActOf(pc, c)>>
    BY <1>5 DEF Executing, ExecPCs
  <2> QED BY <1>4, <1>5, <2>1 DEF Executing
<1>6. CASE t = o /\ InSchedule(o)
  <2>1. PICK st : Caller(o, cpu[2], st) /\ Scheduling(o, st, cpu[3])
    BY <1>6 DEF InSchedule
  <2>2. state[o] \in {st, Yielded(st), "RUNNING"}
    BY <2>1 DEF Scheduling
  <2>3. st = "WAITING_FOR_CHILD"
    BY <1>6, <2>2 DEF Yielded
  <2>4. PICK c \in TaskIds : cpu[2] = ActOf("exec_return", c)
    BY <2>1, <2>3 DEF Caller
  <2>5. \E d : cpu = <<Code(o), ActOf("exec_return", c), d>>
    BY <1>6, <2>4 DEF InSchedule
  <2>6. "exec_return" \in ExecPCs
    BY DEF ExecPCs
  <2> QED BY <1>4, <1>6, <2>5, <2>6
<1> QED BY <1>1, <1>3, <1>5, <1>6 DEF World

\* SYS_EXIT: the parent that waits for this task is woken with its status,
\* and no other one is.
LEMMA ExitKeeps ==
    ASSUME ProcInv, KernelInv', NEW status \in ExitCodes, sys_exit(status)
    PROVE  /\ ProcInv' /\ UNCHANGED <<eax, program>>
           /\ \A t \in TaskIds : Awaited(t)' = Awaited(t)
           /\ \E o \in TaskIds :
                /\ Awaited(o) = 0 /\ Phase(o) = "live" /\ o \in Tasks
                /\ exit_code' = [exit_code EXCEPT ![o] = status]
                /\ \A t \in TaskIds :
                     Phase(t)' = IF t = o THEN "exited" ELSE Phase(t)
<1>1. PICK o : /\ AtExecuting(o) /\ cpu = <<Code(o)>>
               /\ state[o] = "RUNNING" /\ boot # 0
  BY SyscallStart DEF sys_exit, ProcInv
<1>2. /\ o \in Tasks /\ o \in TaskIds /\ Owner = o /\ current_task = o
      /\ \A t \in Tasks \ {o} : Parked(t, esp[t], state[t])
  BY <1>1 DEF AtExecuting
<1>3. cpu' = <<Code(o), Act("exit_return"), Act("schedule")>>
  <2>1. PICK a, b, d : /\ a = Code(o) /\ b = Act("exit_return")
                       /\ d = Act("schedule")
    OBVIOUS
  <2>2. <<a>> \o <<b, d>> = <<a, b, d>>
    BY StackOps
  <2>3. cpu' = cpu \o <<b, d>>
    BY <2>1 DEF sys_exit
  <2> QED BY <1>1, <2>1, <2>2, <2>3
<1>4. /\ UNCHANGED <<next_task_id, parent, esp, eax, program>>
      /\ exit_code' = [exit_code EXCEPT ![o] = status]
      /\ exit_code \in [TaskIds -> Statuses]
      /\ state \in [TaskIds -> TaskStates]
      /\ child_exit_status \in [TaskIds -> Statuses]
      /\ child_pid_waiting_on \in [TaskIds -> 0..MaxTasks]
      /\ parent \in [TaskIds -> 0..MaxTasks]
  BY <1>2 DEF sys_exit, globals, ProcInv, KernelInv, TypeOK
<1>5. PICK p : p = parent[o]
  OBVIOUS
<1>6. PICK dead : dead = [state EXCEPT ![o] = "TERMINATED"]
  OBVIOUS
<1>7. DEFINE wake == /\ p # NULL /\ dead[p] = "WAITING_FOR_CHILD"
                     /\ child_pid_waiting_on[p] = o
<1>8. \/ /\ wake
         /\ state' = [dead EXCEPT ![p] = "READY"]
         /\ child_exit_status' = [child_exit_status EXCEPT ![p] = status]
         /\ child_pid_waiting_on' = [child_pid_waiting_on EXCEPT ![p] = 0]
      \/ /\ ~wake /\ state' = dead
         /\ UNCHANGED <<child_exit_status, child_pid_waiting_on>>
  BY <1>2, <1>5, <1>6 DEF sys_exit
<1>9. p \in 0..MaxTasks /\ (p # NULL => p \in TaskIds)
  BY <1>2, <1>4, <1>5 DEF TaskIds, NULL
<1>10. dead \in [TaskIds -> TaskStates] /\ dead[o] = "TERMINATED"
       /\ \A t \in TaskIds \ {o} : dead[t] = state[t]
  BY <1>2, <1>4, <1>6 DEF TaskStates
<1>11. wake => p # o /\ state[p] = "WAITING_FOR_CHILD" /\ p \in TaskIds
  BY <1>9, <1>10
<1>12. /\ state'[o] = "TERMINATED"
       /\ \A t \in TaskIds \ {o} :
            /\ wake /\ t = p =>
                 /\ state'[t] = "READY"
                 /\ child_exit_status'[t] = status
            /\ ~(wake /\ t = p) =>
                 /\ state'[t] = state[t]
                 /\ child_exit_status'[t] = child_exit_status[t]
                 /\ child_pid_waiting_on'[t] = child_pid_waiting_on[t]
  BY <1>2, <1>4, <1>8, <1>10, <1>11
<1>13. \A t \in TaskIds : /\ t # o => exit_code'[t] = exit_code[t]
                          /\ exit_code'[o] = status
  BY <1>2, <1>4
<1>14. \A t \in TaskIds : /\ Phase(t)' = IF t = o THEN "exited" ELSE Phase(t)
                          /\ t # o => (state'[t] = "TERMINATED"
                                         <=> state[t] = "TERMINATED")
  <2>1. ASSUME NEW t \in TaskIds, t # o, wake, t = p
        PROVE  Phase(t)' = Phase(t) /\ state'[t] # "TERMINATED"
               /\ state[t] # "TERMINATED"
    BY <1>11, <1>12, <2>1 DEF Phase
  <2>2. ASSUME NEW t \in TaskIds, t # o, ~(wake /\ t = p)
        PROVE  Phase(t)' = Phase(t) /\ state'[t] = state[t]
    BY <1>12, <2>2 DEF Phase
  <2>3. Phase(o)' = "exited"
    BY <1>12 DEF Phase
  <2> QED BY <2>1, <2>2, <2>3
<1> HIDE DEF wake
<1>15. /\ Awaited(o) = 0 /\ Awaited(o)' = 0
       /\ \A t : t # o => Awaited(t)' = Awaited(t) /\ Stage(t)' = Stage(t)
  <2>1. PICK a, b, d : /\ a = Code(o) /\ b = Act("exit_return")
                       /\ d = Act("schedule")
    OBVIOUS
  <2>2. b.pc \notin ExecPCs
    BY <2>1, StageFields
  <2>3. AwaitedIn(<<a>>) = 0 /\ AwaitedIn(<<a, b, d>>) = 0
    BY <2>2, StageOfStack
  <2>4. AwaitedIn(cpu) = 0 /\ AwaitedIn(cpu') = 0
    BY <1>1, <1>3, <2>1, <2>3
  <2>5. cpu'[1].task = o
    BY <1>3, OwnStack
  <2> QED BY <1>2, <1>4, <2>4, <2>5, SameOwner, ContextIn, ContextInNext
<1>16. Tasks' = Tasks /\ Tasks \subseteq TaskIds
  BY <1>4, TaskSet DEF Tasks, ProcInv
<1>17. Fresh'
  BY <1>4, <1>16 DEF ProcInv, Fresh
<1>18. ASSUME NEW t \in TaskIds, NEW c, c = Awaited(t), Awaited(t)' # 0
       PROVE  Expects(t, c)'
  <2>1. /\ t # o /\ c # 0 /\ Expects(t, c) /\ Stage(t)' = Stage(t)
        /\ t \in Tasks /\ c \in Tasks /\ c # t /\ parent[c] = t /\ c \in TaskIds
    BY <1>15, <1>16, <1>18 DEF ProcInv, Families, Expects
  <2>2. Stage(t) = "exec_return"
    BY <1>2, <1>18, <2>1, ParkedStage
  <2>3. CASE c = o
    <3>1. /\ state[t] = "WAITING_FOR_CHILD" /\ child_pid_waiting_on[t] = o
          /\ t = p
      BY <1>1, <1>5, <2>1, <2>2, <2>3 DEF Expects
    <3>2. wake
      <4>1. dead[t] = "WAITING_FOR_CHILD" /\ t # NULL
        BY <1>10, <2>1, <3>1 DEF TaskIds, NULL
      <4> QED BY <3>1, <4>1 DEF wake
    <3>3. state'[t] = "READY" /\ child_exit_status'[t] = status
      BY <1>12, <2>1, <3>1, <3>2
    <3> QED BY <1>4, <1>12, <1>13, <1>16, <2>1, <2>2, <2>3, <3>3 DEF Expects
  <2>4. CASE c # o
    <3>1. ~(wake /\ t = p)
      <4>1. SUFFICES ASSUME wake, t = p PROVE FALSE
        OBVIOUS
      <4>2. state[t] = "WAITING_FOR_CHILD" /\ child_pid_waiting_on[t] = o
        BY <1>11, <4>1 DEF wake
      <4> QED BY <2>1, <2>2, <2>4, <4>2 DEF Expects
    <3>2. /\ state'[t] = state[t]
          /\ child_exit_status'[t] = child_exit_status[t]
          /\ child_pid_waiting_on'[t] = child_pid_waiting_on[t]
      BY <1>12, <2>1, <3>1
    <3>3. /\ exit_code'[c] = exit_code[c]
          /\ state'[c] = "TERMINATED" <=> state[c] = "TERMINATED"
      BY <1>13, <1>14, <2>1, <2>4
    <3> QED BY <1>4, <1>16, <2>1, <2>2, <3>2, <3>3 DEF Expects
  <2> QED BY <2>3, <2>4
<1>19. Families'
  BY <1>15, <1>18 DEF Families
<1>20. Phase(o) = "live" /\ \A t \in TaskIds : Awaited(t)' = Awaited(t)
  BY <1>1, <1>15 DEF Phase
<1> QED BY <1>2, <1>4, <1>14, <1>15, <1>17, <1>19, <1>20 DEF ProcInv

\* SYS_EXEC returns: the child it waited for is forgotten.
LEMMA ExecReturnKeeps ==
    ASSUME ProcInv, KernelInv', At("exec_return"), syscall_resume
    PROVE  /\ ProcInv' /\ UNCHANGED <<exit_code, program, state>>
           /\ \E o, c \in TaskIds :
                /\ o \in Tasks /\ Phase(o) = "live" /\ Awaited(o) = c /\ c # 0
                /\ Phase(c) = "exited"
                /\ eax' = [eax EXCEPT ![o] = exit_code[c]]
                /\ \A t \in TaskIds :
                     Awaited(t)' = IF t = o THEN 0 ELSE Awaited(t)
<1> USE DEF globals, family
<1>1. PICK o, c :
        /\ boot # 0 /\ AtExecuting(o) /\ cpu = <<Code(o), ActOf("exec_return", c)>>
        /\ Last(cpu).task = c /\ c \in TaskIds /\ c # 0
        /\ Awaited(o) = c /\ Stage(o) = "exec_return" /\ Expects(o, c)
        /\ Front(cpu) = <<Code(o)>>
        /\ state[o] = "RUNNING"
  BY InExec
<1>2. /\ current_task = o /\ Owner = o /\ o \in TaskIds /\ o \in Tasks
      /\ Last(cpu).pc = "exec_return"
  BY <1>1 DEF AtExecuting, At
<1>3. /\ eax' = [eax EXCEPT ![o] = child_exit_status[o]]
      /\ cpu' = <<Code(o)>>
      /\ UNCHANGED <<next_task_id, family, state, esp, exit_code, program>>
  BY <1>1, <1>2 DEF syscall_resume, At, Return
<1>4. state[c] = "TERMINATED" /\ child_exit_status[o] = exit_code[c]
  BY <1>1 DEF Expects
<1>5. /\ cpu'[1].task = o /\ AwaitedIn(cpu') = 0
  BY <1>3, OwnStack, StageOfStack
<1>6. /\ Awaited(o)' = 0
      /\ \A t : t # o => Awaited(t)' = Awaited(t) /\ Stage(t)' = Stage(t)
  BY <1>2, <1>3, <1>5, SameOwner, ContextInNext
<1>7. Tasks' = Tasks
  BY <1>3 DEF Tasks
<1>8. Fresh'
  BY <1>3, <1>7 DEF ProcInv, Fresh
<1>9. ASSUME NEW t \in TaskIds, Awaited(t)' # 0 PROVE Expects(t, Awaited(t))'
  <2>1. PICK d : d = Awaited(t)
    OBVIOUS
  <2>2. Awaited(t)' = d /\ d # 0 /\ Stage(t)' = Stage(t) /\ Expects(t, d)
    BY <1>6, <1>9, <2>1 DEF ProcInv, Families
  <2>3. Expects(t, d)'
    BY <1>3, <1>7, <2>2 DEF Expects
  <2> QED BY <2>2, <2>3
<1>10. Families'
  BY <1>9 DEF Families
<1>11. Phase(o) = "live" /\ Phase(c) = "exited"
  BY <1>1, <1>4 DEF Phase
<1> QED BY <1>1, <1>2, <1>3, <1>4, <1>6, <1>8, <1>10, <1>11 DEF ProcInv

\* A task is created: by kmain, or by SYS_EXEC, which waits for it from here.
LEMMA LinkKeeps ==
    ASSUME ProcInv, KernelInv', boot # 0, NEW prog, NEW par, LinkTask(prog, par),
           UNCHANGED <<child_pid_waiting_on, child_exit_status, exit_code>>,
           NEW o \in Tasks, Owner = o, state[o] = "RUNNING", Awaited(o) = 0,
           \/ cpu' = cpu
           \/ par = o /\ cpu' = <<Code(o), ActOf("exec_block", next_task_id)>>
    PROVE  /\ ProcInv'
           /\ \E c \in TaskIds :
                /\ c = next_task_id /\ c # o /\ Phase(c) = "none"
                /\ \A t \in TaskIds :
                     /\ Phase(t)' = IF t = c THEN "live" ELSE Phase(t)
                     /\ Awaited(t)' = IF cpu' # cpu /\ t = o THEN c ELSE Awaited(t)
<1>1. PICK c : c = next_task_id
  OBVIOUS
<1>2. /\ c \in TaskIds /\ next_task_id' = c + 1
      /\ state' = [state EXCEPT ![c] = "READY"]
      /\ parent' = [parent EXCEPT ![c] = par]
      /\ esp' = [esp EXCEPT ![c] = <<Code(c)>>]
  BY <1>1 DEF LinkTask
<1>3. /\ state \in [TaskIds -> TaskStates] /\ parent \in [TaskIds -> 0..MaxTasks]
      /\ esp \in [TaskIds -> Seq(Activations)] /\ c \in Nat /\ c > 0
      /\ KernelInv
  <2>1. c \in Nat /\ c > 0
    BY <1>2 DEF TaskIds
  <2> QED BY <2>1 DEF ProcInv, KernelInv, TypeOK
<1>4. /\ Tasks' = Tasks \cup {c} /\ c \notin Tasks /\ Tasks \subseteq TaskIds
  <2>1. Tasks = 1..(c - 1) /\ Tasks' = 1..((c + 1) - 1) /\ c > 0
    BY <1>1, <1>2, <1>3 DEF Tasks, TaskIds
  <2>2. Tasks' = Tasks \cup {c} /\ c \notin Tasks
    BY <1>3, <2>1
  <2> QED BY <1>3, <2>2, TaskSet
<1>5. /\ \A t \in TaskIds : t # c => /\ state'[t] = state[t]
                                     /\ parent'[t] = parent[t]
                                     /\ esp'[t] = esp[t]
      /\ state'[c] = "READY" /\ parent'[c] = par /\ esp'[c] = <<Code(c)>>
  BY <1>2, <1>3
<1>6. state[c] = "unused" /\ c # o
  BY <1>2, <1>3, <1>4 DEF KernelInv, ContextsOK, AfterTasking
<1>7. Fresh'
  BY <1>4, <1>5 DEF ProcInv, Fresh
<1>8. Owner' = o
  BY OwnStack DEF Owner
<1>9. /\ Awaited(c) = 0 /\ Awaited(c)' = 0
  <2>1. Context(c)' = <<Code(c)>>
    BY <1>5, <1>6, <1>8 DEF Context
  <2> QED BY <1>2, <1>4, <2>1, FreshAwaits, StageOfStack, ContextInNext
<1>10. \A t \in TaskIds : t # c /\ t # o =>
                            Awaited(t)' = Awaited(t) /\ Stage(t)' = Stage(t)
  <2>1. ASSUME NEW t \in TaskIds, t # c, t # o PROVE Context(t)' = Context(t)
    BY <1>5, <1>8, <2>1 DEF Context
  <2> QED BY <2>1, ContextIn, ContextInNext
<1>11. Context(o)' = cpu' /\ Context(o) = cpu
  BY <1>8 DEF Context
<1>12. \/ cpu' = cpu /\ Awaited(o)' = 0
       \/ /\ cpu' # cpu /\ Awaited(o)' = c /\ Stage(o)' = "exec_block"
          /\ par = o
  <2>1. CASE cpu' = cpu
    BY <1>11, <2>1, ContextIn, ContextInNext
  <2>2. CASE cpu' # cpu
    <3>1. PICK a, b : a = Code(o) /\ b = ActOf("exec_block", c)
      OBVIOUS
    <3>2. b.pc = "exec_block" /\ b.task = c /\ "exec_block" \in ExecPCs
      BY <3>1, StageFields
    <3>3. AwaitedIn(<<a, b>>) = c /\ StageIn(<<a, b>>) = "exec_block"
      BY <3>2, StageOfStack
    <3>4. cpu' = <<a, b>> /\ par = o
      BY <1>1, <2>2, <3>1
    <3> QED BY <1>11, <2>2, <3>3, <3>4, ContextInNext
  <2> QED BY <2>1, <2>2
<1>13. ASSUME NEW t \in TaskIds, Awaited(t)' # 0 PROVE Expects(t, Awaited(t))'
  <2>1. PICK d : d = Awaited(t)'
    OBVIOUS
  <2>2. t # c /\ c # 0
    BY <1>3, <1>9, <1>13
  <2>3. CASE t = o
    <3>1. d = c /\ Stage(t)' = "exec_block" /\ par = o
      BY <1>12, <1>13, <2>1, <2>3
    <3>2. t \in Tasks' /\ c \in Tasks' /\ parent'[c] = t /\ state'[c] # "TERMINATED"
      BY <1>4, <1>5, <2>3, <3>1
    <3> QED BY <1>6, <2>1, <2>3, <3>1, <3>2 DEF Expects
  <2>4. CASE t # o
    <3>1. Awaited(t) = d /\ d # 0 /\ Stage(t)' = Stage(t) /\ Expects(t, d)
      BY <1>10, <1>13, <2>1, <2>2, <2>4 DEF ProcInv, Families
    <3>2. t \in Tasks /\ d \in Tasks /\ d \in TaskIds /\ d # c
      BY <1>4, <3>1 DEF Expects
    <3>3. /\ state'[t] = state[t] /\ state'[d] = state[d]
          /\ parent'[d] = parent[d] /\ t \in Tasks' /\ d \in Tasks'
      BY <1>4, <1>5, <2>2, <3>2
    <3>4. Expects(t, d)'
      BY <3>1, <3>3 DEF Expects
    <3> QED BY <2>1, <3>4
  <2> QED BY <2>3, <2>4
<1>14. ProcInv'
  BY <1>7, <1>13 DEF ProcInv, Families
<1>15. \A t \in TaskIds : /\ Phase(t)' = IF t = c THEN "live" ELSE Phase(t)
                          /\ Phase(c) = "none"
  BY <1>5, <1>6 DEF Phase
<1>16. \A t \in TaskIds :
         Awaited(t)' = IF cpu' # cpu /\ t = o THEN c ELSE Awaited(t)
  BY <1>6, <1>9, <1>10, <1>12
<1> QED BY <1>1, <1>2, <1>6, <1>14, <1>15, <1>16

-----------------------------------------------------------------------------
(***************************************************************************)
(* The steps of Processes that these are.                                  *)
(***************************************************************************)
Results == Statuses \cup LineLengths \cup {Error}

LEMMA QuietMaps ==
    ASSUME Quiet, UNCHANGED eax
    PROVE  UNCHANGED P!procVars
<1>1. exit_code' = exit_code
  BY DEF Quiet
<1>2. [t \in TaskIds |-> Phase(t)]' = [t \in TaskIds |-> Phase(t)]
  BY DEF Quiet
<1>3. [t \in TaskIds |-> Awaited(t)]' = [t \in TaskIds |-> Awaited(t)]
  BY DEF Quiet
<1> QED BY <1>1, <1>2, <1>3 DEF P!procVars

LEMMA CallMaps ==
    ASSUME Quiet, NEW o \in TaskIds, NEW r \in Results, Phase(o) = "live",
           Awaited(o) = 0, eax' = [eax EXCEPT ![o] = r]
    PROVE  P!ProcNext
<1>1. P!Runnable(o)
  BY DEF P!Runnable
<1>2. [t \in TaskIds |-> Phase(t)]' = [t \in TaskIds |-> Phase(t)]
  BY DEF Quiet
<1>3. [t \in TaskIds |-> Awaited(t)]' = [t \in TaskIds |-> Awaited(t)]
  BY DEF Quiet
<1>4. P!Call(o, r)
  BY <1>1, <1>2, <1>3 DEF P!Call, Quiet
<1> QED BY <1>4 DEF P!ProcNext, Results

LEMMA SpawnMaps ==
    ASSUME NEW c \in TaskIds, Phase(c) = "none", UNCHANGED <<eax, exit_code>>,
           \A t \in TaskIds : /\ Phase(t)' = IF t = c THEN "live" ELSE Phase(t)
                              /\ Awaited(t)' = Awaited(t)
    PROVE  P!ProcNext
<1>1. [t \in TaskIds |-> Phase(t)]'
        = [[t \in TaskIds |-> Phase(t)] EXCEPT ![c] = "live"]
  OBVIOUS
<1>2. [t \in TaskIds |-> Awaited(t)]' = [t \in TaskIds |-> Awaited(t)]
  OBVIOUS
<1>3. P!Spawn(c)
  BY <1>1, <1>2 DEF P!Spawn
<1> QED BY <1>3 DEF P!ProcNext

LEMMA ExecMaps ==
    ASSUME NEW o \in TaskIds, NEW c \in TaskIds, Phase(c) = "none",
           Phase(o) = "live", Awaited(o) = 0, UNCHANGED <<eax, exit_code>>,
           \A t \in TaskIds :
             /\ Phase(t)' = IF t = c THEN "live" ELSE Phase(t)
             /\ Awaited(t)' = IF t = o THEN c ELSE Awaited(t)
    PROVE  P!ProcNext
<1>1. P!Runnable(o)
  BY DEF P!Runnable
<1>2. [t \in TaskIds |-> Phase(t)]'
        = [[t \in TaskIds |-> Phase(t)] EXCEPT ![c] = "live"]
  OBVIOUS
<1>3. [t \in TaskIds |-> Awaited(t)]'
        = [[t \in TaskIds |-> Awaited(t)] EXCEPT ![o] = c]
  OBVIOUS
<1>4. P!Exec(o, c)
  BY <1>1, <1>2, <1>3 DEF P!Exec
<1> QED BY <1>4 DEF P!ProcNext

LEMMA ExitMaps ==
    ASSUME NEW o \in TaskIds, NEW status \in ExitCodes, Phase(o) = "live",
           Awaited(o) = 0, UNCHANGED eax,
           exit_code' = [exit_code EXCEPT ![o] = status],
           \A t \in TaskIds :
             /\ Phase(t)' = IF t = o THEN "exited" ELSE Phase(t)
             /\ Awaited(t)' = Awaited(t)
    PROVE  P!ProcNext
<1>1. P!Runnable(o)
  BY DEF P!Runnable
<1>2. [t \in TaskIds |-> Phase(t)]'
        = [[t \in TaskIds |-> Phase(t)] EXCEPT ![o] = "exited"]
  OBVIOUS
<1>3. [t \in TaskIds |-> Awaited(t)]' = [t \in TaskIds |-> Awaited(t)]
  OBVIOUS
<1>4. P!Exit(o, status)
  BY <1>1, <1>2, <1>3 DEF P!Exit
<1> QED BY <1>4 DEF P!ProcNext, Statuses

LEMMA ExecReturnMaps ==
    ASSUME NEW o \in TaskIds, NEW c \in TaskIds, c # 0, Phase(o) = "live",
           Awaited(o) = c, Phase(c) = "exited", UNCHANGED exit_code,
           eax' = [eax EXCEPT ![o] = exit_code[c]],
           \A t \in TaskIds :
             /\ Phase(t)' = Phase(t)
             /\ Awaited(t)' = IF t = o THEN 0 ELSE Awaited(t)
    PROVE  P!ProcNext
<1>1. [t \in TaskIds |-> Phase(t)]' = [t \in TaskIds |-> Phase(t)]
  OBVIOUS
<1>2. [t \in TaskIds |-> Awaited(t)]'
        = [[t \in TaskIds |-> Awaited(t)] EXCEPT ![o] = 0]
  OBVIOUS
<1>3. P!ExecReturn(o)
  BY <1>1, <1>2 DEF P!ExecReturn
<1> QED BY <1>3 DEF P!ProcNext

-----------------------------------------------------------------------------
(***************************************************************************)
(* Each action keeps the invariant, and is a step of Processes or none.    *)
(***************************************************************************)
Maps == P!ProcNext \/ UNCHANGED P!procVars

LEMMA InitKeeps == Init => ProcInv /\ P!ProcInit
<1> SUFFICES ASSUME Init PROVE ProcInv /\ P!ProcInit
  OBVIOUS
<1>1. KernelInv /\ boot = 0
  BY InitInv DEF Init
<1>2. ASSUME NEW t \in TaskIds PROVE Awaited(t) = 0 /\ Phase(t) = "none"
  <2>1. Context(t) = <<Code(1)>> \/ Context(t) = <<>>
    BY DEF Init, Context
  <2>2. AwaitedIn(Context(t)) = 0
    BY <2>1, StageOfStack
  <2> QED BY <2>2, ContextIn DEF Phase, Init
<1>3. Fresh /\ Families
  BY <1>2 DEF Fresh, Families, Init
<1>4. P!ProcInit
  <2>1. [t \in TaskIds |-> Phase(t)] = [t \in TaskIds |-> "none"]
    BY <1>2
  <2>2. [t \in TaskIds |-> Awaited(t)] = [t \in TaskIds |-> 0]
    BY <1>2
  <2> QED BY <2>1, <2>2 DEF P!ProcInit, Init
<1> QED BY <1>1, <1>3, <1>4 DEF ProcInv

LEMMA TaskingKeeps ==
    ASSUME ProcInv, KernelInv', tasking_init
    PROVE  ProcInv' /\ Maps
<1>1. KernelInv /\ boot = 0 /\ boot' = 1
  BY DEF ProcInv, tasking_init
<1>2. /\ 1 \in TaskIds /\ state' = [state EXCEPT ![1] = "RUNNING"]
      /\ next_task_id = 1 /\ next_task_id' = 2
      /\ UNCHANGED <<esp, cpu, eax, exit_code>>
      /\ \A t \in TaskIds : state[t] = "unused"
      /\ state \in [TaskIds -> TaskStates]
  BY <1>1, MaxTasksAssumption, LaunchAssumption
     DEF tasking_init, KernelInv, TypeOK, ContextsOK, BeforeTasking, TaskIds, user
<1>3. cpu = <<Code(1)>>
  BY <1>1, BeforeTaskingAt DEF tasking_init, InKmain, At
<1>4. \A t \in TaskIds \ Tasks : esp[t] = <<>>
  BY DEF ProcInv, Fresh
<1>5. \A t \in TaskIds : t \notin Tasks
  BY <1>2 DEF Tasks, TaskIds
<1>6. Owner = 1 /\ Owner' = 1
  BY <1>2, <1>3, OwnStack DEF Owner
<1>7. ASSUME NEW t \in TaskIds PROVE Awaited(t) = 0 /\ Awaited(t)' = 0
  <2>1. Context(t) = <<Code(1)>> \/ Context(t) = <<>>
    BY <1>3, <1>4, <1>5 DEF Context
  <2>2. Context(t)' = Context(t)
    BY <1>2, <1>6 DEF Context
  <2>3. AwaitedIn(Context(t)) = 0
    BY <2>1, StageOfStack
  <2> QED BY <2>2, <2>3, ContextIn, ContextInNext
<1>8. Fresh' /\ Families'
  BY <1>2, <1>4, <1>5, <1>7 DEF Fresh, Families
<1>9. \A t \in TaskIds : /\ Phase(t)' = IF t = 1 THEN "live" ELSE Phase(t)
                         /\ Phase(1) = "none"
                         /\ Awaited(t)' = Awaited(t)
  BY <1>2, <1>7 DEF Phase
<1> QED BY <1>2, <1>8, <1>9, SpawnMaps DEF ProcInv, Maps

LEMMA LaunchKeeps ==
    ASSUME ProcInv, KernelInv', create_task \/ launch_shell
    PROVE  ProcInv' /\ Maps
<1>1. /\ InKmain /\ boot \in 1..Len(Launch)
      /\ \/ LinkTask("worker", NULL)
         \/ LinkTask("shell", current_task)
      /\ UNCHANGED <<child_pid_waiting_on, child_exit_status, cpu, eax, exit_code>>
  BY DEF create_task, launch_shell
<1>2. boot # 0 /\ KernelInv
  BY <1>1, LaunchAssumption DEF ProcInv
<1>3. Last(cpu).pc = "code" /\ "code" \notin SchedulePCs
  BY <1>1 DEF InKmain, At, SchedulePCs
<1>4. PICK o : AtExecuting(o)
  BY <1>2, <1>3, ExecutingStart
<1>5. o \in Tasks /\ Owner = o /\ cpu = <<Code(o)>> /\ state[o] = "RUNNING"
  BY <1>3, <1>4, ExecutingAt DEF AtExecuting
<1>6. Awaited(o) = 0
  BY <1>5, ContextIn, StageOfStack DEF Context
<1>7. PICK prog, par : LinkTask(prog, par)
  BY <1>1
<1>8. /\ ProcInv'
      /\ \E c \in TaskIds :
           /\ Phase(c) = "none"
           /\ \A t \in TaskIds :
                /\ Phase(t)' = IF t = c THEN "live" ELSE Phase(t)
                /\ Awaited(t)' = IF cpu' # cpu /\ t = o THEN c ELSE Awaited(t)
  BY <1>1, <1>2, <1>5, <1>6, <1>7, LinkKeeps
<1>9. \E c \in TaskIds :
           /\ Phase(c) = "none"
           /\ \A t \in TaskIds :
                /\ Phase(t)' = IF t = c THEN "live" ELSE Phase(t)
                /\ Awaited(t)' = Awaited(t)
  BY <1>1, <1>8
<1> QED BY <1>1, <1>8, <1>9, SpawnMaps DEF Maps

LEMMA ExecKeeps ==
    ASSUME ProcInv, KernelInv', NEW path \in Paths, sys_exec(path)
    PROVE  ProcInv' /\ Maps
<1>1. PICK o : /\ AtExecuting(o) /\ o # 1 /\ cpu = <<Code(o)>>
               /\ state[o] = "RUNNING" /\ in_service /\ boot # 0
  BY SyscallStart DEF sys_exec, ProcInv
<1>2. /\ o \in Tasks /\ o \in TaskIds /\ current_task = o /\ Owner = o
      /\ UNCHANGED <<child_pid_waiting_on, child_exit_status, eax, exit_code>>
  BY <1>1 DEF sys_exec, AtExecuting
<1>3. Awaited(o) = 0 /\ Phase(o) = "live"
  BY <1>1, <1>2, ContextIn, StageOfStack DEF Context, Phase
<1>4. CASE /\ LinkTask(Image[path], current_task)
           /\ cpu' = Append(cpu, ActOf("exec_block", next_task_id))
  <2>1. PICK prog : LinkTask(prog, o)
    BY <1>2, <1>4
  <2>2. cpu' = <<Code(o), ActOf("exec_block", next_task_id)>>
    BY <1>1, <1>4, StackOps
  <2>3. cpu' # cpu
    <3>1. PICK a, b : a = Code(o) /\ b = ActOf("exec_block", next_task_id)
      OBVIOUS
    <3>2. <<a, b>> # <<a>>
      OBVIOUS
    <3> QED BY <1>1, <2>2, <3>1, <3>2
  <2>4. /\ ProcInv'
        /\ \E c \in TaskIds :
             /\ Phase(c) = "none"
             /\ \A t \in TaskIds :
                  /\ Phase(t)' = IF t = c THEN "live" ELSE Phase(t)
                  /\ Awaited(t)' = IF cpu' # cpu /\ t = o THEN c ELSE Awaited(t)
    BY <1>1, <1>2, <1>3, <2>1, <2>2, LinkKeeps
  <2>5. \E c \in TaskIds :
             /\ Phase(c) = "none"
             /\ \A t \in TaskIds :
                  /\ Phase(t)' = IF t = c THEN "live" ELSE Phase(t)
                  /\ Awaited(t)' = IF t = o THEN c ELSE Awaited(t)
    BY <2>3, <2>4
  <2> QED BY <1>2, <1>3, <2>4, <2>5, ExecMaps DEF Maps
<1>5. CASE /\ cpu' = Append(cpu, Act("exec_failed"))
           /\ UNCHANGED <<next_task_id, state, parent, program, esp, next>>
  <2>1. Quiet
    BY <1>2, <1>5, RefusedQuiet DEF sys_exec, family, ProcInv
  <2> QED BY <1>2, <2>1, QuietKeeps, QuietMaps DEF Maps
<1> QED BY <1>4, <1>5 DEF sys_exec

\* A system call that returns without a child.
LEMMA ReturnKeeps ==
    ASSUME ProcInv, KernelInv', sys_exec_failed \/ syscall_resume,
           ~At("exec_return")
    PROVE  ProcInv' /\ Maps
<1> DEFINE pcs == {"exec_failed", "gets_return", "exit_return"}
<1>1. PICK pc \in pcs :
        /\ At(pc) /\ Return
        /\ eax' = IF pc = "exec_failed" THEN [eax EXCEPT ![Owner] = Error]
                  ELSE IF pc = "gets_return"
                         THEN [eax EXCEPT ![Owner] = syscall_retval[current_task]]
                  ELSE eax
        /\ UNCHANGED <<next_task_id, state, family, exit_code, esp>>
  BY DEF sys_exec_failed, syscall_resume, globals, At
<1>2. KernelInv /\ Quiet
  BY <1>1, ReturnQuiet DEF ProcInv
<1>3. PICK o : /\ AtExecuting(o) /\ pc # "exit_return" /\ state[o] = "RUNNING"
               /\ Last(cpu).pc = pc
  BY <1>1, <1>2, AboveCode DEF ExecPCs
<1>4. o \in TaskIds /\ Owner = o /\ current_task = o
  BY <1>3 DEF AtExecuting
<1>5. Awaited(o) = 0
  <2>1. cpu = <<Code(o), Act("gets_return")>> \/ cpu = <<Code(o), Act("exec_failed")>>
    BY <1>1, <1>2, <1>3, ExecutingAt DEF AtExecuting
  <2>2. ASSUME NEW a, NEW b, b.task = 0 PROVE AwaitedIn(<<a, b>>) = 0
    BY <2>2, StageOfStack
  <2>3. AwaitedIn(cpu) = 0
    BY <2>1, <2>2, StageFields
  <2> QED BY <1>4, <2>3, ContextIn DEF Context
<1>6. Phase(o) = "live"
  BY <1>3 DEF Phase
<1>7. syscall_retval[o] \in Results /\ Error \in Results
  BY <1>2, <1>4 DEF KernelInv, TypeOK, Results, Statuses
<1>8. \E r \in Results : eax' = [eax EXCEPT ![o] = r]
  BY <1>1, <1>3, <1>4, <1>7
<1>9. P!ProcNext
  BY <1>2, <1>4, <1>5, <1>6, <1>8, CallMaps
<1> QED BY <1>2, <1>9, QuietKeeps DEF Maps

LEMMA SimpleKeeps ==
    ASSUME ProcInv, KernelInv', NEW call, NEW r \in {0, Error}, sys_simple(call, r)
    PROVE  ProcInv' /\ Maps
<1>1. Quiet /\ KernelInv
  BY CodeQuiet DEF ProcInv
<1>2. PICK o : /\ AtExecuting(o) /\ cpu = <<Code(o)>> /\ state[o] = "RUNNING"
  BY <1>1, SyscallStart DEF sys_simple
<1>3. o \in TaskIds /\ Owner = o
  BY <1>2 DEF AtExecuting
<1>4. Awaited(o) = 0 /\ Phase(o) = "live"
  BY <1>2, <1>3, ContextIn, StageOfStack DEF Context, Phase
<1>5. r \in Results /\ eax' = [eax EXCEPT ![o] = r]
  BY <1>3 DEF sys_simple, Results, Statuses
<1>6. P!ProcNext
  BY <1>1, <1>3, <1>4, <1>5, CallMaps
<1> QED BY <1>1, <1>6, QuietKeeps DEF Maps

LEMMA ScheduleKeeps ==
    ASSUME ProcInv, KernelInv', Schedule
    PROVE  ProcInv' /\ Maps
<1>1. Quiet /\ UNCHANGED eax
  <2>1. KernelInv /\ ~halted'
    BY DEF ProcInv, KernelInv, ContextsOK, NeverHalted
  <2>2. CASE boot = 0
    <3>1. schedule_entry
      BY <2>1, <2>2, BootStops DEF Schedule
    <3> QED BY <2>1, <2>2, <3>1, BootQuiet
  <2>3. CASE boot # 0
    BY <2>1, <2>3, ScheduleQuiet, SwitchQuiet DEF Schedule
  <2> QED BY <2>2, <2>3
<1> QED BY <1>1, QuietKeeps, QuietMaps DEF Maps

LEMMA InterruptKeeps ==
    ASSUME ProcInv, KernelInv', irq0 \/ irq0_eoi \/ Keyboard
    PROVE  ProcInv' /\ Maps
<1>1. Quiet /\ UNCHANGED eax
  <2>1. KernelInv
    BY DEF ProcInv
  <2>2. CASE irq0 \/ irq0_eoi
    BY <2>1, <2>2, BootQuiet, TickQuiet
  <2>3. CASE Keyboard
    BY <2>1, <2>3, KeyQuiet DEF Keyboard
  <2> QED BY <2>2, <2>3
<1> QED BY <1>1, QuietKeeps, QuietMaps DEF Maps

LEMMA ExecStageKeeps ==
    ASSUME ProcInv, KernelInv', sys_exec_block \/ sys_exec_note \/ sys_exec_call
    PROVE  ProcInv' /\ Maps
<1>1. /\ ProcInv' /\ UNCHANGED <<eax, exit_code>>
      /\ \A t \in TaskIds : Awaited(t)' = Awaited(t) /\ Phase(t)' = Phase(t)
  BY ExecGoesOn
<1>2. [t \in TaskIds |-> Phase(t)]' = [t \in TaskIds |-> Phase(t)]
  BY <1>1
<1>3. [t \in TaskIds |-> Awaited(t)]' = [t \in TaskIds |-> Awaited(t)]
  BY <1>1
<1> QED BY <1>1, <1>2, <1>3 DEF Maps, P!procVars

LEMMA ExitStepKeeps ==
    ASSUME ProcInv, KernelInv', Exit
    PROVE  ProcInv' /\ Maps
<1>1. PICK status \in ExitCodes : sys_exit(status)
  BY DEF Exit
<1>2. /\ ProcInv' /\ UNCHANGED eax
      /\ \E o \in TaskIds :
           /\ Awaited(o) = 0 /\ Phase(o) = "live"
           /\ exit_code' = [exit_code EXCEPT ![o] = status]
           /\ \A t \in TaskIds :
                /\ Phase(t)' = IF t = o THEN "exited" ELSE Phase(t)
                /\ Awaited(t)' = Awaited(t)
  BY <1>1, ExitKeeps
<1> QED BY <1>2, ExitMaps DEF Maps

LEMMA GetsKeeps ==
    ASSUME ProcInv, KernelInv', sys_gets
    PROVE  ProcInv' /\ Maps
<1>1. Quiet /\ UNCHANGED eax
  BY GetsQuiet DEF ProcInv
<1> QED BY <1>1, QuietKeeps, QuietMaps DEF Maps

LEMMA WorkerKeeps ==
    ASSUME ProcInv, KernelInv', kernel_worker_task_main
    PROVE  ProcInv' /\ Maps
<1>1. Quiet /\ UNCHANGED eax
  BY CodeQuiet DEF ProcInv, kernel_worker_task_main, user
<1> QED BY <1>1, QuietKeeps, QuietMaps DEF Maps

LEMMA NextKeeps == ProcInv /\ Next => ProcInv' /\ Maps
<1> SUFFICES ASSUME ProcInv, Next PROVE ProcInv' /\ Maps
  OBVIOUS
<1>1. KernelInv'
  BY NextInv DEF ProcInv
<1>2. CASE Kmain
  BY <1>1, <1>2, TaskingKeeps, LaunchKeeps DEF Kmain
<1>3. CASE Schedule
  BY <1>1, <1>3, ScheduleKeeps
<1>4. CASE At("exec_return") /\ syscall_resume
  <2>1. /\ ProcInv' /\ UNCHANGED <<exit_code, state>>
        /\ \E o, c \in TaskIds :
             /\ Phase(o) = "live" /\ Awaited(o) = c /\ c # 0
             /\ Phase(c) = "exited"
             /\ eax' = [eax EXCEPT ![o] = exit_code[c]]
             /\ \A t \in TaskIds :
                  Awaited(t)' = IF t = o THEN 0 ELSE Awaited(t)
    BY <1>1, <1>4, ExecReturnKeeps
  <2>2. \A t \in TaskIds : Phase(t)' = Phase(t)
    BY <2>1 DEF Phase
  <2> QED BY <2>1, <2>2, ExecReturnMaps DEF Maps
<1>5. CASE sys_exec_failed \/ (syscall_resume /\ ~At("exec_return"))
  <2>1. ~At("exec_return")
    BY <1>5 DEF sys_exec_failed, At
  <2> QED BY <1>1, <1>5, <2>1, ReturnKeeps
<1>6. CASE sys_exec_block \/ sys_exec_note \/ sys_exec_call
  BY <1>1, <1>6, ExecStageKeeps
<1>7. CASE irq0 \/ irq0_eoi \/ Keyboard
  BY <1>1, <1>7, InterruptKeeps
<1>8. CASE Syscall
  <2>1. CASE sys_putc \/ sys_gets_invalid \/ sys_exec_invalid \/ sys_unknown
    BY <1>1, <2>1, SimpleKeeps
       DEF sys_putc, sys_gets_invalid, sys_exec_invalid, sys_unknown
  <2> QED BY <1>1, <1>8, <2>1, GetsKeeps, ExitStepKeeps, ExecKeeps DEF Syscall
<1>9. CASE kernel_worker_task_main
  BY <1>1, <1>9, WorkerKeeps
<1> QED BY <1>2, <1>3, <1>4, <1>5, <1>6, <1>7, <1>8, <1>9
        DEF Next, KernelStep, Exec

LEMMA StutterKeeps ==
    ASSUME ProcInv, UNCHANGED vars
    PROVE  ProcInv' /\ Maps
<1> USE DEF vars, globals, family, keyboard, user
<1>1. KernelInv'
  BY StutterInv DEF ProcInv
<1>2. Quiet
  <2>1. \A t : Context(t)' = Context(t)
    BY DEF Context, Owner
  <2>2. \A t : Awaited(t)' = Awaited(t) /\ Stage(t)' = Stage(t)
    BY <2>1, ContextIn, ContextInNext
  <2> QED BY <2>2 DEF Quiet, Phase
<1> QED BY <1>1, <1>2, QuietKeeps, QuietMaps DEF Maps

-----------------------------------------------------------------------------
(***************************************************************************)
(* What follows.                                                           *)
(***************************************************************************)
\* The books of task.c agree with the stacks: whoever is in SYS_EXEC has a
\* child of its own, which lives or has left its status.
THEOREM ChildrenAccounted == Spec => []ProcInv
<1>1. Init => ProcInv
  BY InitKeeps
<1>2. ProcInv /\ [Next]_vars => ProcInv'
  BY NextKeeps, StutterKeeps
<1> QED BY <1>1, <1>2, PTL DEF Spec

\* No wakeup is lost in SYS_EXEC: the child that a parked task waits for is
\* its own, and still to exit.
THEOREM WaitedChildLives == Spec => []WaitedChildIsAlive
<1>1. ProcInv => WaitedChildIsAlive
  <2>1. SUFFICES ASSUME ProcInv, NEW t \in TaskIds, NEW c,
                        state[t] = "WAITING_FOR_CHILD", t # current_task,
                        c = child_pid_waiting_on[t]
                 PROVE  /\ c \in TaskIds /\ parent[c] = t
                        /\ state[c] \notin {"unused", "TERMINATED"}
    BY DEF WaitedChildIsAlive
  <2>2. KernelInv /\ boot # 0 /\ t \in Tasks
    BY <2>1 DEF ProcInv, KernelInv, ContextsOK, BeforeTasking, AfterTasking
  <2>3. Awaited(t) # 0 /\ Stage(t) = "exec_return"
    BY <2>1, <2>2, WaitingStage
  <2>4. PICK d : d = Awaited(t)
    OBVIOUS
  <2>5. Expects(t, d)
    BY <2>1, <2>3, <2>4 DEF ProcInv, Families
  <2>6. d = c /\ c \in Tasks /\ parent[c] = t /\ state[c] # "TERMINATED"
    BY <2>1, <2>3, <2>5 DEF Expects
  <2> QED BY <2>2, <2>6, LiveTasks, TaskSet
<1> QED BY <1>1, ChildrenAccounted, PTL

\* SYS_EXEC returns the status of the child it started, which has exited.
THEOREM ExecHasStatus == Spec => []ExecReturnsStatus
<1>1. ProcInv => ExecReturnsStatus
  <2>1. SUFFICES ASSUME ProcInv, At("exec_return"), NEW c, c = Last(cpu).task
                 PROVE  /\ state[c] = "TERMINATED" /\ parent[c] = Owner
                        /\ child_exit_status[current_task] = exit_code[c]
    BY DEF ExecReturnsStatus
  <2>2. PICK o : /\ AtExecuting(o) /\ Stage(o) = "exec_return"
                 /\ Expects(o, c) /\ state[o] = "RUNNING"
    BY <2>1, InExec
  <2>3. Owner = o /\ current_task = o
    BY <2>2 DEF AtExecuting
  <2> QED BY <2>2, <2>3 DEF Expects
<1> QED BY <1>1, ChildrenAccounted, PTL

\* SYS_EXEC is a blocking spawn: whatever ticks, keys and switches do between
\* its steps, every behaviour of the kernel is one of Processes.
THEOREM BlockingSpawn == Spec => ImplementsProcesses
<1>1. Init => P!ProcInit
  BY InitKeeps
<1>2. ProcInv /\ [Next]_vars => [P!ProcNext]_(P!procVars)
  BY NextKeeps, StutterKeeps DEF Maps
<1> QED BY <1>1, <1>2, ChildrenAccounted, PTL
        DEF Spec, ImplementsProcesses, P!ProcSpec
=============================================================================
