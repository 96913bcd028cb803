---------------------------- MODULE ReaderProofs ----------------------------
(***************************************************************************)
(* keyboard.c has room for one task that sleeps in SYS_GETS, and turns a   *)
(* second one away without a word.  A second one never comes, because kmain *)
(* launches one shell, and a program that starts another does nothing until *)
(* that one exits.                                                         *)
(***************************************************************************)
EXTENDS ProcessesProofs

\* kmain's one call of create_user_process for the shell (kernel.c:137, in a
\* comment today); the worker of create_task makes no system call.
LaunchedOnce ==
    \A i, j \in DOMAIN Launch : Launch[i] = "shell" /\ Launch[j] = "shell" => i = j

\* A user task with nothing to wait for in SYS_EXEC.
Active(t) ==
    /\ t \in Tasks /\ program[t] \in UserPrograms /\ Phase(t) # "exited"
    /\ Awaited(t) # 0 => Phase(Awaited(t)) = "exited"

OneActive == \A s, t \in TaskIds : Active(s) /\ Active(t) => s = t

\* Until kmain launches the shell no user task is there.
NoneBefore ==
    \A i \in DOMAIN Launch :
      Launch[i] = "shell" /\ boot <= i => \A t \in Tasks : program[t] \notin UserPrograms

Readers ==
    \A t \in TaskIds :
      state[t] = "WAITING_FOR_KEYBOARD" => program[t] \in UserPrograms

ReaderInv ==
    ProcInv /\ OneActive /\ NoneBefore /\ Readers /\ ReaderIsRegistered

-----------------------------------------------------------------------------
(***************************************************************************)
(* Steps that leave alone who is active.                                   *)
(***************************************************************************)
LEMMA SameActive ==
    ASSUME ProcInv, UNCHANGED <<next_task_id, program>>,
           \A t \in TaskIds : Awaited(t)' = Awaited(t) /\ Phase(t)' = Phase(t)
    PROVE  \A t \in TaskIds : Active(t)' <=> Active(t)
<1>1. SUFFICES ASSUME NEW t \in TaskIds PROVE Active(t)' <=> Active(t)
  OBVIOUS
<1>2. PICK c : c = Awaited(t)
  OBVIOUS
<1>3. Tasks' = Tasks /\ Tasks \subseteq TaskIds
  BY TaskSet DEF Tasks, ProcInv
<1>4. c # 0 => c \in TaskIds
  BY <1>2, <1>3 DEF ProcInv, Families, Expects
<1>5. Awaited(t)' = c /\ (c # 0 => Phase(c)' = Phase(c))
  BY <1>2, <1>4
<1> QED BY <1>2, <1>3, <1>5 DEF Active

LEMMA CalmKeeps ==
    ASSUME ReaderInv, ProcInv', UNCHANGED <<next_task_id, program, boot>>,
           \A t \in TaskIds : Active(t)' => Active(t),
           Readers', ReaderIsRegistered'
    PROVE  ReaderInv'
<1>1. OneActive'
  BY DEF ReaderInv, OneActive
<1>2. NoneBefore'
  BY DEF ReaderInv, NoneBefore, Tasks
<1> QED BY <1>1, <1>2 DEF ReaderInv

\* No task begins to wait for the keyboard.
LEMMA NoReader ==
    ASSUME ReaderInv, UNCHANGED task_waiting_for_input,
           \A t \in TaskIds : state'[t] = "WAITING_FOR_KEYBOARD" =>
                                /\ state[t] = "WAITING_FOR_KEYBOARD"
                                /\ program'[t] = program[t]
    PROVE  Readers' /\ ReaderIsRegistered'
BY DEF ReaderInv, Readers, ReaderIsRegistered

LEMMA QuietActive ==
    ASSUME ReaderInv, ProcInv', Quiet, UNCHANGED <<program, boot>>,
           Readers', ReaderIsRegistered'
    PROVE  ReaderInv'
<1>1. \A t \in TaskIds : Active(t)' <=> Active(t)
  BY SameActive DEF ReaderInv, Quiet
<1> QED BY <1>1, CalmKeeps DEF Quiet

\* One task changes its state, not to wait for the keyboard, or none does.
LEMMA StateNoReader ==
    ASSUME ReaderInv, UNCHANGED <<task_waiting_for_input, program>>,
           state' = state \/ \E u, st : /\ st # "WAITING_FOR_KEYBOARD"
                                        /\ state' = [state EXCEPT ![u] = st]
    PROVE  Readers' /\ ReaderIsRegistered'
<1>1. state \in [TaskIds -> TaskStates]
  BY DEF ReaderInv, ProcInv, KernelInv, TypeOK
<1> QED BY <1>1, NoReader

LEMMA ScheduleReaders ==
    ASSUME ReaderInv, ProcInv', Schedule
    PROVE  ReaderInv'
<1>1. KernelInv /\ ~halted' /\ ProcInv
  BY DEF ReaderInv, ProcInv, KernelInv, ContextsOK, NeverHalted
<1>2. Quiet
  <2>1. CASE boot = 0
    <3>1. schedule_entry
      BY <1>1, <2>1, BootStops DEF Schedule
    <3> QED BY <1>1, <2>1, <3>1, BootQuiet
  <2>2. CASE boot # 0
    BY <1>1, <2>2, ScheduleQuiet, SwitchQuiet DEF Schedule
  <2> QED BY <2>1, <2>2
<1>3. /\ UNCHANGED <<program, boot, task_waiting_for_input>>
      /\ \/ state' = state
         \/ \E u, st : /\ st # "WAITING_FOR_KEYBOARD"
                       /\ state' = [state EXCEPT ![u] = st]
  BY DEF Schedule, schedule_entry, schedule_scan, schedule_yield, schedule_run,
         schedule_current, context_switch, user, keyboard
<1> QED BY <1>2, <1>3, StateNoReader, QuietActive

\* What runs to its end in one step without a word to the keyboard driver.
LEMMA PlainReaders ==
    ASSUME ReaderInv, ProcInv', Quiet,
           UNCHANGED <<program, boot, task_waiting_for_input, state>>
    PROVE  ReaderInv'
BY StateNoReader, QuietActive

-----------------------------------------------------------------------------
(***************************************************************************)
(* The keyboard.                                                           *)
(***************************************************************************)
LEMMA KeyReaders ==
    ASSUME ReaderInv, ProcInv', NEW n \in LineLengths, keyboard_handler_main(n)
    PROVE  ReaderInv'
<1>1. KernelInv /\ boot # 0 /\ Quiet
  BY BootStops, KeyQuiet DEF keyboard_handler_main, ReaderInv, ProcInv
<1>2. PICK w : w = task_waiting_for_input
  OBVIOUS
<1>3. /\ w # NULL /\ task_waiting_for_input' = NULL
      /\ state' = [state EXCEPT ![w] = "READY"]
      /\ UNCHANGED <<program, boot>>
      /\ state \in [TaskIds -> TaskStates]
  BY <1>1, <1>2 DEF keyboard_handler_main, user, KernelInv, TypeOK
<1>4. \A t \in TaskIds : state'[t] # "WAITING_FOR_KEYBOARD"
  BY <1>2, <1>3 DEF ReaderInv, ReaderIsRegistered
<1>5. Readers' /\ ReaderIsRegistered'
  BY <1>4 DEF Readers, ReaderIsRegistered
<1> QED BY <1>1, <1>3, <1>5, QuietActive

\* Whoever sleeps in SYS_GETS is active.
LEMMA ReaderActive ==
    ASSUME ReaderInv, NEW o, AtExecuting(o), NEW t \in TaskIds, t # o, boot # 0,
           state[t] = "WAITING_FOR_KEYBOARD"
    PROVE  Active(t)
<1>1. t \in Tasks
  BY DEF ReaderInv, ProcInv, KernelInv, ContextsOK, AfterTasking
<1>2. Parked(t, esp[t], "WAITING_FOR_KEYBOARD")
  BY <1>1 DEF AtExecuting
<1>3. esp[t] = <<Code(t), Act("gets_return")>>
  BY <1>2 DEF Parked
<1>4. AwaitedIn(esp[t]) = 0
  <2>1. PICK a, b : a = Code(t) /\ b = Act("gets_return")
    OBVIOUS
  <2>2. b.pc \notin ExecPCs
    BY <2>1, StageFields
  <2>3. AwaitedIn(<<a, b>>) = 0
    BY <2>2, StageOfStack
  <2> QED BY <1>3, <2>1, <2>3
<1>5. Awaited(t) = 0
  BY <1>4, ContextIn DEF Context, AtExecuting
<1> QED BY <1>1, <1>5 DEF Active, Phase, ReaderInv, Readers

\* The user task that makes a system call is active.
LEMMA CallerActive ==
    ASSUME ReaderInv, NEW call, Int80(call)
    PROVE  \E o : /\ AtExecuting(o) /\ cpu = <<Code(o)>> /\ state[o] = "RUNNING"
                  /\ boot # 0 /\ Active(o) /\ Awaited(o) = 0
<1>1. PICK o : /\ AtExecuting(o) /\ cpu = <<Code(o)>> /\ state[o] = "RUNNING"
               /\ boot # 0
  BY SyscallStart DEF ReaderInv, ProcInv
<1>2. Owner = o /\ o \in Tasks
  BY <1>1 DEF AtExecuting
<1>3. Awaited(o) = 0
  BY <1>1, <1>2, ContextIn, StageOfStack DEF Context
<1>4. Active(o)
  BY <1>1, <1>2, <1>3 DEF Active, Phase, Int80
<1> QED BY <1>1, <1>3, <1>4

LEMMA GetsReaders ==
    ASSUME ReaderInv, ProcInv', sys_gets
    PROVE  ReaderInv'
<1>1. PICK o : /\ AtExecuting(o) /\ state[o] = "RUNNING" /\ boot # 0 /\ Active(o)
  BY CallerActive DEF sys_gets
<1>2. /\ o \in TaskIds /\ current_task = o /\ KernelInv
      /\ state \in [TaskIds -> TaskStates]
  BY <1>1 DEF AtExecuting, ReaderInv, ProcInv, KernelInv, TypeOK
<1>3. /\ state' = [state EXCEPT ![o] = "WAITING_FOR_KEYBOARD"]
      /\ UNCHANGED <<program, boot>>
      /\ task_waiting_for_input # NULL =>
           task_waiting_for_input' = task_waiting_for_input
      /\ task_waiting_for_input = NULL => task_waiting_for_input' = o
  BY <1>2 DEF sys_gets, user, keyboard_prepare_for_gets
<1>4. \A t \in TaskIds : t # o => state[t] # "WAITING_FOR_KEYBOARD"
  BY <1>1, <1>2, ReaderActive DEF ReaderInv, OneActive
<1>5. task_waiting_for_input = NULL
  <2>1. SUFFICES ASSUME task_waiting_for_input # NULL PROVE FALSE
    OBVIOUS
  <2>2. PICK w : w = task_waiting_for_input
    OBVIOUS
  <2>3. w \in TaskIds /\ state[w] = "WAITING_FOR_KEYBOARD"
    BY <1>1, <1>2, <2>1, <2>2
       DEF KernelInv, TypeOK, ContextsOK, AfterTasking, TaskIds, NULL
  <2> QED BY <1>1, <1>4, <2>3
<1>6. \A t \in TaskIds : state'[t] = "WAITING_FOR_KEYBOARD" => t = o
  BY <1>2, <1>3, <1>4
<1>7. program[o] \in UserPrograms
  BY <1>1 DEF Active
<1>8. Readers' /\ ReaderIsRegistered'
  BY <1>3, <1>5, <1>6, <1>7 DEF Readers, ReaderIsRegistered
<1>9. Quiet
  BY <1>2, GetsQuiet
<1> QED BY <1>3, <1>8, <1>9, QuietActive

-----------------------------------------------------------------------------
(***************************************************************************)
(* SYS_EXEC and SYS_EXIT.                                                  *)
(***************************************************************************)
LEMMA StageReaders ==
    ASSUME ReaderInv, ProcInv', sys_exec_block \/ sys_exec_note \/ sys_exec_call
    PROVE  ReaderInv'
<1>1. ProcInv /\ KernelInv'
  BY DEF ReaderInv, ProcInv
<1>2. /\ UNCHANGED program
      /\ \A t \in TaskIds : Awaited(t)' = Awaited(t) /\ Phase(t)' = Phase(t)
  BY <1>1, ExecGoesOn
<1>3. /\ UNCHANGED <<next_task_id, boot, task_waiting_for_input>>
      /\ \/ state' = state
         \/ \E u, st : /\ st # "WAITING_FOR_KEYBOARD"
                       /\ state' = [state EXCEPT ![u] = st]
  BY DEF sys_exec_block, sys_exec_note, sys_exec_call, globals, keyboard
<1>4. \A t \in TaskIds : Active(t)' <=> Active(t)
  BY <1>1, <1>2, <1>3, SameActive
<1> QED BY <1>2, <1>3, <1>4, StateNoReader, CalmKeeps

\* The parent that waited was active already: its child has exited.
LEMMA ExecReturnReaders ==
    ASSUME ReaderInv, ProcInv', At("exec_return"), syscall_resume
    PROVE  ReaderInv'
<1>1. ProcInv /\ KernelInv'
  BY DEF ReaderInv, ProcInv
<1>2. /\ UNCHANGED <<program, state>>
      /\ \E o, c \in TaskIds :
           /\ Awaited(o) = c /\ Phase(c) = "exited"
           /\ \A t \in TaskIds : Awaited(t)' = IF t = o THEN 0 ELSE Awaited(t)
  BY <1>1, ExecReturnKeeps
<1>3. PICK o, c \in TaskIds :
           /\ Awaited(o) = c /\ Phase(c) = "exited"
           /\ \A t \in TaskIds : Awaited(t)' = IF t = o THEN 0 ELSE Awaited(t)
  BY <1>2
<1>4. /\ UNCHANGED <<next_task_id, boot, task_waiting_for_input>>
  BY DEF syscall_resume, globals, keyboard
<1>5. Tasks' = Tasks /\ Tasks \subseteq TaskIds
  BY <1>1, <1>4, TaskSet DEF Tasks, ProcInv
<1>6. ASSUME NEW t \in TaskIds, Active(t)' PROVE Active(t)
  <2>1. t \in Tasks /\ program[t] \in UserPrograms /\ Phase(t) # "exited"
    BY <1>2, <1>5, <1>6 DEF Active, Phase
  <2>2. CASE t = o
    BY <1>3, <2>1, <2>2 DEF Active
  <2>3. CASE t # o
    <3>1. PICK d : d = Awaited(t)
      OBVIOUS
    <3>2. Awaited(t)' = d
      BY <1>3, <2>3, <3>1
    <3>3. d # 0 => Phase(d)' = "exited"
      BY <1>6, <3>2 DEF Active
    <3>4. Phase(d)' = Phase(d)
      BY <1>2 DEF Phase
    <3> QED BY <2>1, <3>1, <3>3, <3>4 DEF Active
  <2> QED BY <2>2, <2>3
<1>7. Readers' /\ ReaderIsRegistered'
  BY <1>2, <1>4, StateNoReader
<1> QED BY <1>2, <1>4, <1>6, <1>7, CalmKeeps

\* The task that exits was the active one; the parent it wakes takes over.
LEMMA ExitReaders ==
    ASSUME ReaderInv, ProcInv', NEW status \in ExitCodes, sys_exit(status)
    PROVE  ReaderInv'
<1>1. ProcInv /\ KernelInv' /\ state \in [TaskIds -> TaskStates]
  BY DEF ReaderInv, ProcInv, KernelInv, TypeOK
<1>2. /\ UNCHANGED program
      /\ \A t \in TaskIds : Awaited(t)' = Awaited(t)
      /\ \E o \in TaskIds :
           /\ \A t \in TaskIds : Phase(t)' = IF t = o THEN "exited" ELSE Phase(t)
           /\ exit_code' = [exit_code EXCEPT ![o] = status]
  BY <1>1, ExitKeeps
<1>3. PICK o : /\ AtExecuting(o) /\ Active(o) /\ boot # 0
               /\ state[o] = "RUNNING"
  BY CallerActive DEF sys_exit
<1>4. /\ o \in TaskIds /\ current_task = o
      /\ UNCHANGED <<next_task_id, boot, task_waiting_for_input>>
  BY <1>3 DEF AtExecuting, sys_exit, globals, keyboard
<1>5. PICK dead, par :
        /\ dead = [state EXCEPT ![o] = "TERMINATED"]
        /\ state' = dead \/ state' = [dead EXCEPT ![par] = "READY"]
        /\ state' # dead => dead[par] = "WAITING_FOR_CHILD"
  BY <1>4 DEF sys_exit
<1>6. \A t \in TaskIds : state'[t] = "WAITING_FOR_KEYBOARD" =>
                           state[t] = "WAITING_FOR_KEYBOARD"
  BY <1>1, <1>4, <1>5
<1>7. Readers' /\ ReaderIsRegistered'
  BY <1>2, <1>4, <1>6, NoReader
<1>8. \A t \in TaskIds : Phase(t)' = IF t = o THEN "exited" ELSE Phase(t)
  <2>1. PICK p \in TaskIds :
          \A t \in TaskIds : Phase(t)' = IF t = p THEN "exited" ELSE Phase(t)
    BY <1>2
  <2>2. Phase(o)' = "exited" /\ Phase(o) # "exited"
    <3>1. dead \in [TaskIds -> TaskStates] /\ dead[o] = "TERMINATED"
      BY <1>1, <1>4, <1>5 DEF TaskStates
    <3>2. state'[o] = "TERMINATED"
      BY <1>4, <1>5, <3>1
    <3> QED BY <1>3, <3>2 DEF Phase
  <2>3. p = o
    BY <1>4, <2>1, <2>2
  <2> QED BY <2>1, <2>3
<1>9. Tasks' = Tasks /\ Tasks \subseteq TaskIds
  BY <1>1, <1>4, TaskSet DEF Tasks, ProcInv
<1>10. ASSUME NEW t \in TaskIds, Active(t)' PROVE t # o /\ Awaited(t) = o
  <2>1. t # o
    BY <1>8, <1>10 DEF Active
  <2>2. PICK d : d = Awaited(t)
    OBVIOUS
  <2>3. Awaited(t)' = d
    BY <1>2, <2>2
  <2>4. d # 0 => d \in TaskIds
    BY <1>1, <1>9, <2>2 DEF ProcInv, Families, Expects
  <2>5. d # 0 => Phase(d)' = "exited"
    BY <1>10, <2>3 DEF Active
  <2>6. CASE d # o
    <3>1. d # 0 => Phase(d) = "exited"
      BY <1>8, <2>4, <2>5, <2>6
    <3>2. Active(t)
      BY <1>2, <1>8, <1>9, <1>10, <2>1, <2>2, <3>1 DEF Active
    <3> QED BY <1>3, <1>4, <2>1, <3>2 DEF ReaderInv, OneActive
  <2> QED BY <2>1, <2>2, <2>6
<1>11. OneActive'
  <2>1. SUFFICES ASSUME NEW s \in TaskIds, NEW t \in TaskIds,
                        Active(s)', Active(t)'
                 PROVE  s = t
    BY DEF OneActive
  <2>2. Awaited(s) = o /\ Awaited(t) = o /\ o # 0
    BY <1>4, <1>10, <2>1 DEF TaskIds
  <2>3. parent[o] = s /\ parent[o] = t
    BY <1>1, <2>2 DEF ProcInv, Families, Expects
  <2> QED BY <2>3
<1>12. NoneBefore'
  BY <1>2, <1>4, <1>9 DEF ReaderInv, NoneBefore
<1> QED BY <1>7, <1>11, <1>12 DEF ReaderInv

-----------------------------------------------------------------------------
(***************************************************************************)
(* A new task.                                                             *)
(***************************************************************************)
LEMMA LinkReaders ==
    ASSUME ReaderInv, ProcInv', boot # 0, NEW prog, NEW par, LinkTask(prog, par),
           UNCHANGED <<child_pid_waiting_on, child_exit_status, exit_code,
                       task_waiting_for_input>>,
           NEW o \in Tasks, Owner = o, state[o] = "RUNNING", Awaited(o) = 0,
           \/ cpu' = cpu
           \/ par = o /\ cpu' = <<Code(o), ActOf("exec_block", next_task_id)>>,
           \* a user program comes only when no user task but o is active, and
           \* o is no longer when it waits for the new one
           prog \in UserPrograms =>
             \A t \in TaskIds : Active(t) => t = o /\ cpu' # cpu,
           NoneBefore'
    PROVE  ReaderInv'
<1>1. ProcInv /\ KernelInv' /\ KernelInv
  BY DEF ReaderInv, ProcInv
<1>2. PICK c \in TaskIds :
        /\ c = next_task_id /\ c # o /\ Phase(c) = "none"
        /\ \A t \in TaskIds :
             /\ Phase(t)' = IF t = c THEN "live" ELSE Phase(t)
             /\ Awaited(t)' = IF cpu' # cpu /\ t = o THEN c ELSE Awaited(t)
  BY <1>1, LinkKeeps
<1>3. /\ next_task_id' = c + 1 /\ state' = [state EXCEPT ![c] = "READY"]
      /\ program' = [program EXCEPT ![c] = prog]
      /\ state \in [TaskIds -> TaskStates] /\ program \in [TaskIds -> Programs]
  BY <1>1, <1>2 DEF LinkTask, KernelInv, TypeOK
<1>4. Tasks' = Tasks \cup {c} /\ c \notin Tasks /\ Tasks \subseteq TaskIds
  <2>1. Tasks = 1..(c - 1) /\ Tasks' = 1..((c + 1) - 1) /\ c > 0 /\ c \in Nat
    BY <1>2, <1>3 DEF Tasks, TaskIds
  <2>2. Tasks' = Tasks \cup {c} /\ c \notin Tasks
    BY <2>1
  <2> QED BY <1>1, <2>2, TaskSet
<1>5. Readers' /\ ReaderIsRegistered'
  <2>1. ASSUME NEW t \in TaskIds, state'[t] = "WAITING_FOR_KEYBOARD"
        PROVE  state[t] = "WAITING_FOR_KEYBOARD" /\ program'[t] = program[t]
    BY <1>2, <1>3, <2>1
  <2> QED BY <2>1, NoReader
<1>6. ASSUME NEW t \in TaskIds, t # c, Active(t)'
      PROVE  Active(t) /\ ~(t = o /\ cpu' # cpu)
  <2>1. t \in Tasks /\ program[t] \in UserPrograms /\ Phase(t) # "exited"
    BY <1>2, <1>3, <1>4, <1>6 DEF Active
  <2>2. ~(t = o /\ cpu' # cpu)
    <3>1. SUFFICES ASSUME t = o, cpu' # cpu PROVE FALSE
      OBVIOUS
    <3>2. Awaited(t)' = c /\ c # 0 /\ Phase(c)' = "live"
      BY <1>2, <3>1 DEF TaskIds
    <3> QED BY <1>6, <3>2 DEF Active
  <2>3. PICK d : d = Awaited(t)
    OBVIOUS
  <2>4. Awaited(t)' = d
    BY <1>2, <2>2, <2>3
  <2>5. d # 0 => d \in Tasks
    BY <1>1, <2>3 DEF ProcInv, Families, Expects
  <2>6. d # 0 => Phase(d)' = "exited"
    BY <1>6, <2>4 DEF Active
  <2>7. d # 0 => Phase(d) = "exited"
    BY <1>2, <1>4, <2>5, <2>6
  <2> QED BY <2>1, <2>2, <2>3, <2>7 DEF Active
<1>7. CASE prog \in UserPrograms
  <2>1. \A t \in TaskIds : Active(t)' => t = c
    BY <1>6, <1>7
  <2>2. OneActive'
    BY <2>1 DEF OneActive
  <2> QED BY <1>5, <2>2 DEF ReaderInv
<1>8. CASE prog \notin UserPrograms
  <2>1. ~Active(c)'
    BY <1>2, <1>3, <1>8 DEF Active
  <2>2. OneActive'
    BY <1>6, <2>1 DEF ReaderInv, OneActive
  <2> QED BY <1>5, <2>2 DEF ReaderInv
<1> QED BY <1>7, <1>8

LEMMA LaunchReaders ==
    ASSUME LaunchedOnce, ReaderInv, ProcInv', create_task \/ launch_shell
    PROVE  ReaderInv'
<1>1. ProcInv /\ KernelInv /\ KernelInv'
  BY DEF ReaderInv, ProcInv
<1>2. PICK prog, par :
        /\ InKmain /\ boot \in 1..Len(Launch) /\ boot' = boot + 1
        /\ LinkTask(prog, par)
        /\ prog = "worker" \/ (prog = "shell" /\ Launch[boot] = "shell")
        /\ UNCHANGED <<child_pid_waiting_on, child_exit_status, cpu, exit_code,
                       task_waiting_for_input>>
  <2>1. CASE create_task
    BY <2>1 DEF create_task, keyboard
  <2>2. CASE launch_shell
    BY <2>2 DEF launch_shell, keyboard
  <2> QED BY <2>1, <2>2
<1>3. /\ boot # 0 /\ boot \in Nat /\ boot \in DOMAIN Launch
      /\ DOMAIN Launch \subseteq Nat
  BY <1>2, LaunchAssumption
<1>4. Last(cpu).pc = "code" /\ "code" \notin SchedulePCs
  BY <1>2 DEF InKmain, At, SchedulePCs
<1>5. PICK o : AtExecuting(o)
  BY <1>1, <1>3, <1>4, ExecutingStart
<1>6. o \in Tasks /\ Owner = o /\ cpu = <<Code(o)>> /\ state[o] = "RUNNING"
  BY <1>4, <1>5, ExecutingAt DEF AtExecuting
<1>7. Awaited(o) = 0
  BY <1>6, ContextIn, StageOfStack DEF Context
<1>8. /\ "worker" \notin UserPrograms
      /\ program \in [TaskIds -> Programs] /\ next_task_id \in TaskIds
      /\ program' = [program EXCEPT ![next_task_id] = prog]
      /\ next_task_id' = next_task_id + 1
  BY <1>1, <1>2 DEF UserPrograms, KernelInv, TypeOK, LinkTask
<1>9. prog \in UserPrograms => \A t \in TaskIds : ~Active(t)
  BY <1>2, <1>3, <1>8 DEF ReaderInv, NoneBefore, Active
<1>10. NoneBefore'
  <2>1. SUFFICES ASSUME NEW i \in DOMAIN Launch, Launch[i] = "shell", boot' <= i,
                        NEW t \in Tasks'
                 PROVE  program'[t] \notin UserPrograms
    BY DEF NoneBefore
  <2>2. boot <= i /\ i # boot /\ i \in Nat
    BY <1>2, <1>3, <2>1
  <2>3. prog = "worker"
    BY <1>2, <1>3, <2>1, <2>2 DEF LaunchedOnce
  <2>4. t \in Tasks \/ t = next_task_id
    <3>1. next_task_id \in Nat
      BY <1>8 DEF TaskIds
    <3> QED BY <1>8, <2>1, <3>1 DEF Tasks
  <2>5. t \in TaskIds
    BY <1>1, <1>8, <2>4, TaskSet
  <2>6. CASE t = next_task_id
    BY <1>8, <2>3, <2>5, <2>6
  <2>7. CASE t # next_task_id
    BY <1>8, <2>1, <2>2, <2>4, <2>5, <2>7 DEF ReaderInv, NoneBefore
  <2> QED BY <2>6, <2>7
<1> QED BY <1>2, <1>3, <1>6, <1>7, <1>9, <1>10, LinkReaders

LEMMA ExecReaders ==
    ASSUME ReaderInv, ProcInv', NEW path \in Paths, sys_exec(path)
    PROVE  ReaderInv'
<1>1. PICK o : /\ AtExecuting(o) /\ cpu = <<Code(o)>> /\ state[o] = "RUNNING"
               /\ boot # 0 /\ Active(o) /\ Awaited(o) = 0
  BY CallerActive DEF sys_exec
<1>2. /\ o \in Tasks /\ o \in TaskIds /\ current_task = o /\ Owner = o
      /\ UNCHANGED <<child_pid_waiting_on, child_exit_status, exit_code, boot,
                     task_waiting_for_input>>
  BY <1>1 DEF sys_exec, AtExecuting, keyboard
<1>3. \A t \in TaskIds : Active(t) => t = o
  BY <1>1, <1>2 DEF ReaderInv, OneActive
<1>4. \A i \in DOMAIN Launch : ~(Launch[i] = "shell" /\ boot <= i)
  BY <1>1, <1>2 DEF ReaderInv, NoneBefore, Active
<1>5. NoneBefore'
  BY <1>2, <1>4 DEF NoneBefore
<1>6. CASE /\ LinkTask(Image[path], current_task)
           /\ cpu' = Append(cpu, ActOf("exec_block", next_task_id))
  <2>1. PICK prog : LinkTask(prog, o)
    BY <1>2, <1>6
  <2>2. cpu' = <<Code(o), ActOf("exec_block", next_task_id)>>
    BY <1>1, <1>6, StackOps
  <2>3. cpu' # cpu
    <3>1. PICK a, b : a = Code(o) /\ b = ActOf("exec_block", next_task_id)
      OBVIOUS
    <3>2. <<a, b>> # <<a>>
      OBVIOUS
    <3> QED BY <1>1, <2>2, <3>1, <3>2
  <2> QED BY <1>1, <1>2, <1>3, <1>5, <2>1, <2>2, <2>3, LinkReaders
<1>7. CASE /\ cpu' = Append(cpu, Act("exec_failed"))
           /\ UNCHANGED <<next_task_id, state, parent, program, esp, next>>
  <2>1. Quiet
    BY <1>2, <1>7, RefusedQuiet DEF sys_exec, family, ReaderInv, ProcInv
  <2> QED BY <1>2, <1>7, <2>1, PlainReaders
<1> QED BY <1>6, <1>7 DEF sys_exec

LEMMA InitReaders == Init => ReaderInv
<1> SUFFICES ASSUME Init PROVE ReaderInv
  OBVIOUS
<1>1. ProcInv
  BY InitKeeps
<1>2. Tasks = {}
  BY DEF Init, Tasks
<1>3. OneActive /\ NoneBefore /\ Readers /\ ReaderIsRegistered
  BY <1>2 DEF OneActive, Active, NoneBefore, Readers, ReaderIsRegistered, Init
<1> QED BY <1>1, <1>3 DEF ReaderInv

LEMMA TaskingReaders ==
    ASSUME ReaderInv, ProcInv', tasking_init
    PROVE  ReaderInv'
<1>1. KernelInv /\ boot = 0
  BY DEF ReaderInv, ProcInv, tasking_init
<1>2. /\ 1 \in TaskIds /\ state' = [state EXCEPT ![1] = "RUNNING"]
      /\ next_task_id' = 2 /\ program' = program
      /\ task_waiting_for_input' = task_waiting_for_input
      /\ program[1] = "kmain"
      /\ state \in [TaskIds -> TaskStates]
  BY <1>1, MaxTasksAssumption, LaunchAssumption
     DEF tasking_init, KernelInv, TypeOK, ContextsOK, BeforeTasking, TaskIds,
         user, keyboard
<1>3. Readers' /\ ReaderIsRegistered'
  BY <1>2, StateNoReader
<1>4. \A t \in Tasks' : t = 1
  BY <1>2 DEF Tasks
<1>5. "kmain" \notin UserPrograms
  BY DEF UserPrograms
<1>6. OneActive' /\ NoneBefore'
  BY <1>2, <1>4, <1>5 DEF OneActive, Active, NoneBefore
<1> QED BY <1>3, <1>6 DEF ReaderInv

-----------------------------------------------------------------------------
LEMMA NextReaders == LaunchedOnce /\ ReaderInv /\ ProcInv' /\ Next => ReaderInv'
<1> SUFFICES ASSUME LaunchedOnce, ReaderInv, ProcInv', Next PROVE ReaderInv'
  OBVIOUS
<1>1. KernelInv /\ ProcInv
  BY DEF ReaderInv, ProcInv
<1> DEFINE Still == UNCHANGED <<program, boot, task_waiting_for_input, state>>
<1>2. CASE Kmain
  BY <1>2, TaskingReaders, LaunchReaders DEF Kmain
<1>3. CASE Schedule
  BY <1>3, ScheduleReaders
<1>4. CASE sys_exec_block \/ sys_exec_note \/ sys_exec_call
  BY <1>4, StageReaders
<1>5. CASE syscall_resume /\ At("exec_return")
  BY <1>5, ExecReturnReaders
<1>6. CASE sys_exec_failed \/ (syscall_resume /\ ~At("exec_return"))
  <2>1. PICK pc \in {"exec_failed", "gets_return", "exit_return"} :
          /\ At(pc) /\ Return
          /\ UNCHANGED <<next_task_id, state, family, exit_code, esp>>
    BY <1>6 DEF sys_exec_failed, syscall_resume, globals, At
  <2>2. Quiet
    BY <1>1, <2>1, ReturnQuiet
  <2>3. Still
    BY <1>6 DEF sys_exec_failed, syscall_resume, keyboard
  <2> QED BY <2>2, <2>3, PlainReaders
<1>7. CASE irq0 \/ irq0_eoi
  <2>1. Quiet
    BY <1>1, <1>7, BootQuiet, TickQuiet
  <2>2. Still
    BY <1>7 DEF irq0, irq0_eoi, keyboard, user
  <2> QED BY <2>1, <2>2, PlainReaders
<1>8. CASE Keyboard
  BY <1>8, KeyReaders DEF Keyboard
<1>9. CASE sys_putc \/ sys_gets_invalid \/ sys_exec_invalid \/ sys_unknown
           \/ kernel_worker_task_main
  <2>1. kernel_worker_task_main \/ \E call, r : sys_simple(call, r)
    BY <1>9 DEF sys_putc, sys_gets_invalid, sys_exec_invalid, sys_unknown
  <2>2. Quiet
    BY <1>1, <2>1, CodeQuiet
  <2>3. Still
    BY <2>1 DEF kernel_worker_task_main, sys_simple, keyboard, user
  <2> QED BY <2>2, <2>3, PlainReaders
<1>10. CASE Syscall
  BY <1>9, <1>10, GetsReaders, ExitReaders, ExecReaders DEF Syscall, Exit
<1> QED BY <1>2, <1>3, <1>4, <1>5, <1>6, <1>7, <1>8, <1>9, <1>10
        DEF Next, KernelStep, Exec

LEMMA StutterReaders ==
    ASSUME ReaderInv, ProcInv', UNCHANGED vars
    PROVE  ReaderInv'
<1> USE DEF vars, globals, family, keyboard, user
<1>1. Quiet
  <2>1. \A t : Context(t)' = Context(t)
    BY DEF Context, Owner
  <2>2. \A t : Awaited(t)' = Awaited(t) /\ Stage(t)' = Stage(t)
    BY <2>1, ContextIn, ContextInNext
  <2> QED BY <2>2 DEF Quiet, Phase
<1> QED BY <1>1, PlainReaders

\* If kmain launches the shell once, then whatever programs run each other,
\* the driver knows every task that sleeps in SYS_GETS.
THEOREM ReaderKnown ==
    ASSUME LaunchedOnce PROVE Spec => []ReaderIsRegistered
<1>1. Init => ReaderInv
  BY InitReaders
<1>2. ReaderInv /\ ProcInv' /\ [Next]_vars => ReaderInv'
  BY NextReaders, StutterReaders
<1>3. ReaderInv => ReaderIsRegistered
  BY DEF ReaderInv
<1> QED BY <1>1, <1>2, <1>3, ChildrenAccounted, PTL DEF Spec
=============================================================================
