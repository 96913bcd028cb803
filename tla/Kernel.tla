------------------------------- MODULE Kernel -------------------------------
(***************************************************************************)
(* Tasks, the round-robin scheduler, the timer and keyboard interrupts and *)
(* the system calls of AI-OS, on its single CPU.                           *)
(*                                                                         *)
(* The model starts in kmain just before tasking_init() (kernel.c:116).    *)
(* The CPU runs one CONTEXT: a kernel stack, modelled as the sequence of   *)
(* its activations, whose last element is the code that executes next.     *)
(* Every other context is parked where context_switch left it, under the   *)
(* stack pointer of a task control block.  The two assembly routines this  *)
(* C code is compiled against, context_switch and the int 0x80 stub, are   *)
(* taken at the interface the C code uses: the former parks the running    *)
(* stack in the TCB it is given and resumes the one the other TCB holds,   *)
(* the latter hands the saved user registers to syscall_handler.           *)
(* ContextSwitch and SyscallStub execute the two routines themselves, and  *)
(* show where they fall short of this.                                     *)
(*                                                                         *)
(* Interrupts reach the CPU only while IF is set and IRQ0 is not "in       *)
(* service" at the PIC, which it stays from its delivery to the EOI that   *)
(* the irq0 stub writes AFTER the handler, hence schedule(), has returned. *)
(***************************************************************************)
EXTENDS Integers, Sequences, SequencesExt

CONSTANTS
    Launch,       \* the programs kmain starts, in order
    MaxTasks,     \* bound: task control blocks the memory holds
    Calls,        \* Calls[p]: the system calls program p makes
    Paths,        \* the paths given to SYS_EXEC
    ExitCodes,    \* the values of EBX at SYS_EXIT
    LineLengths   \* the lengths of the lines typed on the keyboard

NULL == 0
Error == -1

\* The two images linked into the kernel, by the path that names them.
UserPrograms == {"shell", "fake_ai"}
Image == [path \in {"shell.bin", "fake_ai.bin"} |->
            IF path = "shell.bin" THEN "shell" ELSE "fake_ai"]
Programs == UserPrograms \cup {"kmain", "worker"}
Syscalls == {"SYS_EXIT", "SYS_PUTC", "SYS_GETS", "SYS_GETS_invalid",
             "SYS_EXEC", "SYS_EXEC_invalid", "unknown"}

ASSUME LaunchAssumption == Launch \in Seq({"worker", "shell"})
ASSUME MaxTasksAssumption == MaxTasks \in Nat /\ MaxTasks > Len(Launch)
ASSUME CallsAssumption == Calls \in [UserPrograms -> SUBSET Syscalls]
ASSUME ExitCodesAssumption == ExitCodes \subseteq Int
ASSUME LineLengthsAssumption == LineLengths \subseteq Nat

TaskIds == 1..MaxTasks

VARIABLES
    current_task, task_queue_head, next_task_id,     \* globals of task.c
    state, next, parent,                             \* fields of task_t
    child_pid_waiting_on, child_exit_status, syscall_retval,
    esp,                     \* cpu_state.esp: the context parked in the TCB
    task_waiting_for_input,  \* global of keyboard.c
    cpu,                     \* the context the CPU runs
    in_service,              \* IRQ0 delivered, its EOI not yet written
    halted,                  \* the CPU is stopped by "cli; hlt"
    boot,                    \* how far kmain has come
    program,                 \* the program a task runs
    eax,                     \* EAX as the last system call of a task left it
    worker_task_char,        \* static of task.c
    exit_code                \* history: the status each task exited with

globals == <<current_task, task_queue_head, next_task_id>>
family == <<parent, child_pid_waiting_on, child_exit_status>>
keyboard == <<task_waiting_for_input, syscall_retval>>
user == <<program, eax, exit_code>>
vars == <<globals, state, next, family, keyboard, esp, cpu, in_service,
          halted, boot, user, worker_task_char>>

-----------------------------------------------------------------------------
(***************************************************************************)
(* Contexts.  An activation says where it stands (pc) and carries the      *)
(* locals its function still needs: the owner of the context for program   *)
(* text ("code"), child_pid for SYS_EXEC, prev_task and next_candidate     *)
(* for schedule().                                                         *)
(***************************************************************************)
SchedulePCs == {"schedule", "scan", "yield", "run", "current", "switch"}
ExecPCs == {"exec_failed", "exec_block", "exec_note", "exec_call",
            "exec_return"}
PCs == SchedulePCs \cup ExecPCs
         \cup {"code", "irq0", "exit_return", "gets_return"}
Activations == [pc : PCs, task : 0..MaxTasks, cand : 0..MaxTasks]

Activation(pc, t, c) == [pc |-> pc, task |-> t, cand |-> c]
ActOf(pc, t) == Activation(pc, t, NULL)
Act(pc) == ActOf(pc, NULL)
Code(t) == ActOf("code", t)

At(pc) == ~halted /\ Last(cpu).pc = pc
Goto(act) == cpu' = ReplaceAt(cpu, Len(cpu), act)
Return == cpu' = Front(cpu)

\* The task whose program the running context executes.
Owner == cpu[1].task

\* The interrupt flag.  Program text runs with IF = 1.  Interrupt gates clear
\* IF, for int 0x80 too (type 0xE), and nothing in a handler sets it again,
\* except the sti that ends create_user_process: from there on SYS_EXEC, and
\* the schedule() it calls, run with IF = 1.
IF_set ==
    LET pc == Last(cpu).pc IN
    \/ pc = "code"
    \/ pc \in ExecPCs
    \/ pc \in SchedulePCs /\ cpu[Len(cpu) - 1].pc \in ExecPCs

Interruptible == ~halted /\ IF_set /\ ~in_service

Blocked(t) == state[t] \in {"TERMINATED", "WAITING_FOR_KEYBOARD",
                            "WAITING_FOR_CHILD"}

-----------------------------------------------------------------------------
(***************************************************************************)
(* kmain: tasking_init, then one create_task or create_user_process per    *)
(* program to launch, then the idle loop.  Each of these calls runs        *)
(* between cli and sti, and the memory they ask for at boot is there.      *)
(***************************************************************************)
Init ==
    /\ current_task = NULL /\ task_queue_head = NULL /\ next_task_id = 1
    /\ state = [t \in TaskIds |-> "unused"]
    /\ next = [t \in TaskIds |-> NULL]
    /\ parent = [t \in TaskIds |-> NULL]
    /\ child_pid_waiting_on = [t \in TaskIds |-> 0]
    /\ child_exit_status = [t \in TaskIds |-> 0]
    /\ syscall_retval = [t \in TaskIds |-> 0]
    /\ esp = [t \in TaskIds |-> <<>>]
    /\ task_waiting_for_input = NULL
    /\ cpu = <<Code(1)>>
    /\ in_service = FALSE /\ halted = FALSE
    /\ boot = 0
    /\ program = [t \in TaskIds |-> "kmain"]
    /\ eax = [t \in TaskIds |-> 0]
    /\ worker_task_char = "W"
    /\ exit_code = [t \in TaskIds |-> 0]

InKmain == At("code") /\ Owner = 1

tasking_init ==
    /\ InKmain /\ boot = 0
    /\ current_task' = next_task_id
    /\ task_queue_head' = next_task_id
    /\ next_task_id' = next_task_id + 1
    /\ state' = [state EXCEPT ![next_task_id] = "RUNNING"]
    /\ next' = [next EXCEPT ![next_task_id] = next_task_id]
    /\ boot' = 1
    /\ UNCHANGED <<family, keyboard, esp, cpu, in_service, halted, user,
                   worker_task_char>>

\* Mutant: the new task points back to the head and unlinks all the others.
LinkTask_Unlinks(prog, par) ==
    LET t == next_task_id IN
    /\ t \in TaskIds
    /\ next_task_id' = t + 1
    /\ state' = [state EXCEPT ![t] = "READY"]
    /\ parent' = [parent EXCEPT ![t] = par]
    /\ program' = [program EXCEPT ![t] = prog]
    /\ esp' = [esp EXCEPT ![t] = <<Code(t)>>]
    /\ next' = [next EXCEPT ![t] = task_queue_head, ![task_queue_head] = t]

\* What create_task and create_user_process do once every page they need is
\* there (which bounds the tasks): a READY task with a fresh kernel stack,
\* linked in behind the head.
LinkTask(prog, par) ==
    LET t == next_task_id IN
    /\ t \in TaskIds
    /\ next_task_id' = t + 1
    /\ state' = [state EXCEPT ![t] = "READY"]
    /\ parent' = [parent EXCEPT ![t] = par]
    /\ program' = [program EXCEPT ![t] = prog]
    /\ esp' = [esp EXCEPT ![t] = <<Code(t)>>]
    /\ next' = [next EXCEPT ![t] = next[task_queue_head],
                            ![task_queue_head] = t]

create_task ==
    /\ InKmain /\ boot \in 1..Len(Launch) /\ Launch[boot] = "worker"
    /\ LinkTask("worker", NULL)
    /\ boot' = boot + 1
    /\ UNCHANGED <<current_task, task_queue_head, child_pid_waiting_on,
                   child_exit_status, keyboard, cpu, in_service, halted, eax,
                   exit_code, worker_task_char>>

launch_shell ==
    /\ InKmain /\ boot \in 1..Len(Launch) /\ Launch[boot] = "shell"
    /\ LinkTask("shell", current_task)
    /\ boot' = boot + 1
    /\ UNCHANGED <<current_task, task_queue_head, child_pid_waiting_on,
                   child_exit_status, keyboard, cpu, in_service, halted, eax,
                   exit_code, worker_task_char>>

kernel_worker_task_main ==
    /\ At("code") /\ program[Owner] = "worker"
    /\ worker_task_char' = IF worker_task_char = "W" THEN "V" ELSE "W"
    /\ UNCHANGED <<globals, state, next, family, keyboard, esp, cpu,
                   in_service, halted, boot, user>>

-----------------------------------------------------------------------------
(***************************************************************************)
(* schedule().  Its caller's activation is below it on the stack.  The     *)
(* globals are volatile and read where the code reads them.                *)
(***************************************************************************)
schedule_entry ==
    /\ At("schedule")
    /\ \/ current_task = NULL /\ Return
       \/ /\ current_task # NULL
          /\ Goto(Activation("scan", current_task, next[current_task]))
    /\ UNCHANGED <<globals, state, next, family, keyboard, esp, in_service,
                   halted, boot, user, worker_task_char>>

\* Mutant: coming back to current_task halts without a look at its state.
schedule_scan_HaltsAlways ==
    /\ At("scan")
    /\ LET act == Last(cpu)
           succ == next[act.cand]
           stay == Blocked(act.cand) /\ act.cand # current_task
       IN \/ /\ stay /\ succ # current_task
             /\ Goto(Activation("scan", act.task, succ))
             /\ UNCHANGED halted
          \/ stay /\ succ = current_task /\ halted' = TRUE /\ Return
          \/ /\ ~stay
             /\ Goto(Activation("yield", act.task, act.cand))
             /\ UNCHANGED halted
    /\ UNCHANGED <<globals, state, next, family, keyboard, esp, in_service,
                   boot, user, worker_task_char>>

\* One turn of the while loop, or its exit.
schedule_scan ==
    /\ At("scan")
    /\ LET act == Last(cpu)
           succ == next[act.cand]
           stay == Blocked(act.cand) /\ act.cand # current_task
       IN \/ /\ stay /\ succ # current_task
             /\ Goto(Activation("scan", act.task, succ))
             /\ UNCHANGED halted
          \/ /\ stay /\ succ = current_task /\ Blocked(current_task)
             /\ halted' = TRUE
             /\ Return
          \/ /\ stay /\ succ = current_task /\ ~Blocked(current_task)
             /\ Return
             /\ UNCHANGED halted
          \/ /\ ~stay
             /\ Goto(Activation("yield", act.task, act.cand))
             /\ UNCHANGED halted
    /\ UNCHANGED <<globals, state, next, family, keyboard, esp, in_service,
                   boot, user, worker_task_char>>

\* Mutants: the previous task becomes READY whatever its state, or stays as
\* it is even when it was RUNNING.
schedule_yield_Revives ==
    /\ At("yield")
    /\ state' = [state EXCEPT ![Last(cpu).task] = "READY"]
    /\ Goto(Activation("run", Last(cpu).task, Last(cpu).cand))
    /\ UNCHANGED <<globals, next, family, keyboard, esp, in_service, halted,
                   boot, user, worker_task_char>>

schedule_yield_KeepsRunning ==
    /\ At("yield")
    /\ Goto(Activation("run", Last(cpu).task, Last(cpu).cand))
    /\ UNCHANGED <<globals, state, next, family, keyboard, esp, in_service,
                   halted, boot, user, worker_task_char>>

schedule_yield ==
    /\ At("yield")
    /\ LET act == Last(cpu) IN
       /\ state' = IF state[act.task] = "RUNNING"
                     THEN [state EXCEPT ![act.task] = "READY"] ELSE state
       /\ \/ Blocked(act.cand) /\ halted' = TRUE /\ Return
          \/ /\ ~Blocked(act.cand)
             /\ Goto(Activation("run", act.task, act.cand))
             /\ UNCHANGED halted
    /\ UNCHANGED <<globals, next, family, keyboard, esp, in_service, boot,
                   user, worker_task_char>>

schedule_run ==
    /\ At("run")
    /\ state' = [state EXCEPT ![Last(cpu).cand] = "RUNNING"]
    /\ Goto(Activation("current", Last(cpu).task, Last(cpu).cand))
    /\ UNCHANGED <<globals, next, family, keyboard, esp, in_service, halted,
                   boot, user, worker_task_char>>

schedule_current ==
    /\ At("current")
    /\ current_task' = Last(cpu).cand
    /\ LET act == Last(cpu)
           dead == act.task = act.cand /\ state[act.cand] = "TERMINATED"
       IN \/ dead /\ halted' = TRUE /\ Return
          \/ ~dead /\ UNCHANGED halted /\ Goto(Activation("switch", act.task, act.cand))
    /\ UNCHANGED <<task_queue_head, next_task_id, state, next, family,
                   keyboard, esp, in_service, boot, user, worker_task_char>>

\* Mutant: the new stack pointer is read before the old one is written, which
\* a switch from a task to itself notices.
context_switch_LoadsFirst ==
    /\ At("switch")
    /\ esp' = [esp EXCEPT ![Last(cpu).task] = Front(cpu)]
    /\ cpu' = esp[current_task]
    /\ UNCHANGED <<globals, state, next, family, keyboard, in_service, halted,
                   boot, user, worker_task_char>>

\* context_switch(&prev_task->cpu_state, &current_task->cpu_state): schedule()
\* returns to its caller when the stack parked here is resumed.
context_switch ==
    /\ At("switch")
    /\ esp' = [esp EXCEPT ![Last(cpu).task] = Front(cpu)]
    /\ cpu' = esp'[current_task]
    /\ UNCHANGED <<globals, state, next, family, keyboard, in_service, halted,
                   boot, user, worker_task_char>>

-----------------------------------------------------------------------------
(***************************************************************************)
(* Interrupts.                                                             *)
(***************************************************************************)
\* Mutant: the stub writes the EOI before it calls the handler.
irq0_EarlyEOI ==
    /\ Interruptible
    /\ cpu' = cpu \o <<Act("irq0"), Act("schedule")>>
    /\ UNCHANGED <<globals, state, next, family, keyboard, esp, in_service,
                   halted, boot, user, worker_task_char>>

\* IRQ0: the stub calls timer_handler_minimal_debug, which calls schedule().
irq0 ==
    /\ Interruptible
    /\ in_service' = TRUE
    /\ cpu' = cpu \o <<Act("irq0"), Act("schedule")>>
    /\ UNCHANGED <<globals, state, next, family, keyboard, esp, halted, boot,
                   user, worker_task_char>>

\* The rest of the irq0 stub: EOI, then iret.
irq0_eoi ==
    /\ At("irq0")
    /\ in_service' = FALSE
    /\ Return
    /\ UNCHANGED <<globals, state, next, family, keyboard, esp, halted, boot,
                   user, worker_task_char>>

\* Mutant: the driver forgets the task without making it READY.
keyboard_handler_main_NoWakeup(n) ==
    /\ Interruptible
    /\ task_waiting_for_input # NULL
    /\ syscall_retval' = [syscall_retval EXCEPT ![task_waiting_for_input] = n]
    /\ task_waiting_for_input' = NULL
    /\ UNCHANGED <<globals, state, next, family, esp, cpu, in_service, halted,
                   boot, user, worker_task_char>>

\* IRQ1 with the scancode of Enter, a line of n characters being in the
\* buffer: the whole handler and its EOI, with IF = 0.  Other keys only edit
\* the line, and without a waiting task the key is dropped.
keyboard_handler_main(n) ==
    /\ Interruptible
    /\ task_waiting_for_input # NULL
    /\ syscall_retval' = [syscall_retval EXCEPT ![task_waiting_for_input] = n]
    /\ state' = [state EXCEPT ![task_waiting_for_input] = "READY"]
    /\ task_waiting_for_input' = NULL
    /\ UNCHANGED <<globals, next, family, esp, cpu, in_service, halted, boot,
                   user, worker_task_char>>

-----------------------------------------------------------------------------
(***************************************************************************)
(* syscall_handler, entered through int 0x80 from the running user task.   *)
(***************************************************************************)
Int80(call) ==
    /\ At("code") /\ program[Owner] \in UserPrograms
    /\ call \in Calls[program[Owner]]

\* Mutants: the parent is woken without the status, or is not woken.
sys_exit_NoStatus(status) ==
    /\ Int80("SYS_EXIT")
    /\ LET par == parent[current_task]
           dead == [state EXCEPT ![current_task] = "TERMINATED"]
           wake == /\ par # NULL
                   /\ dead[par] = "WAITING_FOR_CHILD"
                   /\ child_pid_waiting_on[par] = current_task
       IN \/ /\ wake
             /\ state' = [dead EXCEPT ![par] = "READY"]
             /\ child_pid_waiting_on' = [child_pid_waiting_on EXCEPT ![par] = 0]
          \/ ~wake /\ state' = dead /\ UNCHANGED child_pid_waiting_on
    /\ exit_code' = [exit_code EXCEPT ![current_task] = status]
    /\ cpu' = cpu \o <<Act("exit_return"), Act("schedule")>>
    /\ UNCHANGED <<globals, next, parent, child_exit_status, keyboard, esp,
                   in_service, halted, boot, program, eax, worker_task_char>>

sys_exit_NoWakeup(status) ==
    /\ Int80("SYS_EXIT")
    /\ state' = [state EXCEPT ![current_task] = "TERMINATED"]
    /\ exit_code' = [exit_code EXCEPT ![current_task] = status]
    /\ cpu' = cpu \o <<Act("exit_return"), Act("schedule")>>
    /\ UNCHANGED <<globals, next, family, keyboard, esp, in_service, halted,
                   boot, program, eax, worker_task_char>>

sys_exit(status) ==
    /\ Int80("SYS_EXIT")
    /\ LET par == parent[current_task]
           dead == [state EXCEPT ![current_task] = "TERMINATED"]
           wake == /\ par # NULL
                   /\ dead[par] = "WAITING_FOR_CHILD"
                   /\ child_pid_waiting_on[par] = current_task
       IN \/ /\ wake
             /\ state' = [dead EXCEPT ![par] = "READY"]
             /\ child_exit_status' = [child_exit_status EXCEPT ![par] = status]
             /\ child_pid_waiting_on' = [child_pid_waiting_on EXCEPT ![par] = 0]
          \/ /\ ~wake
             /\ state' = dead
             /\ UNCHANGED <<child_exit_status, child_pid_waiting_on>>
    /\ exit_code' = [exit_code EXCEPT ![current_task] = status]
    /\ cpu' = cpu \o <<Act("exit_return"), Act("schedule")>>
    /\ UNCHANGED <<globals, next, parent, keyboard, esp, in_service, halted,
                   boot, program, eax, worker_task_char>>

\* SYS_PUTC, and the calls syscall_handler refuses: an unknown number, a gets
\* without a buffer, an exec without a path.
sys_simple(call, result) ==
    /\ Int80(call)
    /\ eax' = [eax EXCEPT ![Owner] = result]
    /\ UNCHANGED <<globals, state, next, family, keyboard, esp, cpu,
                   in_service, halted, boot, program, exit_code,
                   worker_task_char>>

sys_putc == sys_simple("SYS_PUTC", 0)
sys_gets_invalid == sys_simple("SYS_GETS_invalid", Error)
sys_exec_invalid == sys_simple("SYS_EXEC_invalid", Error)
sys_unknown == sys_simple("unknown", Error)

\* keyboard_prepare_for_gets: when a task waits already, it keeps the line.
keyboard_prepare_for_gets ==
    task_waiting_for_input' = IF task_waiting_for_input # NULL
                                THEN task_waiting_for_input ELSE current_task

sys_gets ==
    /\ Int80("SYS_GETS")
    /\ keyboard_prepare_for_gets
    /\ state' = [state EXCEPT ![current_task] = "WAITING_FOR_KEYBOARD"]
    /\ cpu' = cpu \o <<Act("gets_return"), Act("schedule")>>
    /\ UNCHANGED <<globals, next, family, syscall_retval, esp, in_service,
                   halted, boot, user, worker_task_char>>

\* create_user_process from SYS_EXEC: from cli to sti one step.  It fails on a
\* path that names no image and whenever memory runs out or the image is bad.
sys_exec(path) ==
    /\ Int80("SYS_EXEC")
    /\ \/ /\ path \in DOMAIN Image
          /\ LinkTask(Image[path], current_task)
          /\ cpu' = Append(cpu, ActOf("exec_block", next_task_id))
       \/ /\ cpu' = Append(cpu, Act("exec_failed"))
          /\ UNCHANGED <<next_task_id, state, parent, program, esp, next>>
    /\ UNCHANGED <<current_task, task_queue_head, child_pid_waiting_on,
                   child_exit_status, keyboard, in_service, halted, boot, eax,
                   exit_code, worker_task_char>>

sys_exec_failed ==
    /\ At("exec_failed")
    /\ eax' = [eax EXCEPT ![Owner] = Error]
    /\ Return
    /\ UNCHANGED <<globals, state, next, family, keyboard, esp, in_service,
                   halted, boot, program, exit_code, worker_task_char>>

\* Mutant: the parent is not marked as waiting.
sys_exec_block_StaysReady ==
    /\ At("exec_block")
    /\ Goto(ActOf("exec_note", Last(cpu).task))
    /\ UNCHANGED <<globals, state, next, family, keyboard, esp, in_service,
                   halted, boot, user, worker_task_char>>

sys_exec_block ==
    /\ At("exec_block")
    /\ state' = [state EXCEPT ![current_task] = "WAITING_FOR_CHILD"]
    /\ Goto(ActOf("exec_note", Last(cpu).task))
    /\ UNCHANGED <<globals, next, family, keyboard, esp, in_service, halted,
                   boot, user, worker_task_char>>

sys_exec_note ==
    /\ At("exec_note")
    /\ child_pid_waiting_on' =
         [child_pid_waiting_on EXCEPT ![current_task] = Last(cpu).task]
    /\ Goto(ActOf("exec_call", Last(cpu).task))
    /\ UNCHANGED <<globals, state, next, parent, child_exit_status, keyboard,
                   esp, in_service, halted, boot, user, worker_task_char>>

sys_exec_call ==
    /\ At("exec_call")
    /\ cpu' = Front(cpu) \o <<ActOf("exec_return", Last(cpu).task),
                              Act("schedule")>>
    /\ UNCHANGED <<globals, state, next, family, keyboard, esp, in_service,
                   halted, boot, user, worker_task_char>>

\* What follows schedule() in SYS_GETS, SYS_EXEC and SYS_EXIT, up to the iret.
\* In SYS_EXIT that is nothing but break: were a terminated task ever resumed,
\* its program would go on.
syscall_resume ==
    /\ \/ /\ At("gets_return")
          /\ eax' = [eax EXCEPT ![Owner] = syscall_retval[current_task]]
       \/ /\ At("exec_return")
          /\ eax' = [eax EXCEPT ![Owner] = child_exit_status[current_task]]
       \/ /\ At("exit_return")
          /\ UNCHANGED eax
    /\ Return
    /\ UNCHANGED <<globals, state, next, family, keyboard, esp, in_service,
                   halted, boot, program, exit_code, worker_task_char>>

-----------------------------------------------------------------------------
Kmain == tasking_init \/ create_task \/ launch_shell

Schedule == \/ schedule_entry \/ schedule_scan \/ schedule_yield
            \/ schedule_run \/ schedule_current \/ context_switch

Exec == \/ sys_exec_failed \/ sys_exec_block \/ sys_exec_note
        \/ sys_exec_call

\* Kernel code that the CPU, once in it, executes to its end.
KernelStep == Kmain \/ Schedule \/ Exec \/ syscall_resume \/ irq0_eoi

Exit == \E status \in ExitCodes : sys_exit(status)

\* What the running program asks for.
Syscall == \/ sys_putc \/ sys_gets_invalid \/ sys_exec_invalid \/ sys_unknown
           \/ sys_gets \/ Exit \/ \E path \in Paths : sys_exec(path)

Keyboard == \E n \in LineLengths : keyboard_handler_main(n)

Next == \/ KernelStep \/ Syscall \/ irq0 \/ Keyboard
        \/ kernel_worker_task_main

Spec == Init /\ [][Next]_vars

\* The CPU executes the kernel code it is in; the PIT keeps ticking; the PIC
\* latches a key until it can deliver it, and someone presses Enter again and
\* again; a program that may exit does so; the worker's loop goes round.
Fairness == /\ WF_vars(KernelStep) /\ WF_vars(irq0)
            /\ SF_vars(Keyboard) /\ WF_vars(Exit)
            /\ WF_vars(kernel_worker_task_main)

FairSpec == Spec /\ Fairness

-----------------------------------------------------------------------------
(***************************************************************************)
(* Properties.                                                             *)
(***************************************************************************)
Tasks == 1..(next_task_id - 1)
TaskStates == {"unused", "READY", "RUNNING", "WAITING_FOR_KEYBOARD",
               "WAITING_FOR_CHILD", "TERMINATED"}
Statuses == ExitCodes \cup {0}

\* The variables hold what the C declarations let them hold; no context
\* switch ever resumes an empty stack.
TypeOK ==
    /\ current_task \in 0..MaxTasks /\ task_queue_head \in 0..MaxTasks
    /\ next_task_id \in 1..(MaxTasks + 1)
    /\ state \in [TaskIds -> TaskStates]
    /\ next \in [TaskIds -> 0..MaxTasks]
    /\ parent \in [TaskIds -> 0..MaxTasks]
    /\ child_pid_waiting_on \in [TaskIds -> 0..MaxTasks]
    /\ child_exit_status \in [TaskIds -> Statuses]
    /\ syscall_retval \in [TaskIds -> LineLengths \cup {0}]
    /\ esp \in [TaskIds -> Seq(Activations)]
    /\ task_waiting_for_input \in 0..MaxTasks
    /\ cpu \in Seq(Activations) /\ cpu # <<>>
    /\ in_service \in BOOLEAN /\ halted \in BOOLEAN
    /\ boot \in 0..(Len(Launch) + 1)
    /\ program \in [TaskIds -> Programs]
    /\ eax \in [TaskIds -> Statuses \cup LineLengths \cup {Error}]
    /\ worker_task_char \in {"W", "V"}
    /\ exit_code \in [TaskIds -> Statuses]

\* The task queue is one ring through every task there is: the head, then
\* the others from the newest to the oldest, whatever was created when.
QueueOrder ==
    boot > 0 =>
      /\ task_queue_head = 1
      /\ next[1] = IF next_task_id = 2 THEN 1 ELSE next_task_id - 1
      /\ \A t \in Tasks \ {1} : next[t] = IF t = 2 THEN 1 ELSE t - 1

\* Once program text executes, the scheduler's books are right: it is that of
\* current_task, which is RUNNING, alone.
CurrentRuns ==
    At("code") /\ boot > 0 =>
      /\ current_task = Owner
      /\ {t \in TaskIds : state[t] = "RUNNING"} = {Owner}

\* A tick or a key interrupts kmain and no other task: every other one runs
\* on the tick that switched to it, whose EOI is on kmain's stack.
OnlyIdleIsInterrupted == ~in_service => Owner = 1

\* A parked task that waits for a child waits for a task that is there to
\* wake it: its own child, still to exit (no lost wakeup in SYS_EXEC).
WaitedChildIsAlive ==
    \A t \in TaskIds :
      state[t] = "WAITING_FOR_CHILD" /\ t # current_task =>
        LET c == child_pid_waiting_on[t] IN
        c \in TaskIds /\ parent[c] = t /\ state[c] \notin {"unused", "TERMINATED"}

\* The keyboard driver knows every task that sleeps in SYS_GETS: the one that
\* keyboard_prepare_for_gets would turn away never comes.
ReaderIsRegistered ==
    \A t \in TaskIds :
      state[t] = "WAITING_FOR_KEYBOARD" => task_waiting_for_input = t

\* SYS_EXEC returns to the parent the status the child it started exited with.
ExecReturnsStatus ==
    At("exec_return") =>
      LET c == Last(cpu).task IN
      /\ state[c] = "TERMINATED" /\ parent[c] = Owner
      /\ child_exit_status[current_task] = exit_code[c]

\* The "cli; hlt" branches of schedule() are never taken.
NeverHalted == ~halted

\* A task that has exited is never made READY or RUNNING again.
TerminatedForGood ==
    [][\A t \in TaskIds : state[t] = "TERMINATED" => state'[t] = "TERMINATED"]_vars

\* A task that sleeps in SYS_GETS gets its line: it returns to its program.
ReaderReturns ==
    \A t \in TaskIds :
      state[t] = "WAITING_FOR_KEYBOARD" ~> At("code") /\ Owner = t

\* A task that waits for its child in SYS_EXEC returns to its program.
ExecReturns ==
    \A t \in TaskIds :
      state[t] = "WAITING_FOR_CHILD" ~> At("code") /\ Owner = t

\* The preemptive round robin of README.md:37: a task that is READY gets the
\* CPU, whatever the others do.
RoundRobin ==
    \A t \in TaskIds : state[t] = "READY" ~> state[t] = "RUNNING"

(***************************************************************************)
(* The kernel implements the blocking spawn of Processes.  SYS_EXEC waits  *)
(* from the step that creates the child, although the task is marked only  *)
(* two steps later, until EAX is written.                                  *)
(***************************************************************************)
Context(t) == IF t = Owner THEN cpu ELSE esp[t]

Phase(t) == CASE state[t] = "unused" -> "none"
              [] state[t] = "TERMINATED" -> "exited"
              [] OTHER -> "live"

Awaited(t) ==
    LET ctx == Context(t) IN
    IF Len(ctx) > 1 /\ ctx[2].pc \in ExecPCs THEN ctx[2].task ELSE 0

P == INSTANCE Processes WITH
       Ids <- TaskIds,
       Results <- Statuses \cup LineLengths \cup {Error},
       phase <- [t \in TaskIds |-> Phase(t)],
       waits <- [t \in TaskIds |-> Awaited(t)],
       status <- exit_code,
       result <- eax

\* SYS_EXEC blocks its caller until the child exits and returns its status,
\* across every interleaving of ticks, keys and schedule() calls.
ImplementsProcesses == P!ProcSpec

-----------------------------------------------------------------------------
(***************************************************************************)
(* The inductive invariant behind the scheduler's safety: what every       *)
(* context looks like, parked or running, and which task states go with it. *)
(***************************************************************************)
\* A context that context_switch may resume later, and the states its task
\* may be in: kmain is always parked inside irq0, any other task at its entry
\* point or inside the system call it made.
Parked(t, ctx, st) ==
    \/ t = 1 /\ ctx = <<Code(1), Act("irq0")>> /\ st = "READY"
    \/ t # 1 /\ ctx = <<Code(t)>> /\ st = "READY"
    \/ /\ t # 1 /\ ctx = <<Code(t), Act("gets_return")>>
       /\ st \in {"READY", "WAITING_FOR_KEYBOARD"}
    \/ /\ t # 1 /\ \E c \in TaskIds : ctx = <<Code(t), ActOf("exec_return", c)>>
       /\ st \in {"READY", "WAITING_FOR_CHILD"}
    \/ t # 1 /\ ctx = <<Code(t), Act("exit_return")>> /\ st = "TERMINATED"

\* Who calls schedule(), on the stack of task o, and the state of o then.
Caller(o, act, st) ==
    \/ o = 1 /\ act = Act("irq0") /\ st = "RUNNING"
    \/ o # 1 /\ act = Act("gets_return") /\ st = "WAITING_FOR_KEYBOARD"
    \/ o # 1 /\ act = Act("exit_return") /\ st = "TERMINATED"
    \/ /\ o # 1 /\ \E c \in TaskIds : act = ActOf("exec_return", c)
       /\ st = "WAITING_FOR_CHILD"

Yielded(st) == IF st = "RUNNING" THEN "READY" ELSE st

\* schedule(), called by task o in state st.  A task other than kmain is above
\* kmain in the queue, so its scan meets kmain before itself.
Scheduling(o, st, act) ==
    \/ act = Act("schedule") /\ current_task = o /\ state[o] = st
    \/ \E c \in Tasks :
         /\ o # 1 => c < o
         /\ \/ /\ act = Activation("scan", o, c)
               /\ current_task = o /\ state[o] = st
            \/ /\ act = Activation("yield", o, c) /\ ~Blocked(c)
               /\ current_task = o /\ state[o] = st
            \/ /\ act = Activation("run", o, c) /\ ~Blocked(c)
               /\ current_task = o /\ state[o] = Yielded(st)
            \/ /\ \/ act = Activation("current", o, c) /\ current_task = o
                  \/ act = Activation("switch", o, c) /\ current_task = c
               /\ state[c] = "RUNNING"
               /\ c # o => state[o] = Yielded(st)

InSchedule(o) ==
    /\ in_service
    /\ Len(cpu) = 3 /\ cpu = <<Code(o), cpu[2], cpu[3]>>
    /\ \E st \in TaskStates : Caller(o, cpu[2], st) /\ Scheduling(o, st, cpu[3])

\* Task o, outside schedule().
Executing(o) ==
    /\ current_task = o
    /\ \/ cpu = <<Code(o)>> /\ state[o] = "RUNNING" /\ in_service = (o # 1)
       \/ /\ o = 1 /\ cpu = <<Code(1), Act("irq0")>>
          /\ state[1] = "RUNNING" /\ in_service
       \/ /\ o # 1 /\ in_service /\ state[o] = "RUNNING"
          /\ \/ cpu = <<Code(o), Act("gets_return")>>
             \/ cpu = <<Code(o), Act("exec_failed")>>
             \/ \E c \in TaskIds : \/ cpu = <<Code(o), ActOf("exec_block", c)>>
                                   \/ cpu = <<Code(o), ActOf("exec_return", c)>>
       \/ /\ o # 1 /\ in_service /\ state[o] = "WAITING_FOR_CHILD"
          /\ \E c \in TaskIds : \/ cpu = <<Code(o), ActOf("exec_note", c)>>
                                \/ cpu = <<Code(o), ActOf("exec_call", c)>>

\* schedule() has marked t as RUNNING and not yet switched to it.
Elected(t) ==
    /\ Len(cpu) = 3 /\ cpu[3].pc \in {"current", "switch"}
    /\ cpu[3].cand = t

ParkedState(t) == IF Elected(t) THEN "READY" ELSE state[t]

\* Before tasking_init a tick finds no current_task.
BeforeTasking ==
    /\ current_task = NULL /\ next_task_id = 1
    /\ task_waiting_for_input = NULL
    /\ \A t \in TaskIds : state[t] = "unused"
    /\ \/ cpu = <<Code(1)>> /\ ~in_service
       \/ cpu = <<Code(1), Act("irq0")>> /\ in_service
       \/ cpu = <<Code(1), Act("irq0"), Act("schedule")>> /\ in_service

AfterTasking ==
    /\ next_task_id > 1
    /\ \A t \in TaskIds \ Tasks : state[t] = "unused"
    /\ \E o \in Tasks :
         /\ Executing(o) \/ InSchedule(o)
         /\ \A t \in Tasks \ {o} : Parked(t, esp[t], ParkedState(t))
    /\ task_waiting_for_input # NULL =>
         state[task_waiting_for_input] = "WAITING_FOR_KEYBOARD"

\* Every context, running or parked, is one that the scheduler can go on
\* from: no task that has exited is resumed, and none is parked where its
\* state and its stack disagree.
ContextsOK ==
    /\ NeverHalted /\ QueueOrder
    /\ program[1] = "kmain"
    /\ IF boot = 0 THEN BeforeTasking ELSE AfterTasking
=============================================================================
