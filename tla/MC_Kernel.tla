------------------------------ MODULE MC_Kernel ------------------------------
(***************************************************************************)
(* Instances of Kernel for TLC.                                            *)
(***************************************************************************)
EXTENDS Kernel

\* The committed launch.
WorkerOnly == <<"worker">>
\* Launches with the commented shell.  Of the two that have the worker as well,
\* <<"worker", "shell">> leaves little to see: the worker keeps the CPU.
ShellOnly == <<"shell">>
ShellAndWorker == <<"shell", "worker">>

\* Every program may make every call.
AllCalls == [p \in UserPrograms |-> Syscalls]

\* The calls the two programs really make: fake_ai prints and exits, the shell
\* prints, reads a line and executes fake_ai.
ProgramCalls == [shell |-> {"SYS_PUTC", "SYS_GETS", "SYS_EXEC"},
                 fake_ai |-> {"SYS_PUTC", "SYS_EXIT"}]
=============================================================================
