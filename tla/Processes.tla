------------------------------ MODULE Processes ------------------------------
(***************************************************************************)
(* What AI-OS promises its processes, without tasks, queues or interrupts. *)
(*                                                                         *)
(* SYS_EXEC is a blocking spawn: it creates a process and does not return  *)
(* before that process has exited, and then returns its exit status.  Until *)
(* then its caller does nothing.  A process that has exited stays so.      *)
(***************************************************************************)
EXTENDS Naturals

CONSTANTS Ids,       \* process identifiers
          Statuses,  \* exit statuses
          Results    \* what a system call may return

VARIABLES phase,     \* of each process: "none", "live" or "exited"
          waits,     \* the process whose exit SYS_EXEC waits for, or 0
          status,    \* the exit status of each process
          result     \* what its last system call returned to each process

procVars == <<phase, waits, status, result>>

ProcInit ==
    /\ phase = [p \in Ids |-> "none"]
    /\ waits = [p \in Ids |-> 0]
    /\ status = [p \in Ids |-> 0]
    /\ result = [p \in Ids |-> 0]

Runnable(p) == phase[p] = "live" /\ waits[p] = 0

\* The kernel starts a process of its own.
Spawn(c) ==
    /\ phase[c] = "none"
    /\ phase' = [phase EXCEPT ![c] = "live"]
    /\ UNCHANGED <<waits, status, result>>

Exec(p, c) ==
    /\ Runnable(p) /\ phase[c] = "none"
    /\ phase' = [phase EXCEPT ![c] = "live"]
    /\ waits' = [waits EXCEPT ![p] = c]
    /\ UNCHANGED <<status, result>>

ExecReturn(p) ==
    /\ phase[p] = "live" /\ waits[p] # 0
    /\ phase[waits[p]] = "exited"
    /\ result' = [result EXCEPT ![p] = status[waits[p]]]
    /\ waits' = [waits EXCEPT ![p] = 0]
    /\ UNCHANGED <<phase, status>>

Exit(p, s) ==
    /\ Runnable(p)
    /\ phase' = [phase EXCEPT ![p] = "exited"]
    /\ status' = [status EXCEPT ![p] = s]
    /\ UNCHANGED <<waits, result>>

\* Any other system call.
Call(p, r) ==
    /\ Runnable(p)
    /\ result' = [result EXCEPT ![p] = r]
    /\ UNCHANGED <<phase, waits, status>>

ProcNext ==
    \/ \E c \in Ids : Spawn(c)
    \/ \E p, c \in Ids : Exec(p, c)
    \/ \E p \in Ids : ExecReturn(p)
    \/ \E p \in Ids, s \in Statuses : Exit(p, s)
    \/ \E p \in Ids, r \in Results : Call(p, r)

ProcSpec == ProcInit /\ [][ProcNext]_procVars
=============================================================================
