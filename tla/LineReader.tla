----------------------------- MODULE LineReader -----------------------------
(***************************************************************************)
(* What SYS_GETS promises a program: the line that was typed, edited with  *)
(* the backspace key and cut to what the program's buffer has room for.    *)
(***************************************************************************)
EXTENDS Integers, Sequences, SequencesExt

CONSTANTS Readers, Letters, NoReader, Limit   \* Limit: the longest line ever

VARIABLES
    reader,      \* the program whose line is being typed, or NoReader
    room,        \* how many letters fit, for it
    line,        \* the line so far
    received,    \* the last line each program got
    count        \* and the length it was told

vars == <<reader, room, line, received, count>>

Init ==
    /\ reader = NoReader /\ room = 0 /\ line = <<>>
    /\ received = [r \in Readers |-> <<>>]
    /\ count = [r \in Readers |-> 0]

Ask(r, n) ==
    /\ reader = NoReader
    /\ reader' = r /\ room' = n /\ line' = <<>>
    /\ UNCHANGED <<received, count>>

Type(c) ==
    /\ reader # NoReader /\ Len(line) < room
    /\ line' = Append(line, c)
    /\ UNCHANGED <<reader, room, received, count>>

Rubout ==
    /\ reader # NoReader /\ line # <<>>
    /\ line' = Front(line)
    /\ UNCHANGED <<reader, room, received, count>>

Enter ==
    /\ reader # NoReader
    /\ received' = [received EXCEPT ![reader] = line]
    /\ count' = [count EXCEPT ![reader] = Len(line)]
    /\ reader' = NoReader /\ room' = 0 /\ line' = <<>>

Next == \/ \E r \in Readers, n \in 0..Limit : Ask(r, n)
        \/ \E c \in Letters : Type(c)
        \/ Rubout
        \/ Enter

LineSpec == Init /\ [][Next]_vars
=============================================================================
