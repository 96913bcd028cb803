---------------------------- MODULE PageAllocator ----------------------------
(***************************************************************************)
(* What the physical memory manager promises: a page is held by at most    *)
(* one client, no reserved page is ever handed out, and a request fails    *)
(* only when no page is free.                                              *)
(***************************************************************************)
CONSTANTS Pages,     \* the pages of the machine
          Reserved,  \* those the allocator keeps for the kernel
          NoPage     \* the answer when none is free

VARIABLES started, free, taken, answer

allocVars == <<started, free, taken, answer>>

AllocInit == started = FALSE /\ free = {} /\ taken = {} /\ answer = NoPage

Start ==
    /\ ~started
    /\ started' = TRUE
    /\ free' = Pages \ Reserved
    /\ UNCHANGED <<taken, answer>>

Grant(p) ==
    /\ started /\ p \in free
    /\ free' = free \ {p}
    /\ taken' = taken \cup {p}
    /\ answer' = p
    /\ UNCHANGED started

Refuse ==
    /\ started /\ free = {}
    /\ answer' = NoPage
    /\ UNCHANGED <<started, free, taken>>

Release(p) ==
    /\ started /\ p \in taken
    /\ free' = free \cup {p}
    /\ taken' = taken \ {p}
    /\ UNCHANGED <<started, answer>>

AllocNext == \/ Start \/ Refuse
             \/ \E p \in Pages : Grant(p) \/ Release(p)

AllocSpec == AllocInit /\ [][AllocNext]_allocVars
=============================================================================
