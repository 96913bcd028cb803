------------------------------- MODULE MC_PMM -------------------------------
(***************************************************************************)
(* 35 pages and a bit, the first 29 of them kept for the kernel: the six   *)
(* that can be handed out lie on both sides of the boundary between the    *)
(* two words of the bitmap, and the second word is only partly used.       *)
(* LibraryChecks is here because TLC evaluates assumptions with a run.     *)
(***************************************************************************)
EXTENDS PMM, LibraryChecks

ThirtyFivePages == 35 * 4096 + 1000
TwentyNinePages == 29 * 4096
ZeroOrOnes == {{}, 0..31}
=============================================================================
