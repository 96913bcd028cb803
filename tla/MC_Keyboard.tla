----------------------------- MODULE MC_Keyboard -----------------------------
(***************************************************************************)
(* An instance of Keyboard for TLC.  Two readers, which nothing in the     *)
(* driver tells apart.                                                     *)
(***************************************************************************)
EXTENDS Keyboard, TLC

ReaderSymmetry == Permutations(Readers)
=============================================================================
