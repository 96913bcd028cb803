----------------------------- MODULE MC_Memory -----------------------------
(***************************************************************************)
(* Instances of Memory for TLC.  A page table has 32 entries instead of    *)
(* 1024, so that 64 pages stand for the 8 MB the kernel maps to itself and *)
(* 32 for the 4 MB kept for it; of the 66 frames, two lie beyond.          *)
(***************************************************************************)
EXTENDS Memory

SixtySixPages == 66 * 4096
ThirtyTwoPages == 32 * 4096
ZeroOrOnes == {{}, 0..31}
TablesAtBoot == <<1, 2>>
TablesOfKernel == <<4, 5>>

WorkerThenShell == <<"worker", "shell.bin">>

PtLoad(first, size) == [p_type |-> "PT_LOAD", first |-> first, size |-> size]
GnuStack == [p_type |-> "other", first |-> 0, size |-> 0]
Elf(phdrs) == [valid |-> TRUE, e_entry |-> 1, phdrs |-> phdrs]
NotElf == [valid |-> FALSE, e_entry |-> 0, phdrs |-> <<>>]

\* As gcc and ld build them: three segments, one page after the other, and
\* the header of the stack; linked across the boundary of two page tables.
Ordinary == Elf(<<PtLoad(126, 1), PtLoad(127, 1), PtLoad(128, 1), GnuStack>>)
\* Linked elsewhere, with an empty segment and a .bss of one page more.
Larger == Elf(<<PtLoad(70, 1), PtLoad(71, 0), PtLoad(71, 2), GnuStack>>)
\* Linked without an entry point.
NoEntry == [Ordinary EXCEPT !.e_entry = 0]
\* So large that memory ends in the loop over its pages, or just after it at
\* the page, the page table, the stack or the kernel stack that comes next.
Huge(size) == Elf(<<PtLoad(100, size), PtLoad(70, 1)>>)

Two(shell, fake_ai) == ("shell.bin" :> shell) @@ ("fake_ai.bin" :> fake_ai)

ManyBuilds == {Two(Ordinary, f) : f \in {Ordinary, Larger, NotElf, NoEntry}
                                          \cup {Huge(size) : size \in 14..21}}

OrdinaryBuild == {Two(Ordinary, Ordinary)}

\* Linked at the bitmap's own page, as userspace/Makefile has it.
Linked == Elf(<<PtLoad(10, 1), PtLoad(11, 1), PtLoad(12, 1), GnuStack>>)
LinkedBuilds == {Two(Linked, Linked)}

\* The other builds are as MemoryProofs and OwnMemoryProofs ask.
ASSUME BuildsOfTheProofs ==
    \/ Builds = LinkedBuilds
    \/ \A build \in Builds, path \in Paths :
         LinkedAbove(build[path]) /\ SegmentsApart(build[path])
=============================================================================
