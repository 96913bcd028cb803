-------------------------- MODULE OwnMemoryProofs --------------------------
(***************************************************************************)
(* A program that runs has its own memory: the proof of OwnMemory, for     *)
(* every memory size, set of programs and launch list.                     *)
(*                                                                         *)
(* elf_load maps a fresh frame for every page of every segment, so that a  *)
(* page two segments share keeps only what the second one brought.  So the *)
(* theorem holds until a creation begins from a file with two segments on  *)
(* a page, which ld does not make ([]LoadsApart), or from one linked below *)
(* 8 MB or inside the memory ([]LoadsAbove).                               *)
(***************************************************************************)
EXTENDS MemoryProofs

(***************************************************************************)
(* The inductive invariant: the program on top of those that run is as it  *)
(* was loaded until a creation maps its first page, which marks every      *)
(* running program as overlaid; and what has been done so far of the       *)
(* creation is in place.                                                   *)
(***************************************************************************)
Phdrs(path) == files[path].phdrs

SegmentThere(t, path, i) ==
    \A v \in SegmentPages(Phdrs(path)[i]) :
      UserAccessible(v) /\ contents[Lookup(v).frame] = Tag("image", t, i)
SegmentsThere(t, path, n) ==
    \A i \in DOMAIN Phdrs(path) :
      i < n /\ Loaded(Phdrs(path)[i]) => SegmentThere(t, path, i)
Accessible(S) == \A v \in S : UserAccessible(v)
StackThere(t) == contents[Lookup(UserStackTop - 1).frame] = Tag("stack", t, 0)

ProgramThere(t) ==
    /\ tasks[t].path \in Paths
    /\ SegmentsThere(t, tasks[t].path, Len(Phdrs(tasks[t].path)) + 1)
    /\ Accessible(StackPages) /\ StackThere(t)
    /\ tasks[t].caller = 0 => tasks[t].argv = "given"

AllOverlaid == \A k \in DOMAIN running : running[k] \in overlaid
TopOnly == \A k \in DOMAIN running : k < Len(running) => running[k] \in overlaid
TopThere ==
    running # <<>> /\ Last(running) \notin overlaid => ProgramThere(Last(running))

\* The pages the creation is mapping, and whether only a program's kernel
\* stack and task control block are left to do.
Region == IF op.i <= Len(File.phdrs) THEN SegmentPages(Phdr) ELSE StackPages
Ending == op.pc \in {"kstack", "frame", "link"} /\ op.path \in Paths

Progress ==
    /\ op.pc # "idle" => (op.call = "create_user_process" <=> op.path \in Paths)
    /\ op.pc \in Mapping \cup {"segment", "copy", "argv"} \/ Ending =>
         SegmentsThere(New, op.path, op.i)
    /\ op.pc \in Mapping =>
         /\ op.page..op.last \subseteq Region
         /\ \A v \in Region : v <= op.last /\ (v < op.page => UserAccessible(v))
    /\ op.pc \in {"copy", "argv"} \/ Ending => Accessible(Region) /\ AllOverlaid
    /\ op.pc = "argv" \/ Ending => op.i > Len(File.phdrs)
    /\ Ending => StackThere(New) /\ (op.caller = 0 => op.argv = "given")

OwnInv == TopOnly /\ TopThere /\ Progress

-----------------------------------------------------------------------------
(***************************************************************************)
(* What a step leaves as it is.                                            *)
(***************************************************************************)
Undisturbed(v) ==
    UserAccessible(v) =>
      /\ UserAccessible(v)' /\ Lookup(v)' = Lookup(v)
      /\ contents'[Lookup(v).frame] = contents[Lookup(v).frame]

\* The pages of a program's image and stack.
LEMMA ProgramAddrs ==
    ASSUME files \in Builds, NEW path \in Paths
    PROVE  /\ ImagePages(files[path]) \subseteq Addrs
           /\ StackPages \subseteq Addrs
           /\ UserStackTop - 1 \in StackPages
           /\ ImagePages(files[path]) \cap StackPages = {}
           /\ Phdrs(path) = files[path].phdrs
           /\ \A i \in DOMAIN Phdrs(path) : Loaded(Phdrs(path)[i]) =>
                SegmentPages(Phdrs(path)[i]) \subseteq ImagePages(files[path])
<1>1. /\ ImagePages(files[path]) \subseteq Addrs
      /\ ImagePages(files[path]) \cap StackPages = {}
  BY BuildsAssumption DEF Addrs
<1>2. StackPages \subseteq Addrs /\ UserStackTop - 1 \in StackPages
  BY DirectoryAssumption DEF StackPages, Addrs
<1> QED BY <1>1, <1>2 DEF Phdrs, ImagePages

LEMMA SegmentsKept ==
    ASSUME files \in Builds, UNCHANGED files, NEW path \in Paths, NEW t, NEW n,
           SegmentsThere(t, path, n),
           \A v \in ImagePages(files[path]) : Undisturbed(v)
    PROVE  SegmentsThere(t, path, n)'
<1>1. \A i \in DOMAIN Phdrs(path) : Loaded(Phdrs(path)[i]) =>
        SegmentPages(Phdrs(path)[i]) \subseteq ImagePages(files[path])
  BY ProgramAddrs
<1>2. Phdrs(path)' = Phdrs(path)
  BY DEF Phdrs
<1> QED BY <1>1, <1>2 DEF SegmentsThere, SegmentThere, Undisturbed

LEMMA TopKept ==
    ASSUME files \in Builds, running \in Seq(Nat), TopOnly, TopThere,
           UNCHANGED <<tasks, files, running>>, overlaid \subseteq overlaid',
           \A v \in Addrs : Undisturbed(v)
    PROVE  TopOnly' /\ TopThere'
<1>1. TopOnly'
  BY DEF TopOnly
<1>2. ASSUME running # <<>>, Last(running) \notin overlaid
      PROVE  ProgramThere(Last(running))'
  <2>1. PICK t, path : t = Last(running) /\ path = tasks[t].path
    OBVIOUS
  <2>2. ProgramThere(t)
    BY <1>2, <2>1 DEF TopThere
  <2>3. PICK n : n = Len(Phdrs(path)) + 1
    OBVIOUS
  <2>4. /\ path \in Paths /\ SegmentsThere(t, path, n)
        /\ Accessible(StackPages) /\ StackThere(t)
        /\ tasks[t].caller = 0 => tasks[t].argv = "given"
    BY <2>1, <2>2, <2>3 DEF ProgramThere
  <2>5. SegmentsThere(t, path, n)'
    BY <2>4, SegmentsKept, ProgramAddrs
  <2>6. Accessible(StackPages)' /\ StackThere(t)'
    BY <2>4, ProgramAddrs DEF Accessible, StackThere, Undisturbed
  <2>7. ProgramThere(t)'
    BY <2>1, <2>3, <2>4, <2>5, <2>6 DEF ProgramThere, Phdrs
  <2> QED BY <2>1, <2>7
<1> QED BY <1>1, <1>2 DEF TopThere

\* The creation goes on with the same program, segment and page.
SameWork ==
    /\ op'.call = op.call /\ op'.path = op.path /\ op'.caller = op.caller
    /\ op'.argv = op.argv /\ op'.i = op.i
    /\ op'.page = op.page /\ op'.last = op.last

LEMMA ProgressKept ==
    ASSUME Types, Control, Progress, UNCHANGED <<tasks, files, running>>,
           overlaid \subseteq overlaid', \A v \in Addrs : Undisturbed(v),
           SameWork, op.pc # "idle",
           op'.pc \in Mapping => op.pc \in Mapping,
           op'.pc \in {"segment", "copy", "argv"} => op.pc = op'.pc,
           op'.pc \in {"kstack", "frame", "link"} /\ op.path \in Paths => Ending
    PROVE  Progress'
<1>1. UNCHANGED <<New, File, Phdr, Region>> /\ (Ending' => Ending)
  BY DEF New, File, Phdr, Region, Ending, SameWork
<1>2. files \in Builds
  BY DEF Types
<1>3. op'.pc \in Mapping \cup {"segment", "copy", "argv"} \/ Ending' =>
        /\ op.pc \in Mapping \cup {"segment", "copy", "argv"} \/ Ending
        /\ op.path \in Paths
  BY <1>1 DEF Control, Loading, Ending
<1>4. ASSUME op'.pc \in Mapping \cup {"segment", "copy", "argv"} \/ Ending'
      PROVE  SegmentsThere(New, op.path, op.i)'
  <2>1. PICK t, path, n : t = New /\ path = op.path /\ n = op.i
    OBVIOUS
  <2>2. SegmentsThere(t, path, n) /\ path \in Paths
    BY <1>3, <1>4, <2>1 DEF Progress
  <2>3. SegmentsThere(t, path, n)'
    BY <1>2, <2>2, SegmentsKept, ProgramAddrs
  <2> QED BY <1>1, <2>1, <2>3 DEF SameWork
<1>5. ASSUME op.path \in Paths,
             op.i <= Len(File.phdrs) => Loaded(Phdr) /\ op.i \in DOMAIN File.phdrs
      PROVE  Region \subseteq Addrs
  <2>1. Phdrs(op.path) = File.phdrs
    BY DEF Phdrs, File
  <2> QED BY <1>2, <1>5, <2>1, ProgramAddrs DEF Region, Phdr
<1>6. op.pc \in Mapping \cup {"copy", "argv"} \/ Ending => Region \subseteq Addrs
  <2>1. CASE op.pc = "argv" \/ Ending
    <3>1. op.i > Len(File.phdrs) /\ op.path \in Paths
      BY <2>1 DEF Progress, Control, Loading, Ending
    <3>2. ~(op.i <= Len(File.phdrs))
      <4>1. File \in ElfFiles /\ op.i \in Nat
        BY <3>1, FilesAssumption DEF Types, File, Ops
      <4>2. Len(File.phdrs) \in Nat
        BY <4>1 DEF ElfFiles
      <4> QED BY <3>1, <4>1, <4>2
    <3> QED BY <1>2, <3>1, <3>2, ProgramAddrs DEF Region
  <2>2. CASE op.pc \in Mapping \cup {"copy"}
    <3>1. op.path \in Paths /\ op.i \in Nat /\ op.i >= 1
          /\ (op.i <= Len(File.phdrs) => Loaded(Phdr))
      BY <2>2 DEF Control, Loading, Mapping, Types, Ops
    <3>2. File.phdrs \in Seq([p_type : {"PT_LOAD", "other"},
                              first : Nat, size : Nat])
      BY <3>1, FilesAssumption DEF Types, File, ElfFiles
    <3>3. op.i <= Len(File.phdrs) => op.i \in DOMAIN File.phdrs
      BY <3>1, <3>2
    <3> QED BY <1>5, <3>1, <3>3
  <2> QED BY <2>1, <2>2
<1>7. op'.pc \in Mapping => \A v \in Region : v < op.page => UserAccessible(v)'
  BY <1>6 DEF Progress, Undisturbed
<1>8. op'.pc \in {"copy", "argv"} \/ Ending' =>
        Accessible(Region)' /\ AllOverlaid'
  <2> SUFFICES ASSUME op'.pc \in {"copy", "argv"} \/ Ending'
               PROVE  Accessible(Region)' /\ AllOverlaid'
    OBVIOUS
  <2>1. op.pc \in {"copy", "argv"} \/ Ending
    BY <1>1
  <2>2. Accessible(Region) /\ AllOverlaid
    BY <2>1 DEF Progress
  <2>3. \A v \in Region : UserAccessible(v)'
    BY <1>6, <2>1, <2>2 DEF Accessible, Undisturbed
  <2> QED BY <1>1, <2>2, <2>3 DEF Accessible, AllOverlaid
<1>9. Ending' => StackThere(New)'
  <2> SUFFICES ASSUME Ending' PROVE StackThere(New)'
    OBVIOUS
  <2>1. Ending /\ StackThere(New) /\ Accessible(Region)
        /\ op.i > Len(File.phdrs) /\ op.path \in Paths
    BY <1>1 DEF Progress, Ending
  <2>2. ~(op.i <= Len(File.phdrs))
    <3>1. File \in ElfFiles /\ op.i \in Nat
      BY <2>1, FilesAssumption DEF Types, File, Ops
    <3>2. Len(File.phdrs) \in Nat
      BY <3>1 DEF ElfFiles
    <3> QED BY <2>1, <3>1, <3>2
  <2>3. UserStackTop - 1 \in Region /\ UserStackTop - 1 \in Addrs
    BY <1>2, <2>1, <2>2, ProgramAddrs DEF Region
  <2> QED BY <1>1, <2>1, <2>3 DEF StackThere, Accessible, Undisturbed
<1> QED BY <1>1, <1>3, <1>4, <1>7, <1>8, <1>9 DEF Progress, SameWork

LEMMA NothingWritten ==
    UNCHANGED <<page_directory, page_tables, contents>> =>
      \A v : Undisturbed(v)
BY DEF Undisturbed, UserAccessible, Mapped, Lookup, Pde

\* A write of the kernel to a frame of its own.
LEMMA KernelWriteQuiet ==
    ASSUME NEW who, MemInv(who), NEW g, NEW tag,
           UNCHANGED <<page_directory, page_tables>>,
           contents' = [contents EXCEPT ![g] = tag],
           who[g].what # "page"
    PROVE  \A v \in Addrs : Undisturbed(v)
<1> SUFFICES ASSUME NEW v \in Addrs, UserAccessible(v) PROVE Undisturbed(v)
  BY DEF Undisturbed
<1>1. PICK f : f = Lookup(v).frame
  OBVIOUS
<1>2. f \in held /\ who[f] = Tag("page", v, 0)
  BY <1>1, UserFrame
<1>3. f # g /\ f \in Frames
  BY <1>2, TagFields, HeldFrames DEF MemInv
<1>4. contents'[f] = contents[f]
  BY <1>3 DEF MemInv, Types
<1>5. UserAccessible(v)' /\ Lookup(v)' = Lookup(v)
  BY DEF UserAccessible, Mapped, Lookup, Pde
<1> QED BY <1>1, <1>4, <1>5 DEF Undisturbed

-----------------------------------------------------------------------------
(***************************************************************************)
(* The invariant holds at first, and every step keeps it.                  *)
(***************************************************************************)
LEMMA OwnInit == MemInit => OwnInv
<1> SUFFICES ASSUME MemInit PROVE OwnInv
  OBVIOUS
<1>1. running = <<>> /\ op.pc = "idle"
  BY IdleOp DEF MemInit
<1>2. TopOnly /\ TopThere
  BY <1>1 DEF TopOnly, TopThere
<1>3. Progress
  BY <1>1 DEF Progress, Ending, Mapping
<1> QED BY <1>2, <1>3 DEF OwnInv

\* The steps that touch neither tables nor frames, and do not move on to
\* something that has to be in place already.
LEMMA OwnQuiet ==
    ASSUME Types, Control, OwnInv,
           UNCHANGED <<page_directory, page_tables, contents, tasks, files,
                       running, overlaid>>,
           \/ op' = op
           \/ /\ op'.pc \in {"idle", "tcb", "memset", "header", "give_up"}
              /\ op'.pc # "idle" =>
                   (op'.call = "create_user_process" <=> op'.path \in Paths)
           \/ /\ SameWork /\ op.pc # "idle"
              /\ op'.pc \in Mapping => op.pc \in Mapping
              /\ op'.pc \notin {"segment", "copy", "argv"}
              /\ op'.pc \in {"kstack", "frame", "link"} /\ op.path \in Paths
                   => Ending
    PROVE  OwnInv'
<1>1. \A v : Undisturbed(v)
  BY NothingWritten
<1>2. TopOnly' /\ TopThere'
  BY <1>1, TopKept DEF OwnInv, Types
<1>3. Progress'
  <2>1. CASE op' = op /\ op.pc = "idle"
    <3>1. op'.pc \in {"idle", "tcb", "memset", "header", "give_up"}
          /\ ~(op'.pc # "idle")
      BY <2>1
    <3> QED BY <3>1 DEF Progress, Ending, Mapping
  <2>2. CASE op' = op /\ op.pc # "idle"
    <3>1. SameWork /\ op'.pc = op.pc
      BY <2>2 DEF SameWork
    <3> QED BY <1>1, <2>2, <3>1, ProgressKept DEF OwnInv, Ending
  <2>3. CASE op'.pc \in {"idle", "tcb", "memset", "header", "give_up"}
             /\ (op'.pc # "idle" =>
                   (op'.call = "create_user_process" <=> op'.path \in Paths))
    BY <2>3 DEF Progress, Ending, Mapping
  <2>4. CASE /\ SameWork /\ op.pc # "idle"
             /\ op'.pc \in Mapping => op.pc \in Mapping
             /\ op'.pc \notin {"segment", "copy", "argv"}
             /\ op'.pc \in {"kstack", "frame", "link"} /\ op.path \in Paths
                  => Ending
    BY <1>1, <2>4, ProgressKept DEF OwnInv
  <2> QED BY <2>1, <2>2, <2>3, <2>4
<1> QED BY <1>2, <1>3 DEF OwnInv

LEMMA OwnBoot ==
    ASSUME NEW who, MemInv(who), OwnInv, kmain_pmm_init \/ vmm_init
    PROVE  OwnInv'
<1>1. boot < 2 /\ UNCHANGED <<op, running, overlaid, tasks>>
  BY DEF kmain_pmm_init, vmm_init
<1>2. op' = Idle /\ running' = <<>>
  BY <1>1 DEF MemInv, Booted
<1>3. TopOnly' /\ TopThere'
  BY <1>2 DEF TopOnly, TopThere
<1>4. Progress'
  BY <1>2, IdleOp DEF Progress, Ending, Mapping
<1> QED BY <1>3, <1>4 DEF OwnInv

LEMMA OwnBegin ==
    ASSUME NEW who, MemInv(who), OwnInv,
           kmain_call \/ \E path \in Paths : sys_exec(path)
    PROVE  OwnInv'
<1>1. UNCHANGED <<page_directory, page_tables, contents, tasks, files,
                  running, overlaid>>
      /\ op.pc = "idle"
  BY DEF kmain_call, sys_exec, paging, At
<1>2. op'.pc = "tcb" /\ (op'.call = "create_user_process" <=> op'.path \in Paths)
  <2>1. ASSUME NEW call, NEW path, NEW caller, Begin(call, path, caller),
               call = "create_user_process" <=> path \in Paths
        PROVE  op'.pc = "tcb"
               /\ (op'.call = "create_user_process" <=> op'.path \in Paths)
    BY <2>1 DEF Begin, Idle
  <2>2. "kmain" \notin Paths /\ "worker" \notin Paths
    BY FilesAssumption
  <2>3. CASE kmain_call
    <3>1. CASE boot = 2
      BY <2>1, <2>2, <2>3, <3>1 DEF kmain_call
    <3>2. CASE boot # 2
      <4>1. boot - 2 \in 1..Len(Launch)
        BY <2>3, <3>2, FilesAssumption DEF kmain_call
      <4>2. Launch[boot - 2] \in Paths \cup {"worker"}
        BY <4>1, FilesAssumption
      <4> QED BY <2>1, <2>2, <2>3, <3>2, <4>2 DEF kmain_call
    <3> QED BY <3>1, <3>2
  <2>4. CASE \E path \in Paths : sys_exec(path)
    BY <2>1, <2>4 DEF sys_exec
  <2> QED BY <2>3, <2>4
<1> QED BY <1>1, <1>2, OwnQuiet DEF MemInv

\* SYS_EXIT hands over to a program that a creation has overlaid.
LEMMA OwnExit ==
    ASSUME NEW who, MemInv(who), OwnInv, sys_exit
    PROVE  OwnInv'
<1>1. /\ running \in Seq(Nat) /\ running # <<>> /\ running' = Front(running)
      /\ op.pc = "idle" /\ UNCHANGED <<op, overlaid>>
  BY DEF sys_exit, MemInv, Types, At
<1>2. PICK n : n = Len(running)
  OBVIOUS
<1>3. /\ n \in Nat \ {0} /\ running' \in Seq(Nat) /\ Len(running') = n - 1
      /\ \A k \in 1..(n - 1) : running'[k] = running[k]
  BY <1>1, <1>2 DEF Front
<1>4. \A k \in DOMAIN running' : running'[k] \in overlaid'
  <2>1. DOMAIN running' = 1..(n - 1) /\ DOMAIN running = 1..n
    BY <1>1, <1>2, <1>3
  <2>2. ASSUME NEW k \in 1..(n - 1) PROVE running[k] \in overlaid
    <3>1. k \in DOMAIN running /\ k < Len(running)
      BY <1>2, <1>3, <2>1
    <3> QED BY <3>1 DEF OwnInv, TopOnly
  <2> QED BY <1>1, <1>3, <2>1, <2>2
<1>5. TopOnly' /\ TopThere'
  <2>1. running' # <<>> => Last(running') \in overlaid'
    BY <1>3, <1>4 DEF Last
  <2> QED BY <1>4, <2>1 DEF TopOnly, TopThere
<1>6. Progress'
  BY <1>1 DEF Progress, Ending, Mapping
<1> QED BY <1>5, <1>6 DEF OwnInv

LEMMA OwnHalts ==
    ASSUME NEW who, MemInv(who), OwnInv,
           user_fault \/ page_table_refused \/ kernel_page_fault \/ copy_argv_fault
    PROVE  OwnInv'
<1>1. UNCHANGED <<op, page_directory, page_tables, contents, tasks, files,
                  running, overlaid>>
  BY DEF user_fault, page_table_refused, kernel_page_fault, copy_argv_fault,
         paging
<1> QED BY <1>1, OwnQuiet DEF MemInv

\* The calls of pmm_alloc_page, vmm_map_page's look at the directory, and
\* the end of a creation that is given up.
LEMMA OwnAllocates ==
    ASSUME NEW who, MemInv(who), OwnInv,
           \/ alloc_tcb \/ alloc_phys_page \/ alloc_page_table
           \/ alloc_kernel_stack \/ alloc_refused \/ give_up \/ vmm_no_table
    PROVE  OwnInv'
<1>1. UNCHANGED <<page_directory, page_tables, contents, tasks, files,
                  running, overlaid>>
  BY DEF alloc_tcb, alloc_phys_page, alloc_page_table, alloc_kernel_stack,
         alloc_refused, give_up, vmm_no_table, allocate, paging
<1>2. op \in Ops
  BY DEF MemInv, Types
<1>3. op.pc # "idle" =>
        (op.call = "create_user_process" <=> op.path \in Paths)
  BY DEF OwnInv, Progress
<1>4. CASE alloc_tcb
  <2>1. op.pc = "tcb" /\ op' = [op EXCEPT !.pc = "memset", !.new_task = Granted]
    BY <1>4 DEF alloc_tcb, allocate, At
  <2>2. op'.pc = "memset" /\ op'.call = op.call /\ op'.path = op.path
    BY <1>2, <2>1 DEF Ops
  <2> QED BY <1>1, <1>3, <2>1, <2>2, OwnQuiet DEF MemInv
<1>5. CASE alloc_phys_page
  <2>1. op.pc = "page" /\ op' = [op EXCEPT !.pc = "map", !.phys_page = Granted]
    BY <1>5 DEF alloc_phys_page, allocate, At
  <2>2. op'.pc = "map" /\ SameWork
    BY <1>2, <2>1 DEF Ops, SameWork
  <2> QED BY <1>1, <2>1, <2>2, OwnQuiet DEF MemInv, Mapping
<1>6. CASE alloc_page_table
  <2>1. op.pc = "table" /\ op' = [op EXCEPT !.pc = "zero", !.new_pt = Granted]
    BY <1>6 DEF alloc_page_table, allocate, At
  <2>2. op'.pc = "zero" /\ SameWork
    BY <1>2, <2>1 DEF Ops, SameWork
  <2> QED BY <1>1, <2>1, <2>2, OwnQuiet DEF MemInv, Mapping
<1>7. CASE alloc_kernel_stack
  <2>1. op.pc = "kstack"
        /\ op' = [op EXCEPT !.pc = "frame", !.kernel_stack = Granted]
    BY <1>7 DEF alloc_kernel_stack, allocate, At
  <2>2. op'.pc = "frame" /\ SameWork
    BY <1>2, <2>1 DEF Ops, SameWork
  <2> QED BY <1>1, <2>1, <2>2, OwnQuiet DEF MemInv, Mapping, Ending
<1>8. CASE alloc_refused
  <2>1. op.pc # "idle" /\ op' = [op EXCEPT !.pc = "give_up"]
    BY <1>8 DEF alloc_refused, At
  <2>2. op'.pc = "give_up" /\ op'.call = op.call /\ op'.path = op.path
    BY <1>2, <2>1 DEF Ops
  <2> QED BY <1>1, <1>3, <2>1, <2>2, OwnQuiet DEF MemInv
<1>9. CASE give_up
  <2>1. op'.pc = "idle"
    BY <1>9, IdleOp DEF give_up
  <2> QED BY <1>1, <2>1, OwnQuiet DEF MemInv
<1>10. CASE vmm_no_table
  <2>1. op.pc = "map" /\ op' = [op EXCEPT !.pc = "table"]
    BY <1>10 DEF vmm_no_table, At
  <2>2. op'.pc = "table" /\ SameWork
    BY <1>2, <2>1 DEF Ops, SameWork
  <2> QED BY <1>1, <2>1, <2>2, OwnQuiet DEF MemInv, Mapping
<1> QED BY <1>4, <1>5, <1>6, <1>7, <1>8, <1>9, <1>10

LEMMA OwnHeader ==
    ASSUME NEW who, MemInv(who), OwnInv, elf_header
    PROVE  OwnInv'
<1>1. UNCHANGED <<page_directory, page_tables, contents, tasks, files,
                  running, overlaid>> /\ op.pc = "header"
  BY DEF elf_header, paging, At
<1>2. op \in Ops /\ op.path \in Paths /\ files \in Builds
      /\ (op.call = "create_user_process" <=> op.path \in Paths)
  BY <1>1 DEF MemInv, Types, Control, Loading, OwnInv, Progress
<1>3. CASE ~File.valid
  <2>1. op'.pc = "give_up" /\ op'.call = op.call /\ op'.path = op.path
    BY <1>2, <1>3 DEF elf_header, Ops
  <2> QED BY <1>1, <1>2, <2>1, OwnQuiet DEF MemInv
<1>4. CASE File.valid
  <2>1. /\ op'.pc = "segment" /\ op'.i = 1
        /\ op'.call = op.call /\ op'.path = op.path
    BY <1>2, <1>4 DEF elf_header, Ops
  <2>2. TopOnly' /\ TopThere'
    BY <1>1, <1>2, NothingWritten, TopKept DEF OwnInv, MemInv, Types
  <2>3. SegmentsThere(New, op.path, op.i)'
    <3>1. \A i \in DOMAIN Phdrs(op.path) : ~(i < 1)
      <4>1. File \in ElfFiles
        BY <1>2, FilesAssumption DEF File
      <4>2. Phdrs(op.path) \in Seq([p_type : {"PT_LOAD", "other"},
                                    first : Nat, size : Nat])
        BY <4>1 DEF ElfFiles, File, Phdrs
      <4> QED BY <4>2
    <3> QED BY <1>1, <2>1, <3>1 DEF SegmentsThere, Phdrs
  <2>4. Progress'
    BY <1>2, <2>1, <2>3 DEF Progress, Mapping, Ending
  <2> QED BY <2>2, <2>4 DEF OwnInv
<1> QED BY <1>3, <1>4

\* A step that writes a frame of the kernel's, or a new page table.
LEMMA OwnKernelWrite ==
    ASSUME NEW who, MemInv(who), OwnInv, \A v \in Addrs : Undisturbed(v),
           UNCHANGED <<tasks, files, running, overlaid>>, SameWork,
           op.pc # "idle",
           op'.pc \in Mapping => op.pc \in Mapping,
           op'.pc \notin {"segment", "copy", "argv"},
           op'.pc \in {"kstack", "frame", "link"} /\ op.path \in Paths => Ending
    PROVE  OwnInv'
<1>1. Progress'
  BY ProgressKept DEF OwnInv, MemInv
<1> QED BY <1>1, TopKept DEF OwnInv, MemInv, Types

LEMMA OwnMemset ==
    ASSUME NEW who, MemInv(who), OwnInv, memset_tcb
    PROVE  OwnInv'
<1>1. PICK g : g = op.new_task
  OBVIOUS
<1>2. op.pc = "memset" /\ boot >= 2 /\ op \in Ops
      /\ g \in Frames /\ who[g] = Tag("tcb", New, 0)
  BY <1>1, Working DEF memset_tcb, KernelWrites, At, MemInv, Types, Ops, Control,
                       CreationOwns
<1>3. contents' = [contents EXCEPT ![g] = Tag("tcb", New, 0)]
  BY <1>1, <1>2, KernelWrite DEF memset_tcb, KernelWrites, Write, MemInv
<1>4. UNCHANGED <<page_directory, page_tables, tasks, files, running, overlaid>>
  BY DEF memset_tcb, paging
<1>5. \A v \in Addrs : Undisturbed(v)
  <2>1. who[g].what # "page"
    BY <1>2 DEF Tag
  <2>2. PICK tag : contents' = [contents EXCEPT ![g] = tag]
    BY <1>3
  <2> QED BY <1>4, <2>1, <2>2, KernelWriteQuiet
<1>6. SameWork /\ op'.pc \in {"link", "kstack", "header"}
      /\ (op'.pc # "header" => op.call # "create_user_process")
  <2>1. CASE op.call = "tasking_init"
    <3>1. op' = [op EXCEPT !.pc = "link"]
      BY <2>1 DEF memset_tcb
    <3> QED BY <1>2, <2>1, <3>1 DEF Ops, SameWork
  <2>2. CASE op.call = "create_task"
    <3>1. op' = [op EXCEPT !.pc = "kstack"]
      BY <2>2 DEF memset_tcb
    <3> QED BY <1>2, <2>2, <3>1 DEF Ops, SameWork
  <2>3. CASE op.call \notin {"tasking_init", "create_task"}
    <3>1. op' = [op EXCEPT !.pc = "header"]
      BY <2>3 DEF memset_tcb
    <3> QED BY <1>2, <3>1 DEF Ops, SameWork
  <2> QED BY <2>1, <2>2, <2>3
<1>7. op'.pc \in {"kstack", "frame", "link"} => op.path \notin Paths
  BY <1>2, <1>6 DEF OwnInv, Progress
<1> QED BY <1>2, <1>4, <1>5, <1>6, <1>7, OwnKernelWrite DEF Mapping

LEMMA OwnStackFrame ==
    ASSUME NEW who, MemInv(who), OwnInv, fill_kernel_stack
    PROVE  OwnInv'
<1>1. PICK g : g = op.kernel_stack
  OBVIOUS
<1>2. op.pc = "frame" /\ boot >= 2 /\ op \in Ops
      /\ g \in Frames /\ who[g] = Tag("kernel stack", New, 0)
  BY <1>1, Working DEF fill_kernel_stack, KernelWrites, At, MemInv, Types, Ops,
                       Control, CreationOwns
<1>3. contents' = [contents EXCEPT ![g] = Tag("kernel stack", New, 0)]
  BY <1>1, <1>2, KernelWrite DEF fill_kernel_stack, KernelWrites, Write, MemInv
<1>4. UNCHANGED <<page_directory, page_tables, tasks, files, running, overlaid>>
  BY DEF fill_kernel_stack, paging
<1>5. \A v \in Addrs : Undisturbed(v)
  <2>1. who[g].what # "page"
    <3>1. PICK w : w = who[g]
      OBVIOUS
    <3>2. w.what = "kernel stack"
      BY <1>2, <3>1, TagFields
    <3>3. "kernel stack" # "page"
      OBVIOUS
    <3> QED BY <3>1, <3>2, <3>3
  <2>2. PICK tag : contents' = [contents EXCEPT ![g] = tag]
    BY <1>3
  <2> QED BY <1>4, <2>1, <2>2, KernelWriteQuiet
<1>6. SameWork /\ op'.pc = "link"
  BY <1>2 DEF fill_kernel_stack, Ops, SameWork
<1> QED BY <1>2, <1>4, <1>5, <1>6, OwnKernelWrite DEF Mapping, Ending

\* The table and the entry through which ring 3 reaches an address.
LEMMA UserTable ==
    ASSUME NEW who, MemInv(who), NEW v \in Addrs, UserAccessible(v),
           NEW d, d = v \div TableSize
    PROVE  /\ d \in Upper /\ page_directory[d].present
           /\ page_directory[d].user
           /\ page_directory[d].frame \in DOMAIN page_tables
           /\ page_directory[d].frame \in held
           /\ who[page_directory[d].frame] = Tag("table", d, 0)
           /\ Lookup(v) = page_tables[page_directory[d].frame][v % TableSize]
           /\ Lookup(v).present /\ Lookup(v).user
<1>1. d \in Directories /\ (v \notin IdentityMapped => d \in Upper)
  BY Coordinates
<1>2. /\ page_directory[d].user /\ Lookup(v).present /\ Lookup(v).user
      /\ Lookup(v) = IF page_directory[d].present
                       THEN page_tables[page_directory[d].frame][v % TableSize]
                       ELSE Absent
  BY DEF UserAccessible, Mapped, Pde, Lookup
<1>3. page_directory[d].present
  BY <1>2 DEF Absent
<1>4. boot >= 2
  <2>1. ~IdentityDirectory(BootTables)[d].user
    BY <1>1 DEF IdentityDirectory, Entry, Absent
  <2>2. boot \in Nat
    BY FilesAssumption DEF MemInv, Booted
  <2> QED BY <1>2, <2>1, <2>2 DEF MemInv, Booted
<1>5. d \notin {0, 1}
  BY <1>2, <1>4 DEF MemInv, Paging, Entry
<1>6. d \in Upper
  BY <1>1, <1>5 DEF Upper
<1> QED BY <1>2, <1>3, <1>4, <1>6, UpperTables DEF MemInv

\* Programs keep their pages when a directory entry that had none gets an
\* empty table.
LEMMA OwnNewTable ==
    ASSUME NEW who, MemInv(who), OwnInv, vmm_new_table
    PROVE  OwnInv'
<1>1. PICK g, n : g = op.new_pt /\ n = op.page \div TableSize
  OBVIOUS
<1>2. /\ op.pc = "zero" /\ boot >= 2 /\ op \in Ops
      /\ g \in Frames /\ g \in held /\ who[g] = Tag("table", n, 0)
      /\ page_directory[n] = Absent
  BY <1>1, Working DEF vmm_new_table, KernelWrites, At, MemInv, Types, Ops,
                       Control, CreationOwns, Pde
<1>3. contents' = [contents EXCEPT ![g] = Tag("table", 0, 0)]
  BY <1>1, <1>2, KernelWrite DEF vmm_new_table, KernelWrites, Write, MemInv
<1>4. /\ page_directory' = [page_directory EXCEPT ![n] = Entry(g, TRUE)]
      /\ \A f \in DOMAIN page_tables : f # g => page_tables'[f] = page_tables[f]
      /\ UNCHANGED <<tasks, files, running, overlaid>>
  BY <1>1 DEF vmm_new_table
<1>5. ASSUME NEW v \in Addrs, UserAccessible(v) PROVE Undisturbed(v)
  <2>1. PICK d, h, f : /\ d = v \div TableSize /\ h = page_directory[d].frame
                       /\ f = Lookup(v).frame
    OBVIOUS
  <2>2. /\ d \in Upper /\ page_directory[d].present /\ page_directory[d].user
        /\ h \in DOMAIN page_tables /\ who[h] = Tag("table", d, 0)
        /\ Lookup(v) = page_tables[h][v % TableSize]
        /\ Lookup(v).present /\ Lookup(v).user
    BY <1>5, <2>1, UserTable
  <2>3. d # n
    BY <1>2, <2>2 DEF Absent
  <2>4. h # g
    BY <1>2, <2>2, <2>3 DEF Tag
  <2>5. page_directory'[d] = page_directory[d] /\ page_tables'[h] = page_tables[h]
    BY <1>4, <2>2, <2>3, <2>4 DEF MemInv, Types, Upper
  <2>6. Lookup(v)' = Lookup(v) /\ UserAccessible(v)'
    BY <2>1, <2>2, <2>5 DEF UserAccessible, Mapped, Pde, Lookup
  <2>7. f \in held /\ who[f] = Tag("page", v, 0)
    BY <1>5, <2>1, UserFrame
  <2>8. f # g /\ f \in Frames
    BY <1>2, <2>7, HeldFrames DEF Tag, MemInv
  <2>9. contents'[f] = contents[f]
    BY <1>3, <2>8 DEF MemInv, Types
  <2> QED BY <2>1, <2>6, <2>9 DEF Undisturbed
<1>6. \A v \in Addrs : Undisturbed(v)
  BY <1>5 DEF Undisturbed
<1>7. SameWork /\ op'.pc = "map"
  BY <1>2 DEF vmm_new_table, Ops, SameWork
<1> QED BY <1>2, <1>4, <1>6, <1>7, OwnKernelWrite DEF Mapping

\* The file the creation loads, and the segment it is at.
LEMMA Work ==
    ASSUME Types, Control,
           op.pc \in Loading \/ Ending
    PROVE  /\ op.path \in Paths /\ files \in Builds /\ op.i \in Nat
           /\ op.page \in Nat /\ op.last \in Nat
           /\ Phdrs(op.path) = File.phdrs /\ File = files[op.path]
           /\ Len(File.phdrs) \in Nat
           /\ DOMAIN File.phdrs = 1..Len(File.phdrs)
           /\ \A i \in DOMAIN File.phdrs :
                File.phdrs[i].first \in Nat /\ File.phdrs[i].size \in Nat
<1>1. op.path \in Paths /\ files \in Builds /\ op \in Ops
  BY DEF Types, Control, Ending
<1>2. File \in ElfFiles
  BY <1>1, FilesAssumption DEF File
<1>3. PICK s, H : s = File.phdrs /\ H = [p_type : {"PT_LOAD", "other"},
                                         first : Nat, size : Nat]
  OBVIOUS
<1>4. s \in Seq(H)
  BY <1>2, <1>3 DEF ElfFiles
<1>5. \A h \in H : h.first \in Nat /\ h.size \in Nat
  BY <1>3
<1>6. \A i \in DOMAIN s : s[i].first \in Nat /\ s[i].size \in Nat
  BY <1>4, <1>5
<1>7. Len(s) \in Nat /\ DOMAIN s = 1..Len(s)
  BY <1>4
<1> QED BY <1>1, <1>3, <1>6, <1>7 DEF Ops, Phdrs, File

LEMMA OwnNextSegment ==
    ASSUME NEW who, MemInv(who), OwnInv, elf_next_segment
    PROVE  OwnInv'
<1>1. UNCHANGED <<page_directory, page_tables, contents, tasks, files,
                  running, overlaid>> /\ op.pc = "segment" /\ op.i <= Len(File.phdrs)
  BY DEF elf_next_segment, paging, At
<1>2. /\ op \in Ops /\ op.path \in Paths /\ files \in Builds /\ op.i \in Nat
      /\ op.i >= 1 /\ Phdrs(op.path) = File.phdrs
      /\ Len(File.phdrs) \in Nat /\ DOMAIN File.phdrs = 1..Len(File.phdrs)
      /\ op.call = "create_user_process"
      /\ SegmentsThere(New, op.path, op.i)
  BY <1>1, Work DEF MemInv, Types, Control, Loading, OwnInv, Progress
<1>3. TopOnly' /\ TopThere'
  BY <1>1, <1>2, NothingWritten, TopKept DEF OwnInv, MemInv, Types
<1>4. ASSUME NEW n, n = op.i \/ (n = op.i + 1 /\ ~Loaded(Phdr)),
             op'.path = op.path
      PROVE  SegmentsThere(New, op.path, n)'
  <2>1. SegmentsThere(New, op.path, n)
    BY <1>2, <1>4 DEF SegmentsThere, Phdr
  <2>2. PICK t, path : t = New /\ path = op.path
    OBVIOUS
  <2>3. SegmentsThere(t, path, n)'
    BY <1>1, <1>2, <2>1, <2>2, NothingWritten, SegmentsKept
  <2>4. New' = New
    BY <1>1 DEF New
  <2> QED BY <1>4, <2>2, <2>3, <2>4
<1>5. CASE ~Loaded(Phdr)
  <2>1. /\ op'.pc = "segment" /\ op'.i = op.i + 1
        /\ op'.path = op.path /\ op'.call = op.call
    BY <1>1, <1>2, <1>5 DEF elf_next_segment, Ops
  <2>2. SegmentsThere(New, op.path, op.i)'
    BY <1>4, <1>5, <2>1
  <2>3. Progress'
    BY <1>2, <2>1, <2>2 DEF Progress, Mapping, Ending
  <2> QED BY <1>3, <2>3 DEF OwnInv
<1>6. CASE Loaded(Phdr)
  <2>1. /\ op'.pc = "page" /\ op'.page = Phdr.first
        /\ op'.last = Phdr.first + Phdr.size - 1 /\ op'.i = op.i
        /\ op'.path = op.path /\ op'.call = op.call
    BY <1>2, <1>6 DEF elf_next_segment, Ops
  <2>2. Region' = SegmentPages(Phdr)
    BY <1>1, <1>2, <1>6, <2>1 DEF Region, File, Phdr
  <2>3. PICK first, size : first = Phdr.first /\ size = Phdr.size
    OBVIOUS
  <2>4. first \in Nat /\ size \in Nat
    BY <1>1, <1>2, <1>6, <2>3, Work DEF Phdr, Loading, MemInv
  <2>5. SegmentPages(Phdr) = first..(first + size - 1)
    BY <2>3 DEF SegmentPages
  <2>6. \A v \in SegmentPages(Phdr) : v <= first + size - 1 /\ ~(v < first)
    BY <2>4, <2>5
  <2>7. SegmentsThere(New, op.path, op.i)'
    BY <1>4, <2>1
  <2>8. Progress'
    BY <1>2, <2>1, <2>2, <2>3, <2>5, <2>6, <2>7 DEF Progress, Mapping, Ending
  <2> QED BY <1>3, <2>8 DEF OwnInv
<1> QED BY <1>5, <1>6

\* Once every segment is in place the stack comes next, unless the file's
\* entry point is taken for a failure.
LEMMA OwnLoaded ==
    ASSUME NEW who, MemInv(who), OwnInv, elf_loaded
    PROVE  OwnInv'
<1>1. UNCHANGED <<page_directory, page_tables, contents, tasks, files,
                  running, overlaid>> /\ op.pc = "segment"
      /\ op.i > Len(File.phdrs)
  BY DEF elf_loaded, paging, At
<1>2. /\ op \in Ops /\ op.path \in Paths /\ files \in Builds /\ op.i \in Nat
      /\ Len(File.phdrs) \in Nat
      /\ op.call = "create_user_process"
      /\ SegmentsThere(New, op.path, op.i)
  BY <1>1, Work DEF MemInv, Types, Control, Loading, OwnInv, Progress
<1>3. CASE File.e_entry = 0
  <2>1. op'.pc = "give_up" /\ op'.call = op.call /\ op'.path = op.path
    BY <1>2, <1>3 DEF elf_loaded, Ops
  <2> QED BY <1>1, <1>2, <2>1, OwnQuiet DEF MemInv
<1>4. CASE File.e_entry # 0
  <2>1. /\ op'.pc = "page" /\ op'.page = UserStackBottom
        /\ op'.last = UserStackTop - 1 /\ op'.i = op.i
        /\ op'.path = op.path /\ op'.call = op.call
    BY <1>2, <1>4 DEF elf_loaded, Ops
  <2>2. Region' = StackPages
    BY <1>1, <1>2, <2>1 DEF Region, File
  <2>3. \A v \in StackPages : v <= UserStackTop - 1 /\ ~(v < UserStackBottom)
    BY DirectoryAssumption DEF StackPages
  <2>4. UserStackBottom..(UserStackTop - 1) \subseteq StackPages
    BY DEF StackPages
  <2>5. SegmentsThere(New, op.path, op.i)'
    <3>1. PICK t, path, i : t = New /\ path = op.path /\ i = op.i
      OBVIOUS
    <3>2. SegmentsThere(t, path, i)'
      BY <1>1, <1>2, <3>1, NothingWritten, SegmentsKept
    <3>3. New' = New
      BY <1>1 DEF New
    <3> QED BY <2>1, <3>1, <3>2, <3>3
  <2>6. TopOnly' /\ TopThere'
    BY <1>1, <1>2, NothingWritten, TopKept DEF OwnInv, MemInv, Types
  <2>7. Progress'
    BY <1>2, <2>1, <2>2, <2>3, <2>4, <2>5 DEF Progress, Mapping, Ending
  <2> QED BY <2>6, <2>7 DEF OwnInv
<1> QED BY <1>3, <1>4

\* The segments before the one at hand, when nothing has touched their pages.
LEMMA EarlierKept ==
    ASSUME UNCHANGED files, NEW path, NEW t, NEW n, SegmentsThere(t, path, n),
           \A i \in DOMAIN Phdrs(path) : i < n /\ Loaded(Phdrs(path)[i]) =>
             \A v \in SegmentPages(Phdrs(path)[i]) : Undisturbed(v)
    PROVE  SegmentsThere(t, path, n)'
<1>1. Phdrs(path)' = Phdrs(path)
  BY DEF Phdrs
<1> QED BY <1>1 DEF SegmentsThere, SegmentThere, Undisturbed

\* The segments before the one at hand have none of its pages, nor any of
\* the stack's.
LEMMA EarlierApart ==
    ASSUME LoadsApart, Types, Control, op.pc \in Loading,
           op.i <= Len(File.phdrs) => op.i \in DOMAIN File.phdrs /\ Loaded(Phdr),
           NEW i \in DOMAIN Phdrs(op.path), i < op.i, Loaded(Phdrs(op.path)[i]),
           NEW v \in SegmentPages(Phdrs(op.path)[i])
    PROVE  v \notin Region /\ v \in Addrs
<1>1. /\ op.path \in Paths /\ files \in Builds /\ op.i \in Nat
      /\ Phdrs(op.path) = File.phdrs /\ File = files[op.path]
      /\ DOMAIN File.phdrs = 1..Len(File.phdrs)
  BY Work
<1>2. v \in ImagePages(files[op.path])
  BY <1>1, ProgramAddrs
<1>3. CASE op.i <= Len(File.phdrs)
  <2>1. i # op.i
    BY <1>1
  <2>2. SegmentPages(File.phdrs[i]) \cap SegmentPages(File.phdrs[op.i]) = {}
    BY <1>1, <1>3, <2>1 DEF LoadsApart, SegmentsApart, Phdr
  <2> QED BY <1>1, <1>2, <1>3, <2>2, ProgramAddrs DEF Region, Phdr
<1>4. CASE ~(op.i <= Len(File.phdrs))
  BY <1>1, <1>2, <1>4, ProgramAddrs DEF Region
<1> QED BY <1>3, <1>4

LEMMA RegionAddrs ==
    ASSUME Types, Control, op.pc \in Loading,
           op.i <= Len(File.phdrs) => op.i \in DOMAIN File.phdrs /\ Loaded(Phdr)
    PROVE  Region \subseteq Addrs /\ \A v \in Region : v \in Nat
<1>1. /\ op.path \in Paths /\ files \in Builds
      /\ Phdrs(op.path) = File.phdrs
  BY Work
<1>2. Region \subseteq Addrs
  BY <1>1, ProgramAddrs DEF Region, Phdr
<1> QED BY <1>2 DEF Addrs

\* Mapping a page: the others stay as they are, and this one is there for
\* ring 3.
LEMMA MapsOne ==
    ASSUME NEW who, MemInv(who), vmm_map_user_page,
           NEW a, a = op.page
    PROVE  UserAccessible(a)' /\ \A v \in Addrs : v # a => Undisturbed(v)
<1>1. PICK g, n, e, h :
        /\ g = op.phys_page /\ n = op.page \div TableSize
        /\ e = op.page % TableSize /\ h = page_directory[n].frame
        /\ a = op.page
  OBVIOUS
<1>2. /\ op.pc = "map" /\ boot >= 2 /\ op \in Ops
      /\ g \in Frames /\ g \in held /\ who[g] = Tag("page", a, 0)
      /\ a \in ProgramPages /\ page_directory[n].present
  BY <1>1, Working DEF vmm_map_user_page, At, MemInv, Types, Ops, Control,
                       CreationOwns, Mapping, Pde
<1>3. /\ n \in Upper /\ n \in Directories /\ e \in Entries
      /\ (n * TableSize) + e = a /\ a \in Addrs
  BY <1>1, <1>2, ProgramAddress, Coordinates DEF MemInv, Types
<1>4. /\ contents' = [contents EXCEPT ![g] = Stale]
      /\ page_tables' = [page_tables EXCEPT ![h][e] = Entry(g, TRUE)]
      /\ page_directory' = page_directory
  BY <1>1 DEF vmm_map_user_page, Pde
<1>5. /\ h \in DOMAIN page_tables /\ who[h] = Tag("table", n, 0)
      /\ page_directory[n].user
  BY <1>1, <1>2, <1>3, UpperTables DEF MemInv
<1>6. /\ \A f \in DOMAIN page_tables : f # h => page_tables'[f] = page_tables[f]
      /\ page_tables'[h][e] = Entry(g, TRUE)
      /\ \A x \in Entries : x # e => page_tables'[h][x] = page_tables[h][x]
  <2>1. page_tables[h] \in [Entries -> TableEntries]
    BY <1>5 DEF MemInv, Types
  <2>2. page_tables'[h] = [page_tables[h] EXCEPT ![e] = Entry(g, TRUE)]
    BY <1>4, <1>5
  <2> QED BY <1>3, <1>4, <1>5, <2>1, <2>2
<1>7. UserAccessible(a)'
  <2>1. Pde(a)' = page_directory[n]
    BY <1>1, <1>4 DEF Pde
  <2>2. Lookup(a)' = Entry(g, TRUE)
    BY <1>1, <1>2, <1>6, <2>1 DEF Lookup
  <2>3. Lookup(a)'.present /\ Lookup(a)'.user
    BY <2>2 DEF Entry
  <2> QED BY <1>5, <2>1, <2>3 DEF UserAccessible, Mapped
<1>8. ASSUME NEW v \in Addrs, v # a, UserAccessible(v)
      PROVE  Undisturbed(v)
  <2>1. PICK d, k, x, f : /\ d = v \div TableSize /\ k = page_directory[d].frame
                          /\ x = v % TableSize /\ f = Lookup(v).frame
    OBVIOUS
  <2>2. /\ d \in Upper /\ page_directory[d].present /\ page_directory[d].user
        /\ k \in DOMAIN page_tables /\ who[k] = Tag("table", d, 0)
        /\ Lookup(v) = page_tables[k][x]
        /\ Lookup(v).present /\ Lookup(v).user
    BY <1>8, <2>1, UserTable
  <2>3. x \in Entries /\ (d * TableSize) + x = v
    BY <2>1, Coordinates
  <2>4. page_tables'[k][x] = page_tables[k][x]
    <3>1. CASE d = n
      <4>1. x # e
        BY <1>3, <1>8, <2>3, <3>1
      <4>2. k = h
        BY <1>1, <2>1, <3>1
      <4> QED BY <1>6, <2>3, <4>1, <4>2
    <3>2. CASE d # n
      <4>1. k # h
        BY <1>5, <2>2, <3>2 DEF Tag
      <4> QED BY <1>6, <2>2, <4>1
    <3> QED BY <3>1, <3>2
  <2>5. Lookup(v)' = Lookup(v) /\ UserAccessible(v)'
    BY <1>4, <2>1, <2>2, <2>4 DEF UserAccessible, Mapped, Pde, Lookup
  <2>6. f \in held /\ who[f] = Tag("page", v, 0)
    BY <1>8, <2>1, UserFrame
  <2>7. f # g /\ f \in Frames
    BY <1>2, <1>8, <2>6, HeldFrames DEF Tag, MemInv
  <2>8. contents'[f] = contents[f]
    BY <1>4, <2>7 DEF MemInv, Types
  <2> QED BY <2>1, <2>5, <2>8 DEF Undisturbed
<1>9. \A v \in Addrs : v # a => Undisturbed(v)
  BY <1>8 DEF Undisturbed
<1> QED BY <1>7, <1>9

LEMMA OwnMaps ==
    ASSUME LoadsApart, NEW who, MemInv(who), OwnInv,
           vmm_map_user_page
    PROVE  OwnInv'
<1>1. PICK a, last, n : a = op.page /\ last = op.last /\ n = Len(File.phdrs)
  OBVIOUS
<1>2. /\ op.pc = "map" /\ op \in Ops /\ op.path \in Paths
      /\ op.call = "create_user_process"
      /\ op.i \in Nat /\ op.i >= 1 /\ a \in Nat /\ last \in Nat /\ n \in Nat
      /\ a <= last /\ DOMAIN File.phdrs = 1..n
      /\ op.i <= n => op.i \in DOMAIN File.phdrs /\ Loaded(Phdr)
      /\ Phdrs(op.path) = File.phdrs
  BY <1>1, Work DEF vmm_map_user_page, At, MemInv, Types, Control, Loading,
                    Mapping, OwnInv, Progress
<1>3. /\ running \in Seq(Nat)
      /\ UNCHANGED <<tasks, files, running>>
      /\ overlaid' = overlaid \cup {running[k] : k \in DOMAIN running}
  BY DEF vmm_map_user_page, MemInv, Types
<1>4. /\ op'.path = op.path /\ op'.i = op.i /\ op'.last = op.last
      /\ op'.call = op.call
      /\ \/ op'.pc = "page" /\ op'.page = a + 1 /\ a < last
         \/ op'.pc = "argv" /\ a = last /\ op.i > n
         \/ op'.pc = "copy" /\ a = last /\ ~(op.i > n)
  <2>1. CASE a < last
    <3>1. op' = [op EXCEPT !.pc = "page", !.page = a + 1]
      BY <1>1, <2>1 DEF vmm_map_user_page
    <3> QED BY <1>2, <2>1, <3>1 DEF Ops
  <2>2. CASE ~(a < last)
    <3>1. a = last
      BY <1>2, <2>2
    <3>2. \/ op' = [op EXCEPT !.pc = "argv"] /\ op.i > n
          \/ op' = [op EXCEPT !.pc = "copy"] /\ ~(op.i > n)
      BY <1>1, <2>2 DEF vmm_map_user_page
    <3> QED BY <1>2, <3>1, <3>2 DEF Ops
  <2> QED BY <2>1, <2>2
<1>5. UserAccessible(a)' /\ \A v \in Addrs : v # a => Undisturbed(v)
  BY <1>1, MapsOne
<1>6. PICK R : R = Region
  OBVIOUS
<1>7. /\ R \subseteq Addrs /\ (\A v \in R : v \in Nat)
      /\ a \in R /\ a..last \subseteq R
      /\ \A v \in R : v <= last /\ (v < a => UserAccessible(v))
  <2>1. a \in a..last
    BY <1>2
  <2> QED BY <1>1, <1>2, <1>6, <2>1, RegionAddrs
          DEF MemInv, Loading, Mapping, OwnInv, Progress
<1>8. /\ Region' = R /\ New' = New /\ Len(File.phdrs)' = n
  BY <1>1, <1>3, <1>4, <1>6 DEF Region, File, Phdr, New
<1>9. AllOverlaid' /\ TopOnly' /\ TopThere'
  <2>1. AllOverlaid'
    BY <1>3 DEF AllOverlaid
  <2>2. running # <<>> => Len(running) \in DOMAIN running
    BY <1>3
  <2> QED BY <1>3, <2>1, <2>2 DEF AllOverlaid, TopOnly, TopThere, Last
<1>10. SegmentsThere(New, op.path, op.i)'
  <2>1. PICK t, path, i : t = New /\ path = op.path /\ i = op.i
    OBVIOUS
  <2>2. SegmentsThere(t, path, i)
    BY <1>2, <2>1 DEF OwnInv, Progress, Mapping
  <2>3. ASSUME NEW j \in DOMAIN Phdrs(path), j < i, Loaded(Phdrs(path)[j]),
               NEW v \in SegmentPages(Phdrs(path)[j])
        PROVE  Undisturbed(v)
    <3>1. v \notin Region /\ v \in Addrs
      BY <1>1, <1>2, <2>1, <2>3, EarlierApart DEF MemInv, Loading, Mapping
    <3> QED BY <1>5, <1>6, <1>7, <3>1
  <2>4. SegmentsThere(t, path, i)'
    BY <1>3, <2>2, <2>3, EarlierKept
  <2> QED BY <1>4, <1>8, <2>1, <2>4
<1>11. \A v \in R : v <= a => UserAccessible(v)'
  <2>1. ASSUME NEW v \in R, v <= a PROVE UserAccessible(v)'
    <3>1. CASE v = a
      BY <1>5, <3>1
    <3>2. CASE v # a
      <4>1. v < a /\ v \in Addrs
        BY <1>2, <1>7, <2>1, <3>2
      <4> QED BY <1>5, <1>7, <3>2, <4>1 DEF Undisturbed
    <3> QED BY <3>1, <3>2
  <2> QED BY <2>1
<1>12. CASE op'.pc = "page" /\ op'.page = a + 1 /\ a < last
  <2>1. (a + 1)..last \subseteq R /\ \A v \in R : v < a + 1 => v <= a
    BY <1>2, <1>7
  <2>2. Progress'
    BY <1>1, <1>2, <1>4, <1>7, <1>8, <1>10, <1>11, <1>12, <2>1
       DEF Progress, Mapping, Ending
  <2> QED BY <1>9, <2>2 DEF OwnInv
<1>13. CASE op'.pc \in {"argv", "copy"} /\ a = last
  <2>1. Accessible(Region)'
    BY <1>7, <1>8, <1>11, <1>13 DEF Accessible
  <2>2. op'.pc = "argv" => op'.i > Len(File.phdrs)'
    BY <1>4, <1>8
  <2>3. Progress'
    BY <1>2, <1>4, <1>9, <1>10, <1>13, <2>1, <2>2 DEF Progress, Mapping, Ending
  <2> QED BY <1>9, <2>3 DEF OwnInv
<1> QED BY <1>4, <1>12, <1>13

\* Two addresses of ring 3 are two frames.
LEMMA TwoFrames ==
    ASSUME NEW who, MemInv(who), NEW v \in Addrs, NEW w \in Addrs,
           UserAccessible(v), UserAccessible(w), v # w
    PROVE  Lookup(v).frame # Lookup(w).frame
<1>1. who[Lookup(v).frame] = Tag("page", v, 0)
      /\ who[Lookup(w).frame] = Tag("page", w, 0)
  BY UserFrame
<1> QED BY <1>1 DEF Tag

LEMMA OwnCopies ==
    ASSUME LoadsApart, NEW who, MemInv(who), OwnInv,
           elf_copy_segment
    PROVE  OwnInv'
<1>1. PICK t, path, m : t = New /\ path = op.path /\ m = op.i
  OBVIOUS
<1>2. /\ op.pc = "copy" /\ op \in Ops /\ path \in Paths
      /\ op.call = "create_user_process" /\ m \in Nat
      /\ m \in 1..Len(File.phdrs) /\ Loaded(Phdr)
      /\ Phdrs(path) = File.phdrs /\ DOMAIN File.phdrs = 1..Len(File.phdrs)
      /\ Accessible(Region) /\ AllOverlaid /\ SegmentsThere(t, path, m)
  BY <1>1, Work DEF elf_copy_segment, At, MemInv, Types, Control, Loading,
                    OwnInv, Progress
<1>3. /\ UNCHANGED <<page_directory, page_tables, tasks, files, running, overlaid>>
      /\ contents' = [f \in Frames |->
                        IF \E v \in SegmentPages(Phdr) : Lookup(v).frame = f
                          THEN Tag("image", t, m) ELSE contents[f]]
      /\ op'.pc = "segment" /\ op'.i = m + 1
      /\ op'.path = path /\ op'.call = op.call
  BY <1>1, <1>2 DEF elf_copy_segment, paging, Ops
<1>4. PICK R : R = SegmentPages(Phdr)
  OBVIOUS
<1>5. R = Region /\ R \subseteq Addrs /\ \A v \in R : UserAccessible(v)
  <2>1. R = Region
    BY <1>1, <1>2, <1>4 DEF Region
  <2>2. Region \subseteq Addrs
    BY <1>1, <1>2, RegionAddrs DEF MemInv, Loading
  <2> QED BY <1>2, <2>1, <2>2 DEF Accessible
<1>6. \A v : Lookup(v)' = Lookup(v) /\ (UserAccessible(v) => UserAccessible(v)')
  BY <1>3 DEF Lookup, Pde, UserAccessible, Mapped
<1>7. ASSUME NEW v \in Addrs, UserAccessible(v), v \notin R
      PROVE  Undisturbed(v)
  <2>1. PICK f : f = Lookup(v).frame
    OBVIOUS
  <2>2. f \in Frames
    BY <1>7, <2>1, UserFrame, HeldFrames DEF MemInv
  <2>3. \A w \in R : Lookup(w).frame # f
    BY <1>5, <1>7, <2>1, TwoFrames
  <2>4. contents'[f] = contents[f]
    BY <1>3, <1>4, <2>2, <2>3
  <2> QED BY <1>6, <1>7, <2>1, <2>4 DEF Undisturbed
<1>8. ASSUME NEW v \in R
      PROVE  UserAccessible(v)' /\ contents'[Lookup(v).frame] = Tag("image", t, m)
  <2>1. PICK f : f = Lookup(v).frame
    OBVIOUS
  <2>2. f \in Frames
    BY <1>5, <2>1, UserFrame, HeldFrames DEF MemInv
  <2>3. contents'[f] = Tag("image", t, m)
    BY <1>3, <1>4, <2>1, <2>2
  <2> QED BY <1>5, <1>6, <2>1, <2>3
<1>9. SegmentsThere(t, path, m)'
  <2>1. ASSUME NEW j \in DOMAIN Phdrs(path), j < m, Loaded(Phdrs(path)[j]),
               NEW v \in SegmentPages(Phdrs(path)[j])
        PROVE  Undisturbed(v)
    <3>1. v \notin R /\ v \in Addrs
      BY <1>1, <1>2, <1>5, <2>1, EarlierApart DEF MemInv, Loading
    <3> QED BY <1>7, <3>1 DEF Undisturbed
  <2> QED BY <1>2, <1>3, <2>1, EarlierKept
<1>10. SegmentThere(t, path, m)'
  <2>1. Phdrs(path)' = Phdrs(path) /\ SegmentPages(Phdrs(path)[m]) = R
    BY <1>1, <1>2, <1>3, <1>4 DEF Phdrs, Phdr
  <2> QED BY <1>6, <1>8, <2>1 DEF SegmentThere
<1>11. SegmentsThere(t, path, m + 1)'
  <2>1. \A j \in DOMAIN Phdrs(path)' : j < m + 1 => j < m \/ j = m
    BY <1>2, <1>3 DEF Phdrs
  <2> QED BY <1>9, <1>10, <2>1 DEF SegmentsThere
<1>12. New' = t
  BY <1>1, <1>3 DEF New
<1>13. TopOnly' /\ TopThere'
  <2>1. running # <<>> => Len(running) \in DOMAIN running
    BY DEF MemInv, Types
  <2> QED BY <1>2, <1>3, <2>1 DEF AllOverlaid, TopOnly, TopThere, Last
<1>14. Progress'
  BY <1>1, <1>2, <1>3, <1>11, <1>12 DEF Progress, Mapping, Ending
<1> QED BY <1>13, <1>14 DEF OwnInv

LEMMA OwnArguments ==
    ASSUME NEW who, MemInv(who), OwnInv, copy_argv
    PROVE  OwnInv'
<1>1. PICK t, path, m, a :
        t = New /\ path = op.path /\ m = op.i /\ a = UserStackTop - 1
  OBVIOUS
<1>2. /\ op.pc = "argv" /\ op \in Ops /\ path \in Paths /\ files \in Builds
      /\ op.call = "create_user_process" /\ m \in Nat
      /\ m > Len(File.phdrs) /\ Len(File.phdrs) \in Nat
      /\ Accessible(Region) /\ AllOverlaid /\ SegmentsThere(t, path, m)
  BY <1>1, Work DEF copy_argv, At, MemInv, Types, Control, Loading,
                    OwnInv, Progress
<1>3. /\ UNCHANGED <<page_directory, page_tables, tasks, files, running, overlaid>>
      /\ contents' = [contents EXCEPT ![Lookup(a).frame] = Tag("stack", t, 0)]
  BY <1>1 DEF copy_argv, Write, paging
<1>4. /\ op'.pc = "kstack" /\ op'.i = m /\ op'.path = path
      /\ op'.call = op.call /\ op'.caller = op.caller
      /\ op.caller = 0 => op'.argv = "given"
  <2>1. PICK argv \in ArgvRead : op' = [op EXCEPT !.pc = "kstack", !.argv = argv]
    BY DEF copy_argv
  <2>2. op.caller = 0 => argv = "given"
    BY <2>1 DEF ArgvRead, ArgvIntact
  <2> QED BY <1>1, <1>2, <2>1, <2>2 DEF Ops
<1>5. /\ Region = StackPages /\ a \in StackPages /\ StackPages \subseteq Addrs
      /\ ImagePages(files[path]) \subseteq Addrs
      /\ a \notin ImagePages(files[path])
  BY <1>1, <1>2, ProgramAddrs DEF Region
<1>6. \A v : Lookup(v)' = Lookup(v) /\ (UserAccessible(v) => UserAccessible(v)')
  BY <1>3 DEF Lookup, Pde, UserAccessible, Mapped
<1>7. UserAccessible(a)
  BY <1>2, <1>5 DEF Accessible
<1>8. ASSUME NEW v \in Addrs, UserAccessible(v), v # a
      PROVE  Undisturbed(v)
  <2>1. PICK f, g : f = Lookup(v).frame /\ g = Lookup(a).frame
    OBVIOUS
  <2>2. f # g /\ f \in Frames
    BY <1>5, <1>7, <1>8, <2>1, TwoFrames, UserFrame, HeldFrames DEF MemInv
  <2>3. contents'[f] = contents[f]
    BY <1>3, <2>1, <2>2 DEF MemInv, Types
  <2> QED BY <1>6, <1>8, <2>1, <2>3 DEF Undisturbed
<1>9. SegmentsThere(t, path, m)'
  <2>1. \A v \in ImagePages(files[path]) : Undisturbed(v)
    BY <1>5, <1>8 DEF Undisturbed
  <2> QED BY <1>2, <1>3, <2>1, SegmentsKept
<1>10. StackThere(t)'
  <2>1. PICK g : g = Lookup(a).frame
    OBVIOUS
  <2>2. g \in Frames
    BY <1>5, <1>7, <2>1, UserFrame, HeldFrames DEF MemInv
  <2>3. contents'[g] = Tag("stack", t, 0)
    BY <1>3, <2>1, <2>2 DEF MemInv, Types
  <2> QED BY <1>1, <1>6, <2>1, <2>3 DEF StackThere
<1>11. /\ New' = t /\ File' = File /\ Region' = Region
       /\ Accessible(Region)' /\ AllOverlaid'
  <2>1. New' = t /\ File' = File
    BY <1>1, <1>3, <1>4 DEF New, File
  <2>2. Region' = Region
    BY <1>1, <1>2, <1>4, <1>5, <2>1 DEF Region
  <2>3. Accessible(Region)'
    BY <1>2, <1>6, <2>2 DEF Accessible
  <2> QED BY <1>2, <1>3, <2>1, <2>2, <2>3 DEF AllOverlaid
<1>12. TopOnly' /\ TopThere'
  <2>1. running # <<>> => Len(running) \in DOMAIN running
    BY DEF MemInv, Types
  <2> QED BY <1>2, <1>3, <2>1 DEF AllOverlaid, TopOnly, TopThere, Last
<1>13. Progress'
  BY <1>1, <1>2, <1>4, <1>9, <1>10, <1>11 DEF Progress, Mapping, Ending
<1> QED BY <1>12, <1>13 DEF OwnInv

\* The program that has been created is now the one on top, and finds what
\* the creation has put in place.
LEMMA OwnLink ==
    ASSUME NEW who, MemInv(who), OwnInv, link_task
    PROVE  OwnInv'
<1>1. PICK t, path, block :
        /\ t = New /\ path = op.path
        /\ block = [path |-> op.path, caller |-> op.caller,
                    tcb |-> op.new_task, argv |-> op.argv,
                    kernel_stack |-> op.kernel_stack]
  OBVIOUS
<1>2. /\ op.pc = "link" /\ op' = Idle /\ tasks' = Append(tasks, block)
      /\ running' = IF path \in Paths THEN Append(running, t) ELSE running
      /\ UNCHANGED <<page_directory, page_tables, contents, files, overlaid>>
  BY <1>1 DEF link_task, At, paging
<1>3. /\ running \in Seq(Nat) /\ \A k \in DOMAIN running : running[k] \in DOMAIN tasks
      /\ tasks \in Seq(TaskBlocks) /\ files \in Builds
      /\ Len(tasks) \in Nat /\ t = Len(tasks) + 1 /\ DOMAIN tasks = 1..Len(tasks)
  BY <1>1, NewType DEF MemInv, Types, New
<1>4. /\ tasks'[t] = block /\ \A s \in DOMAIN tasks : tasks'[s] = tasks[s]
  <2>1. block \in TaskBlocks
    BY <1>1 DEF MemInv, Types, Ops, TaskBlocks
  <2> HIDE DEF TaskBlocks
  <2> QED BY <1>2, <1>3, <2>1
<1>5. Progress'
  BY <1>2, IdleOp DEF Progress, Ending, Mapping
<1>6. /\ \A p : Phdrs(p)' = Phdrs(p)
      /\ \A v : Lookup(v)' = Lookup(v) /\ UserAccessible(v)' = UserAccessible(v)
      /\ Accessible(StackPages)' = Accessible(StackPages)
  <2>1. \A p : Phdrs(p)' = Phdrs(p)
    BY <1>2 DEF Phdrs
  <2>2. \A v : Lookup(v)' = Lookup(v) /\ UserAccessible(v)' = UserAccessible(v)
    BY <1>2 DEF Lookup, Pde, UserAccessible, Mapped
  <2> QED BY <2>1, <2>2 DEF Accessible
<1>7. ASSUME NEW s, NEW p, NEW n
      PROVE  /\ SegmentsThere(s, p, n)' = SegmentsThere(s, p, n)
             /\ StackThere(s)' = StackThere(s)
  BY <1>2, <1>6 DEF SegmentsThere, SegmentThere, StackThere
<1>8. CASE path \notin Paths
  <2>1. running' = running
    BY <1>2, <1>8
  <2>2. TopOnly'
    BY <1>2, <2>1 DEF OwnInv, TopOnly
  <2>3. ASSUME running # <<>>, Last(running) \notin overlaid
        PROVE  ProgramThere(Last(running))'
    <3>1. PICK s : s = Last(running)
      OBVIOUS
    <3>2. s \in DOMAIN tasks /\ tasks'[s] = tasks[s]
      BY <1>3, <1>4, <2>3, <3>1 DEF Last
    <3>3. ProgramThere(s)
      BY <2>3, <3>1 DEF OwnInv, TopThere
    <3>4. ProgramThere(s)'
      BY <1>6, <1>7, <3>2, <3>3 DEF ProgramThere
    <3> QED BY <2>1, <3>1, <3>4
  <2>4. TopThere'
    BY <1>2, <2>1, <2>3 DEF TopThere
  <2> QED BY <1>5, <2>2, <2>4 DEF OwnInv
<1>9. CASE path \in Paths
  <2>1. /\ Ending /\ SegmentsThere(t, path, op.i) /\ Accessible(Region) /\ AllOverlaid
        /\ op.i > Len(File.phdrs) /\ StackThere(t)
        /\ op.caller = 0 => op.argv = "given"
    <3>1. Ending
      BY <1>1, <1>2, <1>9 DEF Ending
    <3> QED BY <1>1, <3>1 DEF OwnInv, Progress
  <2>2. op.i \in Nat /\ Len(File.phdrs) \in Nat
        /\ DOMAIN File.phdrs = 1..Len(File.phdrs) /\ File.phdrs = Phdrs(path)
    BY <1>1, <1>3, <1>9, Work DEF MemInv, Types, Ops, Phdrs, File
  <2>3. Region = StackPages
    BY <2>1, <2>2 DEF Region
  <2>4. SegmentsThere(t, path, Len(Phdrs(path)) + 1)
    BY <2>1, <2>2 DEF SegmentsThere
  <2>5. /\ block.path = path /\ block.caller = op.caller /\ block.argv = op.argv
    BY <1>1
  <2>6. ProgramThere(t)'
    <3>1. PICK n : n = Len(Phdrs(path)) + 1
      OBVIOUS
    <3>2. SegmentsThere(t, path, n)' /\ StackThere(t)'
      BY <1>7, <2>1, <2>4, <3>1
    <3>3. Len(Phdrs(path)') + 1 = n
      BY <1>6, <3>1
    <3>4. Accessible(StackPages)'
      BY <1>6, <2>1, <2>3
    <3> QED BY <1>4, <1>9, <2>1, <2>5, <3>1, <3>2, <3>3, <3>4 DEF ProgramThere, Phdrs
  <2>7. PICK m : m = Len(running)
    OBVIOUS
  <2>8. /\ running' \in Seq(Nat) /\ m \in Nat /\ Len(running') = m + 1
        /\ running'[m + 1] = t /\ \A k \in 1..m : running'[k] = running[k]
        /\ DOMAIN running = 1..m /\ DOMAIN running' = 1..(m + 1)
    BY <1>2, <1>3, <1>9, <2>7
  <2>9. TopOnly'
    <3>1. ASSUME NEW k \in DOMAIN running', k < Len(running')
          PROVE  running'[k] \in overlaid'
      <4>1. k \in 1..m
        BY <2>8, <3>1
      <4> QED BY <1>2, <2>1, <2>8, <4>1 DEF AllOverlaid
    <3> QED BY <3>1 DEF TopOnly
  <2>10. Last(running)' = t
    BY <2>8 DEF Last
  <2>11. TopThere'
    BY <2>6, <2>10 DEF TopThere
  <2> QED BY <1>5, <2>9, <2>11 DEF OwnInv
<1> QED BY <1>8, <1>9

-----------------------------------------------------------------------------
LEMMA OwnStep ==
    LoadsApart /\ Owned /\ OwnInv /\ [MemNext]_memVars => OwnInv'
<1> SUFFICES ASSUME LoadsApart, Owned, OwnInv, [MemNext]_memVars
             PROVE  OwnInv'
  OBVIOUS
<1>1. PICK who \in [Frames -> Tags] : MemInv(who)
  BY DEF Owned
<1>2. CASE kmain_pmm_init \/ vmm_init
  BY <1>1, <1>2, OwnBoot
<1>3. CASE kmain_call \/ \E path \in Paths : sys_exec(path)
  BY <1>1, <1>3, OwnBegin
<1>4. CASE sys_exit
  BY <1>1, <1>4, OwnExit
<1>5. CASE user_fault \/ page_table_refused \/ kernel_page_fault \/ copy_argv_fault
  BY <1>1, <1>5, OwnHalts
<1>6. CASE \/ alloc_tcb \/ alloc_phys_page \/ alloc_page_table
           \/ alloc_kernel_stack \/ alloc_refused \/ give_up \/ vmm_no_table
  BY <1>1, <1>6, OwnAllocates
<1>7. CASE memset_tcb
  BY <1>1, <1>7, OwnMemset
<1>8. CASE elf_header
  BY <1>1, <1>8, OwnHeader
<1>9. CASE elf_next_segment
  BY <1>1, <1>9, OwnNextSegment
<1>10. CASE vmm_new_table
  BY <1>1, <1>10, OwnNewTable
<1>11. CASE vmm_map_user_page
  BY <1>1, <1>11, OwnMaps
<1>12. CASE elf_copy_segment
  BY <1>1, <1>12, OwnCopies
<1>13. CASE copy_argv
  BY <1>1, <1>13, OwnArguments
<1>14. CASE fill_kernel_stack
  BY <1>1, <1>14, OwnStackFrame
<1>15. CASE link_task
  BY <1>1, <1>15, OwnLink
<1>16. CASE elf_loaded
  BY <1>1, <1>16, OwnLoaded
<1>17. CASE UNCHANGED memVars
  BY <1>1, <1>17, OwnQuiet DEF memVars, paging, MemInv
<1> QED
  BY <1>2, <1>3, <1>4, <1>5, <1>6, <1>7, <1>8, <1>9, <1>10, <1>11, <1>12,
     <1>13, <1>14, <1>15, <1>16, <1>17 DEF MemNext, create

\* Once the creation is over, what the invariant says of the program on top
\* is OwnMemory.
LEMMA OwnInvGives == Owned /\ OwnInv => OwnMemory
<1> SUFFICES ASSUME NEW who, MemInv(who), OwnInv,
                    running # <<>>, Last(running) \notin overlaid, NEW t,
                    t = Last(running)
             PROVE  LET phdrs == files[tasks[t].path].phdrs
                    IN /\ \A i \in DOMAIN phdrs : Loaded(phdrs[i]) =>
                            \A v \in SegmentPages(phdrs[i]) :
                              /\ UserAccessible(v)
                              /\ contents[Lookup(v).frame] = Tag("image", t, i)
                       /\ \A v \in StackPages : UserAccessible(v)
                       /\ contents[Lookup(UserStackTop - 1).frame] = Tag("stack", t, 0)
                       /\ tasks[t].caller = 0 => tasks[t].argv = "given"
  BY DEF Owned, OwnMemory
<1>1. ProgramThere(t)
  BY DEF OwnInv, TopThere
<1>2. PICK path : path = tasks[t].path
  OBVIOUS
<1>3. path \in Paths /\ files \in Builds
  BY <1>1, <1>2 DEF ProgramThere, MemInv, Types
<1>4. Len(Phdrs(path)) \in Nat /\ DOMAIN Phdrs(path) = 1..Len(Phdrs(path))
  <2>1. files[path] \in ElfFiles
    BY <1>3, FilesAssumption
  <2> QED BY <2>1 DEF ElfFiles, Phdrs
<1>5. ASSUME NEW i \in DOMAIN Phdrs(path), Loaded(Phdrs(path)[i])
      PROVE  SegmentThere(t, path, i)
  <2>1. i < Len(Phdrs(path)) + 1
    BY <1>4
  <2> QED BY <1>1, <1>2, <1>5, <2>1 DEF ProgramThere, SegmentsThere
<1> QED BY <1>1, <1>2, <1>5
        DEF ProgramThere, SegmentThere, Phdrs, Accessible, StackThere

\* Until a creation begins from a file that is linked below 8 MB or inside the
\* memory, or that has two segments on one page, the program that runs has its
\* whole image and its stack, in memory no later creation writes to, until it
\* makes a creation of its own: whatever else is loaded, fails, is given up or
\* ends (elf.c:70-134, task.c:141-255, vmm.c:89-157).
THEOREM OwnMemoryKept == MemSpec /\ []LoadsAbove /\ []LoadsApart => []OwnMemory
<1>1. LoadsApart /\ Owned /\ OwnInv /\ [MemNext]_memVars => OwnInv'
  BY OwnStep
<1> QED BY <1>1, MemInduction, OwnInit, OwnInvGives, PTL DEF MemSpec
=============================================================================
