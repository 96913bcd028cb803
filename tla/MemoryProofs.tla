---------------------------- MODULE MemoryProofs ----------------------------
(***************************************************************************)
(* Proofs about Memory, for every memory size, page-table size, set of     *)
(* programs, build and launch list.  MemoryTypeCorrect has no hypothesis;  *)
(* the other theorems are about behaviours in which no creation has begun  *)
(* from a file linked below 8 MB or inside the memory ([]LoadsAbove).      *)
(***************************************************************************)
EXTENDS Memory, PMMProofs

(***************************************************************************)
(* The inductive invariant.  What has to be known of every frame is what   *)
(* it was last allocated for: "who" gives each frame that is held an owner *)
(* Tag, the owner of a frame never changes while it is held, and every     *)
(* place that refers to a frame is the one its owner names.  Two places    *)
(* that refer to one frame are therefore one place.  A creation's frames   *)
(* have the owner they are meant for from the start, so that linking them  *)
(* in changes nothing.                                                     *)
(***************************************************************************)
Upper == Directories \ {0, 1}
Addrs == 0..(TableSize * (LastDirectory + 1) - 1)
TableOf(d) == page_tables[page_directory[d].frame]
Above == {p \in Paths : LinkedAbove(files[p])}
ProgramPages == StackPages \cup UNION {ImagePages(files[p]) : p \in Above}

Tags == [what : {"stale", "tcb", "kernel stack", "table", "image", "stack",
                 "page"},
         task : Nat, part : Nat]
Names == Paths \cup {"none", "kmain", "worker"}
Argvs == {"none", "given", "junk"}
Ops == [pc : Pcs,
        call : {"none", "tasking_init", "create_task", "create_user_process"},
        path : Names, caller : Nat, new_task : Frames, i : Nat, page : Nat,
        last : Nat, phys_page : Frames, new_pt : Frames, argv : Argvs,
        kernel_stack : Frames]
TaskBlocks == [path : Names, caller : Nat, tcb : Frames, argv : Argvs,
               kernel_stack : Frames]
Halts == {"no", "page fault", "no page table", "argv fault", "launch failed",
          "user fault"}

Types ==
    /\ page_directory \in [Directories -> TableEntries]
    /\ \A f \in DOMAIN page_tables :
         f \in Frames /\ page_tables[f] \in [Entries -> TableEntries]
    /\ \A d \in Directories :
         page_directory[d].present => page_directory[d].frame \in DOMAIN page_tables
    /\ \A i \in {1, 2} : KernelTables[i] \in DOMAIN page_tables
    /\ contents \in [Frames -> Tags]
    /\ files \in Builds
    /\ op \in Ops
    /\ tasks \in Seq(TaskBlocks)
    /\ running \in Seq(Nat) /\ \A k \in DOMAIN running : running[k] \in DOMAIN tasks
    /\ overlaid \subseteq DOMAIN tasks
    /\ halted \in Halts

\* Nothing is created before the kernel's own tables are in use.
Booted ==
    /\ boot \in 0..(Len(Launch) + 3)
    /\ boot = 0 <=> ~ready
    /\ boot < 2 => /\ op = Idle /\ tasks = <<>> /\ running = <<>>
                   /\ halted = "no"
                   /\ page_directory = IdentityDirectory(BootTables)

\* How far the creation is, and the locals it has by then.
Mapping == {"page", "map", "table", "zero"}
Loading == Mapping \cup {"header", "segment", "copy", "argv"}
Control ==
    /\ op.pc = "tcb" => op.new_task = NULL
    /\ op.pc \notin {"idle", "tcb", "give_up"} => op.new_task # NULL
    /\ op.pc \notin {"frame", "link"} => op.kernel_stack = NULL
    /\ op.pc = "frame" => op.kernel_stack # NULL
    /\ op.pc # "idle" => op.call # "none"
    /\ op.pc \in {"tcb", "memset"} /\ op.call = "create_user_process"
         => op.path \in Paths
    /\ op.pc \in Loading => op.path \in Paths
    /\ op.pc = "segment" => op.i >= 1
    /\ op.pc \in Mapping =>
         /\ op.i >= 1 /\ op.page <= op.last
         /\ op.page..op.last \subseteq ProgramPages
         /\ op.i <= Len(File.phdrs) => Loaded(Phdr)
    /\ op.pc = "copy" => op.i \in 1..Len(File.phdrs) /\ Loaded(Phdr)
    /\ op.pc \in {"table", "zero"} => Pde(op.page) = Absent

\* The tables: those of the kernel are as vmm_init made them, and the others
\* map program pages to the frames handed out for them.
Paging(who) ==
    boot >= 2 =>
      /\ page_directory[0] = Entry(KernelTables[1], FALSE)
      /\ page_directory[1] = Entry(KernelTables[2], FALSE)
      /\ page_tables[KernelTables[1]] = IdentityTable(0)
      /\ page_tables[KernelTables[2]] = IdentityTable(1)
      /\ \A d \in Upper :
           \/ page_directory[d] = Absent
           \/ /\ page_directory[d].present /\ page_directory[d].user
              /\ page_directory[d].frame \in held
              /\ who[page_directory[d].frame] = Tag("table", d, 0)
              /\ \A e \in Entries :
                   \/ TableOf(d)[e] = Absent
                   \/ /\ TableOf(d)[e].present
                      /\ (d * TableSize) + e \in ProgramPages
                      /\ TableOf(d)[e].frame \in held
                      /\ who[TableOf(d)[e].frame] =
                           Tag("page", (d * TableSize) + e, 0)

\* The frames of tasks, and of the task to come.
TasksOwn(who) ==
    \A t \in DOMAIN tasks :
      /\ tasks[t].tcb \in held /\ who[tasks[t].tcb] = Tag("tcb", t, 0)
      /\ tasks[t].kernel_stack # NULL =>
           /\ tasks[t].kernel_stack \in held
           /\ who[tasks[t].kernel_stack] = Tag("kernel stack", t, 0)

CreationOwns(who) ==
    /\ op.pc \notin {"idle", "tcb"} /\ op.new_task # NULL =>
         op.new_task \in held /\ who[op.new_task] = Tag("tcb", New, 0)
    /\ op.pc \in {"map", "table", "zero"} =>
         op.phys_page \in held /\ who[op.phys_page] = Tag("page", op.page, 0)
    /\ op.pc = "zero" =>
         /\ op.new_pt \in held
         /\ who[op.new_pt] = Tag("table", op.page \div TableSize, 0)
    /\ op.pc \in {"frame", "link"} /\ op.kernel_stack # NULL =>
         /\ op.kernel_stack \in held
         /\ who[op.kernel_stack] = Tag("kernel stack", New, 0)

\* What was written to them is there.
CreationKept ==
    /\ op.pc \notin {"idle", "tcb", "memset", "give_up"} =>
         contents[op.new_task] = Tag("tcb", New, 0)
    /\ op.pc = "link" /\ op.kernel_stack # NULL =>
         contents[op.kernel_stack] = Tag("kernel stack", New, 0)

\* A held frame is a program's, or some place of the kernel refers to it.
UserKinds == {"stale", "image", "stack"}
KernelPlace(f) ==
    \/ \E t \in DOMAIN tasks : f = tasks[t].tcb \/ f = tasks[t].kernel_stack
    \/ \E d \in Upper : page_directory[d].present /\ f = page_directory[d].frame
    \/ op.pc \notin {"idle", "tcb"} /\ f = op.new_task
    \/ op.pc = "zero" /\ f = op.new_pt
    \/ op.pc \in {"frame", "link"} /\ f = op.kernel_stack
Accounted(who) ==
    \A f \in held :
      \/ KernelPlace(f)
      \/ /\ who[f].what = "page"
         /\ \/ contents[f].what \in UserKinds
            \/ op.pc \in {"map", "table", "zero"} /\ f = op.phys_page

\* pmm_alloc_page takes the lowest page: when the kernel is about to touch a
\* fresh frame, those below it are all in use.
Below(n) == \A f \in Frames : f < n => f \in Reserved \cup held
Faults ==
    /\ op.pc = "memset" => Below(op.new_task)
    /\ op.pc = "zero" => Below(op.new_pt)
    /\ op.pc = "frame" => Below(op.kernel_stack)
    /\ halted = "page fault" =>
         (Frames \cap IdentityMapped) \subseteq (Reserved \cup held)

MemInv(who) ==
    /\ PMMInv /\ Types /\ Booted /\ Control /\ Paging(who) /\ TasksOwn(who)
    /\ CreationOwns(who) /\ KernelPagesKept /\ CreationKept
    /\ Accounted(who) /\ Faults

Owned == \E who \in [Frames -> Tags] : MemInv(who)

-----------------------------------------------------------------------------
(***************************************************************************)
(* Addresses: an entry of a directory and one of a table.                  *)
(***************************************************************************)
LEMMA Sizes ==
    /\ TableSize \in Nat \ {0} /\ LastDirectory \in Nat \ {0}
    /\ TotalPages \in Nat
    /\ \A f \in Frames : f \in Nat
BY DirectoryAssumption, TotalPagesNat DEF Frames

LEMMA Coordinates ==
    ASSUME NEW a \in Addrs
    PROVE  /\ a \div TableSize \in Directories /\ a % TableSize \in Entries
           /\ ((a \div TableSize) * TableSize) + (a % TableSize) = a
           /\ a \in IdentityMapped <=> a \div TableSize \in {0, 1}
           /\ a \notin IdentityMapped <=> a \div TableSize \in Upper
<1> DEFINE T == TableSize
           d == a \div T
           e == a % T
<1>1. T \in Nat \ {0} /\ LastDirectory \in Nat \ {0} /\ a \in Nat
      /\ a < T * (LastDirectory + 1)
  BY Sizes DEF Addrs
<1>2. d \in Nat /\ e \in 0..(T - 1) /\ (d * T) + e = a
  BY <1>1
<1>3. d <= LastDirectory
  BY <1>1
<1>4. a < 2 * T <=> d < 2
  BY <1>1
<1> QED BY <1>1, <1>2, <1>3, <1>4 DEF Directories, Entries, IdentityMapped, Upper

LEMMA KernelFrames ==
    /\ 0 \in Reserved /\ 0 \in Frames
    /\ Reserved \subseteq Frames /\ Frames \subseteq Addrs
    /\ \A i \in {1, 2} : KernelTables[i] \in Reserved /\ BootTables[i] \in Reserved
    /\ KernelTables[1] # KernelTables[2]
<1>1. Reserved \subseteq Frames
  BY ReservedPages DEF Frames
<1>2. \A i \in {1, 2} : KernelTables[i] \in Reserved /\ BootTables[i] \in Reserved
  BY KernelAssumption
<1>3. TotalPages > 0
  <2>1. BootTables[1] \in 0..(TotalPages - 1)
    BY <1>1, <1>2 DEF Frames
  <2> QED BY <2>1, TotalPagesNat
<1>4. 0 \in Reserved
  BY <1>3, PageZeroReserved
<1>5. Frames \subseteq Addrs
  BY DirectoryAssumption, TotalPagesNat DEF Frames, Addrs
<1> QED BY <1>1, <1>2, <1>4, <1>5, KernelAssumption

LEMMA IdentityEntry ==
    ASSUME NEW f \in IdentityMapped
    PROVE  /\ f \in Addrs
           /\ IdentityTable(f \div TableSize)[f % TableSize] = Entry(f, FALSE)
<1>1. f \in Addrs
  BY Sizes DEF IdentityMapped, Addrs
<1> QED BY <1>1, Coordinates DEF IdentityTable

\* No page of a program is one of the kernel's addresses.
LEMMA ProgramAddress ==
    ASSUME files \in Builds, NEW a \in ProgramPages
    PROVE  /\ a \in Addrs /\ a \notin Frames /\ a # MapFrame
           /\ a \div TableSize \in Upper
<1>1. a \in Addrs /\ a \notin Frames /\ a \notin IdentityMapped
  <2>1. CASE a \in StackPages
    BY <2>1, DirectoryAssumption, StackAssumption DEF StackPages, Addrs
  <2>2. CASE \E p \in Above : a \in ImagePages(files[p])
    BY <2>2, BuildsAssumption DEF Above, LinkedAbove, Addrs
  <2> QED BY <2>1, <2>2 DEF ProgramPages
<1> QED BY <1>1, Coordinates, KernelFrames, KernelAssumption

-----------------------------------------------------------------------------
(***************************************************************************)
(* What the calls of the page allocator do to the frames that are held.    *)
(***************************************************************************)
LEMMA Grants ==
    ASSUME PMMInv, pmm_alloc_page, ret' # NULL
    PROVE  /\ PMMInv' /\ ready /\ ready'
           /\ Granted \in Frames /\ Granted # NULL
           /\ Granted \notin Reserved \cup held
           /\ held' = held \cup {Granted}
           /\ Below(Granted)
<1>1. ready /\ total_pages = TotalPages /\ UNCHANGED ready
  BY DEF pmm_alloc_page, PMMInv, TypeOK
<1>2. PICK i \in 0..(TotalPages - 1) :
        /\ ~pmm_is_page_used(i)
        /\ \A j \in 0..(TotalPages - 1) : ~pmm_is_page_used(j) => i <= j
        /\ ret' = i * PAGE_SIZE
        /\ held' = held \cup {i}
  BY <1>1 DEF pmm_alloc_page
<1>3. Granted = i
  BY <1>2, TotalPagesNat DEF Granted, PAGE_SIZE
<1>4. i \notin Reserved \cup held
  BY <1>1, <1>2, UnusedPages
<1>5. ASSUME NEW f \in Frames, f < i PROVE f \in Reserved \cup held
  <2>1. f \in 0..(TotalPages - 1) /\ ~(i <= f)
    BY <1>5, TotalPagesNat DEF Frames
  <2> QED BY <1>1, <1>2, <2>1, UnusedPages
<1>6. i # NULL
  BY <1>4, KernelFrames DEF NULL
<1> QED BY <1>1, <1>2, <1>3, <1>4, <1>5, <1>6, AllocStep DEF Below, Frames

LEMMA Refuses ==
    ASSUME PMMInv, pmm_alloc_page, ret' = NULL
    PROVE  PMMInv' /\ ready /\ ready' /\ held' = held
<1>1. ready /\ total_pages = TotalPages /\ UNCHANGED ready
  BY DEF pmm_alloc_page, PMMInv, TypeOK
<1>2. ASSUME NEW i \in 0..(TotalPages - 1), ~pmm_is_page_used(i),
             ret' = i * PAGE_SIZE
      PROVE  FALSE
  <2>1. i = 0
    BY <1>2, TotalPagesNat DEF NULL, PAGE_SIZE
  <2> QED BY <1>1, <1>2, <2>1, UnusedPages, KernelFrames
<1> QED BY <1>1, <1>2, AllocStep DEF pmm_alloc_page

\* give_up gives back the frame of the task control block, or NULL.
LEMMA GivesBack ==
    ASSUME PMMInv, NEW n \in Frames, n = NULL \/ n \in held,
           pmm_free_page(n * PAGE_SIZE)
    PROVE  /\ PMMInv' /\ ready' = ready
           /\ held' = held \ {n}
<1>1. (n * PAGE_SIZE) \div PAGE_SIZE = n /\ n \in Nat
      /\ (n * PAGE_SIZE = NULL <=> n = NULL)
  BY Sizes DEF PAGE_SIZE, NULL
<1>2. ready /\ total_pages = TotalPages /\ UNCHANGED ready
  BY DEF pmm_free_page, PMMInv, TypeOK
<1>3. NULL \notin held
  BY <1>2, KernelFrames DEF PMMInv, BitmapIsOwnership, NULL
<1>4. n # NULL => n < total_pages /\ pmm_is_page_used(n)
  BY <1>2, UnusedPages, Sizes DEF Frames
<1>5. held' = held \ {n}
  <2> DEFINE a == n * PAGE_SIZE
  <2>1. n \in Nat /\ a \div PAGE_SIZE = n /\ (a = NULL <=> n = NULL) /\ pmm_free_page(a)
    BY <1>1
  <2> HIDE DEF a
  <2>2. CASE n = NULL
    BY <1>3, <2>1, <2>2 DEF pmm_free_page
  <2>3. CASE n # NULL
    BY <1>2, <1>4, <2>1, <2>3, TotalPagesNat DEF pmm_free_page
  <2> QED BY <2>2, <2>3
<1>6. n * PAGE_SIZE \in Addresses
  <2>1. CASE n = NULL
    BY <2>1, <1>1 DEF Addresses
  <2>2. CASE n \in held
    <3>1. n \in 0..(TotalPages - 1) /\ n \notin Reserved
      BY <1>2, <2>2 DEF PMMInv, TypeOK, BitmapIsOwnership
    <3>2. n \in 0..(MemorySize \div PAGE_SIZE) \ pages_for_first_4mb(MemorySize)
      BY <3>1, MemoryAssumption, TotalPagesNat
         DEF Reserved, pages_for_first_4mb, TotalPages, PAGE_SIZE
    <3> QED BY <3>2 DEF Addresses
  <2> QED BY <2>1, <2>2
<1>7. PMMInv'
  BY <1>6, FreeStep
<1> QED BY <1>2, <1>5, <1>7

-----------------------------------------------------------------------------
(***************************************************************************)
(* What the CPU finds: a frame through its own number, if it lies in the   *)
(* first 8 MB, and a page of a program through the tables mapped for it.   *)
(***************************************************************************)
LEMMA KernelReach ==
    ASSUME NEW who, Types, Paging(who), boot >= 2, NEW f \in Addrs
    PROVE  /\ f \in IdentityMapped => Lookup(f) = Entry(f, FALSE) /\ ~Pde(f).user
           /\ f \in Frames /\ Mapped(f) => f \in IdentityMapped
<1> DEFINE d == f \div TableSize
           e == f % TableSize
<1>1. /\ d \in Directories /\ e \in Entries
      /\ (d * TableSize) + e = f
      /\ f \in IdentityMapped <=> d \in {0, 1}
      /\ f \notin IdentityMapped <=> d \in Upper
  BY Coordinates
<1>2. ASSUME f \in IdentityMapped
      PROVE  Lookup(f) = Entry(f, FALSE) /\ ~Pde(f).user
  <2>1. IdentityTable(d)[e] = Entry(f, FALSE)
    BY <1>2, IdentityEntry
  <2>2. page_directory[d].present /\ ~page_directory[d].user
        /\ page_tables[page_directory[d].frame] = IdentityTable(d)
    BY <1>1, <1>2 DEF Paging, Entry
  <2> HIDE DEF d, e
  <2>3. Pde(f) = page_directory[d] /\ Lookup(f) = IdentityTable(d)[e]
    BY <2>2 DEF Pde, Lookup, d, e
  <2> QED BY <2>1, <2>2, <2>3
<1>3. ASSUME f \in Frames, f \notin IdentityMapped
      PROVE  ~Mapped(f)
  <2>1. f \notin ProgramPages
    BY <1>3, ProgramAddress DEF Types
  <2>2. d \in Upper
    BY <1>1, <1>3
  <2> HIDE DEF d, e
  <2>3. page_directory[d] = Absent \/ TableOf(d)[e] = Absent
    BY <1>1, <2>1, <2>2 DEF Paging
  <2>4. Lookup(f) = IF page_directory[d].present THEN TableOf(d)[e] ELSE Absent
    BY DEF Lookup, Pde, TableOf, d, e
  <2> QED BY <2>3, <2>4 DEF Mapped, Absent
<1> QED BY <1>2, <1>3

LEMMA ProgramReach ==
    ASSUME NEW who, Types, Paging(who), boot >= 2,
           NEW a \in ProgramPages
    PROVE  \/ Lookup(a) = Absent
           \/ /\ Lookup(a).frame \in held
              /\ who[Lookup(a).frame] = Tag("page", a, 0)
<1> DEFINE d == a \div TableSize
           e == a % TableSize
<1>1. /\ d \in Upper /\ e \in Entries
      /\ (d * TableSize) + e = a
  BY ProgramAddress, Coordinates DEF Types
<1> HIDE DEF d, e
<1>2. Lookup(a) = IF page_directory[d].present THEN TableOf(d)[e] ELSE Absent
  BY DEF Lookup, Pde, TableOf, d, e
<1> QED BY <1>1, <1>2 DEF Paging, Absent

LEMMA HeldFrames ==
    ASSUME PMMInv, NEW f \in held
    PROVE  f \in Frames /\ f # NULL /\ f \notin Reserved
<1>1. ready
  BY DEF PMMInv, BitmapIsOwnership
<1> QED BY <1>1, KernelFrames DEF PMMInv, TypeOK, BitmapIsOwnership, Frames, NULL

-----------------------------------------------------------------------------
(***************************************************************************)
(* The steps that touch neither frames nor tables.                         *)
(***************************************************************************)
MemoryStays ==
    UNCHANGED <<held, ready, paging, contents, files, tasks>> /\ PMMInv'

Controlled ==
    /\ op \in Ops /\ halted \in Halts
    /\ running \in Seq(Nat) /\ \A k \in DOMAIN running : running[k] \in DOMAIN tasks
    /\ Booted /\ Control /\ Faults

LEMMA QuietStep ==
    ASSUME NEW who, MemInv(who), MemoryStays, UNCHANGED overlaid,
           boot >= 2, boot' >= 2, Controlled',
           CreationOwns(who)', CreationKept',
           \A f \in held : KernelPlace(f) => KernelPlace(f)',
           op.pc \in {"map", "table", "zero"} =>
             op'.pc \in {"map", "table", "zero"} /\ op'.phys_page = op.phys_page
    PROVE  MemInv(who)'
<1>1. PMMInv'
  BY DEF MemoryStays
<1>2. Types'
  BY DEF MemInv, MemoryStays, Types, Controlled, paging
<1>3. Paging(who)'
  BY DEF MemInv, MemoryStays, Paging, paging, TableOf, ProgramPages, Above,
                pmmVars
<1>4. TasksOwn(who)' /\ KernelPagesKept'
  BY DEF MemInv, MemoryStays, TasksOwn, KernelPagesKept, pmmVars
<1>5. Accounted(who)'
  BY DEF MemInv, MemoryStays, Accounted, pmmVars
<1> QED BY <1>1, <1>2, <1>3, <1>4, <1>5 DEF MemInv, Controlled

LEMMA IdleOp == Idle \in Ops /\ Idle.pc = "idle" /\ Idle.new_task = NULL
                /\ Idle.kernel_stack = NULL
BY KernelFrames DEF Idle, Ops, Pcs, Names, Argvs, NULL

LEMMA MemInitEstablishes == MemInit => Owned
<1> SUFFICES ASSUME MemInit PROVE Owned
  OBVIOUS
<1> DEFINE who == [f \in Frames |-> Stale]
<1>1. who \in [Frames -> Tags] /\ Stale \in Tags
  BY DEF Stale, Tag, Tags
<1>2. PMMInv
  BY InitEstablishes DEF MemInit
<1>3. held = {} /\ ~ready
  BY DEF MemInit, Init
<1>4. Types
  <2>1. KernelTables[1] \in Frames /\ KernelTables[2] \in Frames
        /\ BootTables[1] \in Frames /\ BootTables[2] \in Frames
    BY KernelFrames
  <2>2. \A f \in Frames : Entry(f, FALSE) \in TableEntries
    BY Sizes DEF Entry, TableEntries
  <2>3. Absent \in TableEntries
    BY DEF Absent, TableEntries
  <2>4. page_directory \in [Directories -> TableEntries]
    <3>1. \A d \in Directories : d < 2 => BootTables[d + 1] \in Frames
      <4>1. \A d \in Directories : d < 2 => d + 1 \in {1, 2}
        BY DEF Directories
      <4> QED BY <2>1, <4>1
    <3> QED BY <2>2, <2>3, <3>1 DEF MemInit, IdentityDirectory
  <2>5. \A d \in 0..1 : IdentityTable(d) \in [Entries -> TableEntries]
    BY Sizes DEF IdentityTable, Entry, TableEntries, Entries
  <2>6. EmptyTable \in [Entries -> TableEntries]
    BY <2>3 DEF EmptyTable
  <2>7. \A f \in DOMAIN page_tables :
         f \in Frames /\ page_tables[f] \in [Entries -> TableEntries]
    BY <2>1, <2>5, <2>6 DEF MemInit
  <2>8. \A d \in Directories :
         page_directory[d].present => page_directory[d].frame \in DOMAIN page_tables
    BY DEF MemInit, IdentityDirectory, Directories, Entry, Absent
  <2>9. contents \in [Frames -> Tags]
    BY <1>1 DEF MemInit
  <2>10. /\ tasks \in Seq(TaskBlocks) /\ running \in Seq(Nat)
         /\ \A k \in DOMAIN running : running[k] \in DOMAIN tasks
         /\ overlaid \subseteq DOMAIN tasks
    BY DEF MemInit
  <2>11. op \in Ops /\ files \in Builds /\ halted \in Halts
    BY IdleOp DEF MemInit, Halts
  <2>12. \A i \in {1, 2} : KernelTables[i] \in DOMAIN page_tables
    BY DEF MemInit
  <2> QED BY <2>4, <2>7, <2>8, <2>9, <2>10, <2>11, <2>12 DEF Types
<1>5. Booted
  <2>1. Len(Launch) \in Nat
    BY FilesAssumption
  <2> QED BY <1>3, <2>1 DEF MemInit, Booted
<1>6. Control /\ CreationOwns(who) /\ CreationKept /\ Faults
  BY IdleOp DEF MemInit, Control, CreationOwns, CreationKept, Faults, Mapping,
                Loading
<1>7. Paging(who) /\ TasksOwn(who) /\ KernelPagesKept /\ Accounted(who)
  BY <1>3 DEF MemInit, Paging, TasksOwn, KernelPagesKept, Accounted
<1>8. MemInv(who)
  BY <1>2, <1>4, <1>5, <1>6, <1>7 DEF MemInv
<1> QED BY <1>1, <1>8 DEF Owned

LEMMA Working ==
    Booted /\ (op.pc # "idle" \/ running # <<>> \/ halted # "no") => boot >= 2
BY IdleOp DEF Booted

LEMMA BootStays ==
    ASSUME Booted, boot >= 2, UNCHANGED <<boot, ready>>
    PROVE  Booted'
<1>1. boot \in Nat /\ ~(boot < 2)
  BY FilesAssumption DEF Booted
<1>2. boot' \in 0..(Len(Launch) + 3) /\ (boot' = 0 <=> ~ready') /\ ~(boot' < 2)
  BY <1>1 DEF Booted
<1> QED BY <1>2 DEF Booted

LEMMA kmain_pmm_init_Keeps ==
    ASSUME NEW who, MemInv(who), kmain_pmm_init
    PROVE  MemInv(who)'
<1>1. /\ boot = 0 /\ boot' = 1 /\ ready' /\ held' = held /\ held = {}
      /\ op = Idle /\ tasks = <<>> /\ running = <<>> /\ halted = "no"
  BY DEF kmain_pmm_init, pmm_init, MemInv, Booted, PMMInv, BitmapIsOwnership
<1>2. PMMInv'
  BY InitStep DEF MemInv, kmain_pmm_init
<1>3. Types'
  BY DEF MemInv, kmain_pmm_init, paging, Types
<1>4. Booted'
  <2>1. Len(Launch) \in Nat
    BY FilesAssumption
  <2> QED BY <1>1, <2>1 DEF MemInv, Booted, kmain_pmm_init, paging
<1>5. Control' /\ CreationOwns(who)' /\ CreationKept' /\ Faults'
  BY <1>1, IdleOp DEF kmain_pmm_init, Control, CreationOwns, CreationKept,
                      Faults, Mapping, Loading
<1>6. Paging(who)' /\ TasksOwn(who)' /\ KernelPagesKept' /\ Accounted(who)'
  BY <1>1 DEF kmain_pmm_init, Paging, TasksOwn, KernelPagesKept, Accounted
<1> QED BY <1>2, <1>3, <1>4, <1>5, <1>6 DEF MemInv

LEMMA vmm_init_Keeps ==
    ASSUME NEW who, MemInv(who), vmm_init
    PROVE  MemInv(who)'
<1>1. /\ boot = 1 /\ boot' = 2 /\ ready' /\ held' = held /\ ready
      /\ op = Idle /\ tasks = <<>> /\ running = <<>> /\ halted = "no"
      /\ op' = op /\ tasks' = tasks /\ running' = running /\ halted' = halted
  BY DEF vmm_init, MemInv, Booted, pmmVars
<1>2. PMMInv'
  BY StutterStep DEF MemInv, vmm_init
<1>3. /\ KernelTables[1] \in Frames /\ KernelTables[2] \in Frames
      /\ KernelTables[1] # KernelTables[2]
      /\ KernelTables[1] \in DOMAIN page_tables
      /\ KernelTables[2] \in DOMAIN page_tables
  BY KernelFrames DEF MemInv, Types
<1>4. \A i \in 0..1 : IdentityTable(i) \in [Entries -> TableEntries]
  BY Sizes DEF IdentityTable, Entry, TableEntries, Entries
<1>5. /\ DOMAIN page_tables' = DOMAIN page_tables
      /\ page_tables'[KernelTables[1]] = IdentityTable(0)
      /\ page_tables'[KernelTables[2]] = IdentityTable(1)
      /\ \A f \in DOMAIN page_tables :
           f # KernelTables[1] /\ f # KernelTables[2] =>
             page_tables'[f] = page_tables[f]
  BY <1>3 DEF vmm_init
<1>6. /\ page_directory' \in [Directories -> TableEntries]
      /\ \A d \in Directories :
           /\ d < 2 => d + 1 \in {1, 2}
           /\ page_directory'[d] = IF d < 2 THEN Entry(KernelTables[d + 1], FALSE)
                                            ELSE Absent
  <2>1. \A d \in Directories : d < 2 => d + 1 \in {1, 2}
    BY DEF Directories
  <2>2. \A i \in {1, 2} : Entry(KernelTables[i], FALSE) \in TableEntries
    BY <1>3, Sizes DEF Entry, TableEntries
  <2>3. Absent \in TableEntries
    BY DEF Absent, TableEntries
  <2> QED BY <2>1, <2>2, <2>3 DEF vmm_init, IdentityDirectory
<1>7. Types'
  <2>1. \A f \in DOMAIN page_tables' :
          f \in Frames /\ page_tables'[f] \in [Entries -> TableEntries]
    BY <1>3, <1>4, <1>5 DEF MemInv, Types
  <2>2. \A d \in Directories : page_directory'[d].present =>
          page_directory'[d].frame \in DOMAIN page_tables'
    BY <1>3, <1>5, <1>6 DEF Entry, Absent
  <2> QED BY <1>3, <1>5, <1>6, <2>1, <2>2 DEF vmm_init, MemInv, Types
<1>8. Booted'
  <2>1. Len(Launch) \in Nat
    BY FilesAssumption
  <2> QED BY <1>1, <2>1 DEF MemInv, Booted
<1>9. Control' /\ CreationOwns(who)' /\ CreationKept' /\ Faults'
  BY <1>1, IdleOp DEF Control, CreationOwns, CreationKept,
                      Faults, Mapping, Loading
<1>10. Paging(who)'
  <2>1. 0 \in Directories /\ 1 \in Directories
    BY Sizes DEF Directories
  <2>2. \A d \in Upper : d \in Directories /\ ~(d < 2)
    BY DEF Upper, Directories
  <2>3. 0 + 1 = 1 /\ 1 + 1 = 2 /\ 0 < 2 /\ 1 < 2
    OBVIOUS
  <2>4. /\ page_directory'[0] = Entry(KernelTables[1], FALSE)
        /\ page_directory'[1] = Entry(KernelTables[2], FALSE)
    BY <1>6, <2>1, <2>3
  <2>5. \A d \in Upper : page_directory'[d] = Absent
    BY <1>6, <2>2
  <2> QED BY <1>5, <2>4, <2>5 DEF Paging
<1>11. TasksOwn(who)' /\ KernelPagesKept'
  BY <1>1 DEF TasksOwn, KernelPagesKept
<1>12. Accounted(who)'
  <2>1. ASSUME NEW f \in held, KernelPlace(f) PROVE FALSE
    <3>1. \A d \in Upper : d \in Directories /\ ~(d < 2)
      BY DEF Upper, Directories
    <3>2. op.pc = "idle" /\ DOMAIN tasks = {}
      BY <1>1, IdleOp
    <3>3. page_directory = IdentityDirectory(BootTables)
      BY <1>1 DEF MemInv, Booted
    <3>4. \A d \in Upper : ~page_directory[d].present
      BY <3>1, <3>3 DEF IdentityDirectory, Absent
    <3> QED BY <2>1, <3>2, <3>4 DEF KernelPlace
  <2>2. op'.pc = "idle"
    BY <1>1, IdleOp
  <2>3. \A f \in held : who[f].what = "page" /\ contents[f].what \in UserKinds
    BY <1>1, <2>1, IdleOp DEF MemInv, Accounted
  <2> QED BY <1>1, <2>3 DEF Accounted, vmm_init
<1> QED BY <1>2, <1>7, <1>8, <1>9, <1>10, <1>11, <1>12 DEF MemInv

LEMMA BeginsOp ==
    ASSUME op = Idle \/ op.pc = "idle",
           NEW call \in {"tasking_init", "create_task", "create_user_process"},
           NEW path \in Names, NEW caller \in Nat,
           call = "create_user_process" => path \in Paths,
           Begin(call, path, caller)
    PROVE  /\ op' \in Ops /\ op'.pc = "tcb" /\ op'.new_task = NULL
           /\ op'.kernel_stack = NULL /\ op'.call = call /\ op'.path = path
           /\ Control'
<1>1. op' = [pc |-> "tcb", call |-> call, path |-> path, caller |-> caller,
             new_task |-> NULL, i |-> 0, page |-> 0, last |-> 0,
             phys_page |-> NULL, new_pt |-> NULL, argv |-> "none",
             kernel_stack |-> NULL]
  BY DEF Begin, Idle
<1>2. op' \in Ops
  BY <1>1, KernelFrames DEF Ops, Pcs, Argvs, NULL
<1>3. Control'
  BY <1>1 DEF Control, Loading, Mapping
<1> QED BY <1>1, <1>2, <1>3

LEMMA kmain_call_Keeps ==
    ASSUME NEW who, MemInv(who), kmain_call
    PROVE  MemInv(who)'
<1>1. /\ op.pc = "idle" /\ boot >= 2 /\ boot' >= 2 /\ boot' = boot + 1
      /\ boot <= Len(Launch) + 2 /\ boot \in Nat /\ Len(Launch) \in Nat
  BY FilesAssumption DEF kmain_call, At
<1>2. MemoryStays /\ UNCHANGED <<overlaid, running, halted>> /\ halted = "no"
  BY StutterStep DEF kmain_call, MemoryStays, MemInv, pmmVars, At
<1>3. /\ op' \in Ops /\ op'.pc = "tcb" /\ op'.new_task = NULL
      /\ op'.kernel_stack = NULL /\ Control'
  <2>1. CASE boot = 2
    BY <1>1, <2>1, BeginsOp DEF kmain_call, Names
  <2>2. CASE boot # 2
    <3>1. boot - 2 \in 1..Len(Launch)
      BY <1>1, <2>2
    <3>2. Launch[boot - 2] \in Paths \cup {"worker"}
      BY <3>1, FilesAssumption
    <3> QED BY <1>1, <2>2, <3>2, BeginsOp DEF kmain_call, Names
  <2> QED BY <2>1, <2>2
<1>4. Booted'
  BY <1>1, <1>2 DEF MemInv, Booted, MemoryStays, pmmVars
<1>5. Faults' /\ CreationOwns(who)' /\ CreationKept'
  BY <1>2, <1>3 DEF Faults, CreationOwns, CreationKept
<1>6. Controlled'
  BY <1>2, <1>3, <1>4, <1>5 DEF Controlled, MemInv, Types, MemoryStays, Halts
<1>7. \A f \in held : KernelPlace(f) => KernelPlace(f)'
  BY <1>1, <1>2, <1>3 DEF KernelPlace, MemoryStays, paging
<1> QED BY <1>1, <1>2, <1>5, <1>6, <1>7, QuietStep

LEMMA sys_exec_Keeps ==
    ASSUME NEW who, MemInv(who), NEW path \in Paths, sys_exec(path)
    PROVE  MemInv(who)'
<1>1. op.pc = "idle" /\ boot >= 2 /\ boot' = boot
  BY Working DEF sys_exec, At, MemInv
<1>2. MemoryStays /\ UNCHANGED <<overlaid, running, halted>> /\ halted = "no"
  BY StutterStep DEF sys_exec, MemoryStays, MemInv, pmmVars, At
<1>3. /\ op' \in Ops /\ op'.pc = "tcb" /\ op'.new_task = NULL
      /\ op'.kernel_stack = NULL /\ Control'
  <2>1. Last(running) \in Nat
    BY DEF sys_exec, MemInv, Types, Last
  <2> QED BY <1>1, <2>1, BeginsOp DEF sys_exec, Names
<1>4. Booted'
  BY <1>1, <1>2 DEF MemInv, Booted, MemoryStays, pmmVars
<1>5. Faults' /\ CreationOwns(who)' /\ CreationKept'
  BY <1>2, <1>3 DEF Faults, CreationOwns, CreationKept
<1>6. Controlled'
  BY <1>2, <1>3, <1>4, <1>5 DEF Controlled, MemInv, Types, MemoryStays, Halts
<1>7. \A f \in held : KernelPlace(f) => KernelPlace(f)'
  BY <1>1, <1>2, <1>3 DEF KernelPlace, MemoryStays, paging
<1> QED BY <1>1, <1>2, <1>5, <1>6, <1>7, QuietStep

LEMMA sys_exit_Keeps ==
    ASSUME NEW who, MemInv(who), sys_exit
    PROVE  MemInv(who)'
<1>1. op.pc = "idle" /\ boot >= 2 /\ boot' = boot /\ op' = op
  BY Working DEF sys_exit, At, MemInv
<1>2. MemoryStays /\ UNCHANGED <<overlaid, halted>> /\ halted = "no"
  BY StutterStep DEF sys_exit, MemoryStays, MemInv, pmmVars, At
<1>3. /\ running' \in Seq(Nat)
      /\ \A k \in DOMAIN running' : running'[k] \in DOMAIN tasks
  <2>1. running \in Seq(Nat) /\ running # <<>>
        /\ \A k \in DOMAIN running : running[k] \in DOMAIN tasks
    BY DEF sys_exit, MemInv, Types
  <2>2. running' = SubSeq(running, 1, Len(running) - 1)
    BY DEF sys_exit, Front
  <2> QED BY <2>1, <2>2
<1>4. Control' /\ CreationOwns(who)' /\ CreationKept' /\ Faults' /\ Booted'
  <2>1. Control' /\ Booted'
    BY <1>1, <1>2 DEF MemInv, Control, Booted, MemoryStays, pmmVars, paging,
                      Mapping, Loading
  <2>2. CreationOwns(who)' /\ CreationKept' /\ Faults'
    BY <1>1, <1>2 DEF CreationOwns, CreationKept, Faults
  <2> QED BY <2>1, <2>2
<1>5. Controlled'
  BY <1>1, <1>2, <1>3, <1>4 DEF Controlled, MemInv, Types, MemoryStays
<1>6. \A f \in held : KernelPlace(f) => KernelPlace(f)'
  BY <1>1, <1>2 DEF KernelPlace, MemoryStays, paging
<1> QED BY <1>1, <1>2, <1>4, <1>5, <1>6, QuietStep

LEMMA NewType ==
    Types => /\ New \in Nat /\ Len(tasks) \in Nat
             /\ DOMAIN tasks = 1..Len(tasks) /\ New \notin DOMAIN tasks
<1> SUFFICES ASSUME Types PROVE Types =>
      /\ New \in Nat /\ Len(tasks) \in Nat
      /\ DOMAIN tasks = 1..Len(tasks) /\ New \notin DOMAIN tasks
  OBVIOUS
<1>1. tasks \in Seq(TaskBlocks)
  BY DEF Types
<1> QED BY <1>1 DEF New

\* A step of the creation that changes op or halted, and nothing else.
LEMMA OpStep ==
    ASSUME NEW who, MemInv(who), MemoryStays,
           UNCHANGED <<boot, running, overlaid>>, boot >= 2,
           op' \in Ops, halted' \in Halts, Control', Faults',
           CreationOwns(who)', CreationKept',
           \A f \in held : KernelPlace(f) => KernelPlace(f)',
           op.pc \in {"map", "table", "zero"} =>
             op'.pc \in {"map", "table", "zero"} /\ op'.phys_page = op.phys_page
    PROVE  MemInv(who)'
<1>1. Booted'
  BY DEF MemInv, Booted, MemoryStays, pmmVars, paging
<1>2. Controlled'
  BY <1>1 DEF Controlled, MemInv, Types, MemoryStays
<1> QED BY <1>1, <1>2, QuietStep

LEMMA HaltStep ==
    ASSUME NEW who, MemInv(who), MemoryStays,
           UNCHANGED <<boot, running, overlaid, op>>, boot >= 2,
           halted' \in Halts,
           halted' = "page fault" =>
             (Frames \cap IdentityMapped) \subseteq (Reserved \cup held)
    PROVE  MemInv(who)'
<1>1. op' \in Ops
  BY DEF MemInv, Types
<1>2. Control'
  <2>1. ProgramPages' = ProgramPages /\ File' = File /\ Phdr' = Phdr
        /\ Pde(op.page)' = Pde(op.page)
    BY DEF MemoryStays, paging, ProgramPages, Above, File, Phdr, Pde
  <2> QED BY <2>1 DEF MemInv, Control
<1>3. held' = held
  BY DEF MemoryStays, pmmVars
<1>4. Faults'
  BY <1>3 DEF MemInv, Faults, Below
<1>5. CreationOwns(who)' /\ CreationKept'
  BY <1>3 DEF MemInv, CreationOwns, CreationKept, MemoryStays, New
<1>6. \A f \in held : KernelPlace(f) => KernelPlace(f)'
  BY DEF KernelPlace, MemoryStays, paging
<1> QED BY <1>1, <1>2, <1>4, <1>5, <1>6, OpStep

LEMMA user_fault_Keeps ==
    ASSUME NEW who, MemInv(who), user_fault
    PROVE  MemInv(who)'
<1>1. boot >= 2
  BY Working DEF user_fault, MemInv
<1>2. MemoryStays /\ UNCHANGED <<boot, running, overlaid, op>>
      /\ halted' = "user fault"
  BY StutterStep DEF user_fault, MemoryStays, MemInv, pmmVars
<1> QED BY <1>1, <1>2, HaltStep DEF Halts

LEMMA copy_argv_fault_Keeps ==
    ASSUME NEW who, MemInv(who), copy_argv_fault
    PROVE  MemInv(who)'
<1>1. boot >= 2
  BY Working DEF copy_argv_fault, At, MemInv
<1>2. MemoryStays /\ UNCHANGED <<boot, running, overlaid, op>>
      /\ halted' = "argv fault"
  BY StutterStep DEF copy_argv_fault, MemoryStays, MemInv, pmmVars
<1> QED BY <1>1, <1>2, HaltStep DEF Halts

LEMMA kernel_page_fault_Keeps ==
    ASSUME NEW who, MemInv(who), kernel_page_fault
    PROVE  MemInv(who)'
<1>1. boot >= 2
  BY Working DEF kernel_page_fault, At, MemInv
<1>2. MemoryStays /\ UNCHANGED <<boot, running, overlaid, op>>
      /\ halted' = "page fault"
  BY StutterStep DEF kernel_page_fault, MemoryStays, MemInv, pmmVars
<1>3. PICK n \in {op.new_task, op.new_pt, op.kernel_stack} : Below(n) /\ ~Mapped(n)
  BY DEF kernel_page_fault, At, MemInv, Faults
<1>4. n \in Frames /\ n \in Addrs
  BY <1>3, KernelFrames DEF MemInv, Types, Ops
<1>5. n \notin IdentityMapped
  <2>1. CASE n \in IdentityMapped
    <3>1. Lookup(n) = Entry(n, FALSE)
      BY <1>1, <1>4, <2>1, KernelReach DEF MemInv
    <3> QED BY <1>3, <3>1 DEF Mapped, Entry
  <2> QED BY <2>1
<1>6. \A f \in Frames \cap IdentityMapped : f < n
  BY <1>4, <1>5, Sizes DEF IdentityMapped, Frames
<1>7. (Frames \cap IdentityMapped) \subseteq (Reserved \cup held)
  BY <1>3, <1>6 DEF Below
<1> QED BY <1>1, <1>2, <1>7, HaltStep DEF Halts

LEMMA elf_header_Keeps ==
    ASSUME NEW who, MemInv(who), elf_header
    PROVE  MemInv(who)'
<1>1. op.pc = "header" /\ boot >= 2 /\ halted = "no" /\ op \in Ops
  BY Working DEF elf_header, At, MemInv, Types
<1>2. MemoryStays /\ UNCHANGED <<boot, running, overlaid, halted>>
  BY StutterStep DEF elf_header, MemoryStays, MemInv, pmmVars
<1>3. \/ op' = [op EXCEPT !.pc = "segment", !.i = 1]
      \/ op' = [op EXCEPT !.pc = "give_up"]
  BY DEF elf_header
<1>4. /\ op' \in Ops /\ op'.pc \in {"segment", "give_up"}
      /\ op'.new_task = op.new_task /\ op'.kernel_stack = op.kernel_stack
      /\ op'.call = op.call /\ op'.path = op.path
      /\ op'.pc = "segment" => op'.i = 1
  <2>1. CASE op' = [op EXCEPT !.pc = "segment", !.i = 1]
    BY <1>1, <2>1 DEF Ops, Pcs
  <2>2. CASE op' = [op EXCEPT !.pc = "give_up"]
    BY <1>1, <2>2 DEF Ops, Pcs
  <2> QED BY <1>3, <2>1, <2>2
<1>5. Control'
  BY <1>1, <1>4 DEF MemInv, Control, Mapping, Loading
<1>6. CreationOwns(who)' /\ CreationKept' /\ Faults'
  <2>1. held' = held /\ contents' = contents /\ New' = New
    BY <1>2 DEF MemoryStays, pmmVars, New
  <2> QED BY <1>1, <1>2, <1>4, <2>1 DEF MemInv, CreationOwns, CreationKept, Faults
<1>7. \A f \in held : KernelPlace(f) => KernelPlace(f)'
  BY <1>1, <1>2, <1>4 DEF KernelPlace, MemoryStays, paging
<1> QED BY <1>1, <1>2, <1>4, <1>5, <1>6, <1>7, OpStep DEF MemInv, Types

\* The file that is being loaded, and the pages of one of its segments.
LEMMA FileRecord ==
    ASSUME files \in Builds, op.path \in Paths
    PROVE  /\ File \in ElfFiles /\ Len(File.phdrs) \in Nat
           /\ \A i \in 1..Len(File.phdrs) :
                /\ File.phdrs[i].first \in Nat /\ File.phdrs[i].size \in Nat
                /\ Loaded(File.phdrs[i]) =>
                     SegmentPages(File.phdrs[i]) \subseteq ImagePages(File)
<1> DEFINE H == [p_type : {"PT_LOAD", "other"}, first : Nat, size : Nat]
<1>1. File \in ElfFiles
  BY FilesAssumption DEF File
<1>2. PICK s : s = File.phdrs
  OBVIOUS
<1>3. s \in Seq(H)
  BY <1>1, <1>2 DEF ElfFiles
<1>4. \A h \in H : h.first \in Nat /\ h.size \in Nat
  OBVIOUS
<1> HIDE DEF H
<1>5. ASSUME NEW i \in 1..Len(s)
      PROVE  /\ s[i].first \in Nat /\ s[i].size \in Nat
             /\ Loaded(s[i]) => SegmentPages(s[i]) \subseteq ImagePages(File)
  <2>1. s[i] \in H /\ i \in DOMAIN s
    BY <1>3
  <2>2. Loaded(s[i]) => SegmentPages(s[i]) \subseteq ImagePages(File)
    BY <1>2, <2>1 DEF ImagePages
  <2> QED BY <1>4, <2>1, <2>2
<1>6. Len(s) \in Nat
  BY <1>3
<1> QED BY <1>1, <1>2, <1>5, <1>6

LEMMA FileType ==
    ASSUME LoadsAbove, Types, Control, op.pc \in Loading
    PROVE  /\ op.path \in Paths /\ File \in ElfFiles
           /\ Len(File.phdrs) \in Nat
           /\ \A i \in 1..Len(File.phdrs) :
                /\ File.phdrs[i].first \in Nat /\ File.phdrs[i].size \in Nat
                /\ Loaded(File.phdrs[i]) =>
                     SegmentPages(File.phdrs[i]) \subseteq ProgramPages
<1>1. op.path \in Paths /\ files \in Builds
  BY DEF Control, Types
<1>2. ImagePages(File) \subseteq ProgramPages
  BY <1>1 DEF LoadsAbove, ProgramPages, Above, File
<1> QED BY <1>1, <1>2, FileRecord

LEMMA elf_next_segment_Keeps ==
    ASSUME LoadsAbove, NEW who, MemInv(who), elf_next_segment
    PROVE  MemInv(who)'
<1>1. op.pc = "segment" /\ boot >= 2 /\ halted = "no" /\ op \in Ops
  BY Working DEF elf_next_segment, At, MemInv, Types
<1>2. MemoryStays /\ UNCHANGED <<boot, running, overlaid, halted>>
  BY StutterStep DEF elf_next_segment, MemoryStays, MemInv, pmmVars
<1>3. op.i \in Nat /\ op.i >= 1 /\ op.path \in Paths /\ Len(File.phdrs) \in Nat
      /\ \A i \in 1..Len(File.phdrs) :
           /\ File.phdrs[i].first \in Nat /\ File.phdrs[i].size \in Nat
           /\ Loaded(File.phdrs[i]) =>
                     SegmentPages(File.phdrs[i]) \subseteq ProgramPages
  BY <1>1, FileType DEF MemInv, Control, Ops, Loading
<1>4. /\ op' \in Ops /\ op'.pc \in {"segment", "page"}
      /\ op'.new_task = op.new_task /\ op'.kernel_stack = op.kernel_stack
      /\ op'.call = op.call /\ op'.path = op.path
      /\ op'.pc = "segment" => op'.i >= 1
      /\ op'.pc = "page" =>
           /\ op'.i >= 1 /\ op'.page <= op'.last
           /\ op'.page..op'.last \subseteq ProgramPages
           /\ op'.i <= Len(File.phdrs) => Loaded(File.phdrs[op'.i])
  <2>1. op.i \in 1..Len(File.phdrs)
    BY <1>3 DEF elf_next_segment
  <2>2. CASE ~Loaded(Phdr)
    <3>1. op' = [op EXCEPT !.i = op.i + 1]
      BY <2>2 DEF elf_next_segment
    <3> QED BY <1>1, <1>3, <3>1 DEF Ops
  <2>3. CASE Loaded(Phdr)
    <3>1. op' = [op EXCEPT !.pc = "page", !.page = Phdr.first,
                           !.last = Phdr.first + Phdr.size - 1]
      BY <2>3 DEF elf_next_segment
    <3>3. Phdr.first \in Nat /\ Phdr.size \in Nat /\ Phdr.size > 0
          /\ SegmentPages(Phdr) \subseteq ProgramPages
      BY <1>3, <2>1, <2>3 DEF Phdr, Loaded
    <3>4. Phdr.first + Phdr.size - 1 \in Nat
          /\ Phdr.first <= Phdr.first + Phdr.size - 1
      BY <3>3
    <3>5. op' \in Ops
      BY <1>1, <3>1, <3>3, <3>4 DEF Ops, Pcs
    <3> QED BY <1>1, <1>3, <2>1, <2>3, <3>1, <3>3, <3>4, <3>5
            DEF Ops, SegmentPages, Phdr
  <2> QED BY <2>2, <2>3
<1>5. Control'
  <2>1. ProgramPages' = ProgramPages /\ File' = File
    BY <1>2, <1>4 DEF MemoryStays, ProgramPages, Above, File, elf_next_segment
  <2> QED BY <1>1, <1>4, <2>1 DEF MemInv, Control, Mapping, Loading, Phdr
<1>6. CreationOwns(who)' /\ CreationKept' /\ Faults'
  <2>1. held' = held /\ contents' = contents /\ New' = New
    BY <1>2 DEF MemoryStays, pmmVars, New
  <2> QED BY <1>1, <1>2, <1>4, <2>1 DEF MemInv, CreationOwns, CreationKept, Faults
<1>7. \A f \in held : KernelPlace(f) => KernelPlace(f)'
  BY <1>1, <1>2, <1>4 DEF KernelPlace, MemoryStays, paging
<1> QED BY <1>1, <1>2, <1>4, <1>5, <1>6, <1>7, OpStep DEF MemInv, Types

LEMMA elf_loaded_Keeps ==
    ASSUME LoadsAbove, NEW who, MemInv(who), elf_loaded
    PROVE  MemInv(who)'
<1>1. op.pc = "segment" /\ boot >= 2 /\ halted = "no" /\ op \in Ops
  BY Working DEF elf_loaded, At, MemInv, Types
<1>2. MemoryStays /\ UNCHANGED <<boot, running, overlaid, halted>>
  BY StutterStep DEF elf_loaded, MemoryStays, MemInv, pmmVars
<1>3. op.i \in Nat /\ op.i >= 1 /\ op.path \in Paths /\ Len(File.phdrs) \in Nat
      /\ op.i > Len(File.phdrs)
  BY <1>1, FileType DEF MemInv, Control, Ops, Loading, elf_loaded
<1>4. /\ op' \in Ops /\ op'.pc \in {"give_up", "page"}
      /\ op'.new_task = op.new_task /\ op'.kernel_stack = op.kernel_stack
      /\ op'.call = op.call /\ op'.path = op.path
      /\ op'.pc = "page" =>
           /\ op'.i = op.i /\ op'.page <= op'.last
           /\ op'.page..op'.last \subseteq ProgramPages
  <2>1. CASE File.e_entry = 0
    <3>1. op' = [op EXCEPT !.pc = "give_up"]
      BY <2>1 DEF elf_loaded
    <3> QED BY <1>1, <3>1 DEF Ops, Pcs
  <2>2. CASE File.e_entry # 0
    <3>1. op' = [op EXCEPT !.pc = "page", !.page = UserStackBottom,
                           !.last = UserStackTop - 1]
      BY <2>2 DEF elf_loaded
    <3>2. /\ UserStackBottom \in Nat /\ UserStackTop - 1 \in Nat
          /\ UserStackBottom <= UserStackTop - 1
          /\ UserStackBottom..(UserStackTop - 1) \subseteq ProgramPages
      BY DirectoryAssumption DEF ProgramPages, StackPages
    <3>3. op' \in Ops
      BY <1>1, <3>1, <3>2 DEF Ops, Pcs
    <3>4. /\ op'.pc = "page" /\ op'.i = op.i /\ op'.page = UserStackBottom
          /\ op'.last = UserStackTop - 1
          /\ op'.new_task = op.new_task /\ op'.kernel_stack = op.kernel_stack
          /\ op'.call = op.call /\ op'.path = op.path
      BY <1>1, <3>1 DEF Ops
    <3> QED BY <3>2, <3>3, <3>4
  <2> QED BY <2>1, <2>2
<1>5. Control'
  <2>1. ProgramPages' = ProgramPages /\ File' = File
    BY <1>2, <1>4 DEF MemoryStays, ProgramPages, Above, File, elf_loaded
  <2> QED BY <1>1, <1>3, <1>4, <2>1 DEF MemInv, Control, Mapping, Loading
<1>6. CreationOwns(who)' /\ CreationKept' /\ Faults'
  <2>1. held' = held /\ contents' = contents /\ New' = New
    BY <1>2 DEF MemoryStays, pmmVars, New
  <2> QED BY <1>1, <1>2, <1>4, <2>1 DEF MemInv, CreationOwns, CreationKept, Faults
<1>7. \A f \in held : KernelPlace(f) => KernelPlace(f)'
  BY <1>1, <1>2, <1>4 DEF KernelPlace, MemoryStays, paging
<1> QED BY <1>1, <1>2, <1>4, <1>5, <1>6, <1>7, OpStep DEF MemInv, Types

LEMMA vmm_no_table_Keeps ==
    ASSUME NEW who, MemInv(who), vmm_no_table
    PROVE  MemInv(who)'
<1>1. op.pc = "map" /\ boot >= 2 /\ halted = "no" /\ op \in Ops
  BY Working DEF vmm_no_table, At, MemInv, Types
<1>2. MemoryStays /\ UNCHANGED <<boot, running, overlaid, halted>>
  BY StutterStep DEF vmm_no_table, MemoryStays, MemInv, pmmVars
<1>3. op' = [op EXCEPT !.pc = "table"] /\ ~Pde(op.page).present
  BY DEF vmm_no_table
<1>4. op' \in Ops
  BY <1>1, <1>3 DEF Ops, Pcs
<1>5. Pde(op.page) = Absent
  <2>1. op.page \in ProgramPages
    BY <1>1 DEF MemInv, Control, Mapping, Ops
  <2>2. op.page \div TableSize \in Upper
    BY <2>1, ProgramAddress DEF MemInv, Types
  <2> QED BY <1>1, <1>3, <2>2 DEF MemInv, Paging, Pde
<1>6. Control'
  <2>1. /\ op'.pc = "table" /\ op'.i = op.i /\ op'.page = op.page
        /\ op'.last = op.last /\ op'.path = op.path /\ op'.call = op.call
        /\ op'.new_task = op.new_task /\ op'.kernel_stack = op.kernel_stack
    BY <1>1, <1>3 DEF Ops
  <2>2. files' = files /\ page_directory' = page_directory
    BY <1>2 DEF MemoryStays, paging
  <2>3. ProgramPages' = ProgramPages /\ File' = File /\ Phdr' = Phdr
        /\ Pde(op.page)' = Absent
    BY <1>5, <2>1, <2>2 DEF ProgramPages, Above, File, Phdr, Pde
  <2> QED BY <1>1, <2>1, <2>3 DEF MemInv, Control, Mapping, Loading
<1>7. CreationOwns(who)' /\ CreationKept' /\ Faults'
  <2>1. held' = held /\ contents' = contents /\ New' = New
    BY <1>2 DEF MemoryStays, pmmVars, New
  <2> QED BY <1>1, <1>2, <1>3, <2>1
          DEF MemInv, CreationOwns, CreationKept, Faults, Ops
<1>8. \A f \in held : KernelPlace(f) => KernelPlace(f)'
  BY <1>1, <1>2, <1>3 DEF KernelPlace, MemoryStays, paging, Ops
<1>9. op'.pc = "table" /\ op'.phys_page = op.phys_page
  BY <1>1, <1>3 DEF Ops
<1> QED BY <1>1, <1>2, <1>4, <1>6, <1>7, <1>8, <1>9, OpStep DEF MemInv, Types

-----------------------------------------------------------------------------
(***************************************************************************)
(* The steps that take a frame: it gets the owner it is meant for, and the *)
(* frames that were held keep theirs.                                      *)
(***************************************************************************)
LEMMA GrantStep ==
    ASSUME NEW who \in [Frames -> Tags], MemInv(who), allocate(op.pc),
           NEW g, g = Granted, boot >= 2, NEW tag \in Tags, NEW now,
           now = [who EXCEPT ![g] = tag],
           op' \in Ops, Control', CreationOwns(now)', CreationKept',
           op'.pc = "memset" => op'.new_task = g,
           op'.pc = "zero" => op'.new_pt = g,
           op'.pc = "frame" => op'.kernel_stack = g,
           \A f \in held : KernelPlace(f) => KernelPlace(f)',
           \/ KernelPlace(g)'
           \/ tag.what = "page" /\ op'.pc = "map" /\ op'.phys_page = g,
           op.pc \in {"map", "table", "zero"} =>
             op'.pc \in {"map", "table", "zero"} /\ op'.phys_page = op.phys_page
    PROVE  Owned'
<1>1. /\ PMMInv' /\ ready /\ ready'
      /\ g \in Frames /\ g # NULL
      /\ g \notin Reserved \cup held
      /\ held' = held \cup {g}
      /\ Below(g)
  BY Grants DEF allocate, MemInv
<1>2. /\ now \in [Frames -> Tags] /\ now[g] = tag
      /\ \A f \in held : f \in Frames /\ now[f] = who[f]
  BY <1>1, HeldFrames DEF MemInv
<1>3. /\ UNCHANGED <<page_directory, page_tables, contents, files, boot, tasks,
                     running, halted, overlaid>>
      /\ halted = "no"
  BY DEF allocate, paging, At
<1>4. Types'
  BY <1>3 DEF MemInv, Types
<1>5. Booted'
  BY <1>1, <1>3 DEF MemInv, Booted
<1>6. Paging(now)'
  <2>1. ProgramPages' = ProgramPages /\ \A d \in Upper : TableOf(d)' = TableOf(d)
    BY <1>3 DEF ProgramPages, Above, TableOf
  <2>2. Paging(now)
    BY <1>2 DEF MemInv, Paging
  <2>3. held \subseteq held'
    BY <1>1
  <2> QED BY <1>3, <2>1, <2>2, <2>3 DEF Paging
<1>7. TasksOwn(now)' /\ KernelPagesKept'
  BY <1>1, <1>2, <1>3 DEF MemInv, TasksOwn, KernelPagesKept
<1>8. Accounted(now)'
  BY <1>1, <1>2, <1>3 DEF MemInv, Accounted
<1>9. Faults'
  <2>1. Below(g)'
    BY <1>1 DEF Below
  <2> QED BY <1>3, <2>1 DEF Faults
<1>10. MemInv(now)'
  BY <1>1, <1>4, <1>5, <1>6, <1>7, <1>8, <1>9 DEF MemInv
<1> QED BY <1>2, <1>10 DEF Owned

LEMMA alloc_tcb_Keeps ==
    ASSUME NEW who \in [Frames -> Tags], MemInv(who), alloc_tcb
    PROVE  Owned'
<1> DEFINE tag == Tag("tcb", New, 0)
<1>1. PICK g : g = Granted
  OBVIOUS
<1>2. /\ op.pc = "tcb" /\ boot >= 2 /\ op \in Ops /\ allocate(op.pc)
      /\ op.new_task = NULL
  BY Working DEF alloc_tcb, allocate, At, MemInv, Types, Control
<1>3. /\ g \in Frames /\ g # NULL /\ held' = held \cup {g}
  BY <1>1, <1>2, Grants DEF allocate, MemInv
<1>4. UNCHANGED <<page_directory, page_tables, contents, files, tasks>>
  BY <1>2 DEF allocate, paging
<1>5. op' = [op EXCEPT !.pc = "memset", !.new_task = g]
  BY <1>1 DEF alloc_tcb
<1>6. op' \in Ops
  BY <1>2, <1>3, <1>5 DEF Ops, Pcs
<1>7. /\ op'.pc = "memset" /\ op'.new_task = g
      /\ op'.kernel_stack = op.kernel_stack
      /\ op'.call = op.call /\ op'.path = op.path
  BY <1>2, <1>5 DEF Ops
<1>8. Control'
  BY <1>2, <1>3, <1>7 DEF MemInv, Control, Mapping, Loading
<1>9. New' = New /\ tag \in Tags
  BY <1>4, NewType DEF MemInv, New, Tag, Tags
<1>10. PICK now : now = [who EXCEPT ![g] = tag]
  OBVIOUS
<1>11. now[g] = Tag("tcb", New, 0)
  BY <1>3, <1>10
<1>12. CreationOwns(now)' /\ CreationKept'
  BY <1>3, <1>7, <1>9, <1>11 DEF CreationOwns, CreationKept
<1>13. /\ \A f \in held : KernelPlace(f) => KernelPlace(f)'
       /\ KernelPlace(g)'
  BY <1>2, <1>4, <1>7 DEF KernelPlace
<1> HIDE DEF tag
<1> QED BY <1>1, <1>2, <1>6, <1>7, <1>8, <1>9, <1>10, <1>12, <1>13, GrantStep

LEMMA alloc_phys_page_Keeps ==
    ASSUME NEW who \in [Frames -> Tags], MemInv(who), alloc_phys_page
    PROVE  Owned'
<1> DEFINE tag == Tag("page", op.page, 0)
<1>1. PICK g : g = Granted
  OBVIOUS
<1>2. op.pc = "page" /\ boot >= 2 /\ op \in Ops /\ allocate(op.pc)
  BY Working DEF alloc_phys_page, allocate, At, MemInv, Types
<1>3. /\ g \in Frames /\ g \notin held /\ held' = held \cup {g}
  BY <1>1, <1>2, Grants DEF allocate, MemInv
<1>4. UNCHANGED <<page_directory, page_tables, contents, files, tasks>>
  BY <1>2 DEF allocate, paging
<1>5. op' = [op EXCEPT !.pc = "map", !.phys_page = g]
  BY <1>1 DEF alloc_phys_page
<1>6. op' \in Ops
  BY <1>2, <1>3, <1>5 DEF Ops, Pcs
<1>7. /\ op'.pc = "map" /\ op'.phys_page = g
      /\ op'.new_task = op.new_task /\ op'.kernel_stack = op.kernel_stack
      /\ op'.call = op.call /\ op'.path = op.path
      /\ op'.i = op.i /\ op'.page = op.page /\ op'.last = op.last
  BY <1>2, <1>5 DEF Ops
<1>8. Control'
  <2>1. ProgramPages' = ProgramPages /\ File' = File /\ Phdr' = Phdr
    BY <1>4, <1>7 DEF ProgramPages, Above, File, Phdr
  <2> QED BY <1>2, <1>7, <2>1 DEF MemInv, Control, Mapping, Loading
<1>9. New' = New /\ tag \in Tags /\ tag.what = "page"
  BY <1>2, <1>4 DEF New, Tag, Tags, Ops
<1>10. PICK now : now = [who EXCEPT ![g] = tag]
  OBVIOUS
<1>11. now[g] = Tag("page", op.page, 0) /\ \A f \in held : now[f] = who[f]
  BY <1>3, <1>10, HeldFrames DEF MemInv
<1>12. CreationOwns(now)' /\ CreationKept'
  BY <1>2, <1>3, <1>4, <1>7, <1>9, <1>11
     DEF CreationOwns, CreationKept, MemInv, Control
<1>13. \A f \in held : KernelPlace(f) => KernelPlace(f)'
  BY <1>2, <1>4, <1>7 DEF KernelPlace
<1> HIDE DEF tag
<1> QED BY <1>1, <1>2, <1>6, <1>7, <1>8, <1>9, <1>10, <1>12, <1>13, GrantStep

LEMMA alloc_page_table_Keeps ==
    ASSUME NEW who \in [Frames -> Tags], MemInv(who),
           alloc_page_table
    PROVE  Owned'
<1> DEFINE tag == Tag("table", op.page \div TableSize, 0)
<1>1. PICK g : g = Granted
  OBVIOUS
<1>2. op.pc = "table" /\ boot >= 2 /\ op \in Ops /\ allocate(op.pc)
  BY Working DEF alloc_page_table, allocate, At, MemInv, Types
<1>3. /\ g \in Frames /\ g \notin held /\ held' = held \cup {g}
  BY <1>1, <1>2, Grants DEF allocate, MemInv
<1>4. UNCHANGED <<page_directory, page_tables, contents, files, tasks>>
  BY <1>2 DEF allocate, paging
<1>5. op' = [op EXCEPT !.pc = "zero", !.new_pt = g]
  BY <1>1 DEF alloc_page_table
<1>6. op' \in Ops
  BY <1>2, <1>3, <1>5 DEF Ops, Pcs
<1>7. /\ op'.pc = "zero" /\ op'.new_pt = g /\ op'.phys_page = op.phys_page
      /\ op'.new_task = op.new_task /\ op'.kernel_stack = op.kernel_stack
      /\ op'.call = op.call /\ op'.path = op.path
      /\ op'.i = op.i /\ op'.page = op.page /\ op'.last = op.last
  BY <1>2, <1>5 DEF Ops
<1>8. Control'
  <2>1. /\ ProgramPages' = ProgramPages /\ File' = File /\ Phdr' = Phdr
        /\ Pde(op.page)' = Pde(op.page)
    BY <1>4, <1>7 DEF ProgramPages, Above, File, Phdr, Pde
  <2> QED BY <1>2, <1>7, <2>1 DEF MemInv, Control, Mapping, Loading, Pde
<1>9. New' = New /\ tag \in Tags
  <2>1. op.page \in Nat
    BY <1>2 DEF Ops
  <2>2. op.page \div TableSize \in Nat
    BY <2>1, Sizes
  <2> QED BY <1>4, <2>2 DEF New, Tag, Tags
<1>10. PICK now : now = [who EXCEPT ![g] = tag]
  OBVIOUS
<1>11. now[g] = tag /\ \A f \in held : now[f] = who[f]
  BY <1>3, <1>10, HeldFrames DEF MemInv
<1>12. CreationOwns(now)' /\ CreationKept'
  BY <1>2, <1>3, <1>4, <1>7, <1>9, <1>11
     DEF CreationOwns, CreationKept, MemInv, Control
<1>13. /\ \A f \in held : KernelPlace(f) => KernelPlace(f)'
       /\ KernelPlace(g)'
  BY <1>2, <1>4, <1>7 DEF KernelPlace
<1> HIDE DEF tag
<1> QED BY <1>1, <1>2, <1>6, <1>7, <1>8, <1>9, <1>10, <1>12, <1>13, GrantStep

LEMMA alloc_kernel_stack_Keeps ==
    ASSUME NEW who \in [Frames -> Tags], MemInv(who), alloc_kernel_stack
    PROVE  Owned'
<1> DEFINE tag == Tag("kernel stack", New, 0)
<1>1. PICK g : g = Granted
  OBVIOUS
<1>2. op.pc = "kstack" /\ boot >= 2 /\ op \in Ops /\ allocate(op.pc)
  BY Working DEF alloc_kernel_stack, allocate, At, MemInv, Types
<1>3. /\ g \in Frames /\ g # NULL /\ g \notin held /\ held' = held \cup {g}
  BY <1>1, <1>2, Grants DEF allocate, MemInv
<1>4. UNCHANGED <<page_directory, page_tables, contents, files, tasks>>
  BY <1>2 DEF allocate, paging
<1>5. op' = [op EXCEPT !.pc = "frame", !.kernel_stack = g]
  BY <1>1 DEF alloc_kernel_stack
<1>6. op' \in Ops
  BY <1>2, <1>3, <1>5 DEF Ops, Pcs
<1>7. /\ op'.pc = "frame" /\ op'.kernel_stack = g
      /\ op'.new_task = op.new_task
      /\ op'.call = op.call /\ op'.path = op.path
  BY <1>2, <1>5 DEF Ops
<1>8. Control'
  BY <1>2, <1>3, <1>7 DEF MemInv, Control, Mapping, Loading
<1>9. New' = New /\ tag \in Tags
  BY <1>4, NewType DEF MemInv, New, Tag, Tags
<1>10. PICK now : now = [who EXCEPT ![g] = tag]
  OBVIOUS
<1>11. now[g] = tag /\ \A f \in held : now[f] = who[f]
  BY <1>3, <1>10, HeldFrames DEF MemInv
<1>12. CreationOwns(now)' /\ CreationKept'
  BY <1>2, <1>3, <1>4, <1>7, <1>9, <1>11
     DEF CreationOwns, CreationKept, MemInv, Control
<1>13. /\ \A f \in held : KernelPlace(f) => KernelPlace(f)'
       /\ KernelPlace(g)'
  BY <1>2, <1>4, <1>7 DEF KernelPlace
<1> HIDE DEF tag
<1> QED BY <1>1, <1>2, <1>6, <1>7, <1>8, <1>9, <1>10, <1>12, <1>13, GrantStep

-----------------------------------------------------------------------------
(***************************************************************************)
(* The steps that are refused a frame, and the one that gives one back.    *)
(***************************************************************************)
LEMMA page_table_refused_Keeps ==
    ASSUME NEW who, MemInv(who), page_table_refused
    PROVE  MemInv(who)'
<1>1. boot >= 2
  BY Working DEF page_table_refused, At, MemInv
<1>2. MemoryStays /\ UNCHANGED <<boot, running, overlaid, op>>
      /\ halted' = "no page table"
  BY Refuses DEF page_table_refused, MemoryStays, MemInv
<1> QED BY <1>1, <1>2, HaltStep DEF Halts

LEMMA alloc_refused_Keeps ==
    ASSUME NEW who, MemInv(who), alloc_refused
    PROVE  MemInv(who)'
<1>1. op.pc \in {"tcb", "page", "kstack"} /\ boot >= 2 /\ halted = "no"
      /\ op \in Ops
  BY Working DEF alloc_refused, At, MemInv, Types
<1>2. MemoryStays /\ UNCHANGED <<boot, running, overlaid, halted>>
  BY Refuses DEF alloc_refused, MemoryStays, MemInv
<1>3. op' = [op EXCEPT !.pc = "give_up"]
  BY DEF alloc_refused
<1>4. /\ op' \in Ops /\ op'.pc = "give_up"
      /\ op'.new_task = op.new_task /\ op'.kernel_stack = op.kernel_stack
      /\ op'.call = op.call
  BY <1>1, <1>3 DEF Ops, Pcs
<1>5. Control'
  BY <1>1, <1>4 DEF MemInv, Control, Mapping, Loading
<1>6. CreationOwns(who)' /\ CreationKept' /\ Faults'
  <2>1. held' = held /\ contents' = contents /\ New' = New
    BY <1>2 DEF MemoryStays, New
  <2> QED BY <1>1, <1>2, <1>4, <2>1
          DEF MemInv, Control, CreationOwns, CreationKept, Faults
<1>7. \A f \in held : KernelPlace(f) => KernelPlace(f)'
  BY <1>1, <1>2, <1>4 DEF KernelPlace, MemoryStays, paging
<1> QED BY <1>1, <1>2, <1>4, <1>5, <1>6, <1>7, OpStep DEF MemInv, Types

LEMMA give_up_Keeps ==
    ASSUME NEW who, MemInv(who), give_up
    PROVE  MemInv(who)'
<1>1. op.pc = "give_up" /\ boot >= 2 /\ op \in Ops /\ halted \in Halts
      /\ halted = "no"
  BY Working DEF give_up, At, MemInv, Types
<1>2. /\ op' = Idle
      /\ UNCHANGED <<page_directory, page_tables, contents, files, boot, tasks,
                     running, overlaid>>
      /\ halted' \in Halts /\ halted' # "page fault"
  BY <1>1 DEF give_up, paging, Halts
<1>3. /\ op.new_task \in Frames
      /\ op.new_task # NULL => /\ op.new_task \in held
                               /\ who[op.new_task] = Tag("tcb", New, 0)
  BY <1>1 DEF MemInv, CreationOwns, Ops
<1>4. /\ PMMInv' /\ ready' = ready
      /\ held' = held \ {op.new_task}
  BY <1>3, GivesBack DEF give_up, MemInv
<1>5. \A f \in held : who[f] # Tag("tcb", New, 0) => f \in held'
  BY <1>3, <1>4, HeldFrames DEF MemInv
<1>6. Types'
  BY <1>2, IdleOp DEF MemInv, Types
<1>7. Booted'
  BY <1>1, <1>2, <1>4, BootStays DEF MemInv
<1>8. Control' /\ CreationOwns(who)' /\ CreationKept' /\ Faults'
  BY <1>2, IdleOp DEF Control, CreationOwns, CreationKept, Faults, Mapping,
                      Loading
<1>9. Paging(who)'
  <2>1. ProgramPages' = ProgramPages /\ \A d \in Upper : TableOf(d)' = TableOf(d)
    BY <1>2 DEF ProgramPages, Above, TableOf
  <2>2. \A n : /\ Tag("table", n, 0) # Tag("tcb", New, 0)
               /\ Tag("page", n, 0) # Tag("tcb", New, 0)
    BY DEF Tag
  <2>3. ASSUME NEW d \in Upper, page_directory[d] # Absent
        PROVE  /\ page_directory[d].present /\ page_directory[d].user
               /\ page_directory[d].frame \in held'
               /\ who[page_directory[d].frame] = Tag("table", d, 0)
               /\ \A e \in Entries :
                   \/ TableOf(d)[e] = Absent
                   \/ /\ TableOf(d)[e].present
                      /\ (d * TableSize) + e \in ProgramPages
                      /\ TableOf(d)[e].frame \in held'
                      /\ who[TableOf(d)[e].frame] =
                           Tag("page", (d * TableSize) + e, 0)
    BY <1>1, <1>5, <2>2, <2>3 DEF MemInv, Paging
  <2> QED BY <1>1, <1>2, <2>1, <2>3 DEF MemInv, Paging
<1>10. TasksOwn(who)' /\ KernelPagesKept'
  <2>1. \A t \in DOMAIN tasks : /\ Tag("tcb", t, 0) # Tag("tcb", New, 0)
                                /\ Tag("kernel stack", t, 0) # Tag("tcb", New, 0)
    BY NewType DEF Tag, MemInv
  <2> QED BY <1>2, <1>5, <2>1 DEF MemInv, TasksOwn, KernelPagesKept
<1>11. Accounted(who)'
  <2>1. \A f \in held' : KernelPlace(f) => KernelPlace(f)'
    BY <1>1, <1>2, <1>4 DEF KernelPlace
  <2> QED BY <1>1, <1>2, <1>4, <2>1 DEF MemInv, Accounted
<1> QED BY <1>4, <1>6, <1>7, <1>8, <1>9, <1>10, <1>11 DEF MemInv

-----------------------------------------------------------------------------
(***************************************************************************)
(* The steps that write to a frame.                                        *)
(***************************************************************************)
\* A write to a frame that is none of a task's.
LEMMA WriteEffect ==
    ASSUME Types, KernelPagesKept, UNCHANGED tasks,
           NEW g \in Frames, NEW tag \in Tags,
           contents' = [contents EXCEPT ![g] = tag],
           \A t \in DOMAIN tasks :
             /\ tasks[t].tcb # g
             /\ tasks[t].kernel_stack # NULL => tasks[t].kernel_stack # g
    PROVE  /\ contents' \in [Frames -> Tags] /\ KernelPagesKept'
           /\ contents'[g] = tag
           /\ \A f \in Frames : f # g => contents'[f] = contents[f]
<1>1. contents \in [Frames -> Tags] /\ tasks \in Seq(TaskBlocks)
  BY DEF Types
<1>2. \A t \in DOMAIN tasks :
        tasks[t].tcb \in Frames /\ tasks[t].kernel_stack \in Frames
  <2>1. \A t \in DOMAIN tasks : tasks[t] \in TaskBlocks
    BY <1>1
  <2> QED BY <2>1 DEF TaskBlocks
<1>3. \A f \in Frames : f # g => contents'[f] = contents[f]
  BY <1>1
<1>4. KernelPagesKept'
  BY <1>2, <1>3 DEF KernelPagesKept
<1> QED BY <1>1, <1>3, <1>4

\* A write of the creation to a frame it owns, through the frame's number.
LEMMA KernelWrite ==
    ASSUME NEW who, Types, Paging(who), boot >= 2,
           NEW g \in Frames, Mapped(g)
    PROVE  Lookup(g).frame = g
<1>1. Lookup(g) = Entry(g, FALSE)
  BY KernelFrames, KernelReach
<1> QED BY <1>1 DEF Entry

LEMMA memset_tcb_Keeps ==
    ASSUME NEW who, MemInv(who), memset_tcb
    PROVE  MemInv(who)'
<1> DEFINE tag == Tag("tcb", New, 0)
<1>0. PICK g : g = op.new_task
  OBVIOUS
<1>1. op.pc = "memset" /\ boot >= 2 /\ op \in Ops /\ halted = "no"
      /\ g \in Frames /\ g # NULL /\ g \in held /\ who[g] = tag
  BY <1>0, Working DEF memset_tcb, KernelWrites, At, MemInv, Types, Ops, Control,
                 CreationOwns
<1>2. contents' = [contents EXCEPT ![g] = tag]
  BY <1>0, <1>1, KernelWrite DEF memset_tcb, KernelWrites, Write, MemInv
<1>3. UNCHANGED <<page_directory, page_tables, files, boot, tasks, running,
                  halted, overlaid, held, ready>> /\ PMMInv'
  BY StutterStep DEF memset_tcb, paging, MemInv, pmmVars
<1>4. /\ op' \in Ops /\ op'.new_task = op.new_task
      /\ op'.kernel_stack = op.kernel_stack /\ op'.call = op.call
      /\ op'.path = op.path
      /\ op'.pc \in {"link", "kstack", "header"}
      /\ op'.pc = "header" => op.call \notin {"tasking_init", "create_task"}
  <2>1. CASE op.call = "tasking_init"
    <3>1. op' = [op EXCEPT !.pc = "link"]
      BY <2>1 DEF memset_tcb
    <3> QED BY <1>1, <3>1 DEF Ops, Pcs
  <2>2. CASE op.call = "create_task"
    <3>1. op' = [op EXCEPT !.pc = "kstack"]
      BY <2>2 DEF memset_tcb
    <3> QED BY <1>1, <3>1 DEF Ops, Pcs
  <2>3. CASE op.call \notin {"tasking_init", "create_task"}
    <3>1. op' = [op EXCEPT !.pc = "header"]
      BY <2>3 DEF memset_tcb
    <3> QED BY <1>1, <2>3, <3>1 DEF Ops, Pcs
  <2> QED BY <2>1, <2>2, <2>3
<1>5. New' = New /\ tag \in Tags
  BY <1>3, NewType DEF MemInv, New, Tag, Tags
<1>6. \A t \in DOMAIN tasks :
        /\ tasks[t].tcb # g
        /\ tasks[t].kernel_stack # NULL => tasks[t].kernel_stack # g
  <2>1. \A t \in DOMAIN tasks : Tag("tcb", t, 0) # tag
                                /\ Tag("kernel stack", t, 0) # tag
    BY NewType DEF Tag, MemInv
  <2> QED BY <1>1, <2>1 DEF MemInv, TasksOwn
<1> HIDE DEF tag
<1>7. /\ contents' \in [Frames -> Tags] /\ KernelPagesKept'
      /\ contents'[g] = tag
      /\ \A f \in Frames : f # g => contents'[f] = contents[f]
  BY <1>1, <1>2, <1>3, <1>5, <1>6, WriteEffect DEF MemInv
<1>8. Types' /\ Booted'
  <2>1. Booted'
    BY <1>1, <1>3, BootStays DEF MemInv
  <2> QED BY <1>3, <1>4, <1>7, <2>1 DEF MemInv, Types
<1>9. Control'
  <2>1. op.call \in {"tasking_init", "create_task", "create_user_process"}
    BY <1>1 DEF MemInv, Control, Ops
  <2> QED BY <1>1, <1>4, <2>1 DEF MemInv, Control, Mapping, Loading
<1>10. CreationOwns(who)' /\ CreationKept' /\ Faults'
  BY <1>0, <1>1, <1>3, <1>4, <1>5, <1>7
     DEF MemInv, Control, CreationOwns, CreationKept, Faults, tag
<1>11. Paging(who)' /\ TasksOwn(who)'
  <2>1. ProgramPages' = ProgramPages /\ \A d \in Upper : TableOf(d)' = TableOf(d)
    BY <1>3 DEF ProgramPages, Above, TableOf
  <2> QED BY <1>3, <2>1 DEF MemInv, Paging, TasksOwn
<1>12. Accounted(who)'
  <2>1. \A f \in held : KernelPlace(f) => KernelPlace(f)'
    BY <1>0, <1>1, <1>3, <1>4 DEF KernelPlace
  <2>2. KernelPlace(g)'
    BY <1>0, <1>4 DEF KernelPlace
  <2>3. held \subseteq Frames
    BY HeldFrames DEF MemInv
  <2>4. ASSUME NEW f \in held, f # g, ~KernelPlace(f)
        PROVE  who[f].what = "page" /\ contents'[f].what \in UserKinds
    <3>1. contents'[f] = contents[f]
      BY <1>7, <2>3, <2>4
    <3> QED BY <1>1, <2>4, <3>1 DEF MemInv, Accounted
  <2> QED BY <1>3, <2>1, <2>2, <2>4 DEF Accounted
<1> QED BY <1>3, <1>7, <1>8, <1>9, <1>10, <1>11, <1>12 DEF MemInv

LEMMA fill_kernel_stack_Keeps ==
    ASSUME NEW who, MemInv(who), fill_kernel_stack
    PROVE  MemInv(who)'
<1> DEFINE tag == Tag("kernel stack", New, 0)
<1>0. PICK g : g = op.kernel_stack
  OBVIOUS
<1>1. op.pc = "frame" /\ boot >= 2 /\ op \in Ops /\ halted = "no"
      /\ g \in Frames /\ g # NULL /\ g \in held /\ who[g] = tag
  BY <1>0, Working DEF fill_kernel_stack, KernelWrites, At, MemInv, Types, Ops,
                 Control, CreationOwns
<1>2. contents' = [contents EXCEPT ![g] = tag]
  BY <1>0, <1>1, KernelWrite DEF fill_kernel_stack, KernelWrites, Write, MemInv
<1>3. UNCHANGED <<page_directory, page_tables, files, boot, tasks, running,
                  halted, overlaid, held, ready>> /\ PMMInv'
  BY StutterStep DEF fill_kernel_stack, paging, MemInv, pmmVars
<1>4. /\ op' \in Ops /\ op'.new_task = op.new_task
      /\ op'.kernel_stack = op.kernel_stack /\ op'.call = op.call
      /\ op'.path = op.path /\ op'.pc = "link"
  BY <1>1 DEF fill_kernel_stack, Ops, Pcs
<1>5. New' = New /\ tag \in Tags
  BY <1>3, NewType DEF MemInv, New, Tag, Tags
<1>6. /\ \A t \in DOMAIN tasks :
           /\ tasks[t].tcb # g
           /\ tasks[t].kernel_stack # NULL => tasks[t].kernel_stack # g
      /\ op.new_task # g /\ op.new_task \in Frames
  <2>1. /\ \A t \in DOMAIN tasks : Tag("tcb", t, 0) # tag
                                   /\ Tag("kernel stack", t, 0) # tag
        /\ Tag("tcb", New, 0) # tag
    BY NewType DEF Tag, MemInv
  <2>2. op.new_task \in Frames /\ who[op.new_task] = Tag("tcb", New, 0)
    BY <1>1 DEF MemInv, CreationOwns, Control, Ops
  <2> HIDE DEF tag
  <2> QED BY <1>1, <2>1, <2>2 DEF MemInv, TasksOwn
<1> HIDE DEF tag
<1>7. /\ contents' \in [Frames -> Tags] /\ KernelPagesKept'
      /\ contents'[g] = tag
      /\ \A f \in Frames : f # g => contents'[f] = contents[f]
  BY <1>1, <1>2, <1>3, <1>5, <1>6, WriteEffect DEF MemInv
<1>8. Types' /\ Booted'
  <2>1. Booted'
    BY <1>1, <1>3, BootStays DEF MemInv
  <2> QED BY <1>3, <1>4, <1>7, <2>1 DEF MemInv, Types
<1>9. Control'
  BY <1>1, <1>4 DEF MemInv, Control, Mapping, Loading
<1>10. CreationOwns(who)' /\ CreationKept' /\ Faults'
  BY <1>0, <1>1, <1>3, <1>4, <1>5, <1>6, <1>7
     DEF MemInv, Control, CreationOwns, CreationKept, Faults, tag
<1>11. Paging(who)' /\ TasksOwn(who)'
  <2>1. ProgramPages' = ProgramPages /\ \A d \in Upper : TableOf(d)' = TableOf(d)
    BY <1>3 DEF ProgramPages, Above, TableOf
  <2> QED BY <1>3, <2>1 DEF MemInv, Paging, TasksOwn
<1>12. Accounted(who)'
  <2>1. \A f \in held : KernelPlace(f) => KernelPlace(f)'
    BY <1>0, <1>1, <1>3, <1>4 DEF KernelPlace
  <2>2. KernelPlace(g)'
    BY <1>0, <1>4 DEF KernelPlace
  <2>3. held \subseteq Frames
    BY HeldFrames DEF MemInv
  <2>4. ASSUME NEW f \in held, f # g, ~KernelPlace(f)
        PROVE  who[f].what = "page" /\ contents'[f].what \in UserKinds
    <3>1. contents'[f] = contents[f]
      BY <1>7, <2>3, <2>4
    <3> QED BY <1>1, <2>4, <3>1 DEF MemInv, Accounted
  <2> QED BY <1>3, <2>1, <2>2, <2>4 DEF Accounted
<1> QED BY <1>3, <1>7, <1>8, <1>9, <1>10, <1>11, <1>12 DEF MemInv

\* The kernel's own tables are not those of programs.
LEMMA UpperTables ==
    ASSUME NEW who, PMMInv, Types, Paging(who), boot >= 2, NEW d \in Upper,
           page_directory[d].present
    PROVE  /\ d \in Directories
           /\ page_directory[d].user
           /\ page_directory[d].frame \in held
           /\ page_directory[d].frame \in DOMAIN page_tables
           /\ page_directory[d].frame \notin {KernelTables[1], KernelTables[2]}
           /\ who[page_directory[d].frame] = Tag("table", d, 0)
<1>1. d \in Directories
  BY DEF Upper
<1>2. page_directory[d] # Absent
  BY DEF Absent
<1>3. /\ page_directory[d].user /\ page_directory[d].frame \in held
      /\ who[page_directory[d].frame] = Tag("table", d, 0)
  BY <1>2 DEF Paging
<1>4. page_directory[d].frame \notin Reserved
  BY <1>3, HeldFrames
<1> QED BY <1>1, <1>3, <1>4, KernelFrames DEF Types

LEMMA vmm_new_table_Keeps ==
    ASSUME NEW who, MemInv(who), vmm_new_table
    PROVE  MemInv(who)'
<1> DEFINE tag == Tag("table", 0, 0)
<1>0. PICK g, n : g = op.new_pt /\ n = op.page \div TableSize
  OBVIOUS
<1>1. /\ op.pc = "zero" /\ boot >= 2 /\ op \in Ops /\ halted = "no"
      /\ g \in Frames /\ g \in held /\ who[g] = Tag("table", n, 0)
      /\ op.page \in ProgramPages
  BY <1>0, Working DEF vmm_new_table, KernelWrites, At, MemInv, Types, Ops,
                 Control, CreationOwns, Mapping
<1>2. contents' = [contents EXCEPT ![g] = tag]
  BY <1>0, <1>1, KernelWrite DEF vmm_new_table, KernelWrites, Write, MemInv
<1>3. UNCHANGED <<files, boot, tasks, running, halted, overlaid, held, ready>>
      /\ PMMInv'
  BY StutterStep DEF vmm_new_table, MemInv, pmmVars
<1>4. /\ op' \in Ops /\ op'.new_task = op.new_task
      /\ op'.kernel_stack = op.kernel_stack /\ op'.call = op.call
      /\ op'.path = op.path /\ op'.pc = "map" /\ op'.phys_page = op.phys_page
      /\ op'.i = op.i /\ op'.page = op.page /\ op'.last = op.last
  BY <1>1 DEF vmm_new_table, Ops, Pcs
<1>5. New' = New /\ tag \in Tags
  BY <1>3 DEF New, Tag, Tags
<1>6. n \in Upper /\ n \in Directories /\ page_directory[n] = Absent
  BY <1>0, <1>1, ProgramAddress DEF MemInv, Types, Upper, Control, Pde
<1>7. page_directory' = [page_directory EXCEPT ![n] = Entry(g, TRUE)]
      /\ page_tables' = [f \in DOMAIN page_tables \cup {g} |->
                           IF f = g THEN EmptyTable ELSE page_tables[f]]
  BY <1>0 DEF vmm_new_table
<1>8. \A t \in DOMAIN tasks :
        /\ tasks[t].tcb # g
        /\ tasks[t].kernel_stack # NULL => tasks[t].kernel_stack # g
  <2>1. \A t : Tag("tcb", t, 0) # Tag("table", n, 0)
               /\ Tag("kernel stack", t, 0) # Tag("table", n, 0)
    BY DEF Tag
  <2> QED BY <1>1, <2>1 DEF MemInv, TasksOwn
<1>9. op.new_task # g /\ op.new_task \in Frames
  <2>1. Tag("tcb", New, 0) # Tag("table", n, 0)
    BY DEF Tag
  <2> QED BY <1>1, <2>1 DEF MemInv, CreationOwns, Control, Ops
<1> HIDE DEF tag
<1>10. /\ contents' \in [Frames -> Tags] /\ KernelPagesKept'
       /\ contents'[g] = tag
       /\ \A f \in Frames : f # g => contents'[f] = contents[f]
  BY <1>1, <1>2, <1>3, <1>5, <1>8, WriteEffect DEF MemInv
<1>11. /\ g \notin {KernelTables[1], KernelTables[2]}
       /\ Entry(g, TRUE) \in TableEntries
       /\ EmptyTable \in [Entries -> TableEntries]
  BY <1>1, KernelFrames, HeldFrames, Sizes
     DEF MemInv, Entry, TableEntries, EmptyTable, Absent
<1>12. Types'
  <2>1. page_directory' \in [Directories -> TableEntries]
    BY <1>7, <1>11 DEF MemInv, Types
  <2>2. \A f \in DOMAIN page_tables' :
          f \in Frames /\ page_tables'[f] \in [Entries -> TableEntries]
    BY <1>1, <1>7, <1>11 DEF MemInv, Types
  <2>3. \A d \in Directories : page_directory'[d].present =>
          page_directory'[d].frame \in DOMAIN page_tables'
    BY <1>7 DEF MemInv, Types, Entry
  <2> QED BY <1>3, <1>4, <1>7, <1>10, <2>1, <2>2, <2>3 DEF MemInv, Types
<1>13. Booted'
  BY <1>1, <1>3, BootStays DEF MemInv
<1>14. Control'
  <2>1. ProgramPages' = ProgramPages /\ File' = File /\ Phdr' = Phdr
    BY <1>3, <1>4 DEF ProgramPages, Above, File, Phdr
  <2> QED BY <1>1, <1>4, <2>1 DEF MemInv, Control, Mapping, Loading
<1>15. CreationOwns(who)' /\ CreationKept' /\ Faults'
  BY <1>1, <1>3, <1>4, <1>5, <1>9, <1>10
     DEF MemInv, CreationOwns, CreationKept, Faults, Control
<1>16. TasksOwn(who)'
  BY <1>3 DEF MemInv, TasksOwn
<1>17. Paging(who)'
  <2>1. /\ \A d \in Upper : d # n => page_directory'[d] = page_directory[d]
        /\ page_directory'[0] = page_directory[0]
        /\ page_directory'[1] = page_directory[1]
        /\ page_directory'[n] = Entry(g, TRUE)
    <3>1. 0 \in Directories /\ 1 \in Directories /\ n # 0 /\ n # 1
      BY <1>6, Sizes DEF Directories, Upper
    <3>2. DOMAIN page_directory = Directories
      BY DEF MemInv, Types
    <3>3. \A d \in Upper : d \in Directories
      BY DEF Upper
    <3> QED BY <1>6, <1>7, <3>1, <3>2, <3>3
  <2>2. /\ page_tables'[KernelTables[1]] = page_tables[KernelTables[1]]
        /\ page_tables'[KernelTables[2]] = page_tables[KernelTables[2]]
        /\ page_tables'[g] = EmptyTable
    BY <1>7, <1>11 DEF MemInv, Types
  <2>3. ASSUME NEW d \in Upper, d # n, page_directory[d].present
        PROVE  TableOf(d)' = TableOf(d)
    <3>1. Tag("table", d, 0) # Tag("table", n, 0)
      BY <2>3 DEF Tag
    <3>2. page_directory[d].frame # g
          /\ page_directory[d].frame \in DOMAIN page_tables
      BY <1>1, <2>3, <3>1, UpperTables DEF MemInv
    <3> QED BY <1>7, <2>1, <2>3, <3>2 DEF TableOf
  <2>4. TableOf(n)' = EmptyTable
    BY <2>1, <2>2 DEF TableOf, Entry
  <2>5. ProgramPages' = ProgramPages
    BY <1>3 DEF ProgramPages, Above
  <2>6. ASSUME NEW d \in Upper, d # n
        PROVE  \/ page_directory'[d] = Absent
               \/ /\ page_directory'[d].present /\ page_directory'[d].user
                  /\ page_directory'[d].frame \in held
                  /\ who[page_directory'[d].frame] = Tag("table", d, 0)
                  /\ \A e \in Entries :
                       \/ TableOf(d)'[e] = Absent
                       \/ /\ TableOf(d)'[e].present
                          /\ (d * TableSize) + e \in ProgramPages
                          /\ TableOf(d)'[e].frame \in held
                          /\ who[TableOf(d)'[e].frame] =
                               Tag("page", (d * TableSize) + e, 0)
    BY <1>1, <2>1, <2>3, <2>6 DEF MemInv, Paging
  <2>7. /\ page_directory'[n].present /\ page_directory'[n].user
        /\ page_directory'[n].frame = g
        /\ \A e \in Entries : TableOf(n)'[e] = Absent
    BY <2>1, <2>4 DEF Entry, EmptyTable
  <2> QED BY <1>1, <1>3, <2>1, <2>2, <2>5, <2>6, <2>7 DEF MemInv, Paging
<1>18. Accounted(who)'
  <2>1. ASSUME NEW f \in held, KernelPlace(f)
        PROVE  KernelPlace(f)'
    <3>1. CASE \E d \in Upper : page_directory[d].present
                                /\ f = page_directory[d].frame
      <4>1. PICK d \in Upper : page_directory[d].present
                               /\ f = page_directory[d].frame
        BY <3>1
      <4>2. page_directory'[d] = page_directory[d]
        <5>1. d # n /\ d \in Directories
          BY <1>6, <4>1 DEF Absent, Upper
        <5>2. DOMAIN page_directory = Directories
          BY DEF MemInv, Types
        <5> QED BY <1>7, <5>1, <5>2
      <4> QED BY <4>1, <4>2 DEF KernelPlace
    <3>2. CASE f = g
      BY <1>6, <1>7, <3>2 DEF MemInv, Types, KernelPlace, Entry
    <3>3. CASE ~(\E d \in Upper : page_directory[d].present
                                  /\ f = page_directory[d].frame) /\ f # g
      BY <1>0, <1>1, <1>3, <1>4, <2>1, <3>3 DEF KernelPlace
    <3> QED BY <3>1, <3>2, <3>3
  <2>2. KernelPlace(g)'
    BY <1>6, <1>7 DEF MemInv, Types, KernelPlace, Entry
  <2>3. held \subseteq Frames
    BY HeldFrames DEF MemInv
  <2>4. ASSUME NEW f \in held, f # g, ~KernelPlace(f)
        PROVE  /\ who[f].what = "page"
               /\ contents'[f].what \in UserKinds \/ f = op'.phys_page
    <3>1. contents'[f] = contents[f]
      BY <1>10, <2>3, <2>4
    <3> QED BY <1>1, <1>4, <2>4, <3>1 DEF MemInv, Accounted
  <2> QED BY <1>3, <1>4, <2>1, <2>2, <2>4 DEF Accounted
<1> QED BY <1>3, <1>10, <1>12, <1>13, <1>14, <1>15, <1>16, <1>17, <1>18
        DEF MemInv

\* What the kernel writes through addresses of programs stays out of the
\* frames it uses itself, and of the bitmap.
LEMMA ProgramFrame ==
    ASSUME NEW who, MemInv(who), boot >= 2,
           NEW a \in ProgramPages, NEW f \in held, Lookup(a).frame = f
    PROVE  who[f] = Tag("page", a, 0)
<1>1. f # NULL
  BY HeldFrames DEF MemInv
<1> QED BY <1>1, ProgramReach DEF MemInv, Absent, NULL

LEMMA copy_argv_Keeps ==
    ASSUME NEW who, MemInv(who), copy_argv
    PROVE  MemInv(who)'
<1> DEFINE tag == Tag("stack", New, 0)
           a == UserStackTop - 1
<1>0. PICK g : g = Lookup(a).frame
  OBVIOUS
<1>1. op.pc = "argv" /\ boot >= 2 /\ op \in Ops /\ halted = "no"
  BY Working DEF copy_argv, At, MemInv, Types
<1>2. contents' = [contents EXCEPT ![g] = tag]
  BY <1>0 DEF copy_argv, Write
<1>3. UNCHANGED <<page_directory, page_tables, files, boot, tasks, running,
                  halted, overlaid, held, ready>> /\ PMMInv'
  BY StutterStep DEF copy_argv, paging, MemInv, pmmVars
<1>4. /\ op' \in Ops /\ op'.new_task = op.new_task
      /\ op'.kernel_stack = op.kernel_stack /\ op'.call = op.call
      /\ op'.path = op.path /\ op'.pc = "kstack"
  <2>1. PICK argv \in ArgvRead : op' = [op EXCEPT !.pc = "kstack", !.argv = argv]
    BY DEF copy_argv
  <2>2. argv \in Argvs
    BY DEF ArgvRead, Argvs
  <2> QED BY <1>1, <2>1, <2>2 DEF Ops, Pcs
<1>5. New' = New /\ tag \in Tags
  BY <1>3, NewType DEF MemInv, New, Tag, Tags
<1>6. a \in ProgramPages
  BY DirectoryAssumption DEF ProgramPages, StackPages
<1>7. g \in held => who[g] = Tag("page", a, 0)
  BY <1>0, <1>1, <1>6, ProgramFrame
<1>8. g \in Frames
  <2>1. g \in held \/ g = 0
    BY <1>0, <1>1, <1>6, ProgramReach DEF MemInv, Absent
  <2> QED BY <2>1, HeldFrames, KernelFrames DEF MemInv
<1>9. /\ \A t \in DOMAIN tasks :
           /\ tasks[t].tcb # g
           /\ tasks[t].kernel_stack # NULL => tasks[t].kernel_stack # g
      /\ op.new_task # g /\ op.new_task \in Frames
  <2> HIDE DEF a
  <2>1. \A t : /\ Tag("tcb", t, 0) # Tag("page", a, 0)
               /\ Tag("kernel stack", t, 0) # Tag("page", a, 0)
    BY DEF Tag
  <2>2. /\ \A t \in DOMAIN tasks :
            /\ tasks[t].tcb # g
            /\ tasks[t].kernel_stack # NULL => tasks[t].kernel_stack # g
    BY <1>7, <2>1 DEF MemInv, TasksOwn
  <2>3. op.new_task \in held /\ who[op.new_task] = Tag("tcb", New, 0)
        /\ op.new_task \in Frames
    BY <1>1 DEF MemInv, CreationOwns, Control, Ops
  <2> QED BY <1>7, <2>1, <2>2, <2>3
<1> HIDE DEF tag, a
<1>10. /\ contents' \in [Frames -> Tags] /\ KernelPagesKept'
       /\ contents'[g] = tag
       /\ \A f \in Frames : f # g => contents'[f] = contents[f]
  BY <1>2, <1>3, <1>5, <1>8, <1>9, WriteEffect DEF MemInv
<1>11. Types' /\ Booted'
  <2>1. Booted'
    BY <1>1, <1>3, BootStays DEF MemInv
  <2> QED BY <1>3, <1>4, <1>10, <2>1 DEF MemInv, Types
<1>12. Control'
  BY <1>1, <1>4 DEF MemInv, Control, Mapping, Loading
<1>13. CreationOwns(who)' /\ CreationKept' /\ Faults'
  BY <1>1, <1>3, <1>4, <1>5, <1>9, <1>10
     DEF MemInv, Control, CreationOwns, CreationKept, Faults
<1>14. Paging(who)' /\ TasksOwn(who)'
  <2>1. ProgramPages' = ProgramPages /\ \A d \in Upper : TableOf(d)' = TableOf(d)
    BY <1>3 DEF ProgramPages, Above, TableOf
  <2> QED BY <1>3, <2>1 DEF MemInv, Paging, TasksOwn
<1>15. Accounted(who)'
  <2>1. \A f \in held : KernelPlace(f) => KernelPlace(f)'
    BY <1>1, <1>3, <1>4 DEF KernelPlace
  <2>2. held \subseteq Frames
    BY HeldFrames DEF MemInv
  <2>3. ASSUME NEW f \in held, ~KernelPlace(f)
        PROVE  who[f].what = "page" /\ contents'[f].what \in UserKinds
    <3>1. who[f].what = "page" /\ contents[f].what \in UserKinds
      BY <1>1, <2>3 DEF MemInv, Accounted
    <3>2. contents'[f] = contents[f] \/ contents'[f] = tag
      BY <1>10, <2>2
    <3> QED BY <3>1, <3>2 DEF tag, Tag, UserKinds
  <2> QED BY <1>3, <2>1, <2>3 DEF Accounted
<1> QED BY <1>3, <1>10, <1>11, <1>12, <1>13, <1>14, <1>15 DEF MemInv

LEMMA elf_copy_segment_Keeps ==
    ASSUME LoadsAbove, NEW who, MemInv(who), elf_copy_segment
    PROVE  MemInv(who)'
<1> DEFINE tag == Tag("image", New, op.i)
<1>1. op.pc = "copy" /\ boot >= 2 /\ op \in Ops /\ halted = "no"
  BY Working DEF elf_copy_segment, At, MemInv, Types
<1>2. /\ op.i \in 1..Len(File.phdrs) /\ op.i \in Nat
      /\ SegmentPages(Phdr) \subseteq ProgramPages
  BY <1>1, FileType DEF MemInv, Control, Loading, Phdr, Ops
<1>3. UNCHANGED <<page_directory, page_tables, files, boot, tasks, running,
                  halted, overlaid, held, ready>> /\ PMMInv'
  <2>1. MapFrame \notin SegmentPages(Phdr)
    BY <1>2, ProgramAddress DEF MemInv, Types
  <2>2. UNCHANGED pmmVars
    BY <2>1 DEF elf_copy_segment, MapChanges, pmmVars
  <2> QED BY <2>2, StutterStep DEF elf_copy_segment, paging, MemInv, pmmVars
<1>4. /\ op' \in Ops /\ op'.new_task = op.new_task
      /\ op'.kernel_stack = op.kernel_stack /\ op'.call = op.call
      /\ op'.path = op.path /\ op'.pc = "segment" /\ op'.i = op.i + 1
  <2>1. op' = [op EXCEPT !.pc = "segment", !.i = op.i + 1]
    BY DEF elf_copy_segment
  <2>2. op.i + 1 \in Nat
    BY <1>2
  <2> QED BY <1>1, <2>1, <2>2 DEF Ops, Pcs
<1>5. New' = New /\ tag \in Tags
  BY <1>2, <1>3, NewType DEF MemInv, New, Tag, Tags
<1>6. \A f \in Frames :
        \/ contents'[f] = contents[f]
        \/ contents'[f] = tag /\ \E v \in ProgramPages : Lookup(v).frame = f
  BY <1>2 DEF elf_copy_segment
<1>7. contents' \in [Frames -> Tags]
  BY <1>5 DEF elf_copy_segment, MemInv, Types
<1>8. \A f \in held : contents'[f] = contents[f] \/
        /\ contents'[f] = tag
        /\ \E v \in ProgramPages : who[f] = Tag("page", v, 0)
  BY <1>1, <1>6, HeldFrames, ProgramFrame DEF MemInv
<1>9. \A t, v : /\ Tag("tcb", t, 0) # Tag("page", v, 0)
                /\ Tag("kernel stack", t, 0) # Tag("page", v, 0)
  BY DEF Tag
<1>10. KernelPagesKept'
  <2>1. ASSUME NEW t \in DOMAIN tasks
        PROVE  /\ contents'[tasks[t].tcb] = contents[tasks[t].tcb]
               /\ tasks[t].kernel_stack # NULL =>
                    contents'[tasks[t].kernel_stack] =
                      contents[tasks[t].kernel_stack]
    <3>1. /\ tasks[t].tcb \in held /\ who[tasks[t].tcb] = Tag("tcb", t, 0)
          /\ tasks[t].kernel_stack # NULL =>
               /\ tasks[t].kernel_stack \in held
               /\ who[tasks[t].kernel_stack] = Tag("kernel stack", t, 0)
      BY DEF MemInv, TasksOwn
    <3> HIDE DEF tag
    <3> QED BY <1>8, <1>9, <3>1
  <2> QED BY <1>3, <2>1 DEF MemInv, KernelPagesKept
<1>11. /\ op.new_task \in held /\ who[op.new_task] = Tag("tcb", New, 0)
       /\ contents[op.new_task] = Tag("tcb", New, 0) /\ op.new_task # NULL
       /\ op.kernel_stack = NULL
  BY <1>1 DEF MemInv, CreationOwns, CreationKept, Control
<1>12. contents'[op.new_task] = Tag("tcb", New, 0)
  BY <1>8, <1>9, <1>11
<1> HIDE DEF tag
<1>13. Types' /\ Booted'
  <2>1. Booted'
    BY <1>1, <1>3, BootStays DEF MemInv
  <2> QED BY <1>3, <1>4, <1>7, <2>1 DEF MemInv, Types
<1>14. Control'
  <2>1. op.path \in Paths /\ op'.i >= 1
    BY <1>1, <1>2, <1>4 DEF MemInv, Control, Loading
  <2>2. op.call # "none"
    BY <1>1 DEF MemInv, Control
  <2> QED BY <1>4, <1>11, <2>1, <2>2 DEF Control, Mapping, Loading
<1>15. CreationOwns(who)' /\ CreationKept' /\ Faults'
  BY <1>1, <1>3, <1>4, <1>5, <1>11, <1>12
     DEF MemInv, CreationOwns, CreationKept, Faults
<1>16. Paging(who)' /\ TasksOwn(who)'
  <2>1. ProgramPages' = ProgramPages /\ \A d \in Upper : TableOf(d)' = TableOf(d)
    BY <1>3 DEF ProgramPages, Above, TableOf
  <2> QED BY <1>3, <2>1 DEF MemInv, Paging, TasksOwn
<1>17. Accounted(who)'
  <2>1. \A f \in held : KernelPlace(f) => KernelPlace(f)'
    BY <1>1, <1>3, <1>4 DEF KernelPlace
  <2>2. ASSUME NEW f \in held, ~KernelPlace(f)
        PROVE  who[f].what = "page" /\ contents'[f].what \in UserKinds
    <3>1. who[f].what = "page" /\ contents[f].what \in UserKinds
      BY <1>1, <2>2 DEF MemInv, Accounted
    <3>2. contents'[f] = contents[f] \/ contents'[f] = tag
      BY <1>8
    <3> QED BY <3>1, <3>2 DEF tag, Tag, UserKinds
  <2> QED BY <1>3, <2>1, <2>2 DEF Accounted
<1> QED BY <1>3, <1>10, <1>13, <1>14, <1>15, <1>16, <1>17 DEF MemInv

LEMMA link_task_Keeps ==
    ASSUME NEW who, MemInv(who), link_task
    PROVE  MemInv(who)'
<1> DEFINE block == [path |-> op.path, caller |-> op.caller,
                     tcb |-> op.new_task, argv |-> op.argv,
                     kernel_stack |-> op.kernel_stack]
<1>0. PICK n : n = New
  OBVIOUS
<1>1. /\ op.pc = "link" /\ boot >= 2 /\ op \in Ops /\ halted = "no"
      /\ op.new_task # NULL /\ op.new_task \in held
      /\ who[op.new_task] = Tag("tcb", n, 0)
      /\ contents[op.new_task] = Tag("tcb", n, 0)
      /\ op.kernel_stack # NULL =>
           /\ op.kernel_stack \in held
           /\ who[op.kernel_stack] = Tag("kernel stack", n, 0)
           /\ contents[op.kernel_stack] = Tag("kernel stack", n, 0)
  BY <1>0, Working DEF link_task, At, MemInv, Types, Control, CreationOwns,
                 CreationKept
<1>2. UNCHANGED <<page_directory, page_tables, contents, files, boot, halted,
                  overlaid, held, ready>> /\ PMMInv'
  BY StutterStep DEF link_task, paging, MemInv, pmmVars
<1>3. block \in TaskBlocks
  BY <1>1 DEF Ops, TaskBlocks
<1>4. /\ tasks \in Seq(TaskBlocks) /\ n \in Nat /\ n \notin DOMAIN tasks
      /\ n = Len(tasks) + 1 /\ Len(tasks) \in Nat
      /\ DOMAIN tasks = 1..Len(tasks)
  BY <1>0, NewType DEF MemInv, Types, New
<1>5. tasks' = Append(tasks, block)
  BY DEF link_task
<1>6. /\ block.tcb = op.new_task /\ block.kernel_stack = op.kernel_stack
  OBVIOUS
<1> HIDE DEF block
<1>7. /\ tasks' \in Seq(TaskBlocks)
      /\ DOMAIN tasks' = DOMAIN tasks \cup {n}
      /\ tasks'[n] = block
      /\ \A t \in DOMAIN tasks : tasks'[t] = tasks[t]
  BY <1>3, <1>4, <1>5
<1>8. /\ running' \in Seq(Nat)
      /\ \A k \in DOMAIN running' : running'[k] \in DOMAIN tasks'
  <2>1. /\ running \in Seq(Nat)
        /\ \A k \in DOMAIN running : running[k] \in DOMAIN tasks
    BY DEF MemInv, Types
  <2>2. CASE running' = running
    BY <1>7, <2>1, <2>2
  <2>3. CASE running' = Append(running, n)
    BY <1>4, <1>7, <2>1, <2>3
  <2> QED BY <1>0, <2>2, <2>3 DEF link_task
<1>9. op' = Idle
  BY DEF link_task
<1>10. Types'
  BY <1>2, <1>7, <1>8, <1>9, IdleOp DEF MemInv, Types
<1>11. Booted'
  BY <1>1, <1>2, BootStays DEF MemInv
<1>12. Control' /\ CreationOwns(who)' /\ CreationKept' /\ Faults'
  BY <1>1, <1>2, <1>9, IdleOp DEF Control, CreationOwns, CreationKept, Faults,
                      Mapping, Loading
<1>13. Paging(who)'
  <2>1. ProgramPages' = ProgramPages /\ \A d \in Upper : TableOf(d)' = TableOf(d)
    BY <1>2 DEF ProgramPages, Above, TableOf
  <2> QED BY <1>2, <2>1 DEF MemInv, Paging
<1>14. TasksOwn(who)'
  <2>1. TasksOwn(who)
    BY DEF MemInv
  <2> QED BY <1>1, <1>2, <1>6, <1>7, <2>1 DEF TasksOwn
<1>15. KernelPagesKept'
  <2>1. KernelPagesKept
    BY DEF MemInv
  <2> QED BY <1>1, <1>2, <1>6, <1>7, <2>1 DEF KernelPagesKept
<1>16. Accounted(who)'
  <2>1. ASSUME NEW f \in held, KernelPlace(f)
        PROVE  KernelPlace(f)'
    <3>1. CASE f = op.new_task \/ f = op.kernel_stack
      BY <1>6, <1>7, <3>1 DEF KernelPlace
    <3>2. CASE \E t \in DOMAIN tasks : f = tasks[t].tcb \/ f = tasks[t].kernel_stack
      BY <1>7, <3>2 DEF KernelPlace
    <3>3. CASE \E d \in Upper : page_directory[d].present
                                /\ f = page_directory[d].frame
      BY <1>2, <3>3 DEF KernelPlace
    <3> QED BY <1>1, <2>1, <3>1, <3>2, <3>3 DEF KernelPlace
  <2> QED BY <1>1, <1>2, <2>1 DEF MemInv, Accounted
<1> QED BY <1>2, <1>10, <1>11, <1>12, <1>13, <1>14, <1>15, <1>16 DEF MemInv

LEMMA vmm_map_user_page_Keeps ==
    ASSUME LoadsAbove, NEW who, MemInv(who), vmm_map_user_page
    PROVE  MemInv(who)'
<1>0. PICK g, n, e, h : /\ g = op.phys_page /\ n = op.page \div TableSize
                        /\ e = op.page % TableSize
                        /\ h = page_directory[n].frame
  OBVIOUS
<1>1. /\ op.pc = "map" /\ boot >= 2 /\ op \in Ops /\ halted = "no"
      /\ g \in Frames /\ g \in held /\ who[g] = Tag("page", op.page, 0)
      /\ op.page \in ProgramPages /\ page_directory[n].present
  BY <1>0, Working DEF vmm_map_user_page, At, MemInv, Types, Ops, Control,
                       CreationOwns, Mapping, Pde
<1>2. /\ n \in Upper /\ n \in Directories /\ e \in Entries
      /\ (n * TableSize) + e = op.page
      /\ op.page # MapFrame
  BY <1>0, <1>1, ProgramAddress, Coordinates DEF MemInv, Types
<1>3. /\ UNCHANGED <<page_directory, files, boot, tasks, running, halted, held,
                     ready>>
      /\ PMMInv'
  <2>1. UNCHANGED pmmVars
    BY <1>2 DEF vmm_map_user_page, MapChanges, pmmVars
  <2> QED BY <2>1, StutterStep DEF vmm_map_user_page, MemInv, pmmVars
<1>4. /\ op' \in Ops /\ op'.new_task = op.new_task
      /\ op'.kernel_stack = op.kernel_stack /\ op'.call = op.call
      /\ op'.path = op.path /\ op'.i = op.i /\ op'.last = op.last
      /\ op'.pc \in {"page", "argv", "copy"}
      /\ op'.pc = "page" => op'.page = op.page + 1 /\ op.page < op.last
      /\ op'.pc = "copy" => ~(op.i > Len(File.phdrs))
  <2>1. CASE op.page < op.last
    <3>1. op' = [op EXCEPT !.pc = "page", !.page = op.page + 1]
      BY <2>1 DEF vmm_map_user_page
    <3>2. op.page + 1 \in Nat
      BY <1>1 DEF Ops
    <3> QED BY <1>1, <2>1, <3>1, <3>2 DEF Ops, Pcs
  <2>2. CASE ~(op.page < op.last)
    <3>1. \/ op' = [op EXCEPT !.pc = "argv"]
          \/ op' = [op EXCEPT !.pc = "copy"] /\ ~(op.i > Len(File.phdrs))
      BY <2>2 DEF vmm_map_user_page
    <3>2. CASE op' = [op EXCEPT !.pc = "argv"]
      BY <1>1, <3>2 DEF Ops, Pcs
    <3>3. CASE op' = [op EXCEPT !.pc = "copy"] /\ ~(op.i > Len(File.phdrs))
      BY <1>1, <3>3 DEF Ops, Pcs
    <3> QED BY <3>1, <3>2, <3>3
  <2> QED BY <2>1, <2>2
<1>5. New' = New /\ Stale \in Tags
  BY <1>3 DEF New, Stale, Tag, Tags
<1>6. contents' = [contents EXCEPT ![g] = Stale]
  BY <1>0 DEF vmm_map_user_page
<1>7. /\ h \in DOMAIN page_tables
      /\ h \notin {KernelTables[1], KernelTables[2]}
      /\ who[h] = Tag("table", n, 0)
      /\ page_directory[n].user /\ h \in held
  BY <1>0, <1>1, <1>2, UpperTables DEF MemInv
<1>8. page_tables' = [page_tables EXCEPT ![h][e] = Entry(g, TRUE)]
  BY <1>0 DEF vmm_map_user_page, Pde
<1>9. /\ DOMAIN page_tables' = DOMAIN page_tables
      /\ \A f \in DOMAIN page_tables : f # h => page_tables'[f] = page_tables[f]
      /\ page_tables'[h] \in [Entries -> TableEntries]
      /\ page_tables'[h][e] = Entry(g, TRUE)
      /\ \A x \in Entries : x # e => page_tables'[h][x] = page_tables[h][x]
  <2>1. page_tables[h] \in [Entries -> TableEntries]
    BY <1>7 DEF MemInv, Types
  <2>2. Entry(g, TRUE) \in TableEntries
    BY <1>1, Sizes DEF Entry, TableEntries
  <2>3. page_tables'[h] = [page_tables[h] EXCEPT ![e] = Entry(g, TRUE)]
    BY <1>7, <1>8
  <2> QED BY <1>2, <1>7, <1>8, <2>1, <2>2, <2>3
<1>10. \A t : /\ Tag("tcb", t, 0) # Tag("page", op.page, 0)
              /\ Tag("kernel stack", t, 0) # Tag("page", op.page, 0)
  BY DEF Tag
<1>11. \A t \in DOMAIN tasks :
         /\ tasks[t].tcb # g
         /\ tasks[t].kernel_stack # NULL => tasks[t].kernel_stack # g
  BY <1>1, <1>10 DEF MemInv, TasksOwn
<1>12. /\ op.new_task \in Frames /\ op.new_task \in held
       /\ who[op.new_task] = Tag("tcb", New, 0)
       /\ contents[op.new_task] = Tag("tcb", New, 0) /\ op.new_task # NULL
       /\ op.kernel_stack = NULL
  BY <1>1 DEF MemInv, CreationOwns, CreationKept, Control, Ops
<1>13. op.new_task # g
  BY <1>1, <1>10, <1>12
<1>14. /\ contents' \in [Frames -> Tags] /\ KernelPagesKept'
       /\ contents'[g] = Stale
       /\ \A f \in Frames : f # g => contents'[f] = contents[f]
  BY <1>1, <1>3, <1>5, <1>6, <1>11, WriteEffect DEF MemInv
<1>15. Types'
  <2>1. overlaid' \subseteq DOMAIN tasks
    BY DEF vmm_map_user_page, MemInv, Types
  <2>2. \A f \in DOMAIN page_tables' :
          f \in Frames /\ page_tables'[f] \in [Entries -> TableEntries]
    BY <1>9 DEF MemInv, Types
  <2> QED BY <1>3, <1>4, <1>9, <1>14, <2>1, <2>2 DEF MemInv, Types
<1>16. Booted'
  BY <1>1, <1>3, BootStays DEF MemInv
<1>17. Control'
  <2>1. ProgramPages' = ProgramPages /\ File' = File /\ Phdr' = Phdr
    BY <1>3, <1>4 DEF ProgramPages, Above, File, Phdr
  <2>2. /\ op.path \in Paths /\ op.call # "none"
        /\ op.i >= 1 /\ op.i \in Nat /\ op.page \in Nat /\ op.last \in Nat
        /\ op.page..op.last \subseteq ProgramPages
        /\ op.i <= Len(File.phdrs) => Loaded(Phdr)
        /\ Len(File.phdrs) \in Nat
    BY <1>1, FileType DEF MemInv, Control, Mapping, Loading, Ops
  <2>3. op'.pc = "page" => /\ op'.page <= op'.last
                           /\ op'.page..op'.last \subseteq ProgramPages
    BY <1>4, <2>2
  <2>4. op'.pc = "copy" => op'.i \in 1..Len(File.phdrs) /\ Loaded(Phdr)
    BY <1>4, <2>2
  <2> QED BY <1>4, <1>12, <2>1, <2>2, <2>3, <2>4 DEF Control, Mapping, Loading
<1>18. CreationOwns(who)' /\ CreationKept' /\ Faults'
  BY <1>1, <1>3, <1>4, <1>5, <1>12, <1>13, <1>14
     DEF MemInv, CreationOwns, CreationKept, Faults
<1>19. TasksOwn(who)'
  BY <1>3 DEF MemInv, TasksOwn
<1>20. Paging(who)'
  <2>1. ProgramPages' = ProgramPages
    BY <1>3 DEF ProgramPages, Above
  <2>2. /\ page_tables'[KernelTables[1]] = page_tables[KernelTables[1]]
        /\ page_tables'[KernelTables[2]] = page_tables[KernelTables[2]]
    BY <1>7, <1>9 DEF MemInv, Types
  <2>3. ASSUME NEW d \in Upper, d # n, page_directory[d].present
        PROVE  TableOf(d)' = TableOf(d)
    <3>1. Tag("table", d, 0) # Tag("table", n, 0)
      BY <2>3 DEF Tag
    <3>2. page_directory[d].frame # h
          /\ page_directory[d].frame \in DOMAIN page_tables
      BY <1>1, <1>7, <2>3, <3>1, UpperTables DEF MemInv
    <3> QED BY <1>3, <1>9, <3>2 DEF TableOf
  <2>4. /\ TableOf(n)' = page_tables'[h] /\ TableOf(n) = page_tables[h]
    BY <1>0, <1>3 DEF TableOf
  <2>5. ASSUME NEW d \in Upper, page_directory[d] # Absent, NEW x \in Entries,
               TableOf(d)'[x] # Absent
        PROVE  /\ TableOf(d)'[x].present
               /\ (d * TableSize) + x \in ProgramPages
               /\ TableOf(d)'[x].frame \in held
               /\ who[TableOf(d)'[x].frame] = Tag("page", (d * TableSize) + x, 0)
    <3>1. /\ page_directory[d].present
          /\ TableOf(d)[x] # Absent =>
               /\ TableOf(d)[x].present
               /\ (d * TableSize) + x \in ProgramPages
               /\ TableOf(d)[x].frame \in held
               /\ who[TableOf(d)[x].frame] = Tag("page", (d * TableSize) + x, 0)
      BY <1>1, <2>5 DEF MemInv, Paging
    <3>2. CASE d # n \/ x # e
      <4>1. TableOf(d)'[x] = TableOf(d)[x]
        BY <1>9, <2>3, <2>4, <3>1, <3>2
      <4> QED BY <2>5, <3>1, <4>1
    <3>3. CASE d = n /\ x = e
      <4>1. TableOf(d)'[x] = Entry(g, TRUE)
        BY <1>9, <2>4, <3>3
      <4> QED BY <1>1, <1>2, <3>3, <4>1 DEF Entry
    <3> QED BY <3>2, <3>3
  <2>6. \A d \in Upper :
           \/ page_directory[d] = Absent
           \/ /\ page_directory[d].present /\ page_directory[d].user
              /\ page_directory[d].frame \in held
              /\ who[page_directory[d].frame] = Tag("table", d, 0)
    BY <1>1 DEF MemInv, Paging
  <2> QED BY <1>1, <1>3, <2>1, <2>2, <2>5, <2>6 DEF MemInv, Paging
<1>21. Accounted(who)'
  <2>1. \A f \in held : KernelPlace(f) => KernelPlace(f)'
    BY <1>1, <1>3, <1>4 DEF KernelPlace
  <2>2. held \subseteq Frames
    BY HeldFrames DEF MemInv
  <2>3. ASSUME NEW f \in held, ~KernelPlace(f)
        PROVE  who[f].what = "page" /\ contents'[f].what \in UserKinds
    <3>1. CASE f = g
      BY <1>1, <1>14, <3>1 DEF Stale, Tag, UserKinds
    <3>2. CASE f # g
      <4>1. contents'[f] = contents[f]
        BY <1>14, <2>2, <3>2
      <4> QED BY <1>0, <1>1, <2>3, <3>2, <4>1 DEF MemInv, Accounted
    <3> QED BY <3>1, <3>2
  <2> QED BY <1>3, <2>1, <2>3 DEF Accounted
<1> QED BY <1>3, <1>14, <1>15, <1>16, <1>17, <1>18, <1>19, <1>20, <1>21
        DEF MemInv

-----------------------------------------------------------------------------
LEMMA MemStutterStep ==
    ASSUME NEW who, MemInv(who), UNCHANGED memVars
    PROVE  MemInv(who)'
<1>1. MemoryStays /\ UNCHANGED <<page_directory, page_tables, boot, op, running,
                                 halted, overlaid>>
  BY StutterStep DEF memVars, MemoryStays, MemInv, pmmVars, paging
<1>2. /\ held' = held /\ ready' = ready /\ contents' = contents /\ PMMInv'
      /\ files' = files /\ tasks' = tasks
  BY <1>1 DEF MemoryStays
<1>3. Types' /\ Booted'
  BY <1>1, <1>2 DEF MemInv, Types, Booted
<1>4. Control'
  <2>1. ProgramPages' = ProgramPages /\ File' = File /\ Phdr' = Phdr
        /\ Pde(op.page)' = Pde(op.page)
    BY <1>1, <1>2 DEF ProgramPages, Above, File, Phdr, Pde
  <2> QED BY <1>1, <2>1 DEF MemInv, Control
<1>5. Paging(who)' /\ TasksOwn(who)' /\ KernelPagesKept'
  <2>1. ProgramPages' = ProgramPages /\ \A d \in Upper : TableOf(d)' = TableOf(d)
    BY <1>1, <1>2 DEF ProgramPages, Above, TableOf
  <2> QED BY <1>1, <1>2, <2>1 DEF MemInv, Paging, TasksOwn, KernelPagesKept
<1>6. CreationOwns(who)' /\ CreationKept' /\ Faults'
  BY <1>1, <1>2 DEF MemInv, CreationOwns, CreationKept, Faults, New, Below
<1>7. Accounted(who)'
  BY <1>1, <1>2 DEF MemInv, Accounted, KernelPlace
<1> QED BY <1>2, <1>3, <1>4, <1>5, <1>6, <1>7 DEF MemInv

LEMMA MemStep == LoadsAbove /\ Owned /\ [MemNext]_memVars => Owned'
<1> SUFFICES ASSUME LoadsAbove, Owned, [MemNext]_memVars PROVE Owned'
  OBVIOUS
<1>1. PICK who \in [Frames -> Tags] : MemInv(who)
  BY DEF Owned
<1>2. MemInv(who)' => Owned'
  BY DEF Owned
<1>3. CASE kmain_pmm_init \/ vmm_init \/ kmain_call \/ sys_exit \/ user_fault
  BY <1>1, <1>2, <1>3, kmain_pmm_init_Keeps, vmm_init_Keeps, kmain_call_Keeps,
     sys_exit_Keeps, user_fault_Keeps
<1>4. CASE \E path \in Paths : sys_exec(path)
  BY <1>1, <1>2, <1>4, sys_exec_Keeps
<1>5. CASE alloc_tcb \/ alloc_phys_page \/ alloc_page_table \/ alloc_kernel_stack
  BY <1>1, <1>5, alloc_tcb_Keeps, alloc_phys_page_Keeps, alloc_page_table_Keeps,
     alloc_kernel_stack_Keeps
<1>6. CASE memset_tcb \/ elf_header \/ elf_next_segment \/ elf_loaded
           \/ vmm_no_table
  BY <1>1, <1>2, <1>6, memset_tcb_Keeps, elf_header_Keeps,
     elf_next_segment_Keeps, elf_loaded_Keeps, vmm_no_table_Keeps
<1>7. CASE vmm_new_table \/ vmm_map_user_page \/ elf_copy_segment \/ copy_argv
  BY <1>1, <1>2, <1>7, vmm_new_table_Keeps, vmm_map_user_page_Keeps,
     elf_copy_segment_Keeps, copy_argv_Keeps
<1>8. CASE fill_kernel_stack \/ link_task \/ alloc_refused \/ give_up
  BY <1>1, <1>2, <1>8, fill_kernel_stack_Keeps, link_task_Keeps,
     alloc_refused_Keeps, give_up_Keeps
<1>9. CASE page_table_refused \/ kernel_page_fault \/ copy_argv_fault
  BY <1>1, <1>2, <1>9, page_table_refused_Keeps, kernel_page_fault_Keeps,
     copy_argv_fault_Keeps
<1>10. CASE UNCHANGED memVars
  BY <1>1, <1>2, <1>10, MemStutterStep
<1> QED BY <1>3, <1>4, <1>5, <1>6, <1>7, <1>8, <1>9, <1>10 DEF MemNext, create

LEMMA MemInduction == MemSpec /\ []LoadsAbove => []Owned
<1>1. LoadsAbove /\ Owned /\ [MemNext]_memVars => Owned'
  BY MemStep
<1> QED BY MemInitEstablishes, <1>1, PTL DEF MemSpec

-----------------------------------------------------------------------------
(***************************************************************************)
(* What the invariant says of the properties.                              *)
(***************************************************************************)
LEMMA TagFields ==
    ASSUME NEW w, NEW what, NEW n, w = Tag(what, n, 0)
    PROVE  w.what = what /\ w.task = n
BY DEF Tag

\* An address ring 3 can reach is a program's, mapped to a frame of its own.
LEMMA UserFrame ==
    ASSUME NEW who, MemInv(who), NEW a \in Addrs, UserAccessible(a)
    PROVE  /\ Lookup(a).frame \in held
           /\ who[Lookup(a).frame] = Tag("page", a, 0)
<1> DEFINE d == a \div TableSize
           e == a % TableSize
<1>1. /\ d \in Directories /\ e \in Entries
      /\ (d * TableSize) + e = a
      /\ a \notin IdentityMapped => d \in Upper
  BY Coordinates
<1>2. Pde(a) = page_directory[d]
  BY DEF Pde
<1>3. Lookup(a) = IF page_directory[d].present THEN TableOf(d)[e] ELSE Absent
  BY DEF Lookup, Pde, TableOf
<1> HIDE DEF d, e
<1>4. page_directory[d].user /\ Lookup(a).present
  BY <1>2 DEF UserAccessible, Mapped
<1>5. boot >= 2
  <2>1. ~IdentityDirectory(BootTables)[d].user
    BY <1>1 DEF IdentityDirectory, Entry, Absent
  <2>2. boot \in Nat
    BY FilesAssumption DEF MemInv, Booted
  <2> QED BY <1>4, <2>1, <2>2 DEF MemInv, Booted
<1>6. d \in Upper
  BY <1>1, <1>2, <1>4, <1>5, KernelReach DEF MemInv
<1>7. Lookup(a) # Absent /\ page_directory[d] # Absent
  BY <1>4 DEF Absent
<1>8. page_directory[d].present /\ Lookup(a) = TableOf(d)[e]
  BY <1>3, <1>7
<1> QED BY <1>1, <1>5, <1>6, <1>7, <1>8 DEF MemInv, Paging

LEMMA TablesOwned ==
    ASSUME NEW who, MemInv(who), NEW f \in Tables
    PROVE  \/ f \in {BootTables[1], BootTables[2], KernelTables[1], KernelTables[2]}
           \/ f \in held /\ who[f].what = "table"
<1>1. PICK d \in Directories : page_directory[d].present
                               /\ f = page_directory[d].frame
  BY DEF Tables
<1>2. boot \in Nat
  BY FilesAssumption DEF MemInv, Booted
<1>3. CASE boot < 2
  <2>1. page_directory = IdentityDirectory(BootTables)
    BY <1>3 DEF MemInv, Booted
  <2>2. d < 2
    BY <1>1, <2>1 DEF IdentityDirectory, Absent
  <2>3. f = BootTables[d + 1] /\ d + 1 \in {1, 2}
    BY <1>1, <2>1, <2>2 DEF IdentityDirectory, Entry, Directories
  <2> QED BY <2>3
<1>4. CASE boot >= 2
  <2>1. CASE d \in Upper
    <3>1. f \in held /\ who[f] = Tag("table", d, 0)
      BY <1>1, <1>4, <2>1, UpperTables DEF MemInv
    <3> QED BY <3>1, TagFields
  <2>2. CASE d \in {0, 1}
    BY <1>1, <1>4, <2>2 DEF MemInv, Paging, Entry
  <2> QED BY <2>1, <2>2 DEF Upper
<1> QED BY <1>2, <1>3, <1>4

LEMMA OwnedOnce == Owned => FramesHaveOneOwner
<1> SUFFICES ASSUME NEW who, MemInv(who) PROVE FramesHaveOneOwner
  BY DEF Owned
<1>1. ASSUME NEW t \in DOMAIN tasks
      PROVE  /\ tasks[t].tcb \in held
             /\ who[tasks[t].tcb].what = "tcb"
             /\ who[tasks[t].tcb].task = t
             /\ tasks[t].kernel_stack # NULL =>
                  /\ tasks[t].kernel_stack \in held
                  /\ who[tasks[t].kernel_stack].what = "kernel stack"
                  /\ who[tasks[t].kernel_stack].task = t
  <2>1. tasks[t].tcb \in held /\ who[tasks[t].tcb] = Tag("tcb", t, 0)
    BY DEF MemInv, TasksOwn
  <2>2. ASSUME tasks[t].kernel_stack # NULL
        PROVE  /\ tasks[t].kernel_stack \in held
               /\ who[tasks[t].kernel_stack] = Tag("kernel stack", t, 0)
    BY <2>2 DEF MemInv, TasksOwn
  <2>3. who[tasks[t].tcb].what = "tcb" /\ who[tasks[t].tcb].task = t
    BY <2>1, TagFields
  <2>4. ASSUME tasks[t].kernel_stack # NULL
        PROVE  /\ who[tasks[t].kernel_stack].what = "kernel stack"
               /\ who[tasks[t].kernel_stack].task = t
    BY <2>2, <2>4, TagFields
  <2> QED BY <2>1, <2>2, <2>3, <2>4
<1>2. ASSUME NEW a \in UserAddresses
      PROVE  /\ Lookup(a).frame \in held
             /\ who[Lookup(a).frame].what = "page"
             /\ who[Lookup(a).frame].task = a
  <2>1. Lookup(a).frame \in held /\ who[Lookup(a).frame] = Tag("page", a, 0)
    BY UserFrame DEF UserAddresses, Addrs
  <2> QED BY <2>1, TagFields
<1>3. /\ \A f \in TCBs : f \in held /\ who[f].what = "tcb"
      /\ \A f \in KernelStacks : f \in held /\ who[f].what = "kernel stack"
  <2>1. ASSUME NEW f \in Unlinked
        PROVE  f \in held /\ who[f].what = "tcb"
    <3>1. f \in held /\ who[f] = Tag("tcb", New, 0)
      BY DEF Unlinked, MemInv, CreationOwns
    <3> QED BY <3>1, TagFields
  <2>2. ASSUME NEW f \in TCBs PROVE f \in held /\ who[f].what = "tcb"
    <3>1. CASE f \in Unlinked
      BY <2>1, <3>1
    <3>2. CASE f \notin Unlinked
      <4>1. PICK t \in DOMAIN tasks : f = tasks[t].tcb
        BY <3>2 DEF TCBs
      <4> QED BY <1>1, <4>1
    <3> QED BY <3>1, <3>2
  <2>3. ASSUME NEW f \in KernelStacks
        PROVE  f \in held /\ who[f].what = "kernel stack"
    <3>1. PICK t \in DOMAIN tasks :
                 f = tasks[t].kernel_stack /\ tasks[t].kernel_stack # NULL
      BY DEF KernelStacks
    <3> QED BY <1>1, <3>1
  <2> QED BY <2>2, <2>3
<1>4. \A f \in NewTables : f \in held /\ who[f].what = "table"
  BY TablesOwned DEF NewTables
<1>5. \A f \in UserFrames : f \in held /\ who[f].what = "page"
  BY <1>2 DEF UserFrames
<1>6. TCBs \cap KernelStacks = {}
  BY <1>3
<1>7. NewTables \cap (TCBs \cup KernelStacks) = {}
  BY <1>3, <1>4
<1>8. UserFrames \cap (TCBs \cup KernelStacks \cup Tables \cup Reserved) = {}
  <2>1. UserFrames \cap (TCBs \cup KernelStacks) = {}
    BY <1>3, <1>5
  <2>2. UserFrames \cap Reserved = {}
    BY <1>5, HeldFrames DEF MemInv
  <2>3. UserFrames \cap Tables = {}
    <3>1. ASSUME NEW f \in Tables PROVE f \notin UserFrames
      <4>1. CASE f \in held /\ who[f].what = "table"
        BY <1>5, <4>1
      <4>2. CASE f \in {BootTables[1], BootTables[2], KernelTables[1],
                        KernelTables[2]}
        BY <2>2, <4>2, KernelFrames
      <4> QED BY <4>1, <4>2, TablesOwned
    <3> QED BY <3>1
  <2> QED BY <2>1, <2>2, <2>3
<1>9. TCBs \cup KernelStacks \cup NewTables \cup UserFrames \subseteq held
  BY <1>3, <1>4, <1>5
<1>10. ASSUME NEW s \in DOMAIN tasks, NEW t \in DOMAIN tasks, s # t
       PROVE  /\ tasks[s].tcb # tasks[t].tcb
              /\ tasks[s].kernel_stack = tasks[t].kernel_stack
                    => tasks[s].kernel_stack = NULL
  <2>1. ASSUME tasks[s].tcb = tasks[t].tcb PROVE FALSE
    <3>1. who[tasks[s].tcb].task = s
      BY <1>1
    <3>2. who[tasks[t].tcb].task = t
      BY <1>1
    <3> QED BY <1>10, <2>1, <3>1, <3>2
  <2>2. ASSUME tasks[s].kernel_stack = tasks[t].kernel_stack,
               tasks[s].kernel_stack # NULL
        PROVE  FALSE
    <3>1. who[tasks[s].kernel_stack].task = s
      BY <1>1, <2>2
    <3>2. who[tasks[t].kernel_stack].task = t
      BY <1>1, <2>2
    <3> QED BY <1>10, <2>2, <3>1, <3>2
  <2> QED BY <2>1, <2>2
<1>11. ASSUME NEW a \in UserAddresses, NEW b \in UserAddresses,
              Lookup(a) = Lookup(b)
       PROVE  a = b
  BY <1>2, <1>11
<1> QED BY <1>6, <1>7, <1>8, <1>9, <1>10, <1>11 DEF FramesHaveOneOwner

LEMMA OwnedFaults == Owned => FaultsOnlyPast8MB
<1> SUFFICES ASSUME NEW who, MemInv(who) PROVE FaultsOnlyPast8MB
  BY DEF Owned
<1>1. ASSUME boot >= 2, NEW f \in IdentityMapped
      PROVE  Lookup(f) = Entry(f, FALSE) /\ ~Pde(f).user
  BY <1>1, IdentityEntry, KernelReach DEF MemInv
<1> QED BY <1>1 DEF FaultsOnlyPast8MB, MemInv, Faults

LEMMA OwnedLeaks == Owned => OnlyUserPagesLeak
<1> SUFFICES ASSUME NEW who, MemInv(who), op.pc = "idle",
                    NEW f \in held \ (TCBs \cup KernelStacks \cup NewTables)
             PROVE  contents[f].what \in {"stale", "image", "stack"}
  BY DEF Owned, OnlyUserPagesLeak
<1>1. f \notin Reserved /\ f # NULL
  BY HeldFrames DEF MemInv
<1>2. ~\E t \in DOMAIN tasks : f = tasks[t].tcb \/ f = tasks[t].kernel_stack
  BY <1>1 DEF TCBs, KernelStacks
<1>3. ~\E d \in Upper : page_directory[d].present /\ f = page_directory[d].frame
  BY <1>1, KernelFrames DEF Upper, Tables, NewTables
<1>4. ~KernelPlace(f)
  BY <1>2, <1>3 DEF KernelPlace
<1> QED BY <1>4 DEF MemInv, Accounted, UserKinds

-----------------------------------------------------------------------------

(***************************************************************************)
(* Types, for every build: wherever programs are linked, and whatever the  *)
(* bitmap holds once one of them is loaded over it, only frames that exist *)
(* are handed out, and only tables that exist are entered.                 *)
(***************************************************************************)
Reading ==
    /\ op.pc # "idle" => op.call # "none"
    /\ op.pc \in {"tcb", "memset"} /\ op.call = "create_user_process"
         => op.path \in Paths
    /\ op.pc \in Loading => op.path \in Paths
    /\ op.pc = "segment" => op.i >= 1

Sized == total_pages = IF ready THEN TotalPages ELSE 0

TypeInv == Types /\ Reading /\ Sized /\ boot \in 0..(Len(Launch) + 3)

LEMMA GrantedFrame ==
    ASSUME Sized, pmm_alloc_page, ret' # NULL
    PROVE  Granted \in Frames
<1>1. ready /\ total_pages = TotalPages
  BY DEF pmm_alloc_page, Sized
<1>2. PICK i \in 0..(TotalPages - 1) : ret' = i * PAGE_SIZE
  BY <1>1 DEF pmm_alloc_page
<1>3. Granted = i
  BY <1>2, TotalPagesNat DEF Granted, PAGE_SIZE
<1> QED BY <1>2, <1>3 DEF Frames

LEMMA SizedStep == Sized /\ [MemNext]_memVars => Sized'
<1> SUFFICES ASSUME Sized, [MemNext]_memVars PROVE Sized'
  OBVIOUS
<1>1. CASE kmain_pmm_init
  BY <1>1 DEF kmain_pmm_init, pmm_init, Sized, TotalPages
<1>2. ASSUME UNCHANGED <<total_pages, ready>> PROVE Sized'
  BY <1>2 DEF Sized
<1>3. CASE vmm_init \/ kmain_call \/ (\E path \in Paths : sys_exec(path))
           \/ sys_exit \/ user_fault \/ UNCHANGED memVars
  BY <1>2, <1>3 DEF vmm_init, kmain_call, sys_exec, sys_exit, user_fault, memVars,
                    pmmVars
<1>4. CASE alloc_tcb \/ alloc_phys_page \/ alloc_page_table \/ alloc_kernel_stack
           \/ alloc_refused \/ page_table_refused
  BY <1>2, <1>4 DEF alloc_tcb, alloc_phys_page, alloc_page_table, allocate,
                    alloc_kernel_stack, alloc_refused, page_table_refused,
                    pmm_alloc_page
<1>5. CASE give_up
  BY <1>2, <1>5 DEF give_up, pmm_free_page
<1>6. CASE memset_tcb \/ elf_header \/ elf_next_segment \/ elf_loaded
           \/ vmm_no_table \/ vmm_new_table
  BY <1>2, <1>6 DEF memset_tcb, elf_header, elf_next_segment, elf_loaded,
                    vmm_no_table, vmm_new_table, pmmVars
<1>7. CASE vmm_map_user_page \/ elf_copy_segment
  BY <1>2, <1>7 DEF vmm_map_user_page, elf_copy_segment
<1>8. CASE copy_argv \/ fill_kernel_stack \/ link_task \/ kernel_page_fault
           \/ copy_argv_fault
  BY <1>2, <1>8 DEF copy_argv, fill_kernel_stack, link_task, kernel_page_fault,
                    copy_argv_fault, pmmVars
<1> QED BY <1>1, <1>3, <1>4, <1>5, <1>6, <1>7, <1>8 DEF MemNext, create

\* The locals of a creation.
LocalTypes == op \in Ops /\ Reading

LEMMA LocalsOutside ==
    ASSUME TypeInv, \/ kmain_pmm_init \/ vmm_init \/ kmain_call \/ sys_exit
                    \/ user_fault \/ \E path \in Paths : sys_exec(path)
    PROVE  LocalTypes'
<1>1. CASE kmain_pmm_init \/ vmm_init \/ sys_exit \/ user_fault
  <2>1. op' = op
    BY <1>1 DEF kmain_pmm_init, vmm_init, sys_exit, user_fault
  <2> QED BY <2>1 DEF TypeInv, Types, Reading, LocalTypes
<1>2. ASSUME op'.pc = "tcb", op' \in Ops, op'.call # "none",
             op'.call = "create_user_process" => op'.path \in Paths
      PROVE  LocalTypes'
  BY <1>2 DEF LocalTypes, Reading, Loading, Mapping
<1>3. CASE kmain_call
  <2>1. op.pc = "idle" /\ boot \in 2..(Len(Launch) + 2)
    BY <1>3 DEF kmain_call, At
  <2>2. CASE boot = 2
    BY <1>2, <1>3, <2>1, <2>2, BeginsOp DEF kmain_call, Names
  <2>3. CASE boot # 2
    <3>1. boot - 2 \in 1..Len(Launch)
      BY <2>1, <2>3, FilesAssumption
    <3>2. Launch[boot - 2] \in Paths \cup {"worker"}
      BY <3>1, FilesAssumption
    <3> QED BY <1>2, <1>3, <2>1, <2>3, <3>2, BeginsOp DEF kmain_call, Names
  <2> QED BY <2>2, <2>3
<1>4. CASE \E path \in Paths : sys_exec(path)
  <2>1. PICK path \in Paths : sys_exec(path)
    BY <1>4
  <2>2. op.pc = "idle" /\ Last(running) \in Nat
    BY <2>1 DEF sys_exec, At, TypeInv, Types, Last
  <2> QED BY <1>2, <2>1, <2>2, BeginsOp DEF sys_exec, Names
<1> QED BY <1>1, <1>3, <1>4

LEMMA LocalsAllocated ==
    ASSUME TypeInv, \/ alloc_tcb \/ alloc_phys_page \/ alloc_page_table
                    \/ alloc_kernel_stack \/ alloc_refused
    PROVE  LocalTypes'
<1>1. PICK g : g = Granted
  OBVIOUS
<1>2. op \in Ops /\ Reading
  BY DEF TypeInv, Types
<1>3. ~alloc_refused => g \in Frames
  BY <1>1, GrantedFrame DEF alloc_tcb, alloc_phys_page, alloc_page_table,
                            alloc_kernel_stack, allocate, TypeInv
<1>4. CASE alloc_refused
  <2>1. op.pc # "idle" /\ op' = [op EXCEPT !.pc = "give_up"]
    BY <1>4 DEF alloc_refused, At
  <2> QED BY <1>2, <2>1 DEF Ops, Pcs, LocalTypes, Reading, Loading, Mapping
<1>5. CASE alloc_tcb /\ ~alloc_refused
  <2>1. op.pc = "tcb" /\ op' = [op EXCEPT !.pc = "memset", !.new_task = g]
    BY <1>1, <1>5 DEF alloc_tcb, allocate, At
  <2> QED BY <1>2, <1>3, <1>5, <2>1 DEF Ops, Pcs, LocalTypes, Reading, Loading, Mapping
<1>6. CASE alloc_phys_page /\ ~alloc_refused
  <2>1. op.pc = "page" /\ op' = [op EXCEPT !.pc = "map", !.phys_page = g]
    BY <1>1, <1>6 DEF alloc_phys_page, allocate, At
  <2> QED BY <1>2, <1>3, <1>6, <2>1 DEF Ops, Pcs, LocalTypes, Reading, Loading, Mapping
<1>7. CASE alloc_page_table /\ ~alloc_refused
  <2>1. op.pc = "table" /\ op' = [op EXCEPT !.pc = "zero", !.new_pt = g]
    BY <1>1, <1>7 DEF alloc_page_table, allocate, At
  <2> QED BY <1>2, <1>3, <1>7, <2>1 DEF Ops, Pcs, LocalTypes, Reading, Loading, Mapping
<1>8. CASE alloc_kernel_stack /\ ~alloc_refused
  <2>1. op.pc = "kstack" /\ op' = [op EXCEPT !.pc = "frame", !.kernel_stack = g]
    BY <1>1, <1>8 DEF alloc_kernel_stack, allocate, At
  <2> QED BY <1>2, <1>3, <1>8, <2>1 DEF Ops, Pcs, LocalTypes, Reading, Loading, Mapping
<1> QED BY <1>4, <1>5, <1>6, <1>7, <1>8

LEMMA LocalsLoaded ==
    ASSUME TypeInv, \/ memset_tcb \/ elf_header \/ elf_next_segment \/ elf_loaded
                    \/ vmm_no_table \/ vmm_new_table \/ vmm_map_user_page
                    \/ elf_copy_segment
    PROVE  LocalTypes'
<1>1. op \in Ops /\ Reading /\ files \in Builds
  BY DEF TypeInv, Types
<1>2. CASE memset_tcb
  <2>1. op.pc = "memset" /\ op.call # "none"
    BY <1>1, <1>2 DEF memset_tcb, KernelWrites, At, Reading
  <2>2. CASE op.call = "create_user_process"
    <3>1. op' = [op EXCEPT !.pc = "header"] /\ op.path \in Paths
      BY <1>1, <1>2, <2>1, <2>2 DEF memset_tcb, Reading
    <3> QED BY <1>1, <2>1, <3>1 DEF Ops, Pcs, LocalTypes, Reading, Loading, Mapping
  <2>3. CASE op.call = "create_task"
    <3>1. op' = [op EXCEPT !.pc = "kstack"]
      BY <1>2, <2>3 DEF memset_tcb
    <3> QED BY <1>1, <2>1, <3>1 DEF Ops, Pcs, LocalTypes, Reading, Loading, Mapping
  <2>4. CASE op.call = "tasking_init"
    <3>1. op' = [op EXCEPT !.pc = "link"]
      BY <1>2, <2>4 DEF memset_tcb
    <3> QED BY <1>1, <2>1, <3>1 DEF Ops, Pcs, LocalTypes, Reading, Loading, Mapping
  <2> QED BY <1>1, <2>1, <2>2, <2>3, <2>4 DEF Ops
<1>3. CASE elf_header
  <2>1. op.pc = "header" /\ op.path \in Paths
    BY <1>1, <1>3 DEF elf_header, At, Reading, Loading
  <2>2. CASE op' = [op EXCEPT !.pc = "segment", !.i = 1]
    <3>1. op' \in Ops /\ op'.pc = "segment" /\ op'.i = 1 /\ op'.path = op.path
          /\ op'.call = op.call
      BY <1>1, <2>2 DEF Ops, Pcs
    <3>2. op.call # "none"
      BY <1>1, <2>1 DEF Reading
    <3> QED BY <2>1, <3>1, <3>2 DEF LocalTypes, Reading, Loading, Mapping
  <2>3. CASE op' = [op EXCEPT !.pc = "give_up"]
    BY <1>1, <2>1, <2>3 DEF Ops, Pcs, LocalTypes, Reading, Loading, Mapping
  <2> QED BY <1>3, <2>2, <2>3 DEF elf_header
<1>4. CASE elf_next_segment
  <2>1. op.pc = "segment" /\ op.path \in Paths /\ op.i \in Nat
    BY <1>1, <1>4 DEF elf_next_segment, At, Reading, Loading, Ops
  <2>2. op.i \in 1..Len(File.phdrs)
    BY <1>1, <1>4, <2>1, FileRecord DEF elf_next_segment, At, Reading
  <2>3. PICK first, size \in Nat : first = Phdr.first /\ size = Phdr.size
    BY <1>1, <2>1, <2>2, FileRecord DEF Phdr
  <2>4. CASE Loaded(Phdr)
    <3>1. op' = [op EXCEPT !.pc = "page", !.page = first, !.last = first + size - 1]
      BY <1>4, <2>3, <2>4 DEF elf_next_segment
    <3>2. first + size - 1 \in Nat
      BY <2>3, <2>4 DEF Loaded
    <3> QED BY <1>1, <2>1, <2>3, <3>1, <3>2
            DEF Ops, Pcs, LocalTypes, Reading, Loading, Mapping
  <2>5. CASE ~Loaded(Phdr)
    <3>1. op' = [op EXCEPT !.i = op.i + 1]
      BY <1>4, <2>5 DEF elf_next_segment
    <3> QED BY <1>1, <2>1, <3>1 DEF Ops, LocalTypes, Reading, Loading, Mapping
  <2> QED BY <2>4, <2>5
<1>5. CASE elf_loaded
  <2>1. op.pc = "segment" /\ op.path \in Paths
    BY <1>1, <1>5 DEF elf_loaded, At, Reading, Loading
  <2>2. UserStackBottom \in Nat /\ UserStackTop - 1 \in Nat
    BY DirectoryAssumption
  <2>3. CASE op' = [op EXCEPT !.pc = "page", !.page = UserStackBottom,
                              !.last = UserStackTop - 1]
    BY <1>1, <2>1, <2>2, <2>3 DEF Ops, Pcs, LocalTypes, Reading, Loading, Mapping
  <2>4. CASE op' = [op EXCEPT !.pc = "give_up"]
    BY <1>1, <2>1, <2>4 DEF Ops, Pcs, LocalTypes, Reading, Loading, Mapping
  <2> QED BY <1>5, <2>3, <2>4 DEF elf_loaded
<1>6. CASE vmm_no_table
  <2>1. op.pc = "map" /\ op' = [op EXCEPT !.pc = "table"]
    BY <1>6 DEF vmm_no_table, At
  <2> QED BY <1>1, <2>1 DEF Ops, Pcs, LocalTypes, Reading, Loading, Mapping
<1>7. CASE vmm_new_table
  <2>1. op.pc = "zero" /\ op' = [op EXCEPT !.pc = "map"]
    BY <1>7 DEF vmm_new_table, KernelWrites, At
  <2> QED BY <1>1, <2>1 DEF Ops, Pcs, LocalTypes, Reading, Loading, Mapping
<1>8. CASE vmm_map_user_page
  <2>1. op.pc = "map" /\ op.path \in Paths /\ op.call # "none"
    BY <1>1, <1>8 DEF vmm_map_user_page, At, Reading, Loading, Mapping
  <2>2. \/ op' = [op EXCEPT !.pc = "page", !.page = op.page + 1]
        \/ \E pc \in {"argv", "copy"} : op' = [op EXCEPT !.pc = pc]
    BY <1>8 DEF vmm_map_user_page
  <2>3. /\ op' \in Ops /\ op'.pc \in {"page", "argv", "copy"}
        /\ op'.path = op.path /\ op'.call = op.call
    <3>1. op.page + 1 \in Nat
      BY <1>1 DEF Ops
    <3>2. CASE op' = [op EXCEPT !.pc = "page", !.page = op.page + 1]
      BY <1>1, <3>1, <3>2 DEF Ops, Pcs
    <3>3. CASE \E pc \in {"argv", "copy"} : op' = [op EXCEPT !.pc = pc]
      BY <1>1, <3>3 DEF Ops, Pcs
    <3> QED BY <2>2, <3>2, <3>3
  <2> QED BY <2>1, <2>3 DEF LocalTypes, Reading, Loading, Mapping
<1>9. CASE elf_copy_segment
  <2>1. op.pc = "copy" /\ op' = [op EXCEPT !.pc = "segment", !.i = op.i + 1]
    BY <1>9 DEF elf_copy_segment, At
  <2>2. op.path \in Paths /\ op.call # "none" /\ op.i \in Nat
    BY <1>1, <2>1 DEF Reading, Loading, Ops
  <2>3. op.i + 1 \in Nat /\ op.i + 1 >= 1
    BY <2>2
  <2>4. op' \in Ops /\ op'.pc = "segment" /\ op'.i = op.i + 1
        /\ op'.path = op.path /\ op'.call = op.call
    BY <1>1, <2>1, <2>3 DEF Ops, Pcs
  <2> QED BY <2>2, <2>3, <2>4 DEF LocalTypes, Reading, Loading, Mapping
<1> QED BY <1>2, <1>3, <1>4, <1>5, <1>6, <1>7, <1>8, <1>9

LEMMA LocalsEnded ==
    ASSUME TypeInv, \/ copy_argv \/ fill_kernel_stack \/ link_task \/ give_up
                    \/ page_table_refused \/ kernel_page_fault \/ copy_argv_fault
    PROVE  LocalTypes'
<1>1. op \in Ops /\ Reading
  BY DEF TypeInv, Types
<1>2. CASE copy_argv
  <2>1. PICK argv \in ArgvRead : op' = [op EXCEPT !.pc = "kstack", !.argv = argv]
    BY <1>2 DEF copy_argv
  <2>2. argv \in Argvs /\ op.pc = "argv"
    BY <1>2, <2>1 DEF ArgvRead, Argvs, copy_argv, At
  <2> QED BY <1>1, <2>1, <2>2 DEF Ops, Pcs, LocalTypes, Reading, Loading, Mapping
<1>3. CASE fill_kernel_stack
  <2>1. op.pc = "frame" /\ op' = [op EXCEPT !.pc = "link"]
    BY <1>3 DEF fill_kernel_stack, KernelWrites, At
  <2> QED BY <1>1, <2>1 DEF Ops, Pcs, LocalTypes, Reading, Loading, Mapping
<1>4. CASE link_task \/ give_up
  <2>1. op' = Idle
    BY <1>4 DEF link_task, give_up
  <2> QED BY <2>1, IdleOp DEF LocalTypes, Reading, Loading, Mapping
<1>5. CASE page_table_refused \/ kernel_page_fault \/ copy_argv_fault
  <2>1. op' = op
    BY <1>5 DEF page_table_refused, kernel_page_fault, copy_argv_fault
  <2> QED BY <1>1, <2>1 DEF LocalTypes, Reading
<1> QED BY <1>2, <1>3, <1>4, <1>5

LEMMA LocalsStep == TypeInv /\ [MemNext]_memVars => LocalTypes'
<1> SUFFICES ASSUME TypeInv, [MemNext]_memVars PROVE LocalTypes'
  OBVIOUS
<1>1. CASE UNCHANGED memVars
  BY <1>1 DEF memVars, TypeInv, Types, LocalTypes, Reading
<1> QED BY <1>1, LocalsOutside, LocalsAllocated, LocalsLoaded, LocalsEnded
        DEF MemNext, create

\* The tasks, and who runs.
TaskTypes ==
    /\ tasks \in Seq(TaskBlocks)
    /\ running \in Seq(Nat) /\ \A k \in DOMAIN running : running[k] \in DOMAIN tasks
    /\ overlaid \subseteq DOMAIN tasks

LEMMA TasksStep == TypeInv /\ [MemNext]_memVars => TaskTypes'
<1> SUFFICES ASSUME TypeInv, [MemNext]_memVars PROVE TaskTypes'
  OBVIOUS
<1>1. TaskTypes /\ op \in Ops
  BY DEF TypeInv, Types, TaskTypes
<1>2. ASSUME UNCHANGED <<tasks, running, overlaid>> PROVE TaskTypes'
  BY <1>1, <1>2 DEF TaskTypes
<1>3. CASE link_task
  <2>1. PICK block : block = [path |-> op.path, caller |-> op.caller,
                              tcb |-> op.new_task, argv |-> op.argv,
                              kernel_stack |-> op.kernel_stack]
    OBVIOUS
  <2>2. block \in TaskBlocks
    BY <1>1, <2>1 DEF Ops, TaskBlocks
  <2>3. tasks' = Append(tasks, block) /\ overlaid' = overlaid
        /\ (running' = running \/ running' = Append(running, Len(tasks) + 1))
    BY <1>3, <2>1 DEF link_task, New
  <2>4. tasks' \in Seq(TaskBlocks) /\ DOMAIN tasks' = 1..(Len(tasks) + 1)
        /\ DOMAIN tasks = 1..Len(tasks) /\ Len(tasks) \in Nat
    BY <1>1, <2>2, <2>3 DEF TaskTypes
  <2>5. running' \in Seq(Nat)
        /\ \A k \in DOMAIN running' : running'[k] \in 1..(Len(tasks) + 1)
    <3>1. running \in Seq(Nat) /\ Len(tasks) + 1 \in Nat
          /\ \A k \in DOMAIN running : running[k] \in 1..(Len(tasks) + 1)
      BY <1>1, <2>4 DEF TaskTypes
    <3>2. PICK n : n = Len(tasks) + 1
      OBVIOUS
    <3>3. n \in Nat /\ n \in 1..n
      BY <2>4, <3>2
    <3>4. \A k \in DOMAIN Append(running, n) : Append(running, n)[k] \in 1..n
      BY <3>1, <3>2, <3>3
    <3>5. Append(running, n) \in Seq(Nat)
      BY <3>1, <3>3
    <3> QED BY <2>3, <3>1, <3>2, <3>4, <3>5
  <2> QED BY <1>1, <2>3, <2>4, <2>5 DEF TaskTypes
<1>4. CASE sys_exit
  <2>1. running' = SubSeq(running, 1, Len(running) - 1) /\ running # <<>>
        /\ UNCHANGED <<tasks, overlaid>>
    BY <1>4 DEF sys_exit, Front
  <2>2. running' \in Seq(Nat)
        /\ \A k \in DOMAIN running' : running'[k] \in DOMAIN tasks
    BY <1>1, <2>1 DEF TaskTypes
  <2> QED BY <1>1, <2>1, <2>2 DEF TaskTypes
<1>5. CASE vmm_map_user_page
  BY <1>1, <1>5 DEF vmm_map_user_page, TaskTypes
<1>6. CASE kmain_pmm_init \/ vmm_init \/ kmain_call \/ user_fault
           \/ (\E path \in Paths : sys_exec(path)) \/ UNCHANGED memVars
  BY <1>2, <1>6 DEF kmain_pmm_init, vmm_init, kmain_call, user_fault, sys_exec,
                    memVars
<1>7. CASE alloc_tcb \/ alloc_phys_page \/ alloc_page_table \/ alloc_kernel_stack
           \/ alloc_refused \/ page_table_refused \/ give_up
  BY <1>2, <1>7 DEF alloc_tcb, alloc_phys_page, alloc_page_table, allocate,
                    alloc_kernel_stack, alloc_refused, page_table_refused, give_up
<1>8. CASE memset_tcb \/ elf_header \/ elf_next_segment \/ elf_loaded
           \/ vmm_no_table \/ vmm_new_table \/ elf_copy_segment
  BY <1>2, <1>8 DEF memset_tcb, elf_header, elf_next_segment, elf_loaded,
                    vmm_no_table, vmm_new_table, elf_copy_segment
<1>9. CASE copy_argv \/ fill_kernel_stack \/ kernel_page_fault \/ copy_argv_fault
  BY <1>2, <1>9 DEF copy_argv, fill_kernel_stack, kernel_page_fault,
                    copy_argv_fault
<1> QED BY <1>3, <1>4, <1>5, <1>6, <1>7, <1>8, <1>9 DEF MemNext, create

\* The directory, its tables and the frames.
TableTypes ==
    /\ page_directory \in [Directories -> TableEntries]
    /\ \A f \in DOMAIN page_tables :
         f \in Frames /\ page_tables[f] \in [Entries -> TableEntries]
    /\ \A d \in Directories :
         page_directory[d].present => page_directory[d].frame \in DOMAIN page_tables
    /\ \A i \in {1, 2} : KernelTables[i] \in DOMAIN page_tables
    /\ contents \in [Frames -> Tags]

LEMMA TablesStep == TypeInv /\ [MemNext]_memVars => TableTypes'
<1> SUFFICES ASSUME TypeInv, [MemNext]_memVars PROVE TableTypes'
  OBVIOUS
<1>1. TableTypes /\ op \in Ops /\ tasks \in Seq(TaskBlocks)
  BY DEF TypeInv, Types, TableTypes
<1>2. New \in Nat /\ op.i \in Nat
  BY <1>1, NewType DEF TypeInv, Ops
<1>3. ASSUME UNCHANGED <<page_directory, page_tables>>,
             contents' \in [Frames -> Tags]
      PROVE  TableTypes'
  BY <1>1, <1>3 DEF TableTypes
<1>4. CASE vmm_init
  <2>1. contents' \in [Frames -> Tags]
    BY <1>1, <1>4 DEF vmm_init, TableTypes
  <2>2. /\ KernelTables[1] \in Frames /\ KernelTables[2] \in Frames
        /\ DOMAIN page_tables' = DOMAIN page_tables
    BY <1>4, KernelFrames DEF vmm_init
  <2>3. \A i \in 0..1 : IdentityTable(i) \in [Entries -> TableEntries]
    BY Sizes DEF IdentityTable, Entry, TableEntries, Entries
  <2>4. \A f \in DOMAIN page_tables' :
          f \in Frames /\ page_tables'[f] \in [Entries -> TableEntries]
    BY <1>1, <1>4, <2>2, <2>3 DEF vmm_init, TableTypes
  <2>5. ASSUME NEW d \in Directories
        PROVE  \/ page_directory'[d] = Absent
               \/ \E i \in {1, 2} : page_directory'[d] = Entry(KernelTables[i], FALSE)
    <3>1. page_directory'[d] = IF d < 2 THEN Entry(KernelTables[d + 1], FALSE)
                                        ELSE Absent
      BY <1>4 DEF vmm_init, IdentityDirectory
    <3>2. d < 2 => d + 1 \in {1, 2}
      BY DEF Directories
    <3> QED BY <3>1, <3>2
  <2>6. /\ Absent \in TableEntries /\ ~Absent.present
        /\ \A i \in {1, 2} : Entry(KernelTables[i], FALSE) \in TableEntries
                            /\ Entry(KernelTables[i], FALSE).frame = KernelTables[i]
    BY <2>2, Sizes DEF Entry, TableEntries, Absent
  <2>7. page_directory' = [d \in Directories |-> page_directory'[d]]
    BY <1>4 DEF vmm_init, IdentityDirectory
  <2>8. page_directory' \in [Directories -> TableEntries]
    BY <2>5, <2>6, <2>7
  <2>9. \A d \in Directories : page_directory'[d].present =>
          page_directory'[d].frame \in DOMAIN page_tables'
    BY <1>1, <2>2, <2>5, <2>6 DEF TableTypes
  <2> QED BY <1>1, <2>1, <2>2, <2>4, <2>8, <2>9 DEF TableTypes
<1>5. CASE vmm_new_table
  <2>1. PICK g, n : g = op.new_pt /\ n = op.page \div TableSize
    OBVIOUS
  <2>2. g \in Frames
    BY <1>1, <2>1 DEF Ops
  <2>3. /\ page_directory' = [page_directory EXCEPT ![n] = Entry(g, TRUE)]
        /\ page_tables' = [f \in DOMAIN page_tables \cup {g} |->
                             IF f = g THEN EmptyTable ELSE page_tables[f]]
    BY <1>5, <2>1 DEF vmm_new_table
  <2>4. /\ Entry(g, TRUE) \in TableEntries /\ Entry(g, TRUE).frame = g
        /\ EmptyTable \in [Entries -> TableEntries]
    BY <2>2, Sizes DEF Entry, TableEntries, EmptyTable, Absent
  <2>5. page_directory' \in [Directories -> TableEntries]
    BY <1>1, <2>3, <2>4 DEF TableTypes
  <2>6. \A f \in DOMAIN page_tables' :
          f \in Frames /\ page_tables'[f] \in [Entries -> TableEntries]
    BY <1>1, <2>2, <2>3, <2>4 DEF TableTypes
  <2>7. \A d \in Directories : page_directory'[d].present =>
          page_directory'[d].frame \in DOMAIN page_tables'
    BY <1>1, <2>3, <2>4 DEF TableTypes
  <2>8. contents' \in [Frames -> Tags]
    BY <1>1, <1>5 DEF vmm_new_table, Write, Tag, Tags, TableTypes
  <2> QED BY <1>1, <2>3, <2>5, <2>6, <2>7, <2>8 DEF TableTypes
<1>6. CASE vmm_map_user_page
  <2>1. PICK t, e, p : /\ t = Pde(op.page).frame /\ e = op.page % TableSize
                       /\ p = op.phys_page
    OBVIOUS
  <2>2. p \in Frames
    BY <1>1, <2>1 DEF Ops
  <2>3. /\ page_tables' = [page_tables EXCEPT ![t][e] = Entry(p, TRUE)]
        /\ page_directory' = page_directory
        /\ contents' = [contents EXCEPT ![p] = Stale]
    BY <1>6, <2>1 DEF vmm_map_user_page
  <2>4. Entry(p, TRUE) \in TableEntries /\ Stale \in Tags
    BY <2>2, Sizes DEF Entry, TableEntries, Stale, Tag, Tags
  <2>5. DOMAIN page_tables' = DOMAIN page_tables
    BY <2>3
  <2>6. ASSUME NEW f \in DOMAIN page_tables
        PROVE  f \in Frames /\ page_tables'[f] \in [Entries -> TableEntries]
    <3>1. f \in Frames /\ page_tables[f] \in [Entries -> TableEntries]
      BY <1>1 DEF TableTypes
    <3>2. page_tables'[f] = page_tables[f]
          \/ page_tables'[f] = [page_tables[f] EXCEPT ![e] = Entry(p, TRUE)]
      BY <2>3
    <3> QED BY <2>4, <3>1, <3>2
  <2>7. contents' \in [Frames -> Tags]
    BY <1>1, <2>3, <2>4 DEF TableTypes
  <2> QED BY <1>1, <2>3, <2>5, <2>6, <2>7 DEF TableTypes
<1>7. CASE elf_copy_segment
  <2>1. Tag("image", New, op.i) \in Tags
    BY <1>2 DEF Tag, Tags
  <2>2. contents' \in [Frames -> Tags]
    BY <1>1, <1>7, <2>1 DEF elf_copy_segment, TableTypes
  <2> QED BY <1>3, <1>7, <2>2 DEF elf_copy_segment, paging
<1>8. CASE memset_tcb \/ copy_argv \/ fill_kernel_stack
  <2>1. /\ Tag("tcb", New, 0) \in Tags /\ Tag("stack", New, 0) \in Tags
        /\ Tag("kernel stack", New, 0) \in Tags
    BY <1>2 DEF Tag, Tags
  <2>2. PICK a, tag : tag \in Tags /\ contents' = [contents EXCEPT ![a] = tag]
    BY <1>8, <2>1 DEF memset_tcb, copy_argv, fill_kernel_stack, Write
  <2>3. contents' \in [Frames -> Tags]
    BY <1>1, <2>2 DEF TableTypes
  <2> QED BY <1>3, <1>8, <2>3 DEF memset_tcb, copy_argv, fill_kernel_stack, paging
<1>9. ASSUME UNCHANGED <<page_directory, page_tables, contents>> PROVE TableTypes'
  BY <1>1, <1>9 DEF TableTypes
<1>10. CASE kmain_pmm_init \/ kmain_call \/ sys_exit \/ user_fault
            \/ (\E path \in Paths : sys_exec(path)) \/ UNCHANGED memVars
  BY <1>9, <1>10 DEF kmain_pmm_init, kmain_call, sys_exit, user_fault, sys_exec,
                     memVars, paging
<1>11. CASE alloc_tcb \/ alloc_phys_page \/ alloc_page_table \/ alloc_kernel_stack
            \/ alloc_refused \/ page_table_refused \/ give_up
  BY <1>9, <1>11 DEF alloc_tcb, alloc_phys_page, alloc_page_table, allocate,
                     alloc_kernel_stack, alloc_refused, page_table_refused, give_up,
                     paging
<1>12. CASE elf_header \/ elf_next_segment \/ elf_loaded \/ vmm_no_table
            \/ link_task \/ kernel_page_fault \/ copy_argv_fault
  BY <1>9, <1>12 DEF elf_header, elf_next_segment, elf_loaded, vmm_no_table,
                     link_task, kernel_page_fault, copy_argv_fault, paging
<1> QED BY <1>4, <1>5, <1>6, <1>7, <1>8, <1>10, <1>11, <1>12 DEF MemNext, create

LEMMA TypeStep == TypeInv /\ [MemNext]_memVars => TypeInv'
<1> SUFFICES ASSUME TypeInv, [MemNext]_memVars PROVE TypeInv'
  OBVIOUS
<1>1. LocalTypes' /\ TaskTypes' /\ TableTypes' /\ Sized'
  BY LocalsStep, TasksStep, TablesStep, SizedStep DEF TypeInv
<1>2. files' \in Builds
  <2>1. files' = files
    BY DEF MemNext, create, memVars, kmain_pmm_init, vmm_init, kmain_call, sys_exec,
           sys_exit, user_fault, allocate, alloc_tcb, alloc_phys_page,
           alloc_page_table, alloc_kernel_stack, alloc_refused,
           page_table_refused, give_up, memset_tcb, elf_header, elf_next_segment,
           elf_loaded, vmm_no_table, vmm_new_table, vmm_map_user_page,
           elf_copy_segment, copy_argv, fill_kernel_stack, link_task,
           kernel_page_fault, copy_argv_fault
  <2> QED BY <2>1 DEF TypeInv, Types
<1>3. boot' \in 0..(Len(Launch) + 3)
  <2>1. Len(Launch) \in Nat /\ boot \in 0..(Len(Launch) + 3)
    BY FilesAssumption DEF TypeInv
  <2>2. CASE kmain_pmm_init \/ vmm_init \/ kmain_call
    <3>1. \/ boot' = 1 \/ boot' = 2
          \/ boot \in 2..(Len(Launch) + 2) /\ boot' = boot + 1
      BY <2>2 DEF kmain_pmm_init, vmm_init, kmain_call
    <3> QED BY <2>1, <3>1
  <2>3. CASE ~(kmain_pmm_init \/ vmm_init \/ kmain_call)
    <3>1. boot' = boot
      BY <2>3
         DEF MemNext, create, memVars, sys_exec,
             sys_exit, user_fault, allocate, alloc_tcb, alloc_phys_page,
             alloc_page_table, alloc_kernel_stack, alloc_refused,
             page_table_refused, give_up, memset_tcb, elf_header,
             elf_next_segment, elf_loaded, vmm_no_table, vmm_new_table,
             vmm_map_user_page, elf_copy_segment, copy_argv,
             fill_kernel_stack, link_task, kernel_page_fault, copy_argv_fault
    <3> QED BY <2>1, <3>1
  <2> QED BY <2>2, <2>3
<1>4. halted' \in Halts
  <2>1. halted \in Halts
    BY DEF TypeInv, Types
  <2>2. \/ halted' = halted
        \/ halted' \in {"page fault", "no page table", "argv fault",
                        "launch failed", "user fault"}
    BY DEF MemNext, create, memVars, kmain_pmm_init, vmm_init, kmain_call, sys_exec,
           sys_exit, user_fault, allocate, alloc_tcb, alloc_phys_page,
           alloc_page_table, alloc_kernel_stack, alloc_refused,
           page_table_refused, give_up, memset_tcb, elf_header, elf_next_segment,
           elf_loaded, vmm_no_table, vmm_new_table, vmm_map_user_page,
           elf_copy_segment, copy_argv, fill_kernel_stack, link_task,
           kernel_page_fault, copy_argv_fault
  <2> QED BY <2>1, <2>2 DEF Halts
<1> QED BY <1>1, <1>2, <1>3, <1>4
        DEF TypeInv, Types, LocalTypes, TaskTypes, TableTypes

LEMMA TypeInduction == MemSpec => []TypeInv
<1>1. MemInit => TypeInv
  <2>1. ASSUME MemInit PROVE Types /\ boot \in 0..(Len(Launch) + 3)
    BY <2>1, MemInitEstablishes DEF Owned, MemInv, Booted
  <2>2. ASSUME MemInit PROVE Reading /\ Sized
    BY <2>2, IdleOp DEF MemInit, Init, Reading, Loading, Mapping, Sized
  <2> QED BY <2>1, <2>2 DEF TypeInv
<1> QED BY <1>1, TypeStep, PTL DEF MemSpec

\* The committed launch list starts no program (kernel.c:134-148 is commented
\* out), and a program is executed by programs only.
NoProgram == running = <<>> /\ op.path \notin Paths

LEMMA NoProgramStep ==
    ASSUME Launch \in Seq({"worker"}), TypeInv, NoProgram, [MemNext]_memVars
    PROVE  NoProgram'
<1>1. op \in Ops
  BY DEF TypeInv, Types
<1>2. "kmain" \notin Paths /\ "worker" \notin Paths /\ "none" \notin Paths
  BY FilesAssumption
<1>3. CASE kmain_call
  <2>1. boot \in 2..(Len(Launch) + 2) /\ running' = running
    BY <1>3 DEF kmain_call
  <2>2. boot # 2 => Launch[boot - 2] = "worker"
    <3>1. ASSUME boot # 2 PROVE boot - 2 \in 1..Len(Launch)
      BY <2>1, <3>1, FilesAssumption
    <3> QED BY <3>1
  <2>3. op'.path \in {"kmain", "worker"}
    BY <1>3, <2>2 DEF kmain_call, Begin, Idle
  <2> QED BY <1>2, <2>1, <2>3 DEF NoProgram
<1>4. CASE (\E path \in Paths : sys_exec(path)) \/ sys_exit \/ user_fault
  BY <1>4 DEF NoProgram, sys_exec, sys_exit, user_fault
<1>5. ASSUME UNCHANGED <<running, op>> PROVE NoProgram'
  BY <1>5 DEF NoProgram
<1>6. CASE kmain_pmm_init \/ vmm_init \/ page_table_refused \/ kernel_page_fault
           \/ copy_argv_fault \/ UNCHANGED memVars
  BY <1>5, <1>6 DEF kmain_pmm_init, vmm_init, page_table_refused,
                    kernel_page_fault, copy_argv_fault, memVars
<1>7. CASE give_up \/ link_task
  <2>1. op' = Idle /\ running' = running
    BY <1>7 DEF NoProgram, give_up, link_task
  <2>2. op'.path = "none"
    BY <2>1 DEF Idle
  <2> QED BY <1>2, <2>1, <2>2 DEF NoProgram
<1>8. ASSUME running' = running, op'.path = op.path PROVE NoProgram'
  BY <1>8 DEF NoProgram
<1>9. CASE alloc_tcb \/ alloc_phys_page \/ alloc_page_table \/ alloc_kernel_stack
           \/ alloc_refused
  BY <1>1, <1>8, <1>9
     DEF alloc_tcb, alloc_phys_page, alloc_page_table, alloc_kernel_stack,
         allocate, alloc_refused, Ops
<1>10. CASE memset_tcb \/ vmm_no_table \/ vmm_new_table \/ vmm_map_user_page
            \/ elf_copy_segment
  BY <1>1, <1>8, <1>10
     DEF memset_tcb, vmm_no_table, vmm_new_table, vmm_map_user_page,
         elf_copy_segment, Ops
<1>11. CASE elf_header \/ elf_next_segment \/ elf_loaded \/ copy_argv
            \/ fill_kernel_stack
  BY <1>1, <1>8, <1>11
     DEF elf_header, elf_next_segment, elf_loaded, copy_argv,
         fill_kernel_stack, Ops
<1> QED BY <1>3, <1>4, <1>6, <1>7, <1>9, <1>10, <1>11 DEF MemNext, create

-----------------------------------------------------------------------------
\* The directory, its tables and the locals of a creation keep their types,
\* wherever the programs are linked: an entry that is present names a table
\* that is there (vmm.c:113-131).
THEOREM MemoryTypeCorrect == MemSpec => []MemTypeOK
<1>1. TypeInv => MemTypeOK
  <2> SUFFICES ASSUME TypeInv PROVE MemTypeOK
    OBVIOUS
  <2>1. {op.new_task, op.phys_page, op.new_pt, op.kernel_stack} \subseteq Frames
        /\ op.pc \in Pcs
    BY DEF TypeInv, Types, Ops
  <2>2. DOMAIN contents = Frames
    BY DEF TypeInv, Types
  <2> QED BY <2>1, <2>2 DEF TypeInv, Types, MemTypeOK, Halts
<1> QED BY <1>1, TypeInduction, PTL

\* Until a creation begins from a file linked below 8 MB or inside the memory,
\* the bitmap is the allocator's: however many programs are loaded, it says who
\* owns what (mem/pmm.c with elf.c).  The first such creation is what
\* memory_linked shows.
THEOREM BitmapSurvivesLoading == MemSpec /\ []LoadsAbove => []BitmapIsOwnership
<1>1. Owned => BitmapIsOwnership
  BY DEF Owned, MemInv, PMMInv
<1> QED BY MemInduction, <1>1, PTL

\* Until then no frame serves two purposes, whatever is loaded, fails or is
\* given up (task.c:141-255, elf.c:70-134, vmm.c:89-157).
THEOREM OneOwner == MemSpec /\ []LoadsAbove => []FramesHaveOneOwner
<1> QED BY MemInduction, OwnedOnce, PTL

\* Until then task control blocks and kernel stacks are not written over by a
\* later load.
THEOREM KernelPagesStay == MemSpec /\ []LoadsAbove => []KernelPagesKept
<1>1. Owned => KernelPagesKept
  BY DEF Owned, MemInv
<1> QED BY MemInduction, <1>1, PTL

\* Until then a page fault of the kernel comes only after every frame it can
\* reach has been reserved or handed out (vmm.c:113, task.c:147 and 207).
THEOREM FaultsArePast8MB == MemSpec /\ []LoadsAbove => []FaultsOnlyPast8MB
<1> QED BY MemInduction, OwnedFaults, PTL

\* Until then a creation that is given up, or maps over another program, loses
\* pages of programs and nothing else (elf.c:117, task.c:163).
THEOREM LeaksAreUserPages == MemSpec /\ []LoadsAbove => []OnlyUserPagesLeak
<1> QED BY MemInduction, OwnedLeaks, PTL

\* The hypothesis of these theorems holds of every behaviour if every file is
\* linked above 8 MB and above the memory (which userspace/Makefile's are not).
THEOREM AboveIfAllAre ==
    (\A build \in Builds, path \in Paths : LinkedAbove(build[path]))
      => (MemSpec => []LoadsAbove)
<1> SUFFICES ASSUME \A build \in Builds, path \in Paths : LinkedAbove(build[path])
             PROVE  MemSpec => []LoadsAbove
  OBVIOUS
<1>1. TypeInv => LoadsAbove
  BY DEF TypeInv, Types, LoadsAbove
<1> QED BY <1>1, TypeInduction, PTL

\* It holds as well, of any build, the committed one among them, if kmain
\* launches no program but the worker: the committed list (kernel.c:116-148).
THEOREM AboveIfOnlyWorkers ==
    Launch \in Seq({"worker"}) => (MemSpec => []LoadsAbove)
<1> SUFFICES ASSUME Launch \in Seq({"worker"}) PROVE MemSpec => []LoadsAbove
  OBVIOUS
<1>1. MemInit => NoProgram
  BY FilesAssumption DEF MemInit, NoProgram, Idle
<1>2. TypeInv /\ NoProgram /\ [MemNext]_memVars => NoProgram'
  BY NoProgramStep
<1>3. NoProgram => LoadsAbove
  BY DEF NoProgram, LoadsAbove
<1> QED BY <1>1, <1>2, <1>3, TypeInduction, PTL DEF MemSpec
=============================================================================
