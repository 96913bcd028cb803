------------------------------- MODULE Memory -------------------------------
(***************************************************************************)
(* Who gets which memory: the one page directory (kernel/mem/vmm.c), the   *)
(* ELF loader (kernel/elf.c) and the creation of tasks in                  *)
(* kernel/task/task.c, over the page allocator PMM.                        *)
(*                                                                         *)
(* A frame is a physical page, and addresses are virtual; both are counted *)
(* in pages.  A creation runs with IF = 0 from its cli to its sti.  It is  *)
(* cut where it calls pmm_alloc_page and where it touches memory: those    *)
(* are the places where it can end early, or stop the machine.  The kernel *)
(* writes to a frame through the address of the same number.               *)
(*                                                                         *)
(* When which task runs is Kernel's subject.  A program is blocked from    *)
(* its SYS_EXEC to its child's exit (Kernel!ImplementsProcesses), so that  *)
(* the programs started by one another are a stack whose top runs.         *)
(***************************************************************************)
EXTENDS PMM, Sequences, SequencesExt

CONSTANTS
    TableSize,         \* entries of a page table: 1024
    LastDirectory,     \* the last entry of the page directory in use
    BootTables,        \* the frames of boot_page_table1 and 2,
    KernelTables,      \* of first_page_table and second_page_table,
    MapFrame,          \* and of the bitmap: 0x10000
    UserStackBottom, UserStackTop,   \* 0xBFFFC000 and 0xC0000000
    Paths,             \* the programs linked into the kernel
    Builds,            \* what these files may be, each [Paths -> ELF file]
    Launch             \* what kmain creates: "worker", or a path

Directories == 0..LastDirectory
Entries == 0..(TableSize - 1)
Frames == 0..(TotalPages - 1)
IdentityMapped == 0..(2 * TableSize - 1)

\* What elf_load reads of a file: whether its header is one of an executable,
\* its entry point, and its program headers, each with the pages it touches.
ElfFiles == [valid : BOOLEAN, e_entry : Nat,
             phdrs : Seq([p_type : {"PT_LOAD", "other"},
                          first : Nat, size : Nat])]

\* The pages [p_vaddr, p_vaddr + p_memsz) of a segment touch: "size" pages.
SegmentPages(phdr) == phdr.first..(phdr.first + phdr.size - 1)
Loaded(phdr) == phdr.p_type = "PT_LOAD" /\ phdr.size > 0
ImagePages(file) ==
    UNION {SegmentPages(file.phdrs[i]) :
             i \in {j \in DOMAIN file.phdrs : Loaded(file.phdrs[j])}}
StackPages == UserStackBottom..(UserStackTop - 1)

ASSUME DirectoryAssumption ==
    /\ TableSize \in Nat \ {0} /\ LastDirectory \in Nat \ {0}
    /\ UserStackBottom \in Nat /\ UserStackTop \in Nat
    /\ UserStackBottom < UserStackTop
    /\ UserStackTop <= TableSize * (LastDirectory + 1)
    /\ TotalPages <= TableSize * (LastDirectory + 1)

\* Where the linker puts the kernel's own tables and the bitmap.
ASSUME KernelAssumption ==
    /\ BootTables \in Seq(Reserved) /\ Len(BootTables) = 2
    /\ KernelTables \in Seq(Reserved) /\ Len(KernelTables) = 2
    /\ BootTables[1] # BootTables[2] /\ KernelTables[1] # KernelTables[2]
    /\ MapFrame \in Reserved
    /\ \A i, j \in {1, 2} : BootTables[i] # KernelTables[j]

\* No address of a program is one through which the kernel reaches a frame,
\* but perhaps the bitmap's: programs are linked at 0x10000.
UsedByKernel == (Frames \ Reserved) \cup {BootTables[i] : i \in {1, 2}}
                  \cup {KernelTables[i] : i \in {1, 2}}
ASSUME FilesAssumption ==
    /\ Builds \subseteq [Paths -> ElfFiles]
    /\ Launch \in Seq(Paths \cup {"worker"})
    /\ Paths \cap {"none", "kmain", "worker"} = {}
ASSUME BuildsAssumption ==
    \A build \in Builds, path \in Paths :
      /\ ImagePages(build[path]) \subseteq 0..(TableSize * (LastDirectory + 1) - 1)
      /\ ImagePages(build[path]) \cap (UsedByKernel \cup StackPages) = {}
ASSUME StackAssumption == StackPages \cap (Frames \cup IdentityMapped) = {}

\* A program linked above 8 MB and above the memory.  Those that
\* userspace/Makefile links are not.
LinkedAbove(file) == ImagePages(file) \cap (Frames \cup IdentityMapped) = {}

\* Two segments of a file share no page: ld keeps apart what is protected
\* differently, and elf_load gives every page of a segment a fresh frame.
SegmentsApart(file) ==
    \A i, j \in DOMAIN file.phdrs :
      i # j /\ Loaded(file.phdrs[i]) /\ Loaded(file.phdrs[j]) =>
        SegmentPages(file.phdrs[i]) \cap SegmentPages(file.phdrs[j]) = {}

VARIABLES
    page_directory,    \* kernel_page_directory, or boot.s's before vmm_init
    page_tables,       \* the tables, by their frames
    contents,          \* what a frame was last written with
    files,             \* the build linked into the kernel
    boot,              \* how far kmain has come
    op,                \* the creation in progress, with its locals
    tasks,             \* the task control blocks, in order of their ids
    running,           \* the programs started by one another
    halted,            \* why the machine has stopped
    overlaid           \* history: programs whose addresses were remapped

paging == <<page_directory, page_tables>>
memVars == <<pmmVars, paging, contents, files, boot, op, tasks, running,
             halted, overlaid>>

Entry(frame, user) == [present |-> TRUE, frame |-> frame, user |-> user]
Absent == [present |-> FALSE, frame |-> 0, user |-> FALSE]

Pde(addr) == page_directory[addr \div TableSize]

\* The entry the CPU finds for an address.
Lookup(addr) ==
    IF Pde(addr).present
      THEN page_tables[Pde(addr).frame][addr % TableSize]
      ELSE Absent

Mapped(addr) == Lookup(addr).present
UserAccessible(addr) == Mapped(addr) /\ Pde(addr).user /\ Lookup(addr).user

\* What a frame holds: whose, and which part of it.
Tag(what, task, part) == [what |-> what, task |-> task, part |-> part]
Stale == Tag("stale", 0, 0)    \* whatever it held when it was allocated

-----------------------------------------------------------------------------
(***************************************************************************)
(* Paging: the two directories that map the first 8 MB to themselves.      *)
(***************************************************************************)
IdentityDirectory(tables) ==
    [d \in Directories |-> IF d < 2 THEN Entry(tables[d + 1], FALSE) ELSE Absent]

IdentityTable(d) == [e \in Entries |-> Entry(d * TableSize + e, FALSE)]

EmptyTable == [e \in Entries |-> Absent]

Idle == [pc |-> "idle", call |-> "none", path |-> "none", caller |-> 0,
         new_task |-> NULL, i |-> 0, page |-> 0, last |-> 0,
         phys_page |-> NULL, new_pt |-> NULL, argv |-> "none",
         kernel_stack |-> NULL]

\* boot.s has mapped the first 8 MB; the kernel's tables are zero.
MemInit ==
    /\ Init
    /\ page_directory = IdentityDirectory(BootTables)
    /\ page_tables = [f \in {BootTables[1], BootTables[2],
                             KernelTables[1], KernelTables[2]} |->
                        IF f = BootTables[1] THEN IdentityTable(0)
                        ELSE IF f = BootTables[2] THEN IdentityTable(1)
                        ELSE EmptyTable]
    /\ contents = [f \in Frames |-> Stale]
    /\ files \in Builds
    /\ boot = 0 /\ op = Idle /\ tasks = <<>> /\ running = <<>>
    /\ halted = "no" /\ overlaid = {}

\* Mutant: only the first table is filled.
vmm_init_OneTable ==
    /\ boot = 1
    /\ page_tables' = [page_tables EXCEPT ![KernelTables[1]] = IdentityTable(0)]
    /\ page_directory' = IdentityDirectory(KernelTables)
    /\ boot' = 2
    /\ UNCHANGED <<pmmVars, contents, files, op, tasks, running, halted,
                   overlaid>>

kmain_pmm_init ==
    /\ boot = 0 /\ pmm_init
    /\ boot' = 1
    /\ UNCHANGED <<paging, contents, files, op, tasks, running, halted,
                   overlaid>>

vmm_init ==
    /\ boot = 1
    /\ page_tables' = [page_tables EXCEPT ![KernelTables[1]] = IdentityTable(0),
                                          ![KernelTables[2]] = IdentityTable(1)]
    /\ page_directory' = IdentityDirectory(KernelTables)
    /\ boot' = 2
    /\ UNCHANGED <<pmmVars, contents, files, op, tasks, running, halted,
                   overlaid>>

-----------------------------------------------------------------------------
(***************************************************************************)
(* Who asks for a task: kmain, then the running program.                   *)
(***************************************************************************)
At(pc) == halted = "no" /\ op.pc = pc

Begin(call, path, caller) ==
    op' = [Idle EXCEPT !.pc = "tcb", !.call = call, !.path = path,
                       !.caller = caller]

\* kmain calls tasking_init, then creates what Launch lists.
kmain_call ==
    /\ At("idle") /\ running = <<>>
    /\ boot \in 2..(Len(Launch) + 2)
    /\ boot' = boot + 1
    /\ IF boot = 2 THEN Begin("tasking_init", "kmain", 0)
       ELSE IF Launch[boot - 2] = "worker" THEN Begin("create_task", "worker", 0)
       ELSE Begin("create_user_process", Launch[boot - 2], 0)
    /\ UNCHANGED <<pmmVars, paging, contents, files, tasks, running, halted,
                   overlaid>>

\* In ring 3 a program needs all of its pages accessible.
Executable(t) == \A v \in ImagePages(files[tasks[t].path]) : UserAccessible(v)

\* SYS_EXEC of a path that names a program; any other path is without effect.
sys_exec(path) ==
    /\ At("idle") /\ running # <<>> /\ Executable(Last(running))
    /\ Begin("create_user_process", path, Last(running))
    /\ UNCHANGED <<pmmVars, paging, contents, files, boot, tasks, running,
                   halted, overlaid>>

\* SYS_EXIT gives nothing back: no page, no mapping, no task control block.
sys_exit ==
    /\ At("idle") /\ running # <<>> /\ Executable(Last(running))
    /\ running' = Front(running)
    /\ UNCHANGED <<pmmVars, paging, contents, files, boot, op, tasks, halted,
                   overlaid>>

\* A program that cannot execute its image, or executes another's, faults:
\* the first at once, the second perhaps.
user_fault ==
    /\ At("idle") /\ running # <<>>
    /\ ~Executable(Last(running)) \/ Last(running) \in overlaid
    /\ halted' = "user fault"
    /\ UNCHANGED <<pmmVars, paging, contents, files, boot, op, tasks, running,
                   overlaid>>

-----------------------------------------------------------------------------
(***************************************************************************)
(* The creation of a task, step by step.                                   *)
(***************************************************************************)
New == Len(tasks) + 1
File == files[op.path]
Phdr == File.phdrs[op.i]

\* A call of pmm_alloc_page that finds a page.
allocate(pc) ==
    /\ At(pc) /\ pmm_alloc_page /\ ret' # NULL
    /\ UNCHANGED <<paging, contents, files, boot, tasks, running, halted,
                   overlaid>>

Granted == ret' \div PAGE_SIZE

alloc_tcb ==
    allocate("tcb") /\ op' = [op EXCEPT !.pc = "memset", !.new_task = Granted]
alloc_phys_page ==
    allocate("page") /\ op' = [op EXCEPT !.pc = "map", !.phys_page = Granted]
alloc_page_table ==
    allocate("table") /\ op' = [op EXCEPT !.pc = "zero", !.new_pt = Granted]
alloc_kernel_stack ==
    allocate("kstack") /\ op' = [op EXCEPT !.pc = "frame", !.kernel_stack = Granted]

\* One that does not: the creation is given up...
alloc_refused ==
    /\ \E pc \in {"tcb", "page", "kstack"} : At(pc)
    /\ pmm_alloc_page /\ ret' = NULL
    /\ op' = [op EXCEPT !.pc = "give_up"]
    /\ UNCHANGED <<paging, contents, files, boot, tasks, running, halted,
                   overlaid>>

\* ...but not for a page table: "VMM PMM PT ALLOC FAIL", cli, hlt.
page_table_refused ==
    /\ At("table") /\ pmm_alloc_page /\ ret' = NULL
    /\ halted' = "no page table"
    /\ UNCHANGED <<paging, contents, files, boot, op, tasks, running, overlaid>>

\* Mutant: the task control block is not given back.
give_up_KeepsTCB ==
    /\ At("give_up")
    /\ op' = Idle
    /\ halted' = IF op.caller = 0 /\ op.call # "tasking_init"
                   THEN "launch failed" ELSE halted
    /\ UNCHANGED <<pmmVars, paging, contents, files, boot, tasks, running,
                   overlaid>>

\* The task control block is given back, and nothing else.  A program is told
\* -1; kmain stops there, but tasking_init tells it nothing.
give_up ==
    /\ At("give_up")
    /\ pmm_free_page(op.new_task * PAGE_SIZE)
    /\ op' = Idle
    /\ halted' = IF op.caller = 0 /\ op.call # "tasking_init"
                   THEN "launch failed" ELSE halted
    /\ UNCHANGED <<paging, contents, files, boot, tasks, running, overlaid>>

\* The kernel reaches the frames it clears or fills by their own numbers.
KernelWrites(pc, frame) == At(pc) /\ Mapped(frame)
Write(addr, tag) == contents' = [contents EXCEPT ![Lookup(addr).frame] = tag]

kernel_page_fault ==
    /\ \/ At("memset") /\ ~Mapped(op.new_task)
       \/ At("zero") /\ ~Mapped(op.new_pt)
       \/ At("frame") /\ ~Mapped(op.kernel_stack)
    /\ halted' = "page fault"
    /\ UNCHANGED <<pmmVars, paging, contents, files, boot, op, tasks, running,
                   overlaid>>

memset_tcb ==
    /\ KernelWrites("memset", op.new_task)
    /\ Write(op.new_task, Tag("tcb", New, 0))
    /\ op' = [op EXCEPT !.pc = CASE op.call = "tasking_init" -> "link"
                                 [] op.call = "create_task" -> "kstack"
                                 [] OTHER -> "header"]
    /\ UNCHANGED <<pmmVars, paging, files, boot, tasks, running, halted,
                   overlaid>>

\* elf_load: the magic number, the class and the type.
elf_header ==
    /\ At("header")
    /\ op' = IF File.valid THEN [op EXCEPT !.pc = "segment", !.i = 1]
                           ELSE [op EXCEPT !.pc = "give_up"]
    /\ UNCHANGED <<pmmVars, paging, contents, files, boot, tasks, running,
                   halted, overlaid>>

\* The next program header.
elf_next_segment ==
    /\ At("segment") /\ op.i <= Len(File.phdrs)
    /\ op' = IF Loaded(Phdr)
               THEN [op EXCEPT !.pc = "page", !.page = Phdr.first,
                               !.last = Phdr.first + Phdr.size - 1]
               ELSE [op EXCEPT !.i = @ + 1]
    /\ UNCHANGED <<pmmVars, paging, contents, files, boot, tasks, running,
                   halted, overlaid>>

\* After the last one the user stack; but an entry point of 0, returned by an
\* elf_load that has done its work, is taken for its failure.
elf_loaded ==
    /\ At("segment") /\ op.i > Len(File.phdrs)
    /\ op' = IF File.e_entry = 0 THEN [op EXCEPT !.pc = "give_up"]
             ELSE [op EXCEPT !.pc = "page", !.page = UserStackBottom,
                             !.last = UserStackTop - 1]
    /\ UNCHANGED <<pmmVars, paging, contents, files, boot, tasks, running,
                   halted, overlaid>>

\* vmm_map_page: a directory entry without a table gets one.
vmm_no_table ==
    /\ At("map") /\ ~Pde(op.page).present
    /\ op' = [op EXCEPT !.pc = "table"]
    /\ UNCHANGED <<pmmVars, paging, contents, files, boot, tasks, running,
                   halted, overlaid>>

\* Mutant: the entry of the directory is for the kernel only.
vmm_new_table_Supervisor ==
    /\ KernelWrites("zero", op.new_pt)
    /\ page_tables' = [f \in DOMAIN page_tables \cup {op.new_pt} |->
                         IF f = op.new_pt THEN EmptyTable ELSE page_tables[f]]
    /\ page_directory' = [page_directory EXCEPT
                            ![op.page \div TableSize] = Entry(op.new_pt, FALSE)]
    /\ Write(op.new_pt, Tag("table", 0, 0))
    /\ op' = [op EXCEPT !.pc = "map"]
    /\ UNCHANGED <<pmmVars, files, boot, tasks, running, halted, overlaid>>

\* Mutant: the new table is not cleared.
vmm_new_table_NotCleared ==
    /\ KernelWrites("zero", op.new_pt)
    /\ page_tables' = [f \in DOMAIN page_tables \cup {op.new_pt} |->
                         IF f = op.new_pt THEN [e \in Entries |-> Entry(e, TRUE)]
                                          ELSE page_tables[f]]
    /\ page_directory' = [page_directory EXCEPT
                            ![op.page \div TableSize] = Entry(op.new_pt, TRUE)]
    /\ contents' = contents
    /\ op' = [op EXCEPT !.pc = "map"]
    /\ UNCHANGED <<pmmVars, files, boot, tasks, running, halted, overlaid>>

vmm_new_table ==
    /\ KernelWrites("zero", op.new_pt)
    /\ page_tables' = [f \in DOMAIN page_tables \cup {op.new_pt} |->
                         IF f = op.new_pt THEN EmptyTable ELSE page_tables[f]]
    /\ page_directory' = [page_directory EXCEPT
                            ![op.page \div TableSize] = Entry(op.new_pt, TRUE)]
    /\ Write(op.new_pt, Tag("table", 0, 0))
    /\ op' = [op EXCEPT !.pc = "map"]
    /\ UNCHANGED <<pmmVars, files, boot, tasks, running, halted, overlaid>>

\* The bitmap is read and written at its address: once that is a program's,
\* it holds what the program's page does.
MapChanges(addrs) ==
    IF MapFrame \in addrs THEN memory_map' \in [Words -> Garbage]
                          ELSE UNCHANGED memory_map

\* The entry is written whatever it held; the loop goes on to the next page.
vmm_map_user_page ==
    /\ At("map") /\ Pde(op.page).present
    /\ page_tables' = [page_tables EXCEPT
                         ![Pde(op.page).frame][op.page % TableSize] =
                            Entry(op.phys_page, TRUE)]
    /\ contents' = [contents EXCEPT ![op.phys_page] = Stale]
    /\ MapChanges({op.page})
    /\ op' = IF op.page < op.last
               THEN [op EXCEPT !.pc = "page", !.page = @ + 1]
               ELSE [op EXCEPT !.pc = IF op.i > Len(File.phdrs)
                                        THEN "argv" ELSE "copy"]
    /\ overlaid' = overlaid \cup {running[k] : k \in DOMAIN running}
    /\ UNCHANGED <<total_pages, used_pages, ready, ret, held, page_directory,
                   files, boot, tasks, running, halted>>

\* memcpy of the file's bytes, then memset of the rest.
elf_copy_segment ==
    /\ At("copy")
    /\ contents' = [f \in Frames |->
                      IF \E v \in SegmentPages(Phdr) : Lookup(v).frame = f
                        THEN Tag("image", New, op.i) ELSE contents[f]]
    /\ MapChanges(SegmentPages(Phdr))
    /\ op' = [op EXCEPT !.pc = "segment", !.i = @ + 1]
    /\ UNCHANGED <<total_pages, used_pages, ready, ret, held, paging, files,
                   boot, tasks, running, halted, overlaid>>

\* The arguments are read through the tables as they are now.  kmain's lie in
\* the kernel, a program's at the top of its stack.  They are read as given if
\* what is mapped there is still that; else whatever lies there is taken for
\* them.
ArgvIntact ==
    op.caller # 0 =>
      contents[Lookup(UserStackTop - 1).frame] = Tag("stack", op.caller, 0)
ArgvRead == IF ArgvIntact THEN {"given"} ELSE {"none", "junk"}

copy_argv ==
    /\ At("argv")
    /\ \E argv \in ArgvRead : op' = [op EXCEPT !.pc = "kstack", !.argv = argv]
    /\ Write(UserStackTop - 1, Tag("stack", New, 0))
    /\ UNCHANGED <<pmmVars, paging, files, boot, tasks, running, halted,
                   overlaid>>

\* Junk taken for a pointer need not be mapped.
copy_argv_fault ==
    /\ At("argv") /\ ~ArgvIntact
    /\ halted' = "argv fault"
    /\ UNCHANGED <<pmmVars, paging, contents, files, boot, op, tasks, running,
                   overlaid>>

\* The first frame on the new kernel stack.
fill_kernel_stack ==
    /\ KernelWrites("frame", op.kernel_stack)
    /\ Write(op.kernel_stack, Tag("kernel stack", New, 0))
    /\ op' = [op EXCEPT !.pc = "link"]
    /\ UNCHANGED <<pmmVars, paging, files, boot, tasks, running, halted,
                   overlaid>>

\* Mutant: the id is read after next_task_id++.
link_task_LateId ==
    /\ At("link")
    /\ tasks' = Append(tasks, [path |-> op.path, caller |-> op.caller,
                               tcb |-> op.new_task, argv |-> op.argv,
                               kernel_stack |-> op.kernel_stack])
    /\ running' = IF op.path \in Paths THEN Append(running, New + 1) ELSE running
    /\ op' = Idle
    /\ UNCHANGED <<pmmVars, paging, contents, files, boot, halted, overlaid>>

\* The task is READY, and a program will run before its caller does.
link_task ==
    /\ At("link")
    /\ tasks' = Append(tasks, [path |-> op.path, caller |-> op.caller,
                               tcb |-> op.new_task, argv |-> op.argv,
                               kernel_stack |-> op.kernel_stack])
    /\ running' = IF op.path \in Paths THEN Append(running, New) ELSE running
    /\ op' = Idle
    /\ UNCHANGED <<pmmVars, paging, contents, files, boot, halted, overlaid>>

create ==
    \/ alloc_tcb \/ memset_tcb \/ elf_header \/ elf_next_segment \/ elf_loaded
    \/ alloc_phys_page \/ vmm_no_table \/ alloc_page_table \/ vmm_new_table
    \/ vmm_map_user_page \/ elf_copy_segment \/ copy_argv
    \/ alloc_kernel_stack \/ fill_kernel_stack \/ link_task
    \/ alloc_refused \/ give_up
    \/ page_table_refused \/ kernel_page_fault \/ copy_argv_fault

MemNext ==
    \/ kmain_pmm_init \/ vmm_init \/ kmain_call
    \/ \E path \in Paths : sys_exec(path)
    \/ sys_exit \/ user_fault
    \/ create

MemSpec == MemInit /\ [][MemNext]_memVars

\* What the theorems ask of the files that are loaded, not of those that are
\* only there: []LoadsAbove is a behaviour, or as much of one, in which no
\* creation from a file linked lower has begun.
LoadsAbove == op.path \in Paths => LinkedAbove(files[op.path])
LoadsApart == op.path \in Paths => SegmentsApart(files[op.path])

-----------------------------------------------------------------------------
(***************************************************************************)
(* Properties.                                                             *)
(***************************************************************************)
Pcs == {"idle", "tcb", "memset", "header", "segment", "page", "map", "table",
        "zero", "copy", "argv", "kstack", "frame", "link", "give_up"}
TableEntries == [present : BOOLEAN, frame : Nat, user : BOOLEAN]

\* Every table an entry of the directory names is there, and what is mapped
\* below it are frames that exist.
MemTypeOK ==
    /\ page_directory \in [Directories -> TableEntries]
    /\ \A f \in DOMAIN page_tables :
         f \in Frames /\ page_tables[f] \in [Entries -> TableEntries]
    /\ \A d \in Directories :
         page_directory[d].present => page_directory[d].frame \in DOMAIN page_tables
    /\ DOMAIN contents = Frames
    /\ files \in Builds
    /\ boot \in 0..(Len(Launch) + 3)
    /\ op.pc \in Pcs
    /\ {op.new_task, op.phys_page, op.new_pt, op.kernel_stack} \subseteq Frames
    /\ \A k \in DOMAIN running : running[k] \in DOMAIN tasks
    /\ overlaid \subseteq DOMAIN tasks
    /\ halted \in {"no", "page fault", "no page table", "argv fault",
                    "launch failed", "user fault"}

\* A creation that goes on has its task control block.
Unlinked == IF op.pc \in {"idle", "tcb"} THEN {} ELSE {op.new_task} \ {NULL}
TCBs == {tasks[t].tcb : t \in DOMAIN tasks} \cup Unlinked
KernelStacks == {tasks[t].kernel_stack : t \in DOMAIN tasks} \ {NULL}
Tables == {page_directory[d].frame : d \in {e \in Directories :
             page_directory[e].present}}
NewTables == Tables \ {BootTables[1], BootTables[2],
                       KernelTables[1], KernelTables[2]}
UserAddresses == {a \in 0..(TableSize * (LastDirectory + 1) - 1) :
                    UserAccessible(a)}
UserFrames == {Lookup(a).frame : a \in UserAddresses}

\* No frame serves twice: a task control block, a kernel stack, a page table
\* or a page of a program is not another one's too.  What ring 3 can reach
\* are frames handed out for programs, each at one address, and nothing of
\* the kernel (README.md:33, "isoler le noyau des autres taches").
FramesHaveOneOwner ==
    /\ TCBs \cap KernelStacks = {}
    /\ NewTables \cap (TCBs \cup KernelStacks) = {}
    /\ UserFrames \cap (TCBs \cup KernelStacks \cup Tables \cup Reserved) = {}
    /\ TCBs \cup KernelStacks \cup NewTables \cup UserFrames \subseteq held
    /\ \A s, t \in DOMAIN tasks : s # t =>
         /\ tasks[s].tcb # tasks[t].tcb
         /\ tasks[s].kernel_stack = tasks[t].kernel_stack
               => tasks[s].kernel_stack = NULL
    /\ \A a, b \in UserAddresses : Lookup(a) = Lookup(b) => a = b

\* What was written for a task stays: its control block and kernel stack are
\* never written over, whatever is loaded or freed later.
KernelPagesKept ==
    \A t \in DOMAIN tasks :
      /\ contents[tasks[t].tcb] = Tag("tcb", t, 0)
      /\ tasks[t].kernel_stack # NULL =>
           contents[tasks[t].kernel_stack] = Tag("kernel stack", t, 0)

\* A program that runs, and has not tried to execute another, finds each of
\* its segments and its stack at their addresses, accessible in ring 3, and
\* if kmain launched it its arguments too.
OwnMemory ==
    op.pc = "idle" /\ running # <<>> /\ Last(running) \notin overlaid =>
      LET t == Last(running)
          phdrs == files[tasks[t].path].phdrs
      IN /\ \A i \in DOMAIN phdrs : Loaded(phdrs[i]) =>
              \A v \in SegmentPages(phdrs[i]) :
                /\ UserAccessible(v)
                /\ contents[Lookup(v).frame] = Tag("image", t, i)
         /\ \A v \in StackPages : UserAccessible(v)
         /\ contents[Lookup(UserStackTop - 1).frame] = Tag("stack", t, 0)
         /\ tasks[t].caller = 0 => tasks[t].argv = "given"

\* The kernel is stopped by a page it cannot reach only when all the frames
\* below 8 MB have been used at some time: no load, complete or given up,
\* takes an address from the kernel's own map.
FaultsOnlyPast8MB ==
    /\ boot >= 2 => \A f \in IdentityMapped :
         Lookup(f) = Entry(f, FALSE) /\ ~Pde(f).user
    /\ halted = "page fault" =>
         (Frames \cap IdentityMapped) \subseteq (Reserved \cup held)

\* Of what a creation takes, only pages mapped for programs are lost when it
\* fails or when the next one maps its own over them: every other frame that
\* is held still belongs to a task or to the directory.
OnlyUserPagesLeak ==
    op.pc = "idle" =>
      \A f \in held \ (TCBs \cup KernelStacks \cup NewTables) :
        contents[f].what \in {"stale", "image", "stack"}

\* fake_ai.c:3-5: "Ce programme doit pouvoir recevoir des arguments (argc,
\* argv). L'implementation de la reception des arguments est geree par le
\* noyau lors de la creation du processus (via l'appel systeme SYS_EXEC)."
ArgumentsArrive ==
    \A t \in DOMAIN tasks : tasks[t].path \in Paths => tasks[t].argv = "given"
=============================================================================
