# A TLA+ model of AI-OS

AI-OS is a small 32-bit kernel in C and assembly: cooperative and timer-driven
tasks, a keyboard driver, a text console, a bitmap page allocator, an ELF
loader, five system calls, and two programs (a shell and a simulated "AI").
This directory holds TLA+ modules of its parts, the TLC configurations that
check them on small instances, and proofs, checked by TLAPS, of what matters
most for every instance.

Paths below are relative to the repository; `task.c` is `kernel/task/task.c`,
`syscall.c` is `kernel/syscall/syscall.c`, and so on.

## 1. Inventory

| Part | State | Operations | Talks to | Correct when |
|---|---|---|---|---|
| Tasks and scheduler (`task.c`, `task.h`, `timer.c`) | `current_task`, the ring from `task_queue_head`, one TCB per task | `tasking_init`, `create_task`, `create_user_process`, `schedule` | called by the timer interrupt, by system calls, by kmain | the ring holds every task; one task is RUNNING and it is the one that executes; a task is resumed only where it may go on; nobody is lost |
| System calls (`syscall.c`, `syscall_handler.s`) | fields of the TCB | EXIT, PUTC, GETS, EXEC | scheduler, keyboard, console, loader | EXEC blocks until its child exits and returns its status; GETS returns the line |
| Interrupts (`isr_stubs.s`, `interrupts.c`) | IF, the PIC's in-service bit | irq0, irq1, exceptions | scheduler, keyboard | handlers leave no trace in what they interrupt |
| Context switch (`context_switch.s`) | `cpu_state.esp` | one routine | called by `schedule` | the new task goes on where it stopped |
| Keyboard (`keyboard.c`) | line buffer, target buffer, waiting task | `keyboard_prepare_for_gets`, the IRQ1 handler | wakes the reader, writes its memory, echoes | the line typed reaches the program that asked, within its buffer |
| Console (`kernel.c`) | `vga_buffer`, `vga_x`, `vga_y` | `print_char`, `clear_screen` | keyboard, system calls, kmain | the cursor stays on the screen; the echo shows the line |
| Physical memory (`pmm.c`) | bitmap, two counters | `pmm_init`, `pmm_alloc_page`, `pmm_free_page` | loader, VMM, tasks | a page has one owner; NULL only at exhaustion |
| Virtual memory (`vmm.c`) | the page directory, its tables | `vmm_init`, `vmm_map_page` | PMM, loader | the kernel's own map stays; a frame is reached by one owner |
| ELF loader, creation of tasks (`elf.c`, `task.c`) | the pages taken so far | `elf_load`, `create_user_process` | PMM, VMM | a program finds its image, stack and arguments; a failed creation gives back what it took |
| Descriptor tables, PIC, timer (`gdt.c`, `idt.c`, `interrupts.c`) | tables of constants | set-up | CPU | gates lead to their handlers with IF clear; selectors fit |
| libc (`libc.c`) | – | `strcmp`, `memcpy`, `itoa`, ... | all | they compute what they say |
| Programs (`shell.c`, `fake_ai.c`) | – | lines, answers, system calls | int 0x80 | a line gets the answer meant for it |
| Boot, build, initrd | – | – | – | page tables of `boot.s` and link address only |

What is hard in this code: the CPU is handed from stack to stack in the middle
of `schedule()`, sometimes with interrupts on; the timer's end of interrupt
(EOI) is sent by whoever resumes the interrupted stack; wakeups come from
another task (EXIT) or from an interrupt (Enter), so the order of "mark as
waiting" and "may be interrupted" decides whether they are lost.  The hazards
are listed one by one, at their lines, in `PROJECT.json`.

## 2. Modules

    Processes    <-- implemented by --  Kernel         MC_Kernel
                     proofs: KernelProofs <- ProcessesProofs <- ReaderProofs
    LineReader   <-- implemented by --  Keyboard       MC_Keyboard
                                          extends Console
                     proofs: KeyboardProofs
    PageAllocator <- implemented by --  PMM            MC_PMM
                                         extended by Memory    MC_Memory
                     proofs: PMMProofs <- MemoryProofs <- OwnMemoryProofs
    Library, Descriptors (functions)  <-- LibraryChecks, evaluated with MC_PMM
    Machine      <-- extended by -----  InterruptStubs, SyscallStub, ContextSwitch
                     proofs: StubProofs (of InterruptStubs)

(`A <- B` between proof modules: B extends A.)

**Kernel** is the composition of scheduler, interrupts, system calls and kmain
on one CPU.  `cpu` is the running kernel stack as a sequence of *activations*;
`esp[t]` is the stack `context_switch` parked under task t.  Each statement of
`schedule()` that reads or writes shared state and can be separated from the
next by an interrupt is an action of its own (`schedule_entry`, `_scan`,
`_yield`, `_run`, `_current`, `context_switch`), and so are the statements of
SYS_EXEC after `create_user_process`, which run with IF = 1 because that
function ends with `sti`.  `IF_set` derives the interrupt flag from the stack;
`in_service` is IRQ0's bit in the PIC, set at delivery and cleared by
`irq0_eoi`.  Code that runs with IF = 0 to its end (the keyboard handler,
`create_user_process`, the other system calls up to `schedule()`) is one step.
Memory enters only as the nondeterministic failure of `sys_exec`; **Memory** is
the other side of that abstraction.

**Processes** is what the system calls promise without any of this: EXEC is a
blocking spawn that returns its child's exit status.  The refinement maps
"waits for child c" to the awaited child in the caller's own stack frame, so it
starts at the creation of the child and ends with the write of EAX.

**Keyboard** models the line editor with its buffer, the program's memory and
the echo on **Console**, one action per kind of key.  Memory is modelled up to
`MaxWord`, so the wrap of `user_target_buffer_max_size - 1` and a write past the
buffer are visible.  **LineReader** is the promise: the line typed, edited with
backspace, cut to what fits, delivered once, to the program that asked.

**PMM** models the bitmap as 32-bit words (sets of bit numbers) with the
arbitrary contents they have at boot.  **PageAllocator** is a set of free pages.

**Memory** extends PMM with the page directory, the tables, what each frame was
last written with, and one creation in progress (`op`), whose program counter
runs through `tasking_init`, `create_task` or `create_user_process` with
`elf_load` and `vmm_map_page` inside.  A creation runs with IF = 0, so nothing
interleaves; it is cut at each call of `pmm_alloc_page` and each touch of memory
because these are where it can end, or stop the machine.  The three functions
share `alloc_*`, `give_up` and `link_task`, since they allocate and link in the
same way; they fail differently only in what kmain does then: it stops after a
creation that fails, but goes on after `tasking_init`, which returns nothing
(`task.c:37`), to a creation that is refused in turn.  The kernel reaches a frame by the address of the same number, and
every such write asks `Mapped` first; a program's image, its stack and the bitmap
are reached through the tables as they stand.  `files` ranges over *builds*: what
the two embedded ELF files may be.  `running` is the stack of programs started by
one another, by `Kernel!ImplementsProcesses`.

**Library** has the pure functions: strings, numbers, which lines the shell
executes, what fake_ai answers, and the block of arguments on a new stack.
**Descriptors** has the entries of the GDT and the IDT, the programming of the PIC
and the PIT, and the stacks of new and parked tasks.  **LibraryChecks** states what
they should compute as assumptions over bounded inputs.

**Machine** gives the few i386 instructions that the stubs use a meaning on
symbolic words.  **InterruptStubs**, **SyscallStub** and **ContextSwitch** are
the stubs' texts, executed one instruction per step.  `isr_stubs.s` has a stub for
each of 48 vectors, of which `interrupts_init` installs 11 and leaves the others to
a comment; which of them have a gate is the constant `Gates`.

### Where the models start and what they assume

The committed kernel stops in kmain before it has any task: the test division
at `kernel.c:112` raises exception 0, whose handler ends with `cli; hlt`.  The
shell is not launched either (`kernel.c:134-148` is commented out).  `Kernel`
therefore starts after that test, at `tasking_init()`, and `Launch` says which
programs kmain starts: `<<"worker">>` is the committed list, `<<"shell">>` the
commented one, `<<"shell", "worker">>` both.  (In the order of the source, worker
first, the worker takes the CPU at the first tick and never leaves it: only 122
states are reached, which `kernel_round_robin` has already shown.)

`Memory` starts before that, at boot, and skips the test too.  It assumes that
programs are linked where the kernel reaches no frame (`BuildsAssumption`); the
bitmap's page alone is exempt, because `userspace/Makefile` links there.  No more
is assumed of the files.  But the code checks no `p_vaddr`, and once a program is
loaded at the bitmap's page the allocator's properties are lost (`memory_linked`).
The theorems about them therefore say how long they hold: `[]LoadsAbove`, until a
creation begins from a file linked below 8 MB or inside the memory, and, for
`OwnMemory`, `[]LoadsApart` too, until one begins from a file with two segments on
one page.  The committed programs are linked low, and the committed `kmain`
launches none of them, only the worker: the condition then holds for ever
(`AboveIfOnlyWorkers`).  With the commented launch of the shell it holds until the
shell is created.  The builds of the runs `memory` and `memory_argv` meet both
conditions, which TLC evaluates (`BuildsOfTheProofs`); those of `memory_linked` do
not meet the first.

`Kernel` takes `context_switch` and the stub of `int 0x80` at the interface the
C code uses.  The assembly does not meet it: see the runs `switch_operand` and
`syscall_number`.  What `Kernel` shows is thus about the C code, once these two
routines do what their comments say; and the CPU would need a TSS, which
`gdt.c` lacks, to leave ring 3 at all.

## 3. Runs

| Run | Question | Result |
|---|---|---|
| `kernel_safety` | shell and worker launched by kmain, any call at any time, 4 tasks | all eleven properties hold (102,529 states) |
| `kernel_shell` | the calls the programs really make, with fairness | GETS and EXEC return |
| `kernel_round_robin` | the committed launch, with fairness | **violated**: README.md:37's preemption |
| `pmm` | 35 pages and a bit, 6 of them free; and the assumptions of LibraryChecks | all five properties hold |
| `keyboard` | two readers, sizes 0, 2 and 4 against a driver buffer of 3, a 2 x 2 screen | all four properties hold (782,690 states) |
| `memory` | 12 builds, 66 frames, programs that load one another until memory ends | all seven properties hold (80,950 states) |
| `memory_linked` | programs linked at the bitmap's page, as committed | **violated**: the first load takes the bitmap |
| `memory_argv` | a program executes another with arguments | **violated**: `task.c:176` reads the child's stack |
| `interrupt_stubs` | the stubs of all 48 vectors | both properties hold (686 states) |
| `exception_frame` | what the C handlers of the installed gates are passed | **violated**: `isr_stubs.s:41` passes ds |
| `syscall_number` | what `regs[11]` is | **violated**: ecx, `syscall_handler.s:134` |
| `switch_operand` | what `[esp + 8]` is | **violated**: the saved ebp, `context_switch.s:41` |

### What they show

*The EOI after `schedule()` holds the kernel together.*  Reading `SYS_EXEC`, one
expects a lost wakeup: IF is set, the child is READY, and the parent is not yet
marked as waiting.  `WaitedChildIsAlive`, `ContextsOK` and `ImplementsProcesses`
hold nevertheless, because every task but kmain executes while the tick that
elected it is in service, so no tick can come (`OnlyIdleIsInterrupted`).  The
mutant `irq0_EarlyEOI`, the usual remedy for the missing preemption, breaks all
of them: children exit before their parents wait, terminated tasks are resumed.
The price is `RoundRobin`: a task that makes no system call keeps the CPU, and
while the worker runs the keyboard is dead as well.  A repair has to move the
EOI *and* turn interrupts off around SYS_EXEC and `schedule()`.

*Only one reader ever waits* (`ReaderIsRegistered`): `keyboard_prepare_for_gets`
would turn a second one away without an error and it would sleep for ever, but
with one program launched and blocking EXEC there is at most one runnable
program.  Two launched programs would break it.

*A question typed at the shell cannot reach fake_ai.*  Five defects lie in its
way, each enough: the system call number (`syscall_number`); the arguments, read
after the child's stack was mapped over the shell's (`memory_argv`); main, entered
by iret without a return address, so that it takes the pointer to argv[0] for argc
(`MainSeesPointers` in LibraryChecks); the parent's image and stack, replaced by
the child's and not restored (`OwnMemory` speaks only of programs that have not
been `overlaid`); and the page directory entry of the first 4 MB, without the USER
bit, below which the committed link address lies.

*What a load may do to the allocator* (`memory_linked`): linked at 0x10000, the
first program replaces the bitmap, and pages in use are handed out again.  Linked
elsewhere, the bitmap stays the record of ownership through every load and every
failure (`BitmapIsOwnership` in `memory`).

*Failed creations lose pages, but only a program's* (`OnlyUserPagesLeak`,
`FramesHaveOneOwner`): the TCB is always given back, page tables stay in use, and
the pages of the image and the stack are lost, at each failure and at each load
over the same addresses.  After enough of them the frames below 8 MB are used up,
and the next table or TCB is written through an unmapped address: the kernel stops
with a page fault then and not before (`FaultsOnlyPast8MB`).

*int 0x80 is an interrupt gate*: 0xEE has the type 0xE, although `syscall.c:150`
calls it a trap gate; system calls start with IF = 0, as Kernel has it
(`GatesLeadToHandlers`).

*`schedule()` never stops the machine* (`NeverHalted`): kmain is never blocked.

### Bounds

Four tasks: kmain, the launched program, its child and its grandchild or second
child, so that nested EXEC, a sequence of EXECs, an exit without a waiting
parent and a failed EXEC all occur; `MaxTasks` stands for the memory that runs
out.  Two exit statuses, one of them not the initial 0, tell a delivered status
from a stale one; one line length suffices for the safety run.  PMM: the free
pages lie across two words and the last word is partial.  Keyboard: a buffer of
3 against user sizes below and above it, and 0, which SYS_GETS must refuse; on a
screen of 2 columns and 2 rows the echo meets each margin and the scroll (the real
line, 255, is shorter than the real screen, 2000; here one of 2 is shorter than
4).  The two readers are interchangeable, so that the run declares them symmetric.
Memory: a page table of 32 entries instead of 1024, so that 64 frames stand for the
8 MB of the identity map, 32 for the kernel's 4 MB and 2 for what lies above; a
stack of 2 pages instead of 4; images of three segments across two page tables, as
gcc and ld make them, one with an empty segment and a .bss, one without an entry
point, which `create_user_process` takes for a failed load, one that is no ELF file,
and eight so large that memory ends at each of the eight next steps: in the
image's pages, its second table, its second segment, the stack's table, the stack,
the kernel stack, the TCB.  There is no fairness in Memory; it stops where memory
ends or the machine halts.

### Fairness (`Kernel!Fairness`, used by the two liveness runs)

Weak fairness of the kernel's own steps (a CPU executes what it is in), of the
tick (the PIT is periodic and the PIC holds the request), of the worker's loop,
and of a program's exit when it may exit (`fake_ai` ends with it); strong
fairness of Enter, because the PIC latches the key until it can deliver it and a
user presses it again.  Nothing is assumed of a program's other calls.

## 4. Proofs

All proofs are for every value of the constants allowed by the modules'
assumptions.

**PMMProofs** (module PMM).  `PMMInv` is the conjunction of `TypeOK`,
`BitmapIsOwnership` and `CountIsBitmap`; it is inductive as it stands, once the
arithmetic of `n \div 32` and `n % 32` is stated (lemmas at the head of the
module).  From it: `TypeCorrect`, `Ownership`, `Count`, `StaysInBitmap` (no write
beyond the bitmap) and `Refinement` (PMM implements PageAllocator).  Assumptions:
at least page 0 is reserved (4 MB in the code), the map's contents are 32-bit
words.

**KernelProofs** (module Kernel).  None of the scheduler's properties is
inductive: what a step does depends on which stacks are parked where.
`KernelInv == TypeOK /\ ContextsOK` is.  `ContextsOK` lists the shapes a parked
context and the running one may have and the task states that go with each:
kmain is parked inside irq0 only, any other task at its entry or inside the
system call it made; during `schedule()` the locals agree with `current_task`
and with the states; and IRQ0 is in service whenever another task than kmain is
on the CPU, which is why no interrupt ever adds an activation to the other
shapes.  One lemma per action shows that it preserves `KernelInv`; `Invariant`
puts them together.  From it: `TypeCorrect`, `ContextsAgree`, `QueueIsARing`,
`SchedulerNeverHalts`, `CurrentTaskRuns`, `OnlyKmainIsPreempted`,
`ExitIsForGood`.  The launch list, the number of tasks, the calls, the statuses
and the line lengths are arbitrary.

**ProcessesProofs** (Kernel as its programs see it).  Which child a program waits
for is written in two places: on its stack, as the `child_pid` of the activation of
SYS_EXEC, and in task.c's books (`state`, `child_pid_waiting_on`,
`child_exit_status`).  The promise is about the stack, the code acts on the books,
and between IF = 1 and the call of `schedule()` they differ.  `ProcInv` adds to
`KernelInv` what connects them, `Families`: for a task t whose stack awaits c,
either c has not exited, and from the call of `schedule()` on the books of t say
that it waits for c; or c has exited, t is parked in that call, awake, and its
`child_exit_status` is c's exit code.  The second case is entered by the EXIT of c
only, and only because c exits after t has been parked, which `ContextsOK` gives
(no tick comes while t, not kmain, executes).  From it: `WaitedChildLives`,
`ExecHasStatus` and `BlockingSpawn`, the refinement of Processes: every action of
Kernel is mapped to the spawn, the exit, the return or the stutter it is.

**ReaderProofs** (Kernel).  `keyboard.c` has room for one sleeping reader.
`ReaderInv` shows that a second one never comes: among the user tasks that have
not exited at most one awaits no living child (`OneActive`).  EXEC hands this part
from parent to child, and EXIT back if anyone waits.  It needs that kmain launches
the shell at most once (`LaunchedOnce`): the code has one such call, at
`kernel.c:137`, in a comment today, and the worker makes no system call.

**KeyboardProofs** (module Keyboard), for every screen, internal buffer, user buffer
size and set of readers.  `KeyInv == TypeOK /\ Target /\ EchoShowsLine` is
inductive: `Target` says that the driver's target, its waiting task and the size that task asked for are one
registration, and that the line and its NUL fit that size; the echo is inductive
with it, since a key writes at the cursor what it puts into the line, or takes both
back (of a line longer than the screen, what has not scrolled away).  From it:
`KeyboardTypes`, `EchoedLine`, `BufferSafety` and `LinesDelivered`, the refinement
of LineReader.

**MemoryProofs** (module Memory).  What `memory` shows of 66 frames is proved of
every memory and table size, every list of launched programs and every set of ELF
files that `BuildsAssumption` allows.  `MemoryTypeCorrect` is proved of all
behaviours, the committed link address included, by an invariant of its own
(`TypeInv`: a present entry names a table that is there, whatever has become of the
bitmap).  The others hold until a file linked below 8 MB or inside the memory is
loaded: they have the form `MemSpec /\ []LoadsAbove => []P`.  The condition
cannot be dropped: in `memory_linked` the load of a file linked at the bitmap's page
is the step that violates `BitmapIsOwnership`.  Two theorems say
when it never ends: if every build is linked above (`AboveIfAllAre`), and, wherever
programs are linked, if kmain creates only workers, as the committed one does
(`AboveIfOnlyWorkers`).  That no frame serves twice is not inductive: it
takes knowing what each frame was handed out for, which the state does not record.
The invariant is therefore `Owned == \E who : MemInv(who)`, where `who` gives every
held frame an owner: the TCB or kernel stack of task t, the table of directory d,
the page at address a.  `MemInv(who)` says that each place that refers to a frame
is the one `who` names (`Paging`, `TasksOwn`, `CreationOwns`), hence that two places
with one frame are one place; that what was written to a frame is still there
(`CreationKept`); and that a held frame of the kernel is referred to (`Accounted`).
An allocation extends `who` at a frame that was free, every other step keeps it, and
a creation that ends gives its frames to the task whose number it already had.  One
lemma per action shows it; `MemStep` and `MemInduction` put them together.  From it:
`BitmapSurvivesLoading`, `OneOwner`, `KernelPagesStay`,
`FaultsArePast8MB`, `LeaksAreUserPages`.

**OwnMemoryProofs** (module Memory).  That a program finds its image and its stack
is about contents, and takes the ownership above: a write disturbs a page only if
it goes to its frame, and `MemInv` says whose that is.  `OwnInv` adds three parts.
Only the last of the running programs may still be as it was loaded, since a
creation maps its first page over whatever runs (`TopOnly`); if it is, every page of
its segments and its stack is reached from user mode and holds what was loaded
(`TopThere`); and of a creation in progress, the segments done so far are in place,
page by page (`Progress`).  `OwnMemoryKept` follows under `[]LoadsAbove` and
`[]LoadsApart`.  Without the second it is false of this loader: `elf_load` gives
every page of a segment a fresh frame, and of a page that two segments share keeps
only what the second brought.

**StubProofs** (module InterruptStubs).  `StubInv` says for each instruction what
lies on the stack when it is reached: how many words, which of them are the CPU's,
the error code and the number, and which are the saved registers, counted from
`Base` because two stubs push no number.  One lemma per instruction, for the three
kinds of stub at once.  From it: `StubsTransparent` and `StubsBuildOneFrame`, for
every set of gates; `HandlerReturns` is all that tells exceptions from interrupts.

Only model-checked: the liveness properties `ReaderReturns` and `ExecReturns`
(temporal reasoning with fairness and ENABLED is out of the prover's reach), and
what the functions of Library and Descriptors compute (LibraryChecks, over bounded inputs:
their loops are recursive).  Every other property of a passing run is stated by a
theorem.

## 5. Not modelled

The Multiboot header, the GDT and IDT loaders and the build; colours and the
debugging cells of `debug_putc_at`; kmain's own messages, whose `print_char` runs
with interrupts on and may be interrupted between reading the cursor and moving
it; the display of the fault handlers; a segment that shares a page with the one
before it (the hazard at `elf.c:103`: `elf_load` maps the page again and loses what
it copied; no build of the runs has one, `OwnMemoryKept` holds until one is loaded,
and ld aligns segments so that it does not happen); the size of a program's arguments against
its stack; the initrd archive, which no code reads; `kernel_dump.txt`, a generated
listing.  ContextSwitch and SyscallStub end where the first wrong word is used.

## 6. Plan

Done, in this order: PMM and its proofs; Kernel, Processes and the scheduler's
proofs; Keyboard with Console; the stubs; Memory; Library and Descriptors; the
proofs about Memory; the proofs of the refinements of Processes and LineReader, of
the single reader, of `OwnMemory` and of the stubs.

1. **Proofs**: the lemmas about Descriptors that need no recursion (the fields of
   the entries of the GDT and the IDT, the divisor of the PIT); `Memory` as a client
   of PageAllocator, each step one of its allocations or none, so that the abstract
   allocator's promises hold of the composition too.
2. **Not planned**: liveness, and the functions of Library for every input.
