--------------------------- MODULE LibraryChecks ---------------------------
(***************************************************************************)
(* The functions of Library and Descriptors against what they should  *)
(* compute, over bounded inputs.  TLC evaluates these assumptions at the start of each run whose *)
(* module extends this one.                                                *)
(***************************************************************************)
EXTENDS Library, Descriptors

Alphabet == {97, 98}
Strings(n) == UNION {[1..k -> Alphabet] : k \in 0..n}

\* strcmp: 0 for equal strings only, and otherwise the order of bytes at the
\* first difference, a proper prefix coming first.
Before(s, t) ==
    \/ Len(s) < Len(t) /\ s = SubSeq(t, 1, Len(s))
    \/ \E k \in DOMAIN s \cap DOMAIN t :
         SubSeq(s, 1, k - 1) = SubSeq(t, 1, k - 1) /\ s[k] < t[k]
ASSUME StrcmpOrders ==
    \A s, t \in Strings(4) :
      LET d == strcmp(CString(s), CString(t)) IN
      /\ d = 0 <=> s = t
      /\ d < 0 <=> Before(s, t)

\* strstr: the first place where the needle stands, although the search goes
\* back after a partial match; the empty one stands everywhere.
Places(s, needle) ==
    {p \in 1..(Len(s) + 1) : p + Len(needle) <= Len(s) + 1
                             /\ SubSeq(s, p, p + Len(needle) - 1) = needle}
ASSUME StrstrFindsFirst ==
    \A s \in Strings(6), needle \in Strings(3) :
      LET p == strstr(CString(s), CString(needle)) IN
      IF Places(s, needle) = {} THEN p = NotFound
      ELSE p \in Places(s, needle) /\ \A q \in Places(s, needle) : p <= q

\* memcpy: the bytes of the source as they were, elsewhere nothing changes,
\* whenever the destination does not begin inside the source.
ASSUME MemcpyCopies ==
    LET mem == [a \in 1..8 |-> 10 * a] IN
    \A dest, src \in 1..8, n \in 0..4 :
      (dest + n <= 9 /\ src + n <= 9 /\ dest \notin (src + 1)..(src + n - 1)) =>
        memcpy(mem, dest, src, n) =
          [a \in 1..8 |-> IF a \in dest..(dest + n - 1) THEN mem[a - dest + src]
                                                        ELSE mem[a]]

\* Numbers read back: itoa in every base it accepts, with no zero in front
\* and nothing for a base it refuses; print_hex with its eight digits.
ValueOf(digit) == IF digit < 58 THEN digit - 48
                  ELSE IF digit < 91 THEN digit - 65 + 10 ELSE digit - 97 + 10
Number(s, base) == FoldLeft(LAMBDA n, c : n * base + ValueOf(c), 0, s)
Values == 0..40 \cup {99, 100, 255, 256, 1295, 1296, 65535, 65536, 2147483647}
ASSUME ItoaReadsBack ==
    \A base \in 2..36, value \in Values :
      LET s == Front(itoa(value, base)) IN
      /\ Last(itoa(value, base)) = NUL
      /\ Number(s, base) = value
      /\ \A k \in DOMAIN s : ValueOf(s[k]) \in 0..(base - 1)
      /\ s[1] = 48 <=> value = 0
      /\ Len(s) <= 32
ASSUME ItoaRefuses == \A base \in {-1, 0, 1, 37} : itoa(5, base) = <<NUL>>
ASSUME PrintHexReadsBack ==
    \A value \in Values :
      LET s == print_hex(value) IN
      Len(s) = 10 /\ Number(SubSeq(s, 3, 10), 16) = value

\* The shell's lines, put together from words, parts of words and blanks.
Pieces == {Front(bonjour), Front(heure), Front(aide), <<98, 111, 110>>, <<32>>}
Lines == {FlattenSeq(ps) : ps \in UNION {[1..k -> Pieces] : k \in 0..3}}

\* What is read back from the block, the way it was written, are the arguments
\* and their number; the block lies below the top of the stack and esp is its
\* first address.
ReadBack(block) ==
    [i \in 1..block.mem[block.esp] |->
       StringAt(block.mem, block.mem[block.esp + i * WORD])]
Top == 1000
ASSUME ArgumentsReadBack ==
    \A line \in Lines : \A argv \in shell_main(CString(line)) \cup {<<>>} :
      LET block == argv_block(argv, Top) IN
      /\ ReadBack(block) = argv
      /\ block.mem[block.esp + (Len(argv) + 1) * WORD] = NUL
      /\ \A i \in DOMAIN argv : block.mem[block.esp + i * WORD] \in block.esp..(Top - 1)

\* But main is entered at the block itself, as by a jump.  Compiled as a
\* function it takes the first word for its return address, the pointer to
\* argv[0] for argc, and the one to argv[1] for argv.
ASSUME MainSeesPointers ==
    \A line \in Lines : \A argv \in shell_main(CString(line)) :
      LET block == argv_block(argv, Top) IN
      /\ block.mem[block.esp + WORD] # Len(argv)
      /\ StringAt(block.mem, block.mem[block.esp + WORD]) = fake_ai_bin
      /\ StringAt(block.mem, block.mem[block.esp + 2 * WORD]) = CString(line)

\* A line of blanks starts no program; for any other one fake_ai, given its
\* arguments, greets before it tells the time, and helps only if it is asked
\* for nothing else.
Has(line, word) == Places(line, Front(word)) # {}
ASSUME AnswersTheLine ==
    \A line \in Lines :
      /\ shell_main(CString(line)) = {} <=> \A k \in DOMAIN line : line[k] = 32
      /\ \A argv \in shell_main(CString(line)) :
           fake_ai_main(Len(argv), ReadBack(argv_block(argv, Top))) =
             CASE Has(line, bonjour) -> "greeting"
               [] Has(line, heure) /\ ~Has(line, bonjour) -> "time"
               [] line = Front(aide) -> "help"
               [] OTHER -> "sorry"

-----------------------------------------------------------------------------
\* Every segment starts at 0 and covers 4 GB, and each selector the kernel
\* loads names the kind and the ring it is meant for.
ASSUME SegmentsAreFlat ==
    \A k \in 2..5 :
      /\ SegmentBase(gdt_init[k]) = Zero
      /\ SegmentLimit(gdt_init[k]) = <<15, 65535>> /\ InPages(gdt_init[k])
ASSUME SelectorsFit ==
    \A s \in {KERNEL_CODE, KERNEL_DATA, USER_CODE_SELECTOR, USER_DATA_SELECTOR} :
      LET access == Descriptor(s).access IN
      /\ Present(access) /\ Ring(access) = s % 4
      /\ IsCode(access) <=> s \in {KERNEL_CODE, USER_CODE_SELECTOR}

\* Every gate leads to its own handler, in the kernel's code segment, with
\* IF cleared on the way: int 0x80 too, although syscall.c:150 calls it a
\* trap gate.  Programs can enter by int 0x80 alone.
ASSUME GatesLeadToHandlers ==
    \A n \in 0..255 : Present(idt[n].flags) =>
      /\ <<idt[n].base_high, idt[n].base_low>> = Handler(n)
      /\ IsCode(Descriptor(idt[n].selector).access)
      /\ GateType(idt[n].flags) = InterruptGate
      /\ Ring(idt[n].flags) = 3 <=> n = syscall_init

\* The controllers deliver the timer's and the keyboard's interrupts only,
\* each at the vector that has its gate, and none at an exception's.
ASSUME OnlyTimerAndKeyboard ==
    LET writes == pic_remap(32, 40) IN
    /\ Delivered("PIC1_DATA", writes) = {32, 33}
    /\ Delivered("PIC2_DATA", writes) = {}
    /\ \A n \in Delivered("PIC1_DATA", writes) : Present(idt[n].flags)

\* The divisor gives the frequency asked for, 100 Hz in kmain, down to the
\* 19 Hz below which it would not fit.
ASSUME TimerRate ==
    \A frequency \in {19, 20, 50, 100, 1000} :
      LET bytes == timer_init(frequency) IN
      /\ bytes[1] \in 0..255 /\ bytes[2] \in 0..255
      /\ PIT_BASE_FREQUENCY \div (bytes[1] + 256 * bytes[2]) = frequency

\* A new task starts at its entry point with IF set, a program in ring 3 on
\* its own stack, and nothing is left on its kernel stack.
ASSUME NewTasksStart ==
    \A entry \in {4096, 65536}, esp \in {1000, 2000} :
      /\ resume(create_task_frame(entry)) =
           [eip |-> entry, cs |-> KERNEL_CODE, eflags |-> EFLAGS,
            esp |-> 0, ss |-> KERNEL_DATA, left |-> <<>>]
      /\ resume(create_user_process_frame(entry, esp)) =
           [eip |-> entry, cs |-> USER_CODE_SELECTOR, eflags |-> EFLAGS,
            esp |-> esp, ss |-> USER_DATA_SELECTOR, left |-> <<>>]

\* A task that was switched out goes on at the right place, but with the
\* pointers schedule() passed for its code segment and its flags: iret stands
\* where ret would fit.  TCBs lie at multiples of the page size, cpu_state 4
\* bytes into them.
ASSUME SwitchedOutHasNoFrame ==
    \A old_state, new_state \in {4096 * k + 4 : k \in 32..40} :
      LET task == resume(parked_frame(new_state, old_state, 65536)) IN
      task.eip = 65536 /\ task.cs = old_state /\ task.eflags = new_state
=============================================================================
