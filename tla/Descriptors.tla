---------------------------- MODULE Descriptors ----------------------------
(***************************************************************************)
(* What kmain programs into the CPU, the interrupt controllers and the     *)
(* timer, and the stacks that new tasks start from.                        *)
(*                                                                         *)
(* A 32-bit word is <<its upper half, its lower half>>.                    *)
(***************************************************************************)
EXTENDS Integers, Sequences, SequencesExt

Zero == <<0, 0>>
FourGB == <<65535, 65535>>

-----------------------------------------------------------------------------
(***************************************************************************)
(* The global descriptor table.                                            *)
(***************************************************************************)
gdt_set_gate(base, limit, access, gran) ==
    [base_low |-> base[2], base_middle |-> base[1] % 256,
     base_high |-> base[1] \div 256,
     limit_low |-> limit[2],
     granularity |-> (limit[1] % 16) + 16 * (gran \div 16),
     access |-> access]

gdt_init ==
    <<gdt_set_gate(Zero, Zero, 0, 0),
      gdt_set_gate(Zero, FourGB, 154, 207),     \* 0x9A, 0xCF: kernel code
      gdt_set_gate(Zero, FourGB, 146, 207),     \* 0x92: kernel data
      gdt_set_gate(Zero, FourGB, 250, 207),     \* 0xFA: user code
      gdt_set_gate(Zero, FourGB, 242, 207)>>    \* 0xF2: user data

\* How the CPU reads an entry, found by a selector.
Descriptor(selector) == gdt_init[selector \div 8 + 1]
SegmentBase(d) == <<d.base_high * 256 + d.base_middle, d.base_low>>
SegmentLimit(d) == <<d.granularity % 16, d.limit_low>>
InPages(d) == d.granularity \div 128 = 1
Present(access) == access \div 128 = 1
Ring(access) == access \div 32 % 4
IsCode(access) == access \div 8 % 2 = 1

KERNEL_CODE == 8
KERNEL_DATA == 16
USER_CODE_SELECTOR == 24 + 3
USER_DATA_SELECTOR == 32 + 3

-----------------------------------------------------------------------------
(***************************************************************************)
(* The interrupt descriptor table.                                         *)
(***************************************************************************)
idt_set_gate(base, sel, flags) ==
    [base_low |-> base[2], base_high |-> base[1], selector |-> sel,
     always0 |-> 0, flags |-> flags]

\* Handlers are at distinct addresses.
Handler(n) == <<16 + n, 65535 - n>>

interrupts_init == {0, 1, 11, 13, 14, 31} \cup {32, 33, 34, 39, 47}
syscall_init == 128     \* 0x80

idt == [n \in 0..255 |->
          IF n = syscall_init THEN idt_set_gate(Handler(n), KERNEL_CODE, 238)
          ELSE IF n \in interrupts_init
            THEN idt_set_gate(Handler(n), KERNEL_CODE, 142)
          ELSE idt_set_gate(Zero, 0, 0)]

GateType(flags) == flags % 16
InterruptGate == 14     \* IF is cleared on the way in; 15 is a trap gate

-----------------------------------------------------------------------------
(***************************************************************************)
(* The two interrupt controllers and the timer.                            *)
(***************************************************************************)
pic_remap(offset1, offset2) ==
    <<<<"PIC1_COMMAND", 17>>, <<"PIC2_COMMAND", 17>>,
      <<"PIC1_DATA", offset1>>, <<"PIC2_DATA", offset2>>,
      <<"PIC1_DATA", 4>>, <<"PIC2_DATA", 2>>,
      <<"PIC1_DATA", 1>>, <<"PIC2_DATA", 1>>,
      <<"PIC1_DATA", 252>>, <<"PIC2_DATA", 255>>>>

\* A controller takes, after its command, its first vector, its place in the
\* cascade, its mode, and from then on masks.
Taken(port, writes) == SelectSeq(writes, LAMBDA w : w[1] = port)
Masked(mask, line) == mask \div 2^line % 2 = 1
Delivered(port, writes) ==
    {Taken(port, writes)[1][2] + line :
       line \in {l \in 0..7 : ~Masked(Last(Taken(port, writes))[2], l)}}

PIT_BASE_FREQUENCY == 1193182

\* The divisor is a uint16_t, written in two bytes.
timer_init(frequency) ==
    LET divisor == (PIT_BASE_FREQUENCY \div frequency) % 65536
    IN <<divisor % 256, divisor \div 256>>

-----------------------------------------------------------------------------
(***************************************************************************)
(* Stacks of tasks that do not run.  They grow at their end.               *)
(***************************************************************************)
EFLAGS == 514    \* 0x202: IF
Zeros == [k \in 1..8 |-> 0]

create_task_frame(entry_point) ==
    <<EFLAGS, KERNEL_CODE, entry_point, EFLAGS>> \o Zeros

create_user_process_frame(entry_point, esp) ==
    <<USER_DATA_SELECTOR, esp, EFLAGS, USER_CODE_SELECTOR, entry_point, EFLAGS>>
      \o Zeros

\* What schedule() and the first half of context_switch leave of a task.
parked_frame(new_state, old_state, return) ==
    <<new_state, old_state, return, EFLAGS>> \o Zeros

\* The second half: popad, popfd, iret, which to ring 3 pops esp and ss too.
resume(stack) ==
    LET n == Len(stack) - 9
        outer == stack[n - 1] % 4 = 3
    IN [eip |-> stack[n], cs |-> stack[n - 1], eflags |-> stack[n - 2],
        esp |-> IF outer THEN stack[n - 3] ELSE 0,
        ss |-> IF outer THEN stack[n - 4] ELSE KERNEL_DATA,
        left |-> SubSeq(stack, 1, IF outer THEN n - 5 ELSE n - 3)]
=============================================================================
