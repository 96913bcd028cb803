------------------------------ MODULE Machine ------------------------------
(***************************************************************************)
(* The part of the i386 that the assembly stubs of AI-OS work on: the      *)
(* registers, the kernel stack and the instructions still to execute.      *)
(*                                                                         *)
(* A 32-bit word is symbolic: the value some register had, or an address   *)
(* in the stack.  The stack is a sequence that grows at its end: its n-th  *)
(* word has the address Address(n), and [esp + 4 * k] is Peek(k).          *)
(***************************************************************************)
EXTENDS Integers, Sequences, SequencesExt

VARIABLES
    text,      \* the instructions still to execute, as <<name, operand>>
    regs,      \* the general registers but esp, and the segment registers
    stack,     \* the kernel stack
    resumed    \* <<eip, cs, eflags>> as iret popped them, or <<>>

machine == <<text, regs, stack, resumed>>

Word(of, at) == [of |-> of, at |-> at]
Value(of) == Word(of, 0)
Address(n) == Word("stack", n)
Esp == Address(Len(stack))
Peek(k) == stack[Len(stack) - k]

Segments == {"ds", "es", "fs", "gs"}
General == {"eax", "ecx", "edx", "ebx", "ebp", "esi", "edi"}
Selectors == {Value("kernel_data"), Value("user_data")}

I(name) == <<name, "none">>

Fetch(instruction) ==
    text # <<>> /\ Head(text) = instruction /\ text' = Tail(text)

\* push of one register, of esp itself, and of a number.
Push(r) ==
    /\ Fetch(<<"push", r>>)
    /\ stack' = Append(stack, IF r = "esp" THEN Esp ELSE regs[r])
    /\ UNCHANGED <<regs, resumed>>

PushByte(n) ==
    /\ Fetch(<<"push_byte", n>>)
    /\ stack' = Append(stack, Word("byte", n))
    /\ UNCHANGED <<regs, resumed>>

\* pop: a segment register takes only a selector, or the CPU faults.
Pop(r) ==
    /\ Fetch(<<"pop", r>>)
    /\ r \in Segments => Peek(0) \in Selectors
    /\ regs' = [regs EXCEPT ![r] = Peek(0)]
    /\ stack' = Front(stack)
    /\ UNCHANGED resumed

\* pushad: esp is pushed as it was before.
Pusha ==
    /\ Fetch(I("pusha"))
    /\ stack' = stack \o <<regs["eax"], regs["ecx"], regs["edx"], regs["ebx"],
                           Esp, regs["ebp"], regs["esi"], regs["edi"]>>
    /\ UNCHANGED <<regs, resumed>>

\* popad: the word of esp is skipped.
Popa ==
    /\ Fetch(I("popa"))
    /\ regs' = [regs EXCEPT !["edi"] = Peek(0), !["esi"] = Peek(1),
                            !["ebp"] = Peek(2), !["ebx"] = Peek(4),
                            !["edx"] = Peek(5), !["ecx"] = Peek(6),
                            !["eax"] = Peek(7)]
    /\ stack' = SubSeq(stack, 1, Len(stack) - 8)
    /\ UNCHANGED resumed

\* mov of one selector, in eax or ebx, to every data segment register.
LoadSegments(selector) ==
    /\ Fetch(<<"segments", selector>>)
    /\ regs' = [r \in DOMAIN regs |->
                  IF r \notin Segments THEN regs[r]
                  ELSE IF selector = "kernel" THEN Value("kernel_data")
                  ELSE regs[selector]]
    /\ UNCHANGED <<stack, resumed>>

\* add esp, 4 * n
Drop(n) ==
    /\ Fetch(<<"drop", n>>)
    /\ stack' = SubSeq(stack, 1, Len(stack) - n)
    /\ UNCHANGED <<regs, resumed>>

\* call of a C function, which may leave anything in eax, ecx and edx.
Call ==
    /\ Fetch(I("call"))
    /\ \E changed \in SUBSET {"eax", "ecx", "edx"} :
         regs' = [r \in DOMAIN regs |->
                    IF r \in changed THEN Value("C") ELSE regs[r]]
    /\ UNCHANGED <<stack, resumed>>

\* iret within ring 0.
Iret ==
    /\ Fetch(I("iret"))
    /\ resumed' = <<Peek(0), Peek(1), Peek(2)>>
    /\ stack' = SubSeq(stack, 1, Len(stack) - 3)
    /\ UNCHANGED regs
=============================================================================
