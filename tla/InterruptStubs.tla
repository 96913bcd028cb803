--------------------------- MODULE InterruptStubs ---------------------------
(***************************************************************************)
(* boot/isr_stubs.s: how the kernel enters and leaves its handlers of CPU  *)
(* exceptions and hardware interrupts, instruction by instruction.         *)
(*                                                                         *)
(* The interrupted code is the kernel's: kmain or the worker task.  The C  *)
(* handlers are modelled by what a C function may do to the registers.     *)
(***************************************************************************)
EXTENDS Machine

CONSTANT Gates         \* the vectors that have a gate

\* isr_stubs.s has a stub for each of these, and for no other.
ASSUME GatesAssumption == Gates \subseteq 0..47

VARIABLES vector, before   \* the interrupt taken; the registers it found

vars == <<machine, vector, before>>

\* The vectors to which interrupts_init gives a gate, and all it could.
interrupts_init == {0, 1, 11, 13, 14, 31} \cup {32, 33, 34, 39, 47}
AllGates == 0..47

\* The exceptions for which the CPU pushes an error code.
WithErrorCode == {8, 10, 11, 12, 13, 14, 17, 21, 29, 30}

Frame == <<Value("eflags"), Value("kernel_code"), Value("eip")>>

common_stub ==
    <<I("pusha"), <<"push", "ds">>, <<"segments", "kernel">>, I("call"),
      <<"pop", "ebx">>, <<"segments", "ebx">>, I("popa"), <<"drop", 2>>,
      I("iret")>>

\* The exceptions that isr_stubs.s declares with ISR_ERRCODE.
IsrErrcode == {8, 21, 29, 30, 17} \cup 10..14

\* Mutant: ISR_NOERRCODE pushes no dummy error code.
isr_NoDummy(n) == <<<<"push_byte", n>>>> \o common_stub

\* ISR_ERRCODE or ISR_NOERRCODE, then isr_common_stub.
isr(n) ==
    (IF n \in IsrErrcode THEN <<>> ELSE <<<<"push_byte", 0>>>>)
    \o <<<<"push_byte", n>>>> \o common_stub

irq0 == <<I("pusha"), I("call"), I("popa"), I("iret")>>

\* Mutant: the word of ds is dropped after popa instead of before it.
irq1_DropsDsLate ==
    <<I("pusha"), <<"push", "ds">>, <<"segments", "kernel">>, I("call"),
      I("popa"), <<"drop", 1>>, I("iret")>>

irq1 ==
    <<I("pusha"), <<"push", "ds">>, <<"segments", "kernel">>, I("call"),
      <<"pop", "ebx">>, <<"segments", "ebx">>, I("popa"), I("iret")>>

\* The IRQ macro, then irq_common_stub.
irq(n) == <<<<"push_byte", 0>>, <<"push_byte", n>>>> \o common_stub

Stub(n) == CASE n = 32 -> irq0
             [] n = 33 -> irq1
             [] n < 32 -> isr(n)
             [] OTHER -> irq(n)

Interrupted ==
    [r \in General \cup Segments |->
       IF r \in Segments THEN Value("kernel_data") ELSE Value(r)]

Init ==
    /\ vector \in Gates
    /\ before = Interrupted /\ regs = before
    /\ stack = Frame \o (IF vector \in WithErrorCode
                           THEN <<Value("error_code")>> ELSE <<>>)
    /\ text = Stub(vector)
    /\ resumed = <<>>

\* debug_stub_callee_test, the handler of every exception, never returns: it
\* ends with cli and hlt.
HandlerReturns == vector >= 32

Next ==
    /\ \/ Push("ds") \/ \E n \in 0..47 : PushByte(n)
       \/ Pusha \/ Popa \/ Pop("ebx") \/ Iret
       \/ \E n \in 1..2 : Drop(n)
       \/ \E s \in {"kernel", "ebx"} : LoadSegments(s)
       \/ HandlerReturns /\ Call
    /\ UNCHANGED <<vector, before>>

Spec == Init /\ [][Next]_vars

-----------------------------------------------------------------------------
\* A handler that returns leaves no trace: the interrupted code goes on where
\* it was, with its registers and its stack, whatever the C code did.
Transparent ==
    resumed # <<>> =>
      /\ resumed = <<Value("eip"), Value("kernel_code"), Value("eflags")>>
      /\ regs = before /\ stack = <<>>

AtHandler == text # <<>> /\ Head(text) = I("call")

\* Whether the CPU pushes an error code or not, the C handlers find the same
\* frame on the stack: the number at index 9, the error code at 10, eip at 11
\* (interrupts.c:79-86).
UniformFrame ==
    AtHandler /\ vector \notin {32, 33} =>
      /\ Peek(9) = Word("byte", vector)
      /\ Peek(10) = IF vector \in WithErrorCode THEN Value("error_code")
                    ELSE Word("byte", 0)
      /\ Peek(11) = Value("eip")

\* The C handlers get the address of that frame: their only parameter, the
\* word on top of the stack at the call, is esp_at_call (interrupts.c:192).
HandlerGetsFrame ==
    AtHandler /\ vector \notin {32, 33} => Peek(0) = Address(Len(stack))
=============================================================================
