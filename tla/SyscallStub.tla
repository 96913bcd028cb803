---------------------------- MODULE SyscallStub ----------------------------
(***************************************************************************)
(* kernel/syscall_handler.s: the way of int 0x80 from a program in ring 3  *)
(* to syscall_handler and back, instruction by instruction.  The CPU is    *)
(* taken to switch to an empty stack of ring 0, although gdt.c sets up no  *)
(* TSS that would tell it where that is.                                   *)
(***************************************************************************)
EXTENDS Machine

VARIABLE syscall_number   \* what syscall_handler took for it, or no word yet

vars == <<machine, syscall_number>>

None == Value("none")

syscall_interrupt_handler_asm ==
    <<I("pusha"), <<"push", "ds">>, <<"push", "es">>, <<"push", "fs">>,
      <<"push", "gs">>, <<"segments", "kernel">>, <<"push", "esp">>,
      I("lea"), <<"push", "esp">>, I("call"), <<"drop", 1>>, <<"pop", "gs">>,
      <<"pop", "fs">>, <<"pop", "es">>, <<"pop", "ds">>, I("popa"), I("iret")>>

Init ==
    /\ regs = [r \in General \cup Segments |->
                 IF r \in Segments THEN Value("user_data") ELSE Value(r)]
    /\ stack = <<Value("user_data"), Value("user_esp"), Value("eflags"),
                 Value("user_code"), Value("eip")>>
    /\ text = syscall_interrupt_handler_asm
    /\ resumed = <<>>
    /\ syscall_number = None

\* mov eax, esp; add eax, 16
Lea ==
    /\ Fetch(I("lea"))
    /\ regs' = [regs EXCEPT !["eax"] = Address(Len(stack) - 4)]
    /\ UNCHANGED <<stack, resumed>>

STACK_IDX_EAX == 11

\* syscall_handler(stack_ptr_raw), for a call that does not block: it reads
\* regs[STACK_IDX_EAX] and writes its result there.
syscall_handler ==
    /\ Fetch(I("call"))
    /\ LET eax == Peek(0).at - STACK_IDX_EAX IN
       /\ syscall_number' = stack[eax]
       /\ stack' = [stack EXCEPT ![eax] = Value("result")]
    /\ UNCHANGED <<regs, resumed>>

Next ==
    \/ syscall_handler
    \/ /\ \/ Pusha \/ Popa \/ Lea \/ Drop(1) \/ Iret
          \/ \E r \in Segments \cup {"esp"} : Push(r)
          \/ \E r \in Segments : Pop(r)
          \/ LoadSegments("kernel")
       /\ UNCHANGED syscall_number

Spec == Init /\ [][Next]_vars

-----------------------------------------------------------------------------
\* regs[11] holds the number the program put in eax (syscall.c:34-48).
NumberIsEax == syscall_number \in {None, Value("eax")}
=============================================================================
