---------------------------- MODULE ContextSwitch ----------------------------
(***************************************************************************)
(* boot/context_switch.s, instruction by instruction, up to the load of    *)
(* the new stack pointer: schedule() switches from task 1 to task 2.       *)
(***************************************************************************)
EXTENDS Machine

VARIABLE esp   \* cpu_state.esp of each task

vars == <<machine, esp>>

Tasks == {1, 2}
cpu_state(t) == Word("cpu_state", t)   \* the address of that field of a task

context_switch ==
    <<<<"mov_esi", 1>>, I("pushfd"), I("pusha"), I("mov [esi + OFF_ESP], esp"),
      <<"mov_edi", 2>>, I("mov esp, [edi + OFF_ESP]")>>

\* The stack as schedule() leaves it at the call, from its own frame on.
Init ==
    /\ regs = [r \in General |-> Value(r)]
    /\ stack = <<Value("frame"), cpu_state(2), cpu_state(1), Value("return")>>
    /\ text = context_switch
    /\ resumed = <<>>
    /\ esp = [t \in Tasks |-> Value("parked")]

\* mov r, [esp + 4 * k]
MovFromStack(name, r, k) ==
    /\ Fetch(<<name, k>>)
    /\ regs' = [regs EXCEPT ![r] = Peek(k)]
    /\ UNCHANGED <<stack, resumed, esp>>

Pushfd ==
    /\ Fetch(I("pushfd"))
    /\ stack' = Append(stack, Value("eflags"))
    /\ UNCHANGED <<regs, resumed, esp>>

SaveEsp ==
    /\ Fetch(I("mov [esi + OFF_ESP], esp"))
    /\ regs["esi"].of = "cpu_state"
    /\ esp' = [esp EXCEPT ![regs["esi"].at] = Esp]
    /\ UNCHANGED <<regs, stack, resumed>>

Next == \/ MovFromStack("mov_esi", "esi", 1) \/ Pushfd
        \/ Pusha /\ UNCHANGED esp
        \/ SaveEsp \/ MovFromStack("mov_edi", "edi", 2)

Spec == Init /\ [][Next]_vars

-----------------------------------------------------------------------------
\* The stack pointer is loaded from new_state_ptr, which is still found at
\* [esp + 8] (context_switch.s:41-42).
LoadsNewState ==
    Len(text) = 1 => regs["edi"] = cpu_state(2)
=============================================================================
