SPECIFICATION Spec
CONSTANTS
    Gates <- interrupts_init
CHECK_DEADLOCK FALSE
INVARIANTS
    HandlerGetsFrame
