SPECIFICATION Spec
CONSTANTS
    Gates <- AllGates
CHECK_DEADLOCK FALSE
INVARIANTS
    Transparent
    UniformFrame
