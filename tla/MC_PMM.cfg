SPECIFICATION Spec
CONSTANTS
    MemorySize <- ThirtyFivePages
    ReservedBytes <- TwentyNinePages
    Garbage <- ZeroOrOnes
INVARIANTS
    TypeOK
    BitmapIsOwnership
    CountIsBitmap
PROPERTIES
    WritesStayInBitmap
    ImplementsAllocator
