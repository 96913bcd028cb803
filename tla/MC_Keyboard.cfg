SPECIFICATION Spec
CONSTANTS
    Columns = 2
    Rows = 2
    Readers = {shell, other}
    NoTask = NoTask
    Letters = {"a", "b"}
    BufferSize = 3
    MaxWord = 4
    Sizes = {0, 2, 4}
SYMMETRY ReaderSymmetry
INVARIANTS
    TypeOK
    EchoShowsLine
PROPERTIES
    WritesStayInUserBuffer
    ImplementsLineReader
