\* Every short file, one to three lines of it, and two changes while it is read.
SPECIFICATION Spec
CONSTANTS
    InitialFiles <- Files
    Limits = {0, 1, 2, 3}
    MaxLines = 3
    SmallSize = 4
    BufferSize = 2
    TokenLimit = 3
    Appended = {"x", "LF"}
    MaxWrites = 2
INVARIANTS TypeOK ScannedTail CollectedTail PlainTail
PROPERTIES FetchEnds
