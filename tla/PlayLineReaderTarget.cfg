SPECIFICATION ReaderSpec
CONSTANTS
    Alphabet = {"x", "LF", "NUL"}
    MaxLength = 6
    ChunkSize = 3
    LineSize = 2
    Sources = {"block"}
INVARIANTS EveryLineOnce
CHECK_DEADLOCK FALSE
