SPECIFICATION MCSpec
CONSTANTS
    FileBlocks = 3
    WrapBlocks = 8
    SeekBlocks = 4
    Requests = {1, 2, 3, 4}
    UnexpectedLimit = 3
    DownloadFaults = {"open", "read", "workspace", "send"}
    Hosts = {"a", "b"}
    Files = {"f", "g"}
    Lines <- MCLines
    TailEof = {"f"}
    MaxLines = 2
    MaxGeneration = 2
    RepeatedPlay = FALSE
    Overlap = FALSE
    PlayFaults = {"open", "read", "memory"}
    Alphabet = {"x", "LF", "NUL"}
    MaxLength = 6
    ChunkSize = 3
    LineSize = 2
    Sources = {"line", "block"}
INVARIANTS StreamTypesOK PlayIsFaithful LinesArrive
PROPERTIES DownloadIsFaithful RunningPlayIsKept
CHECK_DEADLOCK FALSE
