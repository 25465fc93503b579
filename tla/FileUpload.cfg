SPECIFICATION FairSpec
CONSTANTS
    UnmatchedLimit = 2
    SilentLimit = 3
    RetryLimit = 2
    IdleLimit = 4
    FrameCounts = {0, 1, 3}
    Faults = {"parent", "open", "write", "rename"}
    MaxWriteFaults = 2
INVARIANTS TypeOK FirmwareNeverTorn SuccessIsWhole RequestAtBoundary
PROPERTIES UploadEndsClean
