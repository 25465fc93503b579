SPECIFICATION FairSpec
CONSTANTS
    MaximumClients = 3
    MaximumPending = 2
    OverlappingStarts = FALSE
    RacingClaims = FALSE
INVARIANTS OneTransfer
PROPERTIES ReleasedByOwner ExpiredIsReaped
CHECK_DEADLOCK FALSE
