SPECIFICATION Spec
CONSTANTS
    MaximumClients = 2
    MaximumPending = 2
    OverlappingStarts = TRUE
    RacingClaims = FALSE
INVARIANTS OneTransfer
CHECK_DEADLOCK FALSE
