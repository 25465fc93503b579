SPECIFICATION FairSpec
CONSTANTS
    MaximumClients = 1
    MaximumPending = 2
    OverlappingStarts = TRUE
    RacingClaims = TRUE
INVARIANTS TypeOK OwnershipBacked
PROPERTIES PendingStarts
CHECK_DEADLOCK FALSE
