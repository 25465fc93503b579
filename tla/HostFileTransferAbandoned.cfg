SPECIFICATION FairSpec
CONSTANTS
    MaximumClients = 2
    MaximumPending = 2
    OverlappingStarts = FALSE
    RacingClaims = FALSE
PROPERTIES AbandonedIsReleased
CHECK_DEADLOCK FALSE
