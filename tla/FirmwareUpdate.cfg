SPECIFICATION FairSpec
CONSTANTS
    Kinds = {"main", "controller", "both", "bad"}
    Blocks = 2
    MaxUploads = 2
    MaxDisturbances = 2
    UploadDuringUpdate = FALSE
    StageDuringTransfer = FALSE
    WebDuringUpdate = FALSE
    Faults = {"ota"}
INVARIANTS TypeOK BootImageWhole RunningImageWhole
PROPERTIES StagedIsDelivered AggregateIsApplied AggregateIsConsumed StagedIsFetched
CHECK_DEADLOCK FALSE
