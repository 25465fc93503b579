SPECIFICATION MCSpec
CONSTANTS
    MaxConnections = 3
    MaxExercises = 3
    MaxRequests = 3
    SecondExercise = FALSE
    NvsDuringExercise = FALSE
    Slots = {"a", "b"}
    DataLimit = 1
    OtherLimit = 2
    Stalls = FALSE
    LeaveListing = FALSE
    QueueLimit = 2
    FrameSize = 2
    FrameIds = 4
    Overlaps = {}
    MaxEvents = 2
    Capacity = 2
    WriteInterval = 1
    StatusPeriod = 1
    DiagnosticPeriod = 2
    AlarmPeriod = 1
    SlowWrites = FALSE
    HeardKinds = {"firmware", "serial"}
    Lateness = 1
INVARIANTS TransportTypesOK
PROPERTIES SlotEndsClean OutputServes UsbDelivers UsbRecovers LinkServes
CHECK_DEADLOCK FALSE
