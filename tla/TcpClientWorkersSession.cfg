SPECIFICATION ClientFairSpec
CONSTANTS
    MaxConnections = 3
    MaxExercises = 3
    MaxRequests = 3
    SecondExercise = TRUE
    NvsDuringExercise = FALSE
INVARIANTS SessionOutlivesWorker
CHECK_DEADLOCK FALSE
