SPECIFICATION MCSpec
CONSTANTS
    MaxClients = 4
    ReportsOverlap = FALSE
    MaxPieces = 3
    PerFrame = 2
    FilesChange = FALSE
    Users = {u1, u2}
    NoUser = NoUser
    Keys = {k1, k2}
    Values = {v1}
    Unset = Unset
    ReadFaults = FALSE
    RenameFaults = FALSE
    Outages = {"read", "write", "remove", "restore", "save"}
    FreeCopies = FALSE
    MaxFragments = 3
    SequenceLimit = 2
    Wirings = {"stack", "callbacks"}
    Faults = {"allocate"}
    Networks = {n1, n2}
    NoNetwork = NoNetwork
    Commanders = {"tcp", "usb"}
    MaxEvents = 1
    FinalRetry = 2
    CommandsOverlap = FALSE
    LateEvents = FALSE
    AcceptsConnected = FALSE
    StationFaults = {"ssid", "config", "create"}
    ApHosts = {h1}
    NoHost = NoHost
    MaxJobs = 3
    ApCapacity = 1
    ApKeys = {"enabled", "ssid"}
    ApFaults = {"allocate", "write", "radio"}
    Periods = {0, 1, 3}
    FirstLimit = 2
    RestartDelay = 2
    PdoCount = 3
    Timers = {2, 3}
    Slots = 2
    HeartbeatPeriods = {0, 1}
    MaxAttempts = 2
    MaxFrames = 3
    Inputs = {i1, i2}
    NoInput = NoInput
    LateAnswers = FALSE
    Overtakes = FALSE
    Addresses = {a1, a2}
    NoAddress = NoAddress
    Writers = {"event", "tcp"}
    Bursters = {b1}
    MaxSockets = 2
    BurstsOverlap = FALSE
    FieldRaces = FALSE
    Cards = {c1, c2}
    NoCard = NoCard
    Required = 3
    MaxRecords = 2
    LogLimit = 2
    QuickRemovals = FALSE
    SdFaults = {"mount", "open", "rename"}
    Second = 2
    MaxTicks = 4
    EventCapacity = 2
    StaleEvents = FALSE
    Floods = FALSE
    CounterFaults = {"write"}
    Askers = {"tcp", "usb"}
    Serials = {s1, s2}
    NoValue = NoValue
    OperationSlots = 2
    SettersOverlap = FALSE
    IdentityFaults = {"set", "commit", "first"}
    MaxSegments = 3
    MaxWall = 4
    CardBlocks = 4
    FramesPerFile = 2
    QuietLimit = 0
    ClockSteps = FALSE
    QuickSegments = FALSE
    VideoFaults = {"write", "usage", "remove"}
    Viewers = {w1, w2}
    NoViewer = NoViewer
    MaxGenerations = 5
    MaxConnections = 3
    ControlCapacity = 2
    LingersOn = FALSE
    WelcomesLost = FALSE
    LiveFaults = {"capture", "receive"}
    PreviewSockets = {1, 2}
    MaxSessions = 2
    MaxPreviewGenerations = 5
    LastFrame = 1
    ArbiterRaces = FALSE
    PreviewFaults = {"send", "receive", "create"}
    MaxSent = 2
    UartFrame = 8
    HostFrame = 8
    UartRead = 5
    HostRead = 5
    UartCapacity = 14
    UartDiscard = 3
    CheckLimit = 2
    HeaderLimit = 1
    BodyLimit = 2
    BackToBack = FALSE
    HeaderSilence = FALSE
INVARIANTS ServiceTypesOK DestinationsAgree RecordsDelivered AcceptedValuesStay ConnectivityServes CanServes SdCardServes MediaServes RecordsStayTrue DecoderFaithful
PROPERTIES ImplementsSettings
CHECK_DEADLOCK FALSE
