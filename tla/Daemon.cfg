SPECIFICATION FairSpec
CONSTANTS
    Threshold = 3
    PingInterval = 1
    RetryInterval = 2
    RecoveryInterval = 3
    PostFixSleep = 4
    MaxPerDay = 1
    Notifies = TRUE
    Launches <- MCAllLaunches
    Faults = {"kill", "ping_lost", "ping_broken", "disk_full", "hang", "swallow"}
    IdracStates = {"ok", "refusing", "dropping", "tearing"}
    BootDelay = 2
    FailureCap = 4
    HistoryCap = 2
INVARIANTS
    TypeOK
    VisitIsEarned
    MisfireNeedsARace
    AcceptedKeyIsNotRepeated
PROPERTIES
    KeepsThePromise
    RescueHappens
    StopIsHonoured
