SPECIFICATION Spec
CONSTANTS
    Threshold = 2
    PingInterval = 1
    RetryInterval = 1
    RecoveryInterval = 2
    PostFixSleep = 3
    MaxPerDay = 1
    Notifies = TRUE
    Launches <- MCReadyLaunches
    Faults = {"disk_full"}
    IdracStates = {"ok"}
    BootDelay = 1
    FailureCap = 3
    HistoryCap = 2
INVARIANT
    NoFailureIsFatal
