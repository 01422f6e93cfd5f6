SPECIFICATION ServiceSpec
CONSTANTS
    MaxSignals = 2
    MaxDuration = 2592000
    Keysyms <- MCKeysyms
    NotFinite = NotFinite
    Huge = Huge
    Absent = Absent
    ConfigError = ConfigError
    Uncaught = Uncaught
    NoConfig = NoConfig
    Documents <- MCDocuments
    Loaded <- MCLoaded
    Supervisors = {"systemd", "rc", "hand"}
    Troubles = {"none", "log file", "uncalibrated", "odd calibration", "rival", "state dir", "damaged history", "odd history"}
\* A handler may wait for ever in a daemon that nobody kills.
CHECK_DEADLOCK FALSE
INVARIANTS
    ServiceTypeOK
    NoSleepAfterStop
    EventsArriveOnce
PROPERTIES
    
    StopIsObeyed
    ServiceComesUp
