SPECIFICATION FairSpec
CONSTANT
    MaxSignals = 1
CHECK_DEADLOCK FALSE
PROPERTY
    StopIsHeard
