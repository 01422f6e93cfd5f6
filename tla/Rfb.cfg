SPECIFICATION FairSpec
CONSTANTS
    Regions <- MCRegions
    Looks = {prompt, other}
    Blank = Blank
    Passwords = {TRUE, FALSE}
    ReadTimeout = 2
    MaxRects = 2
    MaxWire = 2
INVARIANTS
    TypeOK
    InSync
    ServerUnderstands
    WithinDeadline
    FrameIsFresh
PROPERTY
    CallsEnd
