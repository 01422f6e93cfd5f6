SPECIFICATION Spec
CONSTANTS
    d1 = d1
    d2 = d2
    Daemons = {d1, d2}
    Keep = 2
    Frames <- MCFrames
    Stops <- MCStops
    Nudges = 1
    MaxClock = 1
    MaxFaults = 1
    Album <- MCAlbum
    Operator = Operator
    ConfigurePng = ConfigurePng
    Nothing = Nothing
    Refused = Refused
    MaxPixels = 20
INVARIANTS
    TypeOK
    ReadsAreWhole
    RingIsBounded
    PicturesReadRight
PROPERTIES
    EvictsTheOldest
