SPECIFICATION Spec
CONSTANTS
    i1 = i1
    i2 = i2
    i3 = i3
    w1 = w1
    w2 = w2
    Writers = {w1, w2}
    Versions = {"new", "newer"}
    Absent = "absent"
    Inodes = {i1, i2, i3}
    NoFile = NoFile
    MaxCrashes = 1
SYMMETRY MCSymmetry
INVARIANTS
    TypeOK
    ReadersSeeAllOrNone
    NoLitter
    ReplacedIsGone
PROPERTY
    WritesAreAtomic
