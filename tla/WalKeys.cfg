SPECIFICATION Spec
CONSTANTS
    None = None
    SKey = {s1, s2}
    Proc = {a, b}
    Standbys = {TRUE, FALSE}
    MaxTli = 2
    MaxLsn = 2
    SegSize = 2
    MaxRanges = 3
    MaxCount = 2
SYMMETRY Interchangeable
INVARIANTS
    TypeOK
    StartsIncrease
    RangesOpen
    WalReadable
    ReaderOK
