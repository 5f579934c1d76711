SPECIFICATION Spec
CONSTANTS
    None = None
    SKey = {s1}
    Proc = {a}
    Standbys = {FALSE}
    MaxTli = 1
    MaxLsn = 2
    SegSize = 2
    MaxRanges = 3
    MaxCount = 1
SYMMETRY Interchangeable
INVARIANT AlwaysReadable
