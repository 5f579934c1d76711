SPECIFICATION MCSpec
CONSTANTS
    None = None
    Proc = {p1}
    Rel = {r1}
    Key = {k1, k2}
    IO = {h1}
    MaxBlocks = 2
    MaxCrashes = 1
    ShortReads = TRUE
    AesBlock = 2
    Batch = 2
    SegSize = 4
    Jobs <- MCJobs
    Eighth = 1
    ByteBits = 2
INVARIANT
    ReadsRight
