SPECIFICATION MCSpec
CONSTANTS
    None = None
    Proc = {p1, p2}
    Rel = {r1}
    Key = {k1, k2}
    IO = {h1}
    MaxBlocks = 2
    MaxCrashes = 1
    ShortReads = FALSE
    Eighth = 1
    ByteBits = 2
    AesBlock = 2
    Batch = 2
    SegSize = 10
    Jobs <- MCJobs
SYMMETRY Symmetric
INVARIANTS
    StoredKeyOpens
    HandlesCurrent
    ReadsRight
    TempKeysOwned
    RangeCryptsItsBytes
    SegmentVectors
    BlockVectors
