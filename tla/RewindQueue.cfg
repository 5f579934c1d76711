SPECIFICATION Spec
CONSTANTS
    None = None
    Rels = {1, 2}
    LastSeg = 0
    SegBlocks = 3
    MaxLen <- MCMaxLen
    Forks = {"fsm"}
    Kinds = {"plain", "same", "own"}
    Modes = {"remote"}
    Queues = {1}
    ChunkBlocks = 1
    NWal = 1
    WalKeys <- MCWalKeys
    WalDir = 3
CHECK_DEADLOCK FALSE
INVARIANT
    AllRelationsIntact
