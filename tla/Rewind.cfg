SPECIFICATION Spec
CONSTANTS
    None = None
    Rels = {1, 2}
    LastSeg = 1
    SegBlocks = 2
    MaxLen <- MCMaxLen
    Forks = {"fsm"}
    Kinds = {"plain", "same", "own"}
    Modes = {"local", "remote"}
    Queues = {2, 100}
    ChunkBlocks = 2
    NWal = 3
    WalKeys <- MCWalKeys
    WalDir = 3
CHECK_DEADLOCK FALSE
INVARIANTS
    RelationsIntact
    NeverEncryptedTwice
    WalIntact
