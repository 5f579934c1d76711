SPECIFICATION FairSpec
CONSTANTS
    None = None
    Proc = {a, b, c}
    Buffers = 2
PROPERTIES
    ReturnsOnceLocated
    WritesOnceLocated
CHECK_DEADLOCK FALSE
