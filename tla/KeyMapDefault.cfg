SPECIFICATION FairSpec
CONSTANTS
    None = None
    Gone = Gone
    Rel = {r1}
    RelKey = {k1}
    PKey = {p1, p2}
    Db = {d1}
    Default = default
    DbKey = {p1}
    DefaultKey = {p1, p2}
    Proc = {a, b}
    Faults = TRUE
INVARIANTS
    EntriesUnderHeader
    KeysRetained
PROPERTIES
    LockReleased
