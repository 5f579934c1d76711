SPECIFICATION Spec
CONSTANTS
    None = None
    Gone = Gone
    Rel = {r1, r2}
    RelKey = {k1, k2}
    PKey = {p1, p2}
    Db = {d1}
    Default = default
    DbKey = {p1, p2}
    DefaultKey = {}
    Proc = {a, b}
    Faults = TRUE
SYMMETRY Interchangeable
INVARIANTS
    TypeOK
    EntriesUnderHeader
    OneEntryPerRelation
    CacheCoherent
    LoadNeverMisled
PROPERTY ImplementsStore
