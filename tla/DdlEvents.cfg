SPECIFICATION Spec
CONSTANTS
    None = None
    Table = {t1, t2}
    Sqn = {s1}
    Addr = {a1, a2}
    MaxDepth = 2
    MaxNest = 3
    MaxStmts = 4
    Defaults = {"tde_heap"}
    Paths = {}
SYMMETRY Interchangeable
INVARIANTS FilesMatchAM StackMirrorsRun
PROPERTY Enforced
