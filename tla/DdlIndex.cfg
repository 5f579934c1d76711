SPECIFICATION Spec
CONSTANTS
    None = None
    Table = {t1, t2}
    Sqn = {s1}
    Addr = {a1, a2}
    MaxDepth = 2
    MaxNest = 2
    MaxStmts = 3
    Defaults = {"tde_heap"}
    Paths = {"index"}
SYMMETRY Interchangeable
INVARIANT FilesMatchAM
