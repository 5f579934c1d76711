SPECIFICATION Spec
CONSTANTS
    a = a
    b = b
    None = None
    Global = Global
    Default = Default
    Db = {}
    Owner = {Global}
    Name = {a, b}
    Fold <- FoldDistinct
    Place = {f}
    KeyName = {k1}
    Proc = {p1, p2}
    Changeable = {}
    MaxRecords = 2
    MaxKeys = 1
INVARIANTS UsedProviderKept
\* With the ids used up and no provider left there is nothing to do.
CHECK_DEADLOCK FALSE
