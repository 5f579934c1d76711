SPECIFICATION Spec
CONSTANTS
    a = a
    b = b
    None = None
    Global = Global
    Default = Default
    Db = {d1}
    Owner = {d1, Default}
    Name = {a, b}
    Fold <- FoldEqual
    Place = {f, g}
    KeyName = {k1}
    Proc = {p1}
    Changeable = {d1}
    MaxRecords = 3
    MaxKeys = 2
INVARIANTS KeysLoadable UsedProviderKept IdsNeverReused
\* With the ids used up and no provider left there is nothing to do.
CHECK_DEADLOCK FALSE
