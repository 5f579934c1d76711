SPECIFICATION Spec
CONSTANTS
    None = None
    Primary = primary
    Standby = standby
    Db = db
    Default = default
    k1 = k1
    k2 = k2
    v1 = v1
    v2 = v2
    PKey = {k1, k2}
    Prov = {v1, v2}
    DbProv = {v1}
    ProvOf <- ProvOfKey
    Rel = {r1}
    Scenarios <- Backups
    MaxLog = 4
INVARIANT ReplayGoesOn
CHECK_DEADLOCK FALSE
