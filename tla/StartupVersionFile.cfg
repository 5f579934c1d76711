SPECIFICATION Spec
CONSTANTS
    Dbs = {"d1", "d2"}
    Current = 6
    WalCurrent = 3
    Directories <- MCDirectories
    Versions = {"absent", "old", "current"}
    MaxFaults = 2
    MaxKeys = 2
    PartialCopy = FALSE
INVARIANT
    RescanAtWorst
