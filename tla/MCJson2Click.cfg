SPECIFICATION Spec
CONSTANTS
    f1 = f1
    f2 = f2
    Files = {f1, f2}
    NoFile = NoFile
    Good <- MCGood
    Configs <- MCConfigs
    KeepBackup = TRUE
    MaxTime = 2
    MaxStarts = 2
    MaxFaults = 1
INVARIANTS
    RowsAccounted
    NoRowTwice
    BlockBound
PROPERTY OutputKept
CHECK_DEADLOCK FALSE
