SPECIFICATION FairSpec
CONSTANTS
    f1 = f1
    f2 = f2
    Files = {f1, f2}
    NoFile = NoFile
    Good <- MCGood
    Configs <- MCConfigs
    KeepBackup = TRUE
    MaxTime = 2
    MaxStarts = 1
    MaxFaults = 1
PROPERTIES
    QueuedIsRead
    ShutdownSaves
CHECK_DEADLOCK FALSE
