SPECIFICATION Spec
CONSTANTS
    f1 = f1
    f2 = f2
    a = a
    b = b
    int = int
    str = str
    Files = {f1, f2}
    NoFile = NoFile
    Columns = {a, b}
    Types = {int, str}
    FileCols <- MCFileCols
    Convertible <- MCConvertible
    Schemas <- MCSchemas
    KeepFailed = TRUE
    KeepBad = TRUE
    CONNECT_TIMEOUT = 0
    MaxFaults = 1
    MaxStarts = 1
    MaxOffers = 1
INVARIANT WatchesTable
CHECK_DEADLOCK FALSE
