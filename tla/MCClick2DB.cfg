SPECIFICATION FairSpec
CONSTANTS
    f1 = f1
    f2 = f2
    a = a
    b = b
    int = int
    str = str
    Files = {f1, f2}
    NoFile = NoFile
    Columns = {a, b}
    Types = {int, str}
    FileCols <- MCFileCols
    Convertible <- MCConvertible
    Schemas <- MCSchemas
    KeepFailed = TRUE
    KeepBad = TRUE
    CONNECT_TIMEOUT = 0
    MaxFaults = 3
    MaxStarts = 2
    MaxOffers = 2
INVARIANTS
    ConnectedAtWork
    QueueIsSound
    NothingForgotten
    NoFreshColumnDropped
    FewFaultsParkNothing
    DuplicatesExplained
PROPERTIES
    KeepsPromise
    Drains
    ShutdownCompletes
CHECK_DEADLOCK FALSE
