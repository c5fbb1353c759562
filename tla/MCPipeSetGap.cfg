SPECIFICATION FairSpec
CONSTANTS
    Files = {f1, f2}
    NoFile = NoFile
    N = 2
    QueueLimit = 2
    MaxWrites = 1
    MaxStarts = 1
    MaxFaults = 0
PROPERTY ClosedIsHandled
CHECK_DEADLOCK FALSE
