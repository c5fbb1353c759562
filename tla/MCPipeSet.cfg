SPECIFICATION FairSpec
CONSTANTS
    Files = {f1, f2}
    NoFile = NoFile
    N = 2
    QueueLimit = 1
    MaxWrites = 2
    MaxStarts = 2
    MaxFaults = 1
INVARIANTS
    LossExplained
    ServedInOrder
    NoSecondCopy
PROPERTY HeardIsHandled
CHECK_DEADLOCK FALSE
