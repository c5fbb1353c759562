SPECIFICATION Spec
CONSTANTS
    Files = {f1, f2}
    NoFile = NoFile
    N = 2
    QueueLimit = 2
    MaxWrites = 1
    MaxStarts = 1
    MaxFaults = 1
SYMMETRY Symmetry
INVARIANT OthersServed
CHECK_DEADLOCK FALSE
