SPECIFICATION FairSpec
CONSTANTS
    n1 = n1
    n2 = n2
    Names = {n1, n2}
    Name <- MCName
    NoReport = NoReport
    MaxCount = 1
    MaxMinutes = 3
    MaxFaults = 1
INVARIANTS
    TypeOK
    CountedOnce
    MinutesInOrder
PROPERTIES
    Reported
    JoinReturns
CHECK_DEADLOCK FALSE
