SPECIFICATION FairSpec
CONSTANTS
    Names = {f1, f2}
    NoName = NoName
    Matching = {f1}
    Movers = {m1, m2}
    m_cleanTime = 1
    MaxFiles = 3
    MaxFaults = 1
INVARIANTS
    FreshKept
PROPERTIES
    ScanClears
    Cleared
CHECK_DEADLOCK FALSE
