SPECIFICATION FairSpec
CONSTANTS
    root = root
    j = j
    s = s
    l = l
    d = d
    c = c
    e = e
    in = in
    out = out
    fj = fj
    fc = fc
    Procs = {p1, p2}
    NoProc = NoProc
    UseLock = TRUE
    Nodes = {root, j, l, s, d, c, e}
    Root = root
    NoNode = NoNode
    Sub <- MCSub
    Handler <- MCHandler
    Configs <- MCConfigs
    Dir <- MCDir
    NoDir = NoDir
    Files = {fj, fc}
    FileDir <- MCFileDir
    Json = {fj}
    MaxFaults = 1
INVARIANTS
    TypeOK
    OneProcess
    CallsAreSafe
PROPERTIES
    HeardIsTold
    Ends
CHECK_DEADLOCK FALSE
