SPECIFICATION Spec
CONSTANTS
    null = null
    u7 = u7
    u300 = u300
    i1 = i1
    d1 = d1
    yes = yes
    s7 = s7
    s7z = s7z
    a = a
    az = az
    b = b
    Scalars = {u7, u300, i1, d1, yes, s7, s7z}
    Null = null
    Kind <- MCKind
    Number <- MCNumber
    Text <- MCText
    EnumValue <- MCEnumValue
    Columns = {a, az, b}
    Tables <- MCTables
    TypesOf <- MCTypesOf
    CutName <- MCCutName
    CutString <- MCCutString
INVARIANTS
    WholeOrNothing
    LoadedIsSaved
    RowsArrive
    FailuresExplained
CHECK_DEADLOCK FALSE
