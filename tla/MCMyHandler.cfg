SPECIFICATION Spec
CONSTANTS
    Columns = {a, b, empty}
    EmptyKey = empty
    Scalars = {x}
    Null = null
    MaxLines = 2
    MaxEvents = 8
INVARIANT Rectangular
PROPERTIES
    EarlierRowsKept
    BadLineUndone
    PlainLineIsRow
CHECK_DEADLOCK FALSE
