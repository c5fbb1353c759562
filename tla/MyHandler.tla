------------------------------ MODULE MyHandler ------------------------------
(***************************************************************************)
(* Reading the lines of a JSON file into a ClickTable: the SAX handler     *)
(* MyHandler of json2click.cpp, a fresh one for each line, driven by a     *)
(* parser that calls it for any well-formed value, gives up at any point   *)
(* of an ill-formed one, and stops when the handler throws.                *)
(***************************************************************************)
EXTENDS ClickTable

CONSTANTS
    EmptyKey,       \* the empty string, which is also "no key" to the handler
    MaxLines, MaxEvents     \* bounds of the exploration: lines, calls per line

ASSUME KeyAssumption == EmptyKey \in Columns
ASSUME ScalarAssumption == Null \notin Scalars
ASSUME BoundAssumption == MaxLines \in Nat /\ MaxEvents \in Nat

VARIABLES
    m_key, m_objectCounter, m_fillArray, m_arrayData

handler == <<m_key, m_objectCounter, m_fillArray, m_arrayData>>

VARIABLES
    stack,          \* the parser: open objects and arrays, innermost first
    wants           \* what comes next: a value, a key, nothing; or an end

parser == <<stack, wants>>

VARIABLES
    before,         \* the table when the line began
    given,          \* the members of the line's outermost object, last wins
    plain,          \* so far the line is an object of scalars and flat arrays
    verdict,        \* how the last line ended
    lines, calls

history == <<before, given, plain>>
vars == <<table, handler, parser, history, verdict, lines, calls>>

TypeOK ==
    /\ TableType
    /\ m_key \in Columns
    /\ m_objectCounter \in Int
    /\ m_fillArray \in BOOLEAN
    /\ m_arrayData \in Seq(Cell)
    /\ stack \in Seq({"object", "array"})
    /\ wants \in {"value", "key", "nothing"}
    /\ plain \in BOOLEAN
    /\ verdict \in {"none", "row", "error", "thrown"}
    /\ lines \in 0 .. MaxLines /\ calls \in 0 .. MaxEvents

-----------------------------------------------------------------------------
(* The parser (rapidjson): a stack, and what the grammar allows next.       *)

\* What follows a value when s is open around it, and what opening s expects.
After(s) ==
    IF s = << >> THEN "nothing" ELSE IF Head(s) = "object" THEN "key" ELSE "value"

MayCall == lines < MaxLines /\ calls < MaxEvents

Called == calls' = calls + 1 /\ UNCHANGED <<before, verdict, lines>>

Opens(kind) ==
    /\ MayCall /\ wants = "value"
    /\ stack' = << kind >> \o stack
    /\ wants' = After(stack')
    /\ Called

AtEnd(kind) == MayCall /\ stack # << >> /\ Head(stack) = kind /\ wants = After(stack)

Closes(kind) ==
    /\ AtEnd(kind)
    /\ stack' = Tail(stack)
    /\ wants' = After(stack')
    /\ Called

\* A member of the outermost object is given v, or its array one more element.
Give(v) ==
    given' = IF stack = << "object" >>
             THEN [c \in DOMAIN given \union {m_key} |-> IF c = m_key THEN v ELSE given[c]]
             ELSE IF stack = << "array", "object" >> /\ plain
             THEN [given EXCEPT ![m_key] = Append(@, v)]
             ELSE given

-----------------------------------------------------------------------------
(* The handler. *)

NewLine(v) ==
    /\ m_key' = EmptyKey /\ m_objectCounter' = 0
    /\ m_fillArray' = FALSE /\ m_arrayData' = << >>
    /\ stack' = << >> /\ wants' = "value"
    /\ before' = <<m_tbl', m_rowCount'>>
    /\ given' = << >> /\ plain' = TRUE
    /\ verdict' = v
    /\ lines' = lines + 1 /\ calls' = 0

\* append: into the array being filled, into the table, or nowhere.
NeedsKey == m_objectCounter = 1 /\ ~ m_fillArray

\* Mutated form of Store.
StoreKeepingKey(v) ==
    /\ m_arrayData' = IF m_objectCounter = 1 /\ m_fillArray
                      THEN Append(m_arrayData, v) ELSE m_arrayData
    /\ IF NeedsKey THEN append(m_key, v) ELSE UNCHANGED table
    /\ UNCHANGED m_key

Store(v) ==
    /\ m_arrayData' = IF m_objectCounter = 1 /\ m_fillArray
                      THEN Append(m_arrayData, v) ELSE m_arrayData
    /\ IF NeedsKey THEN append(m_key, v) ELSE UNCHANGED table
    /\ m_key' = IF NeedsKey THEN EmptyKey ELSE m_key

\* Null, Bool, Int, Uint, Int64, Uint64, Double, String.
Scalar(v) ==
    /\ MayCall /\ wants = "value"
    /\ NeedsKey => m_key # EmptyKey
    /\ Store(v)
    /\ wants' = After(stack)
    /\ Give(v)
    /\ plain' = (plain /\ stack # << >>)
    /\ Called
    /\ UNCHANGED <<stack, m_objectCounter, m_fillArray>>

StartObject ==
    /\ Opens("object")
    /\ m_objectCounter' = m_objectCounter + 1
    /\ Give("nested")
    /\ plain' = (plain /\ stack = << >>)
    /\ UNCHANGED <<table, m_key, m_fillArray, m_arrayData>>

EndObject ==
    /\ Closes("object")
    /\ m_objectCounter' = m_objectCounter - 1
    /\ UNCHANGED <<table, m_key, m_fillArray, m_arrayData, given, plain>>

StartArray ==
    /\ Opens("array")
    /\ m_fillArray' = TRUE
    /\ Give(<< >>)
    /\ plain' = (plain /\ stack = << "object" >>)
    /\ UNCHANGED <<table, m_key, m_objectCounter, m_arrayData>>

\* m_fillArray is cleared first, so the array itself goes to its key.
EndArray ==
    /\ Closes("array")
    /\ m_fillArray' = FALSE
    /\ m_arrayData' = << >>
    /\ IF m_objectCounter = 1
       THEN m_key # EmptyKey /\ append(m_key, m_arrayData) /\ m_key' = EmptyKey
       ELSE UNCHANGED <<table, m_key>>
    /\ UNCHANGED <<m_objectCounter, given, plain>>

\* Below the outermost object keys are ignored.
Key(k) ==
    /\ MayCall /\ wants = "key"
    /\ wants' = "value"
    /\ m_objectCounter > 1 \/ m_key = EmptyKey
    /\ m_key' = IF m_objectCounter > 1 THEN m_key ELSE k
    /\ plain' = (plain /\ k # EmptyKey)
    /\ Called
    /\ UNCHANGED <<table, m_objectCounter, m_fillArray, m_arrayData, stack, given>>

\* checkKey throws: no key for a value, or a key whose value never came.
checkKeyThrows ==
    /\ MayCall
    /\ \/ wants = "value" /\ NeedsKey /\ m_key = EmptyKey
       \/ AtEnd("array") /\ m_objectCounter = 1 /\ m_key = EmptyKey
       \/ wants = "key" /\ m_objectCounter <= 1 /\ m_key # EmptyKey
    /\ UndoRow
    /\ NewLine("thrown")

ParseError ==
    /\ MayCall
    /\ UndoRow
    /\ NewLine("error")

Accept ==
    /\ MayCall /\ wants = "nothing"
    /\ FinishRow
    /\ NewLine("row")

\* The table is saved and emptied between two lines.
Flush ==
    /\ calls = 0 /\ m_rowCount > 0
    /\ flushTbl
    /\ before' = <<m_tbl', m_rowCount'>>
    /\ UNCHANGED <<handler, parser, given, plain, verdict, lines, calls>>

Init ==
    /\ TableInit
    /\ m_key = EmptyKey /\ m_objectCounter = 0
    /\ m_fillArray = FALSE /\ m_arrayData = << >>
    /\ stack = << >> /\ wants = "value"
    /\ before = <<m_tbl, m_rowCount>>
    /\ given = << >> /\ plain = TRUE
    /\ verdict = "none"
    /\ lines = 0 /\ calls = 0

Next ==
    \/ \E v \in Cell : Scalar(v)
    \/ \E k \in Columns : Key(k)
    \/ StartObject \/ EndObject \/ StartArray \/ EndArray
    \/ checkKeyThrows \/ ParseError \/ Accept \/ Flush

Spec == Init /\ [][Next]_vars

-----------------------------------------------------------------------------
(* Properties. *)

(***************************************************************************)
(* Between two lines every column has one value per row, whatever the      *)
(* lines held and wherever they broke off: save writes one row count.      *)
(***************************************************************************)
Rectangular == calls = 0 => IsRectangular

(***************************************************************************)
(* A line never disturbs the rows already finished, duplicate keys, new    *)
(* columns and rollbacks included (ClickColumn::append, revert).           *)
(***************************************************************************)
EarlierRowsKept ==
    [][ m_rowCount' >= m_rowCount =>
          \A c \in Columns, i \in 1 .. m_rowCount :
             CellAt(m_tbl', c, i) = CellAt(m_tbl, c, i) ]_vars

BadLine == lines' = lines + 1 /\ verdict' # "row"

(***************************************************************************)
(* A line that is refused, by the parser or by checkKey, leaves no value   *)
(* behind: the table holds what it held before the line, null elsewhere.   *)
(***************************************************************************)
BadLineUndone ==
    [][ BadLine =>
          /\ m_rowCount' = before[2]
          /\ \A c \in Columns, i \in 1 .. m_rowCount + 1 :
                CellAt(m_tbl', c, i) = CellAt(before[1], c, i) ]_vars

(***************************************************************************)
(* The row of a plain line is its object: each member in its column, the   *)
(* last of duplicate keys, and null in every other column.                 *)
(***************************************************************************)
RowIsLine ==
    [][ plain /\ m_rowCount' = m_rowCount + 1 =>
          \A c \in Columns :
             CellAt(m_tbl', c, m_rowCount') =
                IF c \in DOMAIN given THEN given[c] ELSE Null ]_vars

(***************************************************************************)
(* checkKey refuses no plain line: only what the grammar forbids, nested   *)
(* values and empty keys make a line fail.                                 *)
(***************************************************************************)
PlainNotRefused == [][ BadLine /\ verdict' = "thrown" => ~ plain ]_vars

(***************************************************************************)
(* A plain line that the parser finds no fault with becomes a row, and the *)
(* row is its object.                                                      *)
(***************************************************************************)
PlainLineIsRow == RowIsLine /\ PlainNotRefused

=============================================================================
