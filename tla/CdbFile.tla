------------------------------- MODULE CdbFile -------------------------------
(***************************************************************************)
(* A table on its way through a .cdb file: ClickTable::save writes it, a   *)
(* full disk or a crash may cut it, ClickTable::load reads it item by item *)
(* on the other side, and fillTable makes the block of an insert from it.  *)
(* A file is the sequence of its items; m_tbl and m_rowCount are those of  *)
(* the table that is loaded.                                               *)
(***************************************************************************)
EXTENDS Conversion, FiniteSets, SequencesExt

CONSTANTS
    Columns,
    Tables,             \* the tables to be saved: columns of equal length
    TypesOf,            \* TypesOf[c]: types the server may have for column c
    CutName, CutString  \* names and strings up to their first zero byte

Cells == Scalars \union {Null}
Values == Cells \union Seq(Cells)

\* Only strings are cut, and a number is read from no more than is left.
ASSUME CutAssumption ==
    /\ CutName \in [Columns -> Columns] /\ CutString \in [Scalars -> Scalars]
    /\ \A c \in Columns : CutName[CutName[c]] = CutName[c]
    /\ \A s \in Scalars :
          /\ Kind[s] # "str" => CutString[s] = s
          /\ Kind[CutString[s]] = Kind[s]
          /\ Number[CutString[s]] = Number[s]
ASSUME TableAssumption ==
    /\ IsFiniteSet(Columns)
    /\ \A t \in Tables :
          /\ DOMAIN t \subseteq Columns
          /\ \A c \in DOMAIN t : t[c] \in Seq(Values)
          /\ \A c, d \in DOMAIN t : Len(t[c]) = Len(t[d])
ASSUME TypeAssumption == TypesOf \in [Columns -> SUBSET ColumnTypes]

VARIABLES
    saved,              \* the table that is saved
    file,               \* its items, or as many of them as are on the disk
    pc,                 \* where load and then sendTable are
    pos,                \* the next item
    columns, rows,      \* columns still to come, values still to come of this one
    name,               \* this column
    array,              \* an array being read, and its size, or NoArray
    m_tbl, m_rowCount,
    m_tblType, todo,    \* the description; columns fillTable has yet to do
    block               \* the columns of the block

given == <<saved, m_tblType>>
reader == <<columns, rows, name, array>>
filler == <<todo, block>>
vars == <<given, file, pc, pos, reader, m_tbl, m_rowCount, filler>>

NoArray == [size |-> -1, vals |-> << >>]
NoName == "none"

Height(t) == IF DOMAIN t = {} THEN 0 ELSE Len(t[CHOOSE c \in DOMAIN t : TRUE])

Goto(label) == pc' = label

-----------------------------------------------------------------------------
(* save and storeValue. *)

Item(kind, what) == [kind |-> kind, what |-> what]

CellItems(v) ==
    IF v = Null THEN <<Item("type", "unknown")>>
    ELSE IF Kind[v] = "str"
         THEN <<Item("type", "str"), Item("size", v), Item("chars", v)>>
         ELSE <<Item("type", Kind[v]), Item("data", v)>>

storeValue(v) ==
    IF v \in Cells THEN CellItems(v)
    ELSE <<Item("type", "array"), Item("size", Len(v))>>
         \o FlattenSeq([i \in DOMAIN v |-> CellItems(v[i])])

ColumnItems(t, c) ==
    <<Item("size", c), Item("name", c)>>
    \o FlattenSeq([i \in DOMAIN t[c] |-> storeValue(t[c][i])])

Items(t) ==
    <<Item("key", 0), Item("mask", 0), Item("int", Cardinality(DOMAIN t)),
      Item("int", Height(t))>>
    \o FlattenSeq(LET names == SetToSeq(DOMAIN t)
                  IN  [i \in DOMAIN names |-> ColumnItems(t, names[i])])

\* No fwrite is looked at, and a crash may come between any two.
save ==
    /\ pc = "save"
    /\ \E n \in 0 .. Len(Items(saved)) : file' = SubSeq(Items(saved), 1, n)
    /\ Goto("header")
    /\ UNCHANGED <<given, pos, reader, m_tbl, m_rowCount, filler>>

-----------------------------------------------------------------------------
(* load and restoreValue. *)

What(i) == file[i].what

\* Mutated form of Readable.
TypeUnchecked(n) == n > 1 => pos + n - 1 <= Len(file)

\* n more items: each fread is looked at.
Readable(n) == pos + n - 1 <= Len(file)

\* The type of the value at pos, and how many items it takes, elements apart.
TypeRead == IF pos \in DOMAIN file THEN What(pos) ELSE "unknown"
ItemSize == CASE TypeRead = "unknown" -> 1 [] TypeRead = "str" -> 3 [] OTHER -> 2

Header ==
    /\ pc = "header"
    /\ Readable(4)
    /\ columns' = What(3)
    /\ pos' = pos + 4
    /\ Goto("name")
    /\ UNCHANGED <<given, file, rows, name, array, m_tbl, m_rowCount, filler>>

rowCount == What(4)

ColumnOf(c) == IF c \in DOMAIN m_tbl THEN m_tbl[c] ELSE << >>

\* Two names may be one up to the first zero byte: the second column goes on
\* behind the values of the first.
Name ==
    /\ pc = "name" /\ columns > 0
    /\ Readable(2)
    /\ LET c == CutName[What(pos + 1)] IN
       /\ name' = c
       /\ m_tbl' = [d \in DOMAIN m_tbl \union {c} |-> ColumnOf(d)]
    /\ pos' = pos + 2
    /\ columns' = columns - 1
    /\ rows' = rowCount
    /\ Goto("rows")
    /\ UNCHANGED <<given, file, array, m_rowCount, filler>>

\* Mutated form of CellRead.
NullSkipped(vals) == IF TypeRead = "unknown" THEN vals ELSE Append(vals, What(pos + ItemSize - 1))

CellRead(vals) ==
    Append(vals, CASE TypeRead = "unknown" -> Null
                   [] TypeRead = "str" -> CutString[What(pos + 2)]
                   [] OTHER -> What(pos + 1))

AddToColumn(vals) == m_tbl' = [m_tbl EXCEPT ![name] = vals]

\* A value of the array at hand, or else of the column.
More == IF array = NoArray THEN rows > 0 ELSE Len(array.vals) < array.size

ReadCell ==
    /\ pc = "rows" /\ More
    /\ Readable(ItemSize)
    /\ TypeRead # "array"
    /\ pos' = pos + ItemSize
    /\ IF array = NoArray
       THEN AddToColumn(CellRead(m_tbl[name])) /\ rows' = rows - 1 /\ UNCHANGED array
       ELSE array' = [array EXCEPT !.vals = CellRead(@)] /\ UNCHANGED <<m_tbl, rows>>
    /\ UNCHANGED <<given, file, pc, columns, name, m_rowCount, filler>>

ReadArray ==
    /\ pc = "rows" /\ More
    /\ Readable(2)
    /\ TypeRead = "array"
    /\ array' = [size |-> What(pos + 1), vals |-> << >>]
    /\ pos' = pos + 2
    /\ UNCHANGED <<given, file, pc, columns, rows, name, m_tbl, m_rowCount, filler>>

EndArray ==
    /\ pc = "rows" /\ array # NoArray /\ ~ More
    /\ AddToColumn(Append(m_tbl[name], array.vals))
    /\ rows' = rows - 1
    /\ array' = NoArray
    /\ UNCHANGED <<given, file, pc, pos, columns, name, m_rowCount, filler>>

NextColumn ==
    /\ pc = "rows" /\ array = NoArray /\ ~ More
    /\ Goto("name")
    /\ UNCHANGED <<given, file, pos, reader, m_tbl, m_rowCount, filler>>

\* An assert throws: flushTbl.
Reject ==
    /\ \/ pc = "header" /\ ~ Readable(4)
       \/ pc = "name" /\ columns > 0 /\ ~ Readable(2)
       \/ pc = "rows" /\ More /\ ~ Readable(ItemSize)
    /\ Goto("rejected")
    /\ m_tbl' = << >> /\ m_rowCount' = 0
    /\ UNCHANGED <<given, file, pos, reader, filler>>

Loaded ==
    /\ pc = "name" /\ columns = 0
    /\ Goto("fill")
    /\ m_rowCount' = rowCount
    /\ todo' = DOMAIN m_tbl
    /\ UNCHANGED <<given, file, pos, reader, m_tbl, block>>

load == Header \/ Name \/ ReadCell \/ ReadArray \/ EndArray \/ NextColumn \/ Reject \/ Loaded

-----------------------------------------------------------------------------
(* fillTable and the checks of sendTable. *)

\* Column after column; what the conversion throws is caught, what
\* AppendColumn throws for a column of another size is not.
FillColumn(c) ==
    /\ pc = "fill" /\ c \in todo
    /\ todo' = todo \ {c}
    /\ LET t == m_tblType[c]
           outcome == Outcome(t, m_tbl[c])
           fits == \A d \in DOMAIN block :
                      Size(m_tblType[d], block[d]) = Size(t, Column(t, m_tbl[c]))
       IN  \/ /\ outcome = "converted" /\ fits
              /\ block' = [d \in DOMAIN block \union {c} |->
                              IF d = c THEN Column(t, m_tbl[c]) ELSE block[d]]
              /\ UNCHANGED pc
           \/ outcome = "converted" /\ ~ fits /\ Goto("unsent") /\ UNCHANGED block
           \/ outcome = "throws" /\ UNCHANGED <<pc, block>>
           \/ outcome = "undefined" /\ Goto("undefined") /\ UNCHANGED block
    /\ UNCHANGED <<given, file, pos, reader, m_tbl, m_rowCount>>

\* A block without columns or rows is not sent.
Send ==
    /\ pc = "fill" /\ todo = {}
    /\ Goto(IF \E c \in DOMAIN block : Size(m_tblType[c], block[c]) > 0 THEN "sent" ELSE "unsent")
    /\ UNCHANGED <<given, file, pos, reader, m_tbl, m_rowCount, filler>>

Init ==
    /\ saved \in Tables
    /\ m_tblType \in {f \in [Columns -> UNION {TypesOf[c] : c \in Columns}] :
                         \A c \in Columns : f[c] \in TypesOf[c]}
    /\ file = << >>
    /\ pc = "save"
    /\ pos = 1 /\ columns = 0 /\ rows = 0 /\ name = NoName /\ array = NoArray
    /\ m_tbl = << >> /\ m_rowCount = 0
    /\ todo = {} /\ block = << >>

Next == save \/ load \/ (\E c \in Columns : FillColumn(c)) \/ Send

Spec == Init /\ [][Next]_vars

-----------------------------------------------------------------------------
(* Properties. *)

HasLoaded == pc \in {"fill", "sent", "unsent", "undefined"}

(***************************************************************************)
(* load takes no file that save did not write to its end: neither a full   *)
(* disk nor a crash makes a shorter table of it, and nothing of it stays.  *)
(***************************************************************************)
WholeOrNothing ==
    /\ HasLoaded => file = Items(saved)
    /\ pc = "rejected" => m_tbl = << >> /\ m_rowCount = 0

CutValue(v) ==
    IF v \in Scalars THEN CutString[v]
    ELSE IF v = Null THEN Null
    ELSE [i \in DOMAIN v |-> IF v[i] = Null THEN Null ELSE CutString[v[i]]]

\* The values of the columns whose names are d up to a zero byte, one column
\* behind the other as they are in the file: mostly one column's.
Together(d) ==
    FlattenSeq(LET names == SetToSeq(DOMAIN saved)
               IN  [k \in DOMAIN names |->
                       IF CutName[names[k]] = d THEN saved[names[k]] ELSE << >>])

(***************************************************************************)
(* What load returns is the table save was given, nulls, empty and mixed   *)
(* arrays in their places, but for what stops at a zero byte: a string is  *)
(* cut, and columns whose names are one up to there are one column, which  *)
(* has all their values and more rows than m_rowCount says.                *)
(***************************************************************************)
LoadedIsSaved ==
    HasLoaded =>
        /\ m_rowCount = Height(saved)
        /\ DOMAIN m_tbl = {CutName[c] : c \in DOMAIN saved}
        /\ \A d \in DOMAIN m_tbl :
             m_tbl[d] = [i \in DOMAIN Together(d) |-> CutValue(Together(d)[i])]

Arrives(t, v, datum, isNull) ==
    /\ t.nullable => (isNull <=> v = Null)
    /\ v \in Scalars /\ (t.base = "Int64" \/ (t.base = "UInt8" /\ Number[v] \in 0 .. 255))
         => datum = Number[CutString[v]]
    /\ v \in Scalars /\ t.base = "String" => datum = Text[CutString[v]]

(***************************************************************************)
(* In every block that is sent a column has the rows of the table in their *)
(* order, those of the columns that have become one behind each other: the *)
(* offsets cut the elements of the arrays where the arrays end, a value is *)
(* flagged null if and only if it is, and a number that fits its type is   *)
(* the same number.                                                        *)
(***************************************************************************)
RowsArrive ==
    pc = "sent" =>
        \A d \in DOMAIN block :
            LET t == m_tblType[d]
                column == block[d]
                vs == Together(d)
                flag(i) == t.nullable /\ column.nulls[i]
                from(i) == IF i = 1 THEN 0 ELSE column.offsets[i - 1]
            IN  /\ Size(t, column) = Len(vs)
                /\ \A i \in DOMAIN vs :
                     IF ~ t.array
                     THEN Arrives(t, vs[i], column.data[i], flag(i))
                     ELSE /\ column.offsets[i] - from(i) = Len(vs[i])
                          /\ \A j \in DOMAIN vs[i] :
                               Arrives(t, vs[i][j], column.data[from(i) + j], flag(from(i) + j))

(***************************************************************************)
(* The process reads through a pointer that is none only for a column of   *)
(* arrays in which some line had no array, for instance did not have the   *)
(* column at all, so that finishAppend filled in a null.                   *)
(***************************************************************************)
UndefinedExplained ==
    pc = "undefined" =>
        \E c \in DOMAIN saved :
            m_tblType[CutName[c]].array /\ \E i \in DOMAIN saved[c] : saved[c][i] \in Cells

HasName(v) == v \in Scalars /\ Text[CutString[v]] \in DOMAIN EnumValue

\* Has the type of a ClickHouse column a place for this value.
HasPlace(t, v) ==
    /\ t.base # "Tuple"
    /\ t.base = "Enum8" =>
          v \in Scalars /\ (Kind[v] \in {"uint", "int"} \/ (Kind[v] = "str" /\ HasName(v)))

(***************************************************************************)
(* A column is left out of a block only if its type is not supported, or   *)
(* it is an Enum and one of the values is a name the type does not have, a *)
(* double, a bool, an array, or a null, also when the Enum is nullable.    *)
(***************************************************************************)
LeftOutExplained ==
    pc \in {"fill", "sent"} =>
        \A d \in DOMAIN m_tbl \ (DOMAIN block \union todo) :
            LET t == m_tblType[d] IN
            \/ t.base = "Tuple"
            \/ \E c \in DOMAIN saved : \E i \in DOMAIN saved[c] :
                 /\ CutName[c] = d
                 /\ IF t.array THEN \E j \in DOMAIN saved[c][i] : ~ HasPlace(t, saved[c][i][j])
                    ELSE ~ HasPlace(t, saved[c][i])

(***************************************************************************)
(* A block is not sent only if no column in it has a row, or if AppendCol- *)
(* umn refuses a column, because two columns are not of one size: columns  *)
(* of which one stands for more columns of the table than the other.       *)
(***************************************************************************)
UnsentExplained ==
    pc = "unsent" =>
        \/ todo = {} /\ \A d \in DOMAIN block : Together(d) = << >>
        \/ \E d, e \in DOMAIN m_tbl : Len(Together(d)) # Len(Together(e))

(***************************************************************************)
(* A loaded table with rows becomes a block with all its columns that is   *)
(* sent, but for three cases: undefined behaviour for a null where an      *)
(* array is due, a column left out for a value that does not fit its type, *)
(* and columns that have become one and are of another size than the rest. *)
(***************************************************************************)
FailuresExplained == UndefinedExplained /\ LeftOutExplained /\ UnsentExplained

=============================================================================
