----------------------------- MODULE ClickTable -----------------------------
(***************************************************************************)
(* The table a JSON file is read into: columns that come into being with   *)
(* the first value for them, each a sequence of values, and the number of  *)
(* finished rows.  A column may be one value ahead of the finished rows    *)
(* while a line is being read.                                             *)
(***************************************************************************)
EXTENDS Integers, Sequences

CONSTANTS
    Columns,        \* names of columns
    Scalars,        \* numbers, strings and booleans, told apart by identity
    Null            \* the null value

VARIABLES
    m_tbl,          \* m_tbl[c]: the values of column c
    m_rowCount

table == <<m_tbl, m_rowCount>>

Cell == Scalars \union {Null}
Value == Cell \union Seq(Cell)

TableType ==
    /\ DOMAIN m_tbl \subseteq Columns
    /\ m_tbl \in [DOMAIN m_tbl -> Seq(Value)]
    /\ m_rowCount \in Nat

\* std::vector::resize: cut, or fill with null values.
Resize(s, n) == [i \in 1 .. n |-> IF i <= Len(s) THEN s[i] ELSE Null]

\* Mutated form of AppendAt.
AppendLoosely(s, at, v) == Append(s, v)

\* ClickColumn::append: the value goes to place at, whatever was there.
AppendAt(s, at, v) == Append(Resize(s, at), v)

ColumnOf(c) == IF c \in DOMAIN m_tbl THEN m_tbl[c] ELSE << >>

append(c, v) ==
    /\ m_tbl' = [d \in DOMAIN m_tbl \union {c} |->
                    IF d = c THEN AppendAt(ColumnOf(c), m_rowCount, v) ELSE m_tbl[d]]
    /\ UNCHANGED m_rowCount

\* Mutated form of revert.
KeepAsIs(s, n) == s

\* ClickColumn::revert.
revert(s, n) == Resize(s, n)

PadTo(s, n) == IF Len(s) < n THEN Resize(s, n) ELSE s

\* finishAppend: fill up the row, or undo what the line appended.
FinishRow ==
    /\ m_rowCount' = m_rowCount + 1
    /\ m_tbl' = [c \in DOMAIN m_tbl |-> PadTo(m_tbl[c], m_rowCount + 1)]

UndoRow ==
    /\ m_tbl' = [c \in DOMAIN m_tbl |-> revert(m_tbl[c], m_rowCount)]
    /\ UNCHANGED m_rowCount

flushTbl ==
    /\ m_rowCount' = 0
    /\ m_tbl' = << >>

TableInit == m_tbl = << >> /\ m_rowCount = 0

(***************************************************************************)
(* What save writes and load relies on: the file has one row count, and    *)
(* rowCount values are read for every column (ClickTable::save, load).     *)
(***************************************************************************)
IsRectangular == \A c \in DOMAIN m_tbl : Len(m_tbl[c]) = m_rowCount

\* The value of column c in row i, null where the column has none.
CellAt(t, c, i) == IF c \in DOMAIN t /\ i <= Len(t[c]) THEN t[c][i] ELSE Null

=============================================================================
