--------------------------- MODULE MyHandlerProofs ---------------------------
(***************************************************************************)
(* Proofs about MyHandler for any columns, values and bounds: the table    *)
(* between two lines, the rows finished earlier, and the row of a line.    *)
(***************************************************************************)
EXTENDS MyHandler, SequenceTheorems, TLAPS

-----------------------------------------------------------------------------
(* The operators on one column. *)

(***************************************************************************)
(* std::vector::resize: the length asked for, the old values, then nulls.  *)
(***************************************************************************)
LEMMA ResizeProperties ==
    ASSUME NEW s \in Seq(Value), NEW n \in Nat
    PROVE  /\ Resize(s, n) \in Seq(Value)
           /\ Len(Resize(s, n)) = n
           /\ \A i \in 1 .. n : Resize(s, n)[i] = IF i <= Len(s) THEN s[i] ELSE Null
  <1>1. Null \in Value
    BY DEF Value, Cell
  <1>2. \A i \in 1 .. Len(s) : s[i] \in Value
    OBVIOUS
  <1>3. Resize(s, n) \in [1 .. n -> Value]
    BY <1>1, <1>2 DEF Resize
  <1> QED
    BY <1>3 DEF Resize

(***************************************************************************)
(* ClickColumn::append: the value ends up at its row, whatever was there,  *)
(* the rows before it stay, and rows the column lacked are null.           *)
(***************************************************************************)
LEMMA AppendAtProperties ==
    ASSUME NEW s \in Seq(Value), NEW n \in Nat, NEW v \in Value
    PROVE  /\ AppendAt(s, n, v) \in Seq(Value)
           /\ Len(AppendAt(s, n, v)) = n + 1
           /\ AppendAt(s, n, v)[n + 1] = v
           /\ \A i \in 1 .. n :
                 AppendAt(s, n, v)[i] = IF i <= Len(s) THEN s[i] ELSE Null
  <1> DEFINE r == Resize(s, n)
  <1>1. /\ r \in Seq(Value) /\ Len(r) = n
        /\ \A i \in 1 .. n : r[i] = IF i <= Len(s) THEN s[i] ELSE Null
    BY ResizeProperties
  <1> HIDE DEF r
  <1>2. /\ Append(r, v) \in Seq(Value)
        /\ Len(Append(r, v)) = n + 1
        /\ Append(r, v)[n + 1] = v
        /\ \A i \in 1 .. n : Append(r, v)[i] = r[i]
    BY <1>1
  <1> QED
    BY <1>1, <1>2 DEF AppendAt, r

-----------------------------------------------------------------------------
(* The operations on the table. *)

\* While a line is read no column is behind, and none is two values ahead.
Ahead == \A c \in DOMAIN m_tbl : Len(m_tbl[c]) \in {m_rowCount, m_rowCount + 1}

SameRows(n) ==
    \A c \in Columns, i \in 1 .. n : CellAt(m_tbl', c, i) = CellAt(m_tbl, c, i)

(***************************************************************************)
(* ClickTable::append changes the row being read, in one column.           *)
(***************************************************************************)
LEMMA AppendStep ==
    ASSUME TableType, Ahead, NEW c \in Columns, NEW v \in Value, append(c, v)
    PROVE  /\ TableType' /\ Ahead'
           /\ m_rowCount' = m_rowCount
           /\ SameRows(m_rowCount)
           /\ \A d \in Columns :
                 CellAt(m_tbl', d, m_rowCount + 1) =
                    IF d = c THEN v ELSE CellAt(m_tbl, d, m_rowCount + 1)
  <1> DEFINE n == m_rowCount
             old == ColumnOf(c)
             new == AppendAt(old, n, v)
  <1>1. n \in Nat /\ n' = n /\ DOMAIN m_tbl \subseteq Columns
    BY DEF TableType, append
  <1>2. \A d \in DOMAIN m_tbl : m_tbl[d] \in Seq(Value)
    BY DEF TableType
  <1>3. old \in Seq(Value)
    BY <1>2 DEF ColumnOf
  <1> HIDE DEF old
  <1>4. /\ new \in Seq(Value) /\ Len(new) = n + 1 /\ new[n + 1] = v
        /\ \A i \in 1 .. n :
              new[i] = IF i <= Len(old) THEN old[i] ELSE Null
    <2>1. old \in Seq(Value) /\ n \in Nat /\ v \in Value
      BY <1>1, <1>3
    <2>2. AppendAt(old, n, v) \in Seq(Value)
      BY <2>1, AppendAtProperties
    <2>3. Len(AppendAt(old, n, v)) = n + 1
      BY <2>1, AppendAtProperties
    <2>4. AppendAt(old, n, v)[n + 1] = v
      BY <2>1, AppendAtProperties
    <2>5. \A i \in 1 .. n : AppendAt(old, n, v)[i] = IF i <= Len(old) THEN old[i] ELSE Null
      BY <2>1, AppendAtProperties
    <2> QED BY <2>2, <2>3, <2>4, <2>5
  <1> HIDE DEF new
  <1>5. /\ DOMAIN m_tbl' = DOMAIN m_tbl \union {c}
        /\ m_tbl'[c] = new
        /\ \A d \in DOMAIN m_tbl : d # c => m_tbl'[d] = m_tbl[d]
        /\ m_tbl' = [d \in DOMAIN m_tbl' |-> m_tbl'[d]]
    BY DEF append, new, old
  <1>6. TableType'
    BY <1>1, <1>2, <1>4, <1>5 DEF TableType
  <1>7. Ahead'
    BY <1>1, <1>4, <1>5 DEF Ahead
  <1>8. \A i \in 1 .. n : CellAt(m_tbl', c, i) = CellAt(m_tbl, c, i)
    <2>1. CASE c \in DOMAIN m_tbl
      BY <2>1, <1>1, <1>2, <1>4, <1>5 DEF CellAt, ColumnOf, old
    <2>2. CASE c \notin DOMAIN m_tbl
      BY <2>2, <1>1, <1>4, <1>5 DEF CellAt, ColumnOf, old
    <2> QED BY <2>1, <2>2
  <1>9. \A d \in Columns, i \in Nat : d # c => CellAt(m_tbl', d, i) = CellAt(m_tbl, d, i)
    BY <1>5 DEF CellAt
  <1>10. CellAt(m_tbl', c, n + 1) = v
    BY <1>1, <1>4, <1>5 DEF CellAt
  <1> QED
    BY <1>1, <1>6, <1>7, <1>8, <1>9, <1>10 DEF SameRows

(***************************************************************************)
(* A line that fails is undone: finishAppend(false) keeps the finished     *)
(* rows and nothing else.                                                  *)
(***************************************************************************)
LEMMA UndoStep ==
    ASSUME TableType, UndoRow
    PROVE  /\ TableType' /\ IsRectangular'
           /\ m_rowCount' = m_rowCount
           /\ SameRows(m_rowCount)
           /\ \A c \in Columns : CellAt(m_tbl', c, m_rowCount + 1) = Null
  <1> DEFINE n == m_rowCount
  <1>1. n \in Nat /\ n' = n /\ DOMAIN m_tbl \subseteq Columns
    BY DEF TableType, UndoRow
  <1>2. \A c \in DOMAIN m_tbl : m_tbl[c] \in Seq(Value)
    BY DEF TableType
  <1>3. /\ DOMAIN m_tbl' = DOMAIN m_tbl
        /\ \A c \in DOMAIN m_tbl : m_tbl'[c] = Resize(m_tbl[c], n)
        /\ m_tbl' = [c \in DOMAIN m_tbl' |-> m_tbl'[c]]
    BY DEF UndoRow, revert
  <1>4. \A c \in DOMAIN m_tbl :
           /\ m_tbl'[c] \in Seq(Value) /\ Len(m_tbl'[c]) = n
           /\ \A i \in 1 .. n :
                 m_tbl'[c][i] = IF i <= Len(m_tbl[c]) THEN m_tbl[c][i] ELSE Null
    BY <1>1, <1>2, <1>3, ResizeProperties
  <1>5. TableType'
    BY <1>1, <1>3, <1>4 DEF TableType
  <1>6. IsRectangular'
    BY <1>1, <1>3, <1>4 DEF IsRectangular
  <1>7. SameRows(n)
    BY <1>1, <1>2, <1>3, <1>4 DEF SameRows, CellAt
  <1>8. \A c \in Columns : CellAt(m_tbl', c, n + 1) = Null
    BY <1>1, <1>3, <1>4 DEF CellAt
  <1> QED
    BY <1>1, <1>5, <1>6, <1>7, <1>8

(***************************************************************************)
(* finishAppend(true) makes the row that was read the last one.            *)
(***************************************************************************)
LEMMA FinishStep ==
    ASSUME TableType, Ahead, FinishRow
    PROVE  /\ TableType' /\ IsRectangular'
           /\ m_rowCount' = m_rowCount + 1
           /\ SameRows(m_rowCount + 1)
  <1> DEFINE n == m_rowCount
  <1>1. n \in Nat /\ n' = n + 1 /\ DOMAIN m_tbl \subseteq Columns
    BY DEF TableType, FinishRow
  <1>2. \A c \in DOMAIN m_tbl : m_tbl[c] \in Seq(Value) /\ Len(m_tbl[c]) \in {n, n + 1}
    BY DEF TableType, Ahead
  <1>3. /\ DOMAIN m_tbl' = DOMAIN m_tbl
        /\ \A c \in DOMAIN m_tbl : m_tbl'[c] = PadTo(m_tbl[c], n + 1)
        /\ m_tbl' = [c \in DOMAIN m_tbl' |-> m_tbl'[c]]
    BY DEF FinishRow
  <1>4. \A c \in DOMAIN m_tbl :
           /\ Resize(m_tbl[c], n + 1) \in Seq(Value)
           /\ Len(Resize(m_tbl[c], n + 1)) = n + 1
           /\ \A i \in 1 .. n + 1 :
                 Resize(m_tbl[c], n + 1)[i]
                    = IF i <= Len(m_tbl[c]) THEN m_tbl[c][i] ELSE Null
    BY <1>1, <1>2, ResizeProperties
  <1>5. \A c \in DOMAIN m_tbl :
           /\ m_tbl'[c] \in Seq(Value) /\ Len(m_tbl'[c]) = n + 1
           /\ \A i \in 1 .. n + 1 :
                 m_tbl'[c][i] = IF i <= Len(m_tbl[c]) THEN m_tbl[c][i] ELSE Null
    BY <1>1, <1>2, <1>3, <1>4 DEF PadTo
  <1>6. TableType'
    BY <1>1, <1>3, <1>5 DEF TableType
  <1>7. IsRectangular'
    BY <1>1, <1>3, <1>5 DEF IsRectangular
  <1>8. SameRows(n + 1)
    BY <1>1, <1>2, <1>3, <1>5 DEF SameRows, CellAt
  <1> QED
    BY <1>1, <1>6, <1>7, <1>8

-----------------------------------------------------------------------------
(* What a step does to the table. *)

(***************************************************************************)
(* Every step of the handler leaves the table alone, appends one value,    *)
(* ends a line by undoing or finishing its row, or empties the table.      *)
(***************************************************************************)
LEMMA StepOnTable ==
    ASSUME TypeOK, Next
    PROVE  \/ UNCHANGED <<table, before, lines>> /\ MayCall /\ calls' = calls + 1
           \/ /\ \E c \in Columns, v \in Value : append(c, v)
              /\ UNCHANGED <<before, lines>> /\ MayCall /\ calls' = calls + 1
           \/ UndoRow /\ MayCall /\ \E r \in {"error", "thrown"} : NewLine(r)
           \/ FinishRow /\ MayCall /\ NewLine("row") /\ wants = "nothing"
           \/ Flush
  <1>1. CASE \E v \in Cell : Scalar(v)
    <2>1. PICK v \in Cell : Scalar(v)
      BY <1>1
    <2>2. m_key \in Columns /\ v \in Value
      BY DEF TypeOK, Value
    <2> QED
      BY <2>1, <2>2 DEF Scalar, Store, Called, table
  <1>2. CASE \E k \in Columns : Key(k)
    BY <1>2 DEF Key, Called
  <1>3. CASE StartObject \/ StartArray
    BY <1>3 DEF StartObject, StartArray, Opens, Called
  <1>4. CASE EndObject
    BY <1>4 DEF EndObject, Closes, AtEnd, Called
  <1>5. CASE EndArray
    <2>1. m_key \in Columns /\ m_arrayData \in Value
      BY DEF TypeOK, Value
    <2> QED
      BY <1>5, <2>1 DEF EndArray, Closes, AtEnd, Called
  <1>6. CASE checkKeyThrows \/ ParseError
    BY <1>6 DEF checkKeyThrows, ParseError
  <1>7. CASE Accept
    BY <1>7 DEF Accept
  <1>8. CASE Flush
    BY <1>8
  <1> QED
    BY <1>1, <1>2, <1>3, <1>4, <1>5, <1>6, <1>7, <1>8 DEF Next

\* What the history variable before remembers of the table.
Begun ==
    /\ before[2] = m_rowCount
    /\ \A c \in Columns, i \in 1 .. m_rowCount :
          CellAt(m_tbl, c, i) = CellAt(before[1], c, i)
    /\ \A c \in Columns : CellAt(before[1], c, m_rowCount + 1) = Null

TableInv ==
    /\ Ahead
    /\ Rectangular
    /\ Begun

-----------------------------------------------------------------------------
(* Types. *)

(***************************************************************************)
(* Every step keeps the types, the table provided none of its columns is   *)
(* more than one value ahead.                                              *)
(***************************************************************************)
LEMMA TypeStep ==
    ASSUME TypeOK, Ahead, Next
    PROVE  TypeOK'
  <1>1. TableType'
    <2>0. TableType
      BY DEF TypeOK
    <2>1. CASE UNCHANGED table
      BY <2>0, <2>1 DEF TableType, table
    <2>2. CASE \E c \in Columns, v \in Value : append(c, v)
      BY <2>0, <2>2, AppendStep
    <2>3. CASE UndoRow
      BY <2>0, <2>3, UndoStep
    <2>4. CASE FinishRow
      BY <2>0, <2>4, FinishStep
    <2>5. CASE Flush
      BY <2>5 DEF Flush, flushTbl, TableType
    <2> QED
      BY <2>1, <2>2, <2>3, <2>4, <2>5, StepOnTable
  <1>2. ASSUME MayCall, Called
        PROVE  /\ lines' \in 0 .. MaxLines /\ calls' \in 0 .. MaxEvents
               /\ verdict' = verdict
    BY <1>2, BoundAssumption DEF Called, MayCall, TypeOK
  <1>3. ASSUME MayCall, NEW r \in {"row", "error", "thrown"}, NewLine(r)
        PROVE  TypeOK'
    <2>1. lines' \in 0 .. MaxLines /\ calls' \in 0 .. MaxEvents
      BY <1>3, BoundAssumption DEF NewLine, MayCall, TypeOK
    <2>2. m_arrayData' \in Seq(Cell) /\ stack' \in Seq({"object", "array"})
      BY <1>3, EmptySeq DEF NewLine
    <2>3. m_key' \in Columns /\ m_objectCounter' \in Int /\ wants' = "value"
      BY <1>3, KeyAssumption DEF NewLine
    <2>4. m_fillArray' \in BOOLEAN /\ plain' \in BOOLEAN
      BY <1>3 DEF NewLine
    <2>5. verdict' \in {"row", "error", "thrown"}
      BY <1>3 DEF NewLine
    <2> QED
      BY <1>1, <2>1, <2>2, <2>3, <2>4, <2>5 DEF TypeOK
  <1>4. ASSUME NEW kind \in {"object", "array"}, Opens(kind)
        PROVE  stack' \in Seq({"object", "array"}) /\ wants' \in {"value", "key", "nothing"}
    <2>1. << kind >> \in Seq({"object", "array"}) /\ stack \in Seq({"object", "array"})
      BY DEF TypeOK
    <2> QED
      BY <1>4, <2>1, ConcatProperties DEF Opens, After
  <1>5. ASSUME NEW kind \in {"object", "array"}, Closes(kind)
        PROVE  stack' \in Seq({"object", "array"}) /\ wants' \in {"value", "key", "nothing"}
    <2>1. stack \in Seq({"object", "array"}) /\ stack # << >>
      BY <1>5 DEF TypeOK, Closes, AtEnd
    <2> QED
      BY <1>5, <2>1, HeadTailProperties DEF Closes, After
  <1>6. CASE StartObject
    <2>1. MayCall /\ Called /\ Opens("object")
      BY <1>6 DEF StartObject, Opens
    <2>2. m_objectCounter' \in Int /\ plain' \in BOOLEAN
      BY <1>6 DEF StartObject, TypeOK
    <2>3. UNCHANGED <<m_key, m_fillArray, m_arrayData>>
      BY <1>6 DEF StartObject
    <2> QED
      BY <1>1, <1>2, <1>4, <2>1, <2>2, <2>3 DEF TypeOK
  <1>7. CASE StartArray
    <2>1. MayCall /\ Called /\ Opens("array")
      BY <1>7 DEF StartArray, Opens
    <2>2. m_fillArray' \in BOOLEAN /\ plain' \in BOOLEAN
      BY <1>7 DEF StartArray, TypeOK
    <2>3. UNCHANGED <<m_key, m_objectCounter, m_arrayData>>
      BY <1>7 DEF StartArray
    <2> QED
      BY <1>1, <1>2, <1>4, <2>1, <2>2, <2>3 DEF TypeOK
  <1>8. CASE EndObject
    <2>1. MayCall /\ Called /\ Closes("object")
      BY <1>8 DEF EndObject, Closes, AtEnd
    <2>2. m_objectCounter' \in Int
      BY <1>8 DEF EndObject, TypeOK
    <2>3. UNCHANGED <<m_key, m_fillArray, m_arrayData, plain>>
      BY <1>8 DEF EndObject
    <2> QED
      BY <1>1, <1>2, <1>5, <2>1, <2>2, <2>3 DEF TypeOK
  <1>9. CASE EndArray
    <2>1. MayCall /\ Called /\ Closes("array")
      BY <1>9 DEF EndArray, Closes, AtEnd
    <2>2. m_arrayData' \in Seq(Cell) /\ m_fillArray' \in BOOLEAN
      BY <1>9, EmptySeq DEF EndArray
    <2>3. m_key' \in Columns
      BY <1>9, KeyAssumption DEF EndArray, TypeOK, table
    <2>4. UNCHANGED <<m_objectCounter, plain>>
      BY <1>9 DEF EndArray
    <2> QED
      BY <1>1, <1>2, <1>5, <2>1, <2>2, <2>3, <2>4 DEF TypeOK
  <1>10. CASE \E v \in Cell : Scalar(v)
    <2>1. PICK v \in Cell : Scalar(v)
      BY <1>10
    <2>2. m_arrayData' \in Seq(Cell) /\ m_key' \in Columns
      BY <2>1, KeyAssumption DEF Scalar, Store, TypeOK
    <2>3. wants' \in {"value", "key", "nothing"} /\ plain' \in BOOLEAN
      BY <2>1 DEF Scalar, After, TypeOK
    <2>4. MayCall /\ Called /\ UNCHANGED <<m_objectCounter, m_fillArray, stack>>
      BY <2>1 DEF Scalar
    <2> QED
      BY <1>1, <1>2, <2>2, <2>3, <2>4 DEF TypeOK
  <1>11. CASE \E k \in Columns : Key(k)
    <2>1. PICK k \in Columns : Key(k)
      BY <1>11
    <2>2. m_key' \in Columns /\ wants' \in {"value", "key", "nothing"} /\ plain' \in BOOLEAN
      BY <2>1 DEF Key, TypeOK
    <2>3. MayCall /\ Called /\ UNCHANGED <<m_objectCounter, m_fillArray, m_arrayData, stack>>
      BY <2>1 DEF Key
    <2> QED
      BY <1>1, <1>2, <2>2, <2>3 DEF TypeOK
  <1>12. CASE checkKeyThrows \/ ParseError \/ Accept
    <2>1. MayCall /\ \E r \in {"row", "error", "thrown"} : NewLine(r)
      BY <1>12 DEF checkKeyThrows, ParseError, Accept
    <2> QED
      BY <1>1, <1>3, <2>1
  <1>13. CASE Flush
    BY <1>1, <1>13 DEF Flush, handler, parser, TypeOK
  <1> QED
    BY <1>6, <1>7, <1>8, <1>9, <1>10, <1>11, <1>12, <1>13 DEF Next

-----------------------------------------------------------------------------
(* The table between and within the lines. *)

(***************************************************************************)
(* A line that has just ended, or a table just emptied, is a fresh start.  *)
(***************************************************************************)
LEMMA FreshTable ==
    ASSUME TableType', IsRectangular', before' = <<m_tbl', m_rowCount'>>
    PROVE  TableInv'
  <1>1. m_rowCount' \in Nat
    BY DEF TableType
  <1>2. Ahead' /\ Rectangular'
    BY DEF IsRectangular, Ahead, Rectangular
  <1>3. \A c \in Columns : CellAt(m_tbl', c, m_rowCount' + 1) = Null
    BY <1>1 DEF IsRectangular, CellAt
  <1>4. before'[1] = m_tbl' /\ before'[2] = m_rowCount'
    OBVIOUS
  <1>5. Begun'
    BY <1>3, <1>4 DEF Begun
  <1> QED
    BY <1>2, <1>5 DEF TableInv

(***************************************************************************)
(* Every step keeps the table in order and what is remembered of it true.  *)
(***************************************************************************)
LEMMA TableStep ==
    ASSUME TypeOK, TableInv, Next
    PROVE  TableInv'
  <1>0. TableType /\ Ahead /\ Begun /\ m_rowCount \in Nat /\ calls \in Nat
    BY BoundAssumption DEF TypeOK, TableType, TableInv
  <1>1. CASE UNCHANGED <<table, before, lines>> /\ MayCall /\ calls' = calls + 1
    BY <1>0, <1>1 DEF table, TableInv, Ahead, Rectangular, Begun
  <1>2. CASE /\ \E c \in Columns, v \in Value : append(c, v)
             /\ UNCHANGED <<before, lines>> /\ MayCall /\ calls' = calls + 1
    <2>1. PICK c \in Columns, v \in Value : append(c, v)
      BY <1>2
    <2>2. Ahead' /\ m_rowCount' = m_rowCount /\ SameRows(m_rowCount)
      BY <1>0, <2>1, AppendStep
    <2>3. Begun'
      BY <1>0, <1>2, <2>2 DEF Begun, SameRows
    <2>4. Rectangular'
      BY <1>0, <1>2 DEF Rectangular
    <2> QED
      BY <2>2, <2>3, <2>4 DEF TableInv
  <1>3. CASE UndoRow /\ MayCall /\ \E r \in {"error", "thrown"} : NewLine(r)
    <2>1. TableType' /\ IsRectangular'
      BY <1>0, <1>3, UndoStep
    <2>2. before' = <<m_tbl', m_rowCount'>>
      BY <1>3 DEF NewLine
    <2> QED
      BY <2>1, <2>2, FreshTable
  <1>4. CASE FinishRow /\ MayCall /\ NewLine("row") /\ wants = "nothing"
    <2>1. TableType' /\ IsRectangular'
      BY <1>0, <1>4, FinishStep
    <2>2. before' = <<m_tbl', m_rowCount'>>
      BY <1>4 DEF NewLine
    <2> QED
      BY <2>1, <2>2, FreshTable
  <1>5. CASE Flush
    <2>1. TableType' /\ IsRectangular' /\ before' = <<m_tbl', m_rowCount'>>
      BY <1>5 DEF Flush, flushTbl, TableType, IsRectangular
    <2> QED
      BY <2>1, FreshTable
  <1> QED
    BY <1>1, <1>2, <1>3, <1>4, <1>5, StepOnTable

IInv == TypeOK /\ TableInv

(***************************************************************************)
(* The invariant holds of the empty table before the first line.           *)
(***************************************************************************)
LEMMA InitInv == Init => IInv
  <1> SUFFICES ASSUME Init PROVE IInv
    OBVIOUS
  <1>1. TableType /\ IsRectangular /\ m_rowCount = 0 /\ DOMAIN m_tbl = {}
    BY DEF Init, TableInit, TableType, IsRectangular
  <1>2. TypeOK
    <2>1. m_arrayData \in Seq(Cell) /\ stack \in Seq({"object", "array"})
      BY EmptySeq DEF Init
    <2>2. m_key \in Columns /\ m_objectCounter \in Int /\ wants = "value" /\ verdict = "none"
      BY KeyAssumption DEF Init
    <2>3. m_fillArray \in BOOLEAN /\ plain \in BOOLEAN
      BY DEF Init
    <2>4. lines \in 0 .. MaxLines /\ calls \in 0 .. MaxEvents
      BY BoundAssumption DEF Init
    <2> QED
      BY <1>1, <2>1, <2>2, <2>3, <2>4 DEF TypeOK
  <1>3. TableInv
    <2>1. before[1] = m_tbl /\ before[2] = m_rowCount
      BY DEF Init
    <2> QED
      BY <1>1, <2>1 DEF TableInv, Ahead, Rectangular, Begun, CellAt
  <1> QED
    BY <1>2, <1>3 DEF IInv

(***************************************************************************)
(* Every step, and every stutter, keeps the invariant.                     *)
(***************************************************************************)
LEMMA NextInv == IInv /\ [Next]_vars => IInv'
  <1>1. ASSUME IInv, Next PROVE IInv'
    BY <1>1, TypeStep, TableStep DEF IInv, TableInv
  <1>2. ASSUME IInv, UNCHANGED vars PROVE IInv'
    BY <1>2 DEF IInv, vars, table, handler, parser, history,
                TypeOK, TableType, TableInv, Ahead, Rectangular, IsRectangular, Begun
  <1> QED
    BY <1>1, <1>2

(***************************************************************************)
(* The invariant holds in every reachable state.                           *)
(***************************************************************************)
LEMMA Invariance == Spec => []IInv
  BY InitInv, NextInv, PTL DEF Spec

(***************************************************************************)
(* Every variable of the handler, of the parser that drives it and of the  *)
(* table keeps its type (MyHandler, ClickTable).                           *)
(***************************************************************************)
THEOREM TypeCorrect == Spec => []TypeOK
  <1>1. IInv => TypeOK
    BY DEF IInv
  <1> QED
    BY <1>1, Invariance, PTL

(***************************************************************************)
(* The table that save writes between two lines is rectangular, whatever   *)
(* lines were read and wherever they broke off (finishAppend, revert).     *)
(***************************************************************************)
THEOREM TableIsRectangular == Spec => []Rectangular
  <1>1. IInv => Rectangular
    BY DEF IInv, TableInv
  <1> QED
    BY <1>1, Invariance, PTL

-----------------------------------------------------------------------------
(* Rows finished earlier, and lines that fail. *)

(***************************************************************************)
(* No step of a line, nor its end, changes a row finished before it        *)
(* (ClickColumn::append, revert, ClickTable::finishAppend).                *)
(***************************************************************************)
THEOREM EarlierRowsStay == Spec => EarlierRowsKept
  <1> DEFINE Kept == m_rowCount' >= m_rowCount => SameRows(m_rowCount)
  <1>1. ASSUME IInv, Next PROVE Kept
    <2>0. TypeOK /\ TableType /\ Ahead /\ m_rowCount \in Nat
      BY <1>1 DEF IInv, TableInv, TypeOK, TableType
    <2>1. CASE UNCHANGED table
      BY <2>1 DEF table, SameRows
    <2>2. CASE \E c \in Columns, v \in Value : append(c, v)
      BY <2>0, <2>2, AppendStep
    <2>3. CASE UndoRow
      BY <2>0, <2>3, UndoStep
    <2>4. CASE FinishRow
      BY <2>0, <2>4, FinishStep DEF SameRows
    <2>5. CASE Flush
      BY <2>0, <2>5 DEF Flush, flushTbl
    <2> QED
      BY <1>1, <2>0, <2>1, <2>2, <2>3, <2>4, <2>5, StepOnTable
  <1>2. ASSUME UNCHANGED vars PROVE Kept
    BY <1>2 DEF vars, table, SameRows
  <1>3. IInv /\ [Next]_vars =>
           [ m_rowCount' >= m_rowCount =>
                \A c \in Columns, i \in 1 .. m_rowCount :
                   CellAt(m_tbl', c, i) = CellAt(m_tbl, c, i) ]_vars
    BY <1>1, <1>2 DEF SameRows
  <1> QED
    BY <1>3, Invariance, PTL DEF Spec, EarlierRowsKept

(***************************************************************************)
(* A refused line leaves the table as it was when the line began, whether  *)
(* the parser or checkKey refused it (finishAppend(false)).                *)
(***************************************************************************)
THEOREM BadLineLeavesNothing == Spec => BadLineUndone
  <1> DEFINE Undone ==
               /\ m_rowCount' = before[2]
               /\ \A c \in Columns, i \in 1 .. m_rowCount + 1 :
                     CellAt(m_tbl', c, i) = CellAt(before[1], c, i)
  <1>1. ASSUME IInv, Next, BadLine PROVE Undone
    <2>0. TypeOK /\ TableType /\ Begun /\ m_rowCount \in Nat /\ lines \in Nat
      BY <1>1, BoundAssumption DEF IInv, TableInv, TypeOK, TableType
    <2>1. UndoRow
      <3>1. lines' # lines /\ verdict' # "row"
        BY <1>1, <2>0 DEF BadLine
      <3> QED
        BY <1>1, <2>0, <3>1, StepOnTable DEF NewLine, Flush
    <2>2. /\ m_rowCount' = m_rowCount /\ SameRows(m_rowCount)
          /\ \A c \in Columns : CellAt(m_tbl', c, m_rowCount + 1) = Null
      BY <2>0, <2>1, UndoStep
    <2>3. m_rowCount' = before[2]
      BY <2>0, <2>2 DEF Begun
    <2>4. ASSUME NEW c \in Columns, NEW i \in 1 .. m_rowCount + 1
          PROVE  CellAt(m_tbl', c, i) = CellAt(before[1], c, i)
      <3>1. CASE i = m_rowCount + 1
        BY <2>0, <2>2, <3>1 DEF Begun
      <3>2. CASE i \in 1 .. m_rowCount
        BY <2>0, <2>2, <3>2 DEF Begun, SameRows
      <3> QED
        BY <2>0, <2>4, <3>1, <3>2
    <2> QED
      BY <2>3, <2>4
  <1>2. IInv => lines \in Nat
    BY BoundAssumption DEF IInv, TypeOK
  <1>3. ASSUME IInv, UNCHANGED vars PROVE ~ BadLine
    BY <1>2, <1>3 DEF vars, BadLine
  <1>4. IInv /\ [Next]_vars =>
           [ BadLine =>
               /\ m_rowCount' = before[2]
               /\ \A c \in Columns, i \in 1 .. m_rowCount + 1 :
                     CellAt(m_tbl', c, i) = CellAt(before[1], c, i) ]_vars
    BY <1>1, <1>3
  <1> QED
    BY <1>4, Invariance, PTL DEF Spec, BadLineUndone

-----------------------------------------------------------------------------
(* The row of a plain line. *)

\* The five states of a line that is an object of scalars and flat arrays.
AtStart ==
    /\ stack = << >> /\ wants = "value" /\ m_objectCounter = 0 /\ ~ m_fillArray
    /\ m_key = EmptyKey /\ m_arrayData = << >> /\ given = << >>

AtKey ==
    /\ stack = << "object" >> /\ wants = "key" /\ m_objectCounter = 1 /\ ~ m_fillArray
    /\ m_key = EmptyKey /\ m_arrayData = << >>

AtMember ==
    /\ stack = << "object" >> /\ wants = "value" /\ m_objectCounter = 1 /\ ~ m_fillArray
    /\ m_key # EmptyKey /\ m_arrayData = << >>

AtElement ==
    /\ stack = << "array", "object" >> /\ wants = "value"
    /\ m_objectCounter = 1 /\ m_fillArray
    /\ m_key # EmptyKey /\ m_key \in DOMAIN given /\ given[m_key] = m_arrayData

AtEndOfLine ==
    /\ stack = << >> /\ wants = "nothing" /\ m_objectCounter = 0 /\ ~ m_fillArray
    /\ m_key = EmptyKey /\ m_arrayData = << >>

\* The member whose array is being read reaches the table at the end.
RowSoFar ==
    \A c \in Columns :
       (AtElement => c # m_key) =>
          CellAt(m_tbl, c, m_rowCount + 1) = IF c \in DOMAIN given THEN given[c] ELSE Null

LineInv ==
    /\ calls = 0 => plain /\ AtStart
    /\ plain => AtStart \/ AtKey \/ AtMember \/ AtElement \/ AtEndOfLine
    /\ plain => RowSoFar

(***************************************************************************)
(* The three stacks of a plain line and what the grammar allows on them.   *)
(***************************************************************************)
LEMMA StackFacts ==
    /\ After(<< >>) = "nothing"
    /\ After(<< "object" >>) = "key"
    /\ After(<< "array", "object" >>) = "value"
    /\ << "object" >> \o << >> = << "object" >>
    /\ << "array" >> \o << "object" >> = << "array", "object" >>
    /\ Tail(<< "object" >>) = << >>
    /\ Tail(<< "array", "object" >>) = << "object" >>
    /\ Head(<< "object" >>) = "object"
    /\ Head(<< "array", "object" >>) = "array"
    /\ << "object" >> # << >>
    /\ << "array", "object" >> # << >>
    /\ << "array", "object" >> # << "object" >>
  <1> DEFINE S == {"object", "array"}
  <1>1. << >> \in Seq(S) /\ << "array" >> \in Seq(S) /\ << "object" >> \in Seq(S)
    OBVIOUS
  <1>2. << "array", "object" >> \in Seq(S)
    OBVIOUS
  <1>3. Len(<< >>) = 0 /\ Len(<< "object" >>) = 1 /\ Len(<< "array", "object" >>) = 2
    OBVIOUS
  <1>4. << "object" >> # << >> /\ << "array", "object" >> # << >>
    BY <1>3
  <1>5. << "array", "object" >> # << "object" >>
    BY <1>3
  <1>6. Head(<< "object" >>) = "object" /\ Head(<< "array", "object" >>) = "array"
    OBVIOUS
  <1>7. << "object" >> \o << >> = << "object" >>
    BY <1>1, ConcatEmptySeq
  <1>8. << "array" >> \o << "object" >> = << "array", "object" >>
    <2> DEFINE s == << "array" >> \o << "object" >>
               t == << "array", "object" >>
    <2>1. s \in Seq(S) /\ t \in Seq(S)
      BY <1>1, <1>2, ConcatProperties
    <2>2. Len(<< "array" >>) = 1 /\ Len(<< "object" >>) = 1
      OBVIOUS
    <2>3. Len(s) = 2 /\ s[1] = << "array" >>[1] /\ s[2] = << "object" >>[1]
      BY <1>1, <2>2, ConcatProperties
    <2>4. Len(s) = Len(t) /\ \A i \in 1 .. Len(s) : s[i] = t[i]
      BY <1>3, <2>3
    <2> HIDE DEF s, t
    <2>5. s = t
      BY <2>1, <2>4, SeqEqual
    <2> QED
      BY <2>5 DEF s, t
  <1>9. Tail(<< "object" >>) = << >>
    OBVIOUS
  <1>10. Tail(<< "array", "object" >>) = << "object" >>
    OBVIOUS
  <1>11. /\ After(<< >>) = "nothing"
         /\ After(<< "object" >>) = "key"
         /\ After(<< "array", "object" >>) = "value"
    BY <1>4, <1>6 DEF After
  <1> QED
    BY <1>4, <1>5, <1>6, <1>7, <1>8, <1>9, <1>10, <1>11

(***************************************************************************)
(* What the parser asks for next tells the states of a plain line apart.   *)
(***************************************************************************)
LEMMA PlainStates ==
    ASSUME LineInv, plain
    PROVE  /\ wants = "key" => AtKey
           /\ wants = "nothing" => AtEndOfLine
           /\ wants = "value" /\ stack = << >> => AtStart
           /\ wants = "value" /\ stack = << "object" >> => AtMember
           /\ wants = "value" /\ stack # << >> => AtMember \/ AtElement
  BY StackFacts DEF LineInv, AtStart, AtKey, AtMember, AtElement, AtEndOfLine

(***************************************************************************)
(* The first value of a line, and every member, finds its column empty in  *)
(* the row being read or replaces what a duplicate key put there.          *)
(***************************************************************************)
LEMMA LineStep ==
    ASSUME TypeOK, TableInv, LineInv, Next, TableInv'
    PROVE  LineInv'
  <1>0. /\ TableType /\ Ahead /\ m_rowCount \in Nat /\ calls \in Nat
        /\ m_key \in Columns /\ m_arrayData \in Value
    BY BoundAssumption DEF TypeOK, TableType, TableInv, Value
  <1>1. ASSUME NEW r, NewLine(r) PROVE LineInv'
    <2>1. AtStart' /\ plain' /\ before' = <<m_tbl', m_rowCount'>>
      BY <1>1 DEF NewLine, AtStart
    <2>2. \A c \in Columns : CellAt(m_tbl', c, m_rowCount' + 1) = Null
      BY <2>1 DEF TableInv, Begun
    <2>3. DOMAIN given' = {}
      BY <2>1 DEF AtStart
    <2> QED
      BY <2>1, <2>2, <2>3 DEF LineInv, RowSoFar
  <1>2. ASSUME Called PROVE calls' # 0
    BY <1>0, <1>2 DEF Called
  <1>3. CASE \E v \in Cell : Scalar(v)
    <2>1. PICK v \in Cell : Scalar(v)
      BY <1>3
    <2>2. SUFFICES ASSUME plain' PROVE (AtKey \/ AtElement)' /\ RowSoFar'
      BY <1>2, <2>1 DEF LineInv, Scalar
    <2>3. plain /\ stack # << >> /\ wants = "value"
      BY <2>1, <2>2 DEF Scalar
    <2>4. (AtMember \/ AtElement) /\ RowSoFar
      BY <2>3, PlainStates DEF LineInv
    <2>5. CASE AtMember
      <3>1. /\ append(m_key, v) /\ m_key' = EmptyKey /\ wants' = "key"
            /\ UNCHANGED <<stack, m_objectCounter, m_fillArray, m_arrayData>>
            /\ given' = [c \in DOMAIN given \union {m_key} |->
                            IF c = m_key THEN v ELSE given[c]]
        BY <2>1, <2>5, StackFacts DEF Scalar, Store, NeedsKey, Give, AtMember
      <3>2. AtKey' /\ ~ AtElement' /\ ~ AtElement
        BY <2>5, <3>1 DEF AtMember, AtKey, AtElement
      <3>3. /\ m_rowCount' = m_rowCount
            /\ \A d \in Columns :
                  CellAt(m_tbl', d, m_rowCount + 1) =
                     IF d = m_key THEN v ELSE CellAt(m_tbl, d, m_rowCount + 1)
        <4>1. v \in Value
          BY DEF Value
        <4> QED
          BY <1>0, <3>1, <4>1, AppendStep
      <3>4. RowSoFar'
        BY <2>4, <3>1, <3>2, <3>3 DEF RowSoFar
      <3> QED
        BY <3>2, <3>4
    <2>6. CASE AtElement
      <3>1. /\ UNCHANGED <<table, m_key, stack, m_objectCounter, m_fillArray>>
            /\ m_arrayData' = Append(m_arrayData, v) /\ wants' = "value"
            /\ given' = [given EXCEPT ![m_key] = Append(@, v)]
        BY <2>1, <2>3, <2>6, StackFacts DEF Scalar, Store, NeedsKey, Give, AtElement
      <3>2. AtElement'
        BY <2>6, <3>1 DEF AtElement
      <3>3. RowSoFar'
        BY <2>4, <2>6, <3>1, <3>2 DEF RowSoFar, table
      <3> QED
        BY <3>2, <3>3
    <2> QED
      BY <2>4, <2>5, <2>6
  <1>4. CASE \E k \in Columns : Key(k)
    <2>1. PICK k \in Columns : Key(k)
      BY <1>4
    <2>2. SUFFICES ASSUME plain' PROVE AtMember' /\ RowSoFar'
      BY <1>2, <2>1 DEF LineInv, Key
    <2>3. plain /\ k # EmptyKey /\ AtKey /\ RowSoFar
      BY <2>1, <2>2, PlainStates DEF Key, LineInv
    <2>4. AtMember' /\ ~ AtElement /\ ~ AtElement'
      BY <2>1, <2>3 DEF Key, AtKey, AtMember, AtElement
    <2>5. RowSoFar'
      BY <2>1, <2>3, <2>4 DEF Key, RowSoFar, table
    <2> QED
      BY <2>4, <2>5
  <1>5. CASE StartObject
    <2>1. SUFFICES ASSUME plain' PROVE AtKey' /\ RowSoFar'
      BY <1>2, <1>5 DEF LineInv, StartObject, Opens
    <2>2. plain /\ AtStart /\ RowSoFar
      BY <1>5, <2>1, PlainStates DEF StartObject, Opens, LineInv
    <2>3. given' = given /\ stack' = << "object" >> /\ wants' = "key"
      BY <1>5, <2>2, StackFacts DEF StartObject, Opens, Give, AtStart
    <2>4. AtKey' /\ ~ AtElement /\ ~ AtElement'
      BY <1>5, <2>2, <2>3, StackFacts DEF StartObject, AtStart, AtKey, AtElement
    <2>5. RowSoFar'
      BY <1>5, <2>2, <2>3, <2>4 DEF StartObject, RowSoFar, table
    <2> QED
      BY <2>4, <2>5
  <1>6. CASE StartArray
    <2>1. SUFFICES ASSUME plain' PROVE AtElement' /\ RowSoFar'
      BY <1>2, <1>6 DEF LineInv, StartArray, Opens
    <2>2. plain /\ AtMember /\ RowSoFar /\ ~ AtElement
      BY <1>6, <2>1, PlainStates DEF StartArray, Opens, LineInv, AtMember, AtElement
    <2>3. /\ given' = [c \in DOMAIN given \union {m_key} |->
                          IF c = m_key THEN << >> ELSE given[c]]
          /\ stack' = << "array", "object" >> /\ wants' = "value"
      BY <1>6, <2>2, StackFacts DEF StartArray, Opens, Give, AtMember
    <2>4. AtElement'
      BY <1>6, <2>2, <2>3 DEF StartArray, AtMember, AtElement
    <2>5. RowSoFar'
      BY <1>6, <2>2, <2>3, <2>4 DEF StartArray, RowSoFar, table
    <2> QED
      BY <2>4, <2>5
  <1>7. CASE EndObject
    <2>1. SUFFICES ASSUME plain' PROVE AtEndOfLine' /\ RowSoFar'
      BY <1>2, <1>7 DEF LineInv, EndObject, Closes
    <2>2. plain /\ RowSoFar /\ stack # << >> /\ Head(stack) = "object" /\ wants = "key"
      BY <1>7, <2>1 DEF EndObject, Closes, AtEnd, After, LineInv
    <2>3. AtKey
      BY <2>2, PlainStates
    <2>4. AtEndOfLine' /\ ~ AtElement /\ ~ AtElement'
      BY <1>7, <2>3, StackFacts DEF EndObject, Closes, AtKey, AtEndOfLine, AtElement
    <2>5. RowSoFar'
      BY <1>7, <2>2, <2>4 DEF EndObject, RowSoFar, table
    <2> QED
      BY <2>4, <2>5
  <1>8. CASE EndArray
    <2>1. SUFFICES ASSUME plain' PROVE AtKey' /\ RowSoFar'
      BY <1>2, <1>8 DEF LineInv, EndArray, Closes
    <2>2. /\ plain /\ RowSoFar
          /\ stack # << >> /\ Head(stack) = "array" /\ wants = "value"
      BY <1>8, <2>1 DEF EndArray, Closes, AtEnd, After, LineInv
    <2>3. AtElement
      BY <2>2, PlainStates, StackFacts DEF AtMember
    <2>4. append(m_key, m_arrayData) /\ m_key' = EmptyKey
      BY <1>8, <2>3 DEF EndArray, AtElement
    <2>5. AtKey' /\ ~ AtElement'
      BY <1>8, <2>3, <2>4, StackFacts DEF EndArray, Closes, AtElement, AtKey
    <2>6. /\ m_rowCount' = m_rowCount
          /\ \A d \in Columns :
                CellAt(m_tbl', d, m_rowCount + 1) =
                   IF d = m_key THEN m_arrayData ELSE CellAt(m_tbl, d, m_rowCount + 1)
      BY <1>0, <2>4, AppendStep
    <2>7. given' = given
      BY <1>8 DEF EndArray
    <2>8. RowSoFar'
      BY <2>2, <2>3, <2>5, <2>6, <2>7 DEF RowSoFar, AtElement
    <2> QED
      BY <2>5, <2>8
  <1>9. CASE checkKeyThrows \/ ParseError \/ Accept
    BY <1>1, <1>9 DEF checkKeyThrows, ParseError, Accept
  <1>10. CASE Flush
    <2>1. /\ AtStart /\ plain
          /\ UNCHANGED <<handler, parser, given, plain, calls>>
          /\ before' = <<m_tbl', m_rowCount'>>
      BY <1>10 DEF Flush, LineInv
    <2>2. AtStart' /\ DOMAIN given' = {}
      BY <2>1 DEF AtStart, handler, parser
    <2>3. \A c \in Columns : CellAt(m_tbl', c, m_rowCount' + 1) = Null
      BY <2>1 DEF TableInv, Begun
    <2> QED
      BY <2>1, <2>2, <2>3 DEF LineInv, RowSoFar
  <1> QED
    BY <1>3, <1>4, <1>5, <1>6, <1>7, <1>8, <1>9, <1>10 DEF Next

(***************************************************************************)
(* The states of a plain line and its row so far hold throughout.          *)
(***************************************************************************)
LEMMA LineInvariance == Spec => [](IInv /\ LineInv)
  <1>1. Init => LineInv
    BY DEF Init, TableInit, LineInv, AtStart, RowSoFar, CellAt
  <1>2. ASSUME IInv, LineInv, IInv', [Next]_vars PROVE LineInv'
    <2>1. CASE Next
      BY <1>2, <2>1, LineStep DEF IInv
    <2>2. CASE UNCHANGED vars
      BY <1>2, <2>2 DEF vars, table, handler, parser, history, LineInv, RowSoFar,
                        AtStart, AtKey, AtMember, AtElement, AtEndOfLine
    <2> QED
      BY <1>2, <2>1, <2>2
  <1> QED
    BY <1>1, <1>2, Invariance, PTL DEF Spec

(***************************************************************************)
(* The row of a plain line is its object: every member in its column, an   *)
(* array as one value, the last of duplicate keys, null elsewhere          *)
(* (MyHandler::append, Key, EndArray, ClickTable::append, finishAppend).   *)
(***************************************************************************)
LEMMA RowsAreLines == Spec => RowIsLine
  <1>1. ASSUME IInv, LineInv, Next, plain, m_rowCount' = m_rowCount + 1,
               NEW c \in Columns
        PROVE  CellAt(m_tbl', c, m_rowCount') = IF c \in DOMAIN given THEN given[c] ELSE Null
    <2>0. TypeOK /\ TableType /\ Ahead /\ m_rowCount \in Nat
      BY <1>1 DEF IInv, TableInv, TypeOK, TableType
    <2>1. FinishRow /\ wants = "nothing"
      <3>1. ~ UNCHANGED table
        BY <1>1, <2>0 DEF table
      <3>2. ~ \E d \in Columns, v \in Value : append(d, v)
        BY <1>1, <2>0, AppendStep
      <3>3. ~ UndoRow
        BY <1>1, <2>0, UndoStep
      <3>4. Flush => m_rowCount' = 0
        BY DEF Flush, flushTbl
      <3> QED
        BY <1>1, <2>0, <3>1, <3>2, <3>3, <3>4, StepOnTable
    <2>2. SameRows(m_rowCount + 1)
      BY <2>0, <2>1, FinishStep
    <2>3. RowSoFar /\ ~ AtElement
      BY <1>1, <2>1 DEF LineInv, AtElement
    <2>4. CellAt(m_tbl', c, m_rowCount + 1) = CellAt(m_tbl, c, m_rowCount + 1)
      BY <2>0, <2>2 DEF SameRows
    <2> QED
      BY <1>1, <2>3, <2>4 DEF RowSoFar
  <1>2. ASSUME IInv, UNCHANGED vars PROVE m_rowCount' # m_rowCount + 1
    BY <1>2 DEF IInv, TypeOK, TableType, vars, table
  <1>3. IInv /\ LineInv /\ [Next]_vars =>
           [ plain /\ m_rowCount' = m_rowCount + 1 =>
               \A c \in Columns :
                  CellAt(m_tbl', c, m_rowCount') =
                     IF c \in DOMAIN given THEN given[c] ELSE Null ]_vars
    BY <1>1, <1>2
  <1> QED
    BY <1>3, LineInvariance, PTL DEF Spec, RowIsLine

(***************************************************************************)
(* checkKey never throws on a line that is an object of scalars and flat   *)
(* arrays under keys that are not empty (MyHandler::checkKey).             *)
(***************************************************************************)
LEMMA PlainLinesAccepted == Spec => PlainNotRefused
  <1>1. ASSUME IInv, LineInv, Next, BadLine, verdict' = "thrown" PROVE ~ plain
    <2>0. m_rowCount \in Nat /\ lines \in Nat /\ lines' = lines + 1
      BY <1>1, BoundAssumption DEF IInv, TypeOK, TableType, BadLine
    <2>1. checkKeyThrows
      BY <1>1, <2>0
         DEF Next, Scalar, Key, StartObject, EndObject, StartArray, EndArray,
             Opens, Closes, Called, ParseError, Accept, NewLine, Flush
    <2>2. SUFFICES ASSUME plain PROVE FALSE
      OBVIOUS
    <2>3. CASE wants = "value" /\ NeedsKey /\ m_key = EmptyKey
      BY <1>1, <2>2, <2>3 DEF LineInv, NeedsKey,
         AtStart, AtKey, AtMember, AtElement, AtEndOfLine
    <2>4. CASE AtEnd("array") /\ m_objectCounter = 1 /\ m_key = EmptyKey
      <3>1. Head(stack) = "array" /\ wants = "value"
        BY <2>4 DEF AtEnd, After
      <3> QED
        BY <1>1, <2>2, <2>4, <3>1 DEF LineInv, AtStart, AtKey, AtMember, AtElement, AtEndOfLine
    <2>5. CASE wants = "key" /\ m_objectCounter <= 1 /\ m_key # EmptyKey
      BY <1>1, <2>2, <2>5, PlainStates DEF AtKey
    <2> QED
      BY <2>1, <2>3, <2>4, <2>5 DEF checkKeyThrows
  <1>2. ASSUME IInv, UNCHANGED vars PROVE ~ BadLine
    BY <1>2, BoundAssumption DEF IInv, TypeOK, vars, BadLine
  <1>3. IInv /\ LineInv /\ [Next]_vars =>
           [ BadLine /\ verdict' = "thrown" => ~ plain ]_vars
    BY <1>1, <1>2
  <1> QED
    BY <1>3, LineInvariance, PTL DEF Spec, PlainNotRefused

(***************************************************************************)
(* A line that is an object of scalars and flat arrays under keys that are *)
(* not empty is never refused by MyHandler::checkKey, and its row is that  *)
(* object.                                                                 *)
(***************************************************************************)
THEOREM PlainLinesAreRows == Spec => PlainLineIsRow
  BY RowsAreLines, PlainLinesAccepted DEF PlainLineIsRow

=============================================================================
