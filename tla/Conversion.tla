------------------------------ MODULE Conversion ------------------------------
(***************************************************************************)
(* column2ClickColumn: what a column of values becomes in a ClickHouse     *)
(* column of the type the table has, with the getters of Value and the     *)
(* nullable and array columns of the client.  Types are at most arrays of  *)
(* nullable values; a JSON line holds no more.                             *)
(***************************************************************************)
EXTENDS Integers, Sequences

CONSTANTS
    Scalars, Null,      \* values, told apart by identity
    Kind,               \* Kind[s]: uint, int, double, bool, or str
    Number, Text,       \* what the getters make of a scalar or null
    EnumValue           \* EnumValue[t]: the number of the name t

ASSUME ScalarAssumption ==
    /\ Null \notin Scalars
    /\ Kind \in [Scalars -> {"uint", "int", "double", "bool", "str"}]
    /\ Number \in [Scalars -> Int]
    /\ DOMAIN Text = Scalars \union {Null}
    /\ \A v \in Scalars \union {Null} : v \notin Seq(Scalars \union {Null})

Bases == {"UInt8", "Int64", "String", "Enum8", "Tuple"}
ColumnTypes == [array : BOOLEAN, nullable : BOOLEAN, base : Bases]

IsScalar(v) == v \in Scalars

\* Every getter of a number gives 0 for null and for an array.
getInt64(v) == IF IsScalar(v) THEN Number[v] ELSE 0
getUInt8(v) == getInt64(v) % 256
getInt8(v) == ((getInt64(v) + 128) % 256) - 128
getString(v) == IF IsScalar(v) \/ v = Null THEN Text[v] ELSE ""

\* Mutated form of EnumKinds.
EnumSigned == {"int", "str"}

EnumKinds == {"uint", "int", "str"}

\* Anything else throws, and so does a name that is not in the type.
EnumTakes(v) ==
    /\ IsScalar(v) /\ Kind[v] \in EnumKinds
    /\ Kind[v] = "str" => Text[v] \in DOMAIN EnumValue

Cell(base, v) ==
    CASE base = "UInt8" -> getUInt8(v)
      [] base = "Int64" -> getInt64(v)
      [] base = "String" -> getString(v)
      [] base = "Enum8" -> IF Kind[v] = "str" THEN EnumValue[Text[v]] ELSE getInt8(v)

\* A ClickHouse column: ColumnNullable has nulls, ColumnArray has offsets.
Empty == [data |-> << >>, nulls |-> << >>, offsets |-> << >>]

\* The flags go behind the nested column, one for each value.
Flags(t, vs) == IF t.nullable THEN [i \in DOMAIN vs |-> vs[i] = Null] ELSE << >>

AppendAll(t, column, vs) ==
    [column EXCEPT !.data = @ \o [i \in DOMAIN vs |-> Cell(t.base, vs[i])],
                   !.nulls = @ \o Flags(t, vs)]

\* Mutated form of NextOffset.
SizeAlone(offsets, size) == size

NextOffset(offsets, size) == IF offsets = << >> THEN size ELSE offsets[Len(offsets)] + size

AppendAsColumn(t, column, row) ==
    [AppendAll(t, column, row) EXCEPT !.offsets = Append(@, NextOffset(@, Len(row)))]

\* The column with the values of the rows, which are vectors if t is an array.
Column(t, vs) ==
    IF t.array
    THEN LET upTo[n \in 0 .. Len(vs)] ==
                 IF n = 0 THEN Empty ELSE AppendAsColumn(t, upTo[n - 1], vs[n])
         IN  upTo[Len(vs)]
    ELSE AppendAll(t, Empty, vs)

\* The type tag is not looked at before _vector is used: for null it is a
\* null pointer, for anything else no pointer to a vector.
HasVector(v) == ~ IsScalar(v) /\ v # Null

Takes(base, v) == base = "Enum8" => EnumTakes(v)

RowTaken(t, v) ==
    /\ t.base # "Tuple"
    /\ IF t.array THEN \A i \in DOMAIN v : Takes(t.base, v[i]) ELSE Takes(t.base, v)

\* The first row that is not just converted decides.
Outcome(t, vs) ==
    LET good(i) == (t.array => HasVector(vs[i])) /\ RowTaken(t, vs[i])
        bad == {i \in DOMAIN vs : ~ good(i)}
        first == CHOOSE i \in bad : \A j \in bad : i <= j
    IN  CASE bad = {} -> IF t.base = "Tuple" /\ ~ t.array THEN "throws" ELSE "converted"
          [] OTHER -> IF t.array /\ ~ HasVector(vs[first]) /\ t.base # "Tuple"
                      THEN "undefined" ELSE "throws"

\* Size(): the offsets', the nulls', or the data's.
Size(t, column) ==
    IF t.array THEN Len(column.offsets)
    ELSE IF t.nullable THEN Len(column.nulls) ELSE Len(column.data)

=============================================================================
