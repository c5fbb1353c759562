------------------------------ MODULE MCCdbFile ------------------------------
(***************************************************************************)
(* Small tables for CdbFile: a column with all kinds of values, one beside *)
(* another column, and two that are one up to a zero byte, alone and beside*)
(* another column.                                                         *)
(***************************************************************************)
EXTENDS CdbFile, TLC

CONSTANTS null, u7, u300, i1, d1, yes, s7, s7z, a, az, b

MCKind == u7 :> "uint" @@ u300 :> "uint" @@ i1 :> "int" @@ d1 :> "double" @@ yes :> "bool"
          @@ s7 :> "str" @@ s7z :> "str"
MCNumber == u7 :> 7 @@ u300 :> 300 @@ i1 :> -1 @@ d1 :> 1 @@ yes :> 1 @@ s7 :> 7 @@ s7z :> 7
MCText == u7 :> "7" @@ u300 :> "300" @@ i1 :> "-1" @@ d1 :> "1.5" @@ yes :> "true" @@ s7 :> "7"
          @@ s7z :> "7z" @@ null :> "null"
MCEnumValue == "7" :> 1
MCCutString == [s \in Scalars |-> IF s = s7z THEN s7 ELSE s]
MCCutName == a :> a @@ az :> a @@ b :> b

Few == {null, u7, <<null, s7>>}
All == Few \union {s7, u300, i1, d1, yes, s7z, << >>, <<s7z>>, <<u7>>}

MCTables ==
    [{a} -> UNION {[1 .. n -> All] : n \in 0 .. 2}]
    \union [{a, b} -> [1 .. 1 -> All]]
    \union UNION {[{a, az} -> [1 .. n -> Few]] : n \in 1 .. 2}
    \union [{a, az, b} -> [1 .. 1 -> {u7, <<null, s7>>}]]
    \union [{a, b} -> [1 .. 2 -> {u7, <<null, s7>>}]]
    \union {<< >>}

T(isArray, nullable, base) == [array |-> isArray, nullable |-> nullable, base |-> base]
MCTypesOf ==
    a :> {T(FALSE, FALSE, "UInt8"), T(FALSE, TRUE, "Enum8"), T(FALSE, TRUE, "UInt8"),
          T(TRUE, TRUE, "Int64"), T(TRUE, FALSE, "String"), T(TRUE, FALSE, "Enum8")}
    @@ b :> {T(FALSE, FALSE, "Int64"), T(FALSE, FALSE, "Tuple")}
    @@ az :> {T(FALSE, FALSE, "String")}
=============================================================================
