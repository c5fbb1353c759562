---------------------------- MODULE CdbFileProofs ----------------------------
(***************************************************************************)
(* Proofs about CdbFile for any table, any types of its columns and a file *)
(* cut anywhere: nothing but a whole file is loaded, what is loaded is     *)
(* what was saved, the rows of a block that is sent are those of the       *)
(* table, and what is not sent is explained by its values.                 *)
(*                                                                         *)
(* A reader that has not left the file knows where it is: the invariant    *)
(* says at which item of Items(saved) pos stands for the columns, rows and *)
(* cells that are still to come, and that m_tbl holds all that is before.  *)
(***************************************************************************)
EXTENDS CdbFile, FiniteSetTheorems, WellFoundedInduction, TLAPS

-----------------------------------------------------------------------------
(* Sequences put together. *)

LEMMA NatLeast ==
    ASSUME NEW S \in SUBSET Nat, S # {}
    PROVE  \E n \in S : \A m \in S : n <= m
  <1> DEFINE R == OpToRel(<, Nat)
  <1>1. IsWellFoundedOn(R, Nat)
    BY NatLessThanWellFounded
  <1>2. \A m, n \in Nat : m < n => <<m, n>> \in R
    BY DEF OpToRel
  <1> HIDE DEF R
  <1>3. PICK n \in S : \A m \in S : ~ (<<m, n>> \in R)
    BY <1>1, WFMin
  <1>4. n \in Nat /\ \A m \in S : m \in Nat /\ ~ (m < n)
    BY <1>2, <1>3, Zenon
  <1> QED BY <1>4

LEMMA Induction ==
    ASSUME NEW S, 0 \in S, \A n \in Nat : n \in S => n + 1 \in S
    PROVE  Nat \subseteq S
  <1> SUFFICES ASSUME Nat \ S # {} PROVE FALSE
    OBVIOUS
  <1>1. PICK n \in Nat \ S : \A m \in Nat \ S : n <= m
    BY NatLeast
  <1>2. n # 0 /\ n - 1 \in Nat /\ n - 1 \in S
    BY <1>1
  <1> QED BY <1>1, <1>2

\* A function over 1 .. n is a sequence.
LEMMA SeqFacts ==
    ASSUME NEW S, NEW n \in Nat, NEW s, s = [i \in 1 .. n |-> s[i]],
           \A i \in 1 .. n : s[i] \in S
    PROVE  s \in Seq(S) /\ Len(s) = n
  OBVIOUS

LEMMA ConcatFacts ==
    ASSUME NEW S, NEW s \in Seq(S), NEW t \in Seq(S)
    PROVE  /\ s \o t \in Seq(S) /\ Len(s \o t) = Len(s) + Len(t)
           /\ \A i \in 1 .. Len(s) : (s \o t)[i] = s[i]
           /\ \A i \in 1 .. Len(t) : (s \o t)[Len(s) + i] = t[i]
  OBVIOUS

\* f holds the first sequences of ss, put together.
Joins(f, ss, k) == \A i \in 1 .. k : f[i] = IF i = 1 THEN ss[i] ELSE f[i - 1] \o ss[i]

LEMMA JoinsExist ==
    ASSUME NEW S, NEW ss \in Seq(Seq(S))
    PROVE  \E f \in [1 .. Len(ss) -> Seq(S)] : Joins(f, ss, Len(ss))
  <1> DEFINE T == {k \in Nat : k <= Len(ss) => \E f \in [1 .. k -> Seq(S)] : Joins(f, ss, k)}
  <1>1. 0 \in T
    <2>1. [i \in 1 .. 0 |-> << >>] \in [1 .. 0 -> Seq(S)] /\ Joins([i \in 1 .. 0 |-> << >>], ss, 0)
      BY DEF Joins
    <2> QED BY <2>1
  <1>2. ASSUME NEW k \in Nat, k \in T, k + 1 <= Len(ss)
        PROVE  \E f \in [1 .. k + 1 -> Seq(S)] : Joins(f, ss, k + 1)
    <2>1. PICK f \in [1 .. k -> Seq(S)] : Joins(f, ss, k)
      BY <1>2
    <2> DEFINE last == IF k = 0 THEN ss[1] ELSE f[k] \o ss[k + 1]
               g == [i \in 1 .. k + 1 |-> IF i = k + 1 THEN last ELSE f[i]]
    <2>2. last \in Seq(S)
      <3>1. ss[k + 1] \in Seq(S) /\ (k # 0 => f[k] \in Seq(S))
        BY <1>2
      <3>2. k # 0 => f[k] \o ss[k + 1] \in Seq(S)
        BY <3>1, ConcatFacts
      <3> QED BY <3>1, <3>2
    <2> HIDE DEF last
    <2>3. g \in [1 .. k + 1 -> Seq(S)]
      BY <2>2
    <2>4. ASSUME NEW i \in 1 .. k + 1 PROVE g[i] = IF i = 1 THEN ss[i] ELSE g[i - 1] \o ss[i]
      <3>1. CASE i = k + 1 /\ k = 0
        BY <3>1 DEF last
      <3>2. CASE i = k + 1 /\ k # 0
        <4>1. i - 1 = k /\ i # 1 /\ k \in 1 .. k + 1 /\ k # k + 1
          BY <3>2
        <4>2. g[i] = last /\ g[k] = f[k]
          BY <3>2, <4>1
        <4> HIDE DEF g
        <4> QED BY <3>2, <4>1, <4>2 DEF last
      <3>3. CASE i \in 1 .. k
        <4>1. i # k + 1 /\ (i # 1 => i - 1 \in 1 .. k + 1 /\ i - 1 # k + 1)
          BY <3>3
        <4>2. g[i] = f[i] /\ (i # 1 => g[i - 1] = f[i - 1])
          BY <4>1
        <4> HIDE DEF g
        <4> QED BY <2>1, <3>3, <4>2 DEF Joins
      <3> QED BY <3>1, <3>2, <3>3
    <2> QED BY <2>3, <2>4 DEF Joins
  <1>3. \A k \in Nat : k \in T => k + 1 \in T
    BY <1>2
  <1> HIDE DEF T
  <1>4. Nat \subseteq T
    BY <1>1, <1>3, Induction
  <1> QED BY <1>4 DEF T

LEMMA FlattenIs ==
    ASSUME NEW S, NEW ss \in Seq(Seq(S)), Len(ss) # 0,
           NEW f \in [1 .. Len(ss) -> Seq(S)], Joins(f, ss, Len(ss))
    PROVE  FlattenSeq(ss) = f[Len(ss)]
  <1> DEFINE IsJoins(x) == x = [i \in 1 .. Len(ss) |-> IF i = 1 THEN ss[i] ELSE x[i - 1] \o ss[i]]
             flatten == CHOOSE x : IsJoins(x)
  <1>1. IsJoins(f)
    BY DEF Joins
  <1>2. IsJoins(flatten)
    BY <1>1
  <1>3. FlattenSeq(ss) = flatten[Len(ss)]
    BY DEF FlattenSeq
  <1> HIDE DEF flatten
  <1>4. DOMAIN flatten = 1 .. Len(ss) /\ Joins(flatten, ss, Len(ss))
    BY <1>2 DEF Joins
  <1> DEFINE T == {i \in Nat : i \in 1 .. Len(ss) => flatten[i] = f[i]}
  <1>5. 0 \in T
    OBVIOUS
  <1>6. ASSUME NEW i \in Nat, i \in T PROVE i + 1 \in T
    <2>1. CASE i + 1 \in 1 .. Len(ss) /\ i # 0
      <3>1. i \in 1 .. Len(ss) /\ (i + 1) - 1 = i /\ i + 1 # 1
        BY <2>1
      <3>2. flatten[i + 1] = flatten[i] \o ss[i + 1] /\ f[i + 1] = f[i] \o ss[i + 1]
        BY <1>4, <2>1, <3>1 DEF Joins
      <3>3. flatten[i] = f[i]
        BY <1>6, <3>1
      <3>4. flatten[i + 1] = f[i + 1]
        BY <3>2, <3>3
      <3> QED BY <3>4
    <2>2. CASE i = 0 /\ 1 \in 1 .. Len(ss)
      <3>1. flatten[1] = ss[1] /\ f[1] = ss[1]
        BY <1>4, <2>2 DEF Joins
      <3> QED BY <2>2, <3>1
    <2> QED BY <2>1, <2>2
  <1> HIDE DEF T
  <1>7. Nat \subseteq T
    BY <1>5, <1>6, Induction
  <1>8. Len(ss) \in Nat /\ Len(ss) \in 1 .. Len(ss)
    OBVIOUS
  <1>9. flatten[Len(ss)] = f[Len(ss)]
    BY <1>7, <1>8 DEF T
  <1> QED BY <1>3, <1>9

\* Where the sequences of ss begin when they are put together.
AreOffsets(at, ss) ==
    /\ at \in [0 .. Len(ss) -> Nat]
    /\ at[0] = 0 /\ at[Len(ss)] = Len(FlattenSeq(ss))
    /\ \A k \in 1 .. Len(ss) : at[k] = at[k - 1] + Len(ss[k])
    /\ \A k \in 1 .. Len(ss) : \A j \in 1 .. Len(ss[k]) :
          at[k - 1] + j <= Len(FlattenSeq(ss)) /\ FlattenSeq(ss)[at[k - 1] + j] = ss[k][j]

Offsets(ss) == CHOOSE at : AreOffsets(at, ss)

LEMMA FlattenFacts ==
    ASSUME NEW S, NEW ss \in Seq(Seq(S))
    PROVE  FlattenSeq(ss) \in Seq(S) /\ AreOffsets(Offsets(ss), ss)
  <1>1. DOMAIN ss = 1 .. Len(ss) /\ Len(ss) \in Nat /\ \A i \in 1 .. Len(ss) : ss[i] \in Seq(S)
    OBVIOUS
  <1>2. SUFFICES FlattenSeq(ss) \in Seq(S) /\ \E at : AreOffsets(at, ss)
    BY DEF Offsets
  <1>3. CASE Len(ss) = 0
    <2> DEFINE e == FlattenSeq(ss)
               at == [i \in 0 .. 0 |-> 0]
    <2>1. e = ss /\ e \in Seq(S) /\ Len(e) = 0
      BY <1>1, <1>3 DEF FlattenSeq
    <2>2. at \in [0 .. 0 -> Nat] /\ at[0] = 0
      OBVIOUS
    <2> HIDE DEF e, at
    <2>3. AreOffsets(at, ss)
      BY <1>3, <2>1, <2>2 DEF AreOffsets, e
    <2> QED BY <2>1, <2>3 DEF e
  <1>4. CASE Len(ss) # 0
    <2>1. PICK f \in [1 .. Len(ss) -> Seq(S)] : Joins(f, ss, Len(ss))
      BY JoinsExist
    <2> DEFINE at == [k \in 0 .. Len(ss) |-> IF k = 0 THEN 0 ELSE Len(f[k])]
               Good(k) == \A i \in 1 .. k : \A j \in 1 .. Len(ss[i]) :
                             at[i - 1] + j \in 1 .. Len(f[k]) /\ f[k][at[i - 1] + j] = ss[i][j]
               T == {k \in Nat : k \in 1 .. Len(ss) => Good(k)}
    <2>2. ASSUME NEW k \in 1 .. Len(ss) PROVE f[k] \in Seq(S) /\ Len(f[k]) \in Nat
      <3>1. f[k] \in Seq(S)
        OBVIOUS
      <3> QED BY <3>1
    <2>3. at \in [0 .. Len(ss) -> Nat] /\ at[0] = 0
      BY <1>1, <2>2
    <2>4. \A k \in 1 .. Len(ss) : at[k] = Len(f[k]) /\ f[k] \in Seq(S)
      BY <2>2
    <2> HIDE DEF at
    <2>5. f[1] = ss[1] /\ 1 \in 1 .. Len(ss)
      BY <1>1, <1>4, <2>1 DEF Joins
    <2>6. ASSUME NEW k \in 1 .. Len(ss), k # 1
          PROVE  /\ k - 1 \in 1 .. Len(ss) /\ f[k] = f[k - 1] \o ss[k]
                 /\ f[k - 1] \in Seq(S) /\ ss[k] \in Seq(S)
                 /\ Len(f[k]) = Len(f[k - 1]) + Len(ss[k])
      <3>1. k - 1 \in 1 .. Len(ss) /\ f[k] = f[k - 1] \o ss[k]
        BY <1>1, <2>1, <2>6 DEF Joins
      <3>2. f[k - 1] \in Seq(S) /\ ss[k] \in Seq(S)
        BY <1>1, <3>1
      <3> QED BY <3>1, <3>2, ConcatFacts
    <2>7. ASSUME NEW k \in 1 .. Len(ss) PROVE at[k] = at[k - 1] + Len(ss[k])
      <3>1. CASE k = 1
        <4>1. at[1] = Len(ss[1]) /\ Len(ss[1]) \in Nat
          BY <1>1, <2>4, <2>5
        <4> QED BY <2>3, <3>1, <4>1
      <3>2. CASE k # 1
        BY <2>4, <2>6, <3>2
      <3> QED BY <3>1, <3>2
    <2>8. 0 \in T
      OBVIOUS
    <2>9. ASSUME NEW k \in Nat, k \in T, k + 1 \in 1 .. Len(ss),
                 NEW i \in 1 .. k + 1, NEW j \in 1 .. Len(ss[i])
          PROVE  /\ at[i - 1] + j \in 1 .. Len(f[k + 1])
                 /\ f[k + 1][at[i - 1] + j] = ss[i][j]
      <3>1. CASE k = 0
        BY <2>3, <2>5, <2>9, <3>1
      <3>2. CASE k # 0
        <4> DEFINE l == k + 1
        <4>1. l \in 1 .. Len(ss) /\ l # 1 /\ l - 1 = k /\ k \in 1 .. Len(ss) /\ l = k + 1
          BY <2>9, <3>2
        <4> HIDE DEF l
        <4>2. /\ f[l] = f[k] \o ss[l] /\ f[k] \in Seq(S) /\ ss[l] \in Seq(S)
              /\ Len(f[l]) = Len(f[k]) + Len(ss[l])
          BY <2>6, <4>1
        <4>3. Len(f[k]) \in Nat /\ Len(ss[l]) \in Nat /\ at[k] = Len(f[k])
          BY <2>4, <4>1, <4>2
        <4> DEFINE u == f[k]
                   v == ss[l]
                   w == f[l]
                   m == at[i - 1] + j
        <4>4. u \in Seq(S) /\ v \in Seq(S) /\ w = u \o v
          BY <4>2
        <4> HIDE DEF u, v, w, m
        <4>5. /\ \A x \in 1 .. Len(u) : w[x] = u[x]
              /\ \A x \in 1 .. Len(v) : w[Len(u) + x] = v[x]
              /\ Len(w) = Len(u) + Len(v) /\ Len(u) \in Nat /\ Len(v) \in Nat
          BY <4>4, ConcatFacts
        <4>6. CASE i = l
          <5>1. m = Len(u) + j /\ j \in 1 .. Len(v)
            BY <4>1, <4>3, <4>6 DEF u, v, m
          <5>2. m \in 1 .. Len(w) /\ w[m] = v[j]
            BY <4>5, <5>1
          <5> QED BY <4>1, <4>6, <5>2 DEF v, w, m
        <4>7. CASE i # l
          <5>1. i \in 1 .. k
            BY <4>1, <4>7
          <5>2. m \in 1 .. Len(u) /\ u[m] = ss[i][j]
            BY <2>9, <4>1, <5>1 DEF u, m
          <5>3. m \in 1 .. Len(w) /\ w[m] = ss[i][j]
            BY <4>5, <5>2
          <5> QED BY <4>1, <5>3 DEF w, m
        <4> QED BY <4>6, <4>7
      <3> QED BY <3>1, <3>2
    <2>10. ASSUME NEW k \in Nat, k \in T PROVE k + 1 \in T
      <3>1. k + 1 \in 1 .. Len(ss) => Good(k + 1)
        BY <2>9, <2>10
      <3> QED BY <3>1
    <2> HIDE DEF T
    <2>11. Nat \subseteq T
      BY <2>8, <2>10, Induction
    <2>12. Len(ss) \in 1 .. Len(ss) /\ Len(ss) \in T
      BY <1>1, <1>4, <2>11
    <2>13. Good(Len(ss))
      BY <2>12 DEF T
    <2>14. FlattenSeq(ss) = f[Len(ss)] /\ f[Len(ss)] \in Seq(S)
      BY <1>4, <2>1, <2>12, FlattenIs
    <2>15. at[Len(ss)] = Len(FlattenSeq(ss))
      BY <2>4, <2>12, <2>14
    <2>16. \A k \in 1 .. Len(ss) : \A j \in 1 .. Len(ss[k]) :
              /\ at[k - 1] + j <= Len(FlattenSeq(ss))
              /\ FlattenSeq(ss)[at[k - 1] + j] = ss[k][j]
      BY <2>13, <2>14
    <2>17. AreOffsets(at, ss)
      BY <2>3, <2>7, <2>15, <2>16 DEF AreOffsets
    <2> QED BY <2>14, <2>17
  <1> QED BY <1>3, <1>4

-----------------------------------------------------------------------------
(* Where the items of a table are in its file.                             *)

\* The items of w behind the first p begin with s.
Stands(w, p, s) == \A j \in 1 .. Len(s) : w[p + j] = s[j]

LEMMA StandsConcat ==
    ASSUME NEW S, NEW s \in Seq(S), NEW u \in Seq(S), NEW p \in Nat, NEW w,
           Stands(w, p, s \o u)
    PROVE  Stands(w, p, s) /\ Stands(w, p + Len(s), u)
  <1> DEFINE x == s \o u
  <1>1. /\ Len(x) = Len(s) + Len(u) /\ Len(s) \in Nat /\ Len(u) \in Nat
        /\ \A j \in 1 .. Len(s) : x[j] = s[j]
        /\ \A j \in 1 .. Len(u) : x[Len(s) + j] = u[j]
    BY ConcatFacts
  <1>2. \A j \in 1 .. Len(x) : w[p + j] = x[j]
    BY DEF Stands
  <1> HIDE DEF x
  <1>3. Stands(w, p, s)
    BY <1>1, <1>2 DEF Stands
  <1>4. ASSUME NEW j \in 1 .. Len(u) PROVE w[p + Len(s) + j] = u[j]
    <2>1. Len(s) + j \in 1 .. Len(x) /\ p + (Len(s) + j) = p + Len(s) + j
      BY <1>1
    <2>2. w[p + (Len(s) + j)] = x[Len(s) + j]
      BY <1>2, <2>1
    <2> QED BY <1>1, <2>1, <2>2
  <1> QED BY <1>3, <1>4 DEF Stands

LEMMA StandsPiece ==
    ASSUME NEW S, NEW ss \in Seq(Seq(S)), NEW p \in Nat, NEW w,
           Stands(w, p, FlattenSeq(ss)), NEW k \in 1 .. Len(ss)
    PROVE  Stands(w, p + Offsets(ss)[k - 1], ss[k])
  <1> DEFINE at == Offsets(ss)
             x == FlattenSeq(ss)
  <1>1. x \in Seq(S) /\ AreOffsets(at, ss)
    BY FlattenFacts
  <1>2. \A j \in 1 .. Len(x) : w[p + j] = x[j]
    BY DEF Stands
  <1>3. \A j \in 1 .. Len(ss[k]) : at[k - 1] + j <= Len(x) /\ x[at[k - 1] + j] = ss[k][j]
    BY <1>1 DEF AreOffsets
  <1>4. k - 1 \in 0 .. Len(ss) /\ at \in [0 .. Len(ss) -> Nat]
    BY <1>1 DEF AreOffsets
  <1> HIDE DEF at, x
  <1>5. at[k - 1] \in Nat
    BY <1>4
  <1>6. ASSUME NEW j \in 1 .. Len(ss[k]) PROVE w[p + at[k - 1] + j] = ss[k][j]
    <2> DEFINE q == at[k - 1]
    <2>1. q \in Nat
      BY <1>5
    <2>2. q + j <= Len(x) /\ x[q + j] = ss[k][j]
      BY <1>3
    <2> HIDE DEF q
    <2>3. q + j \in 1 .. Len(x) /\ p + (q + j) = p + q + j
      BY <1>1, <2>1, <2>2
    <2>4. w[p + (q + j)] = x[q + j]
      BY <1>2, <2>3
    <2> QED BY <2>2, <2>3, <2>4 DEF q
  <1> QED BY <1>6 DEF Stands, at

ItemKinds == {"key", "mask", "int", "size", "name", "type", "chars", "data"}
ItemData == Cells \union Columns \union Nat
            \union {"unknown", "str", "uint", "int", "double", "bool", "array"}
ItemSet == [kind : ItemKinds, what : ItemData]

LEMMA ItemFacts ==
    ASSUME NEW k \in ItemKinds, NEW x \in ItemData
    PROVE  Item(k, x) \in ItemSet /\ Item(k, x).what = x
  BY DEF Item, ItemSet

LEMMA CellItemsFacts ==
    ASSUME NEW v \in Cells
    PROVE  /\ CellItems(v) \in Seq(ItemSet)
           /\ v = Null => Len(CellItems(v)) = 1 /\ CellItems(v)[1].what = "unknown"
           /\ v # Null =>
                /\ v \in Scalars /\ Kind[v] \in {"uint", "int", "double", "bool", "str"}
                /\ CellItems(v)[1].what = Kind[v]
                /\ Kind[v] = "str" => Len(CellItems(v)) = 3 /\ CellItems(v)[3].what = v
                /\ Kind[v] # "str" => Len(CellItems(v)) = 2 /\ CellItems(v)[2].what = v
  <1>1. ASSUME NEW k \in ItemKinds, NEW x \in ItemData
        PROVE  Item(k, x) \in ItemSet /\ Item(k, x).what = x
    BY ItemFacts
  <1>2. /\ "type" \in ItemKinds /\ "size" \in ItemKinds
        /\ "chars" \in ItemKinds /\ "data" \in ItemKinds
        /\ v \in ItemData /\ "str" \in ItemData /\ "unknown" \in ItemData
    BY DEF ItemKinds, ItemData
  <1>3. CASE v = Null
    <2>1. Item("type", "unknown") \in ItemSet /\ Item("type", "unknown").what = "unknown"
      BY <1>1, <1>2
    <2>2. CellItems(v) = <<Item("type", "unknown")>>
      BY <1>3 DEF CellItems
    <2>3. CellItems(v) \in Seq(ItemSet) /\ Len(CellItems(v)) = 1
          /\ CellItems(v)[1] = Item("type", "unknown")
      BY <2>1, <2>2
    <2> QED BY <1>3, <2>1, <2>3
  <1>4. CASE v # Null
    <2>1. v \in Scalars /\ Kind[v] \in {"uint", "int", "double", "bool", "str"}
      BY <1>4, ScalarAssumption DEF Cells
    <2>2. CASE Kind[v] = "str"
      <3>1. CellItems(v) = <<Item("type", "str"), Item("size", v), Item("chars", v)>>
        BY <1>4, <2>2 DEF CellItems
      <3>2. Item("type", "str") \in ItemSet /\ Item("size", v) \in ItemSet
            /\ Item("chars", v) \in ItemSet
        BY <1>1, <1>2
      <3>3. CellItems(v) \in Seq(ItemSet) /\ Len(CellItems(v)) = 3
        BY <3>1, <3>2
      <3>4. CellItems(v)[1].what = "str" /\ CellItems(v)[3].what = v
        BY <1>1, <1>2, <3>1
      <3> QED BY <1>4, <2>1, <2>2, <3>3, <3>4
    <2>3. CASE Kind[v] # "str"
      <3>1. CellItems(v) = <<Item("type", Kind[v]), Item("data", v)>>
        BY <1>4, <2>3 DEF CellItems
      <3>2. Kind[v] \in ItemData
        BY <2>1 DEF ItemData
      <3>3. Item("type", Kind[v]) \in ItemSet /\ Item("data", v) \in ItemSet
        BY <1>1, <1>2, <3>2
      <3>4. CellItems(v) \in Seq(ItemSet) /\ Len(CellItems(v)) = 2
        BY <3>1, <3>3
      <3>5. CellItems(v)[1].what = Kind[v] /\ CellItems(v)[2].what = v
        BY <1>1, <1>2, <3>2, <3>1
      <3> QED BY <1>4, <2>1, <2>3, <3>4, <3>5
    <2> QED BY <2>2, <2>3
  <1> QED BY <1>3, <1>4

CellSeqs(v) == [i \in DOMAIN v |-> CellItems(v[i])]
ValueSeqs(t, c) == [i \in DOMAIN t[c] |-> storeValue(t[c][i])]
Names(t) == SetToSeq(DOMAIN t)
ColumnSeqs(t) == [i \in DOMAIN Names(t) |-> ColumnItems(t, Names(t)[i])]

LEMMA ValueFacts ==
    ASSUME NEW v \in Values
    PROVE  /\ storeValue(v) \in Seq(ItemSet)
           /\ v \in Cells => storeValue(v) = CellItems(v)
           /\ v \notin Cells =>
                /\ v \in Seq(Cells) /\ CellSeqs(v) \in Seq(Seq(ItemSet))
                /\ Len(CellSeqs(v)) = Len(v)
                /\ AreOffsets(Offsets(CellSeqs(v)), CellSeqs(v))
                /\ Len(storeValue(v)) = 2 + Offsets(CellSeqs(v))[Len(v)]
                /\ \A w : \A p \in Nat : Stands(w, p, storeValue(v)) =>
                      /\ w[p + 1].what = "array" /\ w[p + 2].what = Len(v)
                      /\ \A j \in 1 .. Len(v) :
                            Stands(w, p + 2 + Offsets(CellSeqs(v))[j - 1], CellItems(v[j]))
  <1>1. CASE v \in Cells
    BY <1>1, CellItemsFacts DEF storeValue
  <1>2. CASE v \notin Cells
    <2> DEFINE ss == CellSeqs(v)
               head == <<Item("type", "array"), Item("size", Len(v))>>
               x == FlattenSeq(ss)
    <2>1. v \in Seq(Cells) /\ Len(v) \in Nat /\ DOMAIN v = 1 .. Len(v)
      BY <1>2 DEF Values
    <2>2. \A i \in 1 .. Len(v) : v[i] \in Cells /\ CellItems(v[i]) \in Seq(ItemSet)
      BY <2>1, CellItemsFacts
    <2>3. /\ ss \in Seq(Seq(ItemSet)) /\ Len(ss) = Len(v)
          /\ \A i \in 1 .. Len(v) : ss[i] = CellItems(v[i])
      BY <2>1, <2>2 DEF CellSeqs
    <2>4. storeValue(v) = head \o x
      BY <1>2 DEF storeValue, CellSeqs
    <2> HIDE DEF ss
    <2>5. x \in Seq(ItemSet) /\ AreOffsets(Offsets(ss), ss)
      BY <2>3, FlattenFacts
    <2>6. head \in Seq(ItemSet) /\ Len(head) = 2
      <3>1. /\ "type" \in ItemKinds /\ "size" \in ItemKinds
            /\ "array" \in ItemData /\ Len(v) \in ItemData
        BY <2>1 DEF ItemKinds, ItemData
      <3>2. Item("type", "array") \in ItemSet /\ Item("size", Len(v)) \in ItemSet
        BY <3>1, ItemFacts
      <3> QED BY <3>2
    <2>7. head[1].what = "array" /\ head[2].what = Len(v)
      BY DEF Item
    <2> HIDE DEF head, x
    <2>8. storeValue(v) \in Seq(ItemSet) /\ Len(storeValue(v)) = 2 + Len(x)
      <3>1. x \in Seq(ItemSet) /\ head \in Seq(ItemSet)
        BY <2>5, <2>6
      <3>2. head \o x \in Seq(ItemSet) /\ Len(head \o x) = Len(head) + Len(x)
        BY <3>1, ConcatFacts
      <3> QED BY <2>4, <2>6, <3>2
    <2>9. Len(x) = Offsets(ss)[Len(v)]
      BY <2>3, <2>5 DEF AreOffsets, x
    <2>10. ASSUME NEW w, NEW p \in Nat, Stands(w, p, storeValue(v))
           PROVE  /\ w[p + 1].what = "array" /\ w[p + 2].what = Len(v)
                  /\ \A j \in 1 .. Len(v) :
                        Stands(w, p + 2 + Offsets(ss)[j - 1], CellItems(v[j]))
      <3>1. Stands(w, p, head) /\ Stands(w, p + 2, x)
        BY <2>4, <2>5, <2>6, <2>10, StandsConcat
      <3>2. w[p + 1].what = "array" /\ w[p + 2].what = Len(v)
        BY <2>6, <2>7, <3>1 DEF Stands
      <3>3. ASSUME NEW j \in 1 .. Len(v)
            PROVE  Stands(w, p + 2 + Offsets(ss)[j - 1], CellItems(v[j]))
        <4>1. p + 2 \in Nat /\ j \in 1 .. Len(ss) /\ Stands(w, p + 2, FlattenSeq(ss))
          BY <2>3, <3>1 DEF x
        <4>2. Stands(w, p + 2 + Offsets(ss)[j - 1], ss[j])
          BY <2>3, <4>1, StandsPiece
        <4> QED BY <2>3, <4>2
      <3> QED BY <3>2, <3>3
    <2>11. ss = CellSeqs(v)
      BY DEF ss
    <2> QED BY <1>2, <2>1, <2>3, <2>5, <2>8, <2>9, <2>10, <2>11
  <1> QED BY <1>1, <1>2

LEMMA NamesFacts ==
    ASSUME NEW t \in Tables
    PROVE  /\ Names(t) \in Seq(DOMAIN t) /\ Len(Names(t)) = Cardinality(DOMAIN t)
           /\ \A k, l \in 1 .. Len(Names(t)) : Names(t)[k] = Names(t)[l] => k = l
           /\ \A c \in DOMAIN t : \E k \in 1 .. Len(Names(t)) : Names(t)[k] = c
  <1> DEFINE D == DOMAIN t
             n == Cardinality(D)
             s == Names(t)
             IsNames(f) == f \in [1 .. n -> D] /\ IsInjective(f)
  <1>1. IsFiniteSet(D) /\ n \in Nat /\ ExistsBijection(1 .. n, D)
    BY TableAssumption, FS_Subset, FS_CardinalityType
  <1>2. \E f : IsNames(f)
    BY <1>1 DEF ExistsBijection, Bijection, Injection
  <1>3. s \in [1 .. n -> D] /\ IsInjective(s)
    BY <1>2 DEF Names, SetToSeq
  <1> HIDE DEF s, n, D
  <1>4. s \in Seq(D) /\ Len(s) = n /\ DOMAIN s = 1 .. n
    BY <1>1, <1>3
  <1>5. \A c \in D : \E k \in 1 .. n : s[k] = c
    <2>1. IsFiniteSet(1 .. n) /\ Cardinality(1 .. n) = n
      BY <1>1, FS_Interval
    <2>2. s \in Injection(1 .. n, D)
      BY <1>3 DEF Injection
    <2>3. s \in Surjection(1 .. n, D)
      BY <1>1, <2>1, <2>2, FS_Injection DEF n
    <2> QED BY <2>3 DEF Surjection
  <1> QED BY <1>3, <1>4, <1>5 DEF IsInjective, s, n, D

\* How many items are before a column, a value, and a cell of an array.
ColumnStart(t, k) == 4 + Offsets(ColumnSeqs(t))[k]
ValueStart(t, k, i) == ColumnStart(t, k - 1) + 2 + Offsets(ValueSeqs(t, Names(t)[k]))[i]
CellStart(t, k, i, j) ==
    ValueStart(t, k, i - 1) + 2 + Offsets(CellSeqs(t[Names(t)[k]][i]))[j]

LEMMA HeightIs ==
    ASSUME NEW t \in Tables, NEW c \in DOMAIN t
    PROVE  Len(t[c]) = Height(t) /\ Height(t) \in Nat /\ t[c] \in Seq(Values)
  <1> DEFINE d == CHOOSE x \in DOMAIN t : TRUE
  <1>1. d \in DOMAIN t /\ Height(t) = Len(t[d])
    BY DEF Height
  <1> HIDE DEF d
  <1> QED BY <1>1, TableAssumption

LEMMA ColumnFacts ==
    ASSUME NEW t \in Tables, NEW c \in DOMAIN t
    PROVE  /\ ColumnItems(t, c) \in Seq(ItemSet)
           /\ ValueSeqs(t, c) \in Seq(Seq(ItemSet)) /\ Len(ValueSeqs(t, c)) = Height(t)
           /\ \A i \in 1 .. Height(t) : ValueSeqs(t, c)[i] = storeValue(t[c][i])
           /\ AreOffsets(Offsets(ValueSeqs(t, c)), ValueSeqs(t, c))
           /\ Len(ColumnItems(t, c)) = 2 + Offsets(ValueSeqs(t, c))[Height(t)]
           /\ \A w : \A p \in Nat : Stands(w, p, ColumnItems(t, c)) =>
                 /\ w[p + 2].what = c
                 /\ \A i \in 1 .. Height(t) :
                       Stands(w, p + 2 + Offsets(ValueSeqs(t, c))[i - 1], storeValue(t[c][i]))
  <1> DEFINE ss == ValueSeqs(t, c)
             head == <<Item("size", c), Item("name", c)>>
             x == FlattenSeq(ss)
  <1>1. t[c] \in Seq(Values) /\ Len(t[c]) = Height(t) /\ Height(t) \in Nat /\ c \in Columns
    BY HeightIs, TableAssumption
  <1>2. DOMAIN t[c] = 1 .. Height(t) /\ \A i \in 1 .. Height(t) : t[c][i] \in Values
    BY <1>1
  <1>3. \A i \in 1 .. Height(t) : storeValue(t[c][i]) \in Seq(ItemSet)
    BY <1>2, ValueFacts
  <1>4. /\ ss \in Seq(Seq(ItemSet)) /\ Len(ss) = Height(t)
        /\ \A i \in 1 .. Height(t) : ss[i] = storeValue(t[c][i])
    <2>1. ss = [i \in 1 .. Height(t) |-> storeValue(t[c][i])]
      BY <1>2 DEF ValueSeqs
    <2> HIDE DEF ss
    <2>2. \A i \in 1 .. Height(t) : ss[i] = storeValue(t[c][i]) /\ ss[i] \in Seq(ItemSet)
      BY <1>3, <2>1
    <2>3. ss = [i \in 1 .. Height(t) |-> ss[i]]
      BY <2>1
    <2>4. ss \in Seq(Seq(ItemSet)) /\ Len(ss) = Height(t)
      BY <1>1, <2>2, <2>3, SeqFacts
    <2> QED BY <2>2, <2>4
  <1>5. ColumnItems(t, c) = head \o x
    BY DEF ColumnItems, ValueSeqs
  <1>6. ss = ValueSeqs(t, c)
    OBVIOUS
  <1> HIDE DEF ss
  <1>7. x \in Seq(ItemSet) /\ AreOffsets(Offsets(ss), ss)
    BY <1>4, FlattenFacts
  <1>8. head \in Seq(ItemSet) /\ Len(head) = 2 /\ head[2].what = c
    <2>1. "name" \in ItemKinds /\ "size" \in ItemKinds /\ c \in ItemData
      BY <1>1 DEF ItemKinds, ItemData
    <2>2. Item("name", c) \in ItemSet /\ Item("size", c) \in ItemSet
          /\ Item("name", c).what = c
      BY <2>1, ItemFacts
    <2> QED BY <2>2
  <1> HIDE DEF head, x
  <1>9. head \o x \in Seq(ItemSet) /\ Len(head \o x) = Len(head) + Len(x)
    BY <1>7, <1>8, ConcatFacts
  <1>10. ColumnItems(t, c) \in Seq(ItemSet) /\ Len(ColumnItems(t, c)) = 2 + Len(x)
    BY <1>5, <1>8, <1>9
  <1>11. Len(x) = Offsets(ss)[Height(t)]
    BY <1>4, <1>7 DEF AreOffsets, x
  <1>12. ASSUME NEW w, NEW p \in Nat, Stands(w, p, ColumnItems(t, c))
         PROVE  /\ w[p + 2].what = c
                /\ \A i \in 1 .. Height(t) :
                      Stands(w, p + 2 + Offsets(ss)[i - 1], storeValue(t[c][i]))
    <2>1. Stands(w, p, head) /\ Stands(w, p + 2, x)
      BY <1>5, <1>7, <1>8, <1>12, StandsConcat
    <2>2. w[p + 2].what = c
      BY <1>8, <2>1 DEF Stands
    <2>3. ASSUME NEW i \in 1 .. Height(t)
          PROVE  Stands(w, p + 2 + Offsets(ss)[i - 1], storeValue(t[c][i]))
      <3>1. p + 2 \in Nat /\ i \in 1 .. Len(ss) /\ Stands(w, p + 2, FlattenSeq(ss))
        BY <1>4, <2>1 DEF x
      <3>2. Stands(w, p + 2 + Offsets(ss)[i - 1], ss[i])
        BY <1>4, <3>1, StandsPiece
      <3> QED BY <1>4, <3>2
    <2> QED BY <2>2, <2>3
  <1> QED BY <1>4, <1>6, <1>7, <1>10, <1>11, <1>12

LEMMA ItemsFacts ==
    ASSUME NEW t \in Tables
    PROVE  /\ Items(t) \in Seq(ItemSet) /\ Height(t) \in Nat
           /\ Items(t)[3].what = Len(Names(t)) /\ Items(t)[4].what = Height(t)
           /\ ColumnSeqs(t) \in Seq(Seq(ItemSet)) /\ Len(ColumnSeqs(t)) = Len(Names(t))
           /\ \A k \in 1 .. Len(Names(t)) : ColumnSeqs(t)[k] = ColumnItems(t, Names(t)[k])
           /\ AreOffsets(Offsets(ColumnSeqs(t)), ColumnSeqs(t))
           /\ Len(Items(t)) = 4 + Offsets(ColumnSeqs(t))[Len(Names(t))]
           /\ \A k \in 1 .. Len(Names(t)) :
                 Stands(Items(t), 4 + Offsets(ColumnSeqs(t))[k - 1], ColumnItems(t, Names(t)[k]))
  <1> DEFINE names == Names(t)
             ss == ColumnSeqs(t)
             head == <<Item("key", 0), Item("mask", 0), Item("int", Len(names)),
                       Item("int", Height(t))>>
             x == FlattenSeq(ss)
  <1>1. /\ names \in Seq(DOMAIN t) /\ Len(names) \in Nat /\ DOMAIN names = 1 .. Len(names)
        /\ Len(names) = Cardinality(DOMAIN t)
    BY NamesFacts
  <1>2. Height(t) \in Nat
    <2>1. CASE DOMAIN t = {}
      BY <2>1 DEF Height
    <2>2. CASE DOMAIN t # {}
      BY <2>2, HeightIs
    <2> QED BY <2>1, <2>2
  <1>3. \A k \in 1 .. Len(names) :
           names[k] \in DOMAIN t /\ ColumnItems(t, names[k]) \in Seq(ItemSet)
    BY <1>1, ColumnFacts
  <1>4. /\ ss \in Seq(Seq(ItemSet)) /\ Len(ss) = Len(names)
        /\ \A k \in 1 .. Len(names) : ss[k] = ColumnItems(t, names[k])
    <2> HIDE DEF names
    <2>1. ss = [k \in 1 .. Len(names) |-> ColumnItems(t, names[k])]
      BY <1>1 DEF ColumnSeqs, names
    <2> HIDE DEF ss
    <2>2. \A k \in 1 .. Len(names) :
             ss[k] = ColumnItems(t, names[k]) /\ ss[k] \in Seq(ItemSet)
      BY <1>3, <2>1
    <2>3. ss = [k \in 1 .. Len(names) |-> ss[k]]
      BY <2>1
    <2>4. ss \in Seq(Seq(ItemSet)) /\ Len(ss) = Len(names)
      BY <1>1, <2>2, <2>3, SeqFacts
    <2> QED BY <2>2, <2>4
  <1>5. Items(t) = head \o x
    BY <1>1 DEF Items, ColumnSeqs, Names
  <1>6. ss = ColumnSeqs(t) /\ names = Names(t)
    OBVIOUS
  <1> HIDE DEF ss, names
  <1>7. x \in Seq(ItemSet) /\ AreOffsets(Offsets(ss), ss)
    BY <1>4, FlattenFacts
  <1>8. /\ head \in Seq(ItemSet) /\ Len(head) = 4
        /\ head[3].what = Len(names) /\ head[4].what = Height(t)
    <2>1. /\ "key" \in ItemKinds /\ "mask" \in ItemKinds /\ "int" \in ItemKinds
          /\ 0 \in ItemData /\ Len(names) \in ItemData /\ Height(t) \in ItemData
      BY <1>1, <1>2 DEF ItemKinds, ItemData
    <2>2. /\ Item("key", 0) \in ItemSet /\ Item("mask", 0) \in ItemSet
          /\ Item("int", Len(names)) \in ItemSet /\ Item("int", Height(t)) \in ItemSet
          /\ Item("int", Len(names)).what = Len(names) /\ Item("int", Height(t)).what = Height(t)
      BY <2>1, ItemFacts
    <2> QED BY <2>2
  <1> HIDE DEF head, x
  <1>9. Items(t) \in Seq(ItemSet) /\ Len(Items(t)) = 4 + Len(x)
        /\ \A j \in 1 .. 4 : Items(t)[j] = head[j]
    <2>1. /\ head \o x \in Seq(ItemSet) /\ Len(head \o x) = Len(head) + Len(x)
          /\ \A j \in 1 .. Len(head) : (head \o x)[j] = head[j]
      <3>1. x \in Seq(ItemSet) /\ head \in Seq(ItemSet)
        BY <1>7, <1>8
      <3> QED BY <3>1, ConcatFacts
    <2> QED BY <1>5, <1>8, <2>1
  <1>10. Len(x) = Offsets(ss)[Len(names)]
    BY <1>4, <1>7 DEF AreOffsets, x
  <1>11. Stands(Items(t), 4, x)
    <2>1. Stands(Items(t), 0, head \o x)
      BY <1>5, <1>9 DEF Stands
    <2>2. Stands(Items(t), 0 + Len(head), x)
      BY <1>7, <1>8, <2>1, StandsConcat
    <2> QED BY <1>8, <2>2
  <1>12. ASSUME NEW k \in 1 .. Len(names)
         PROVE  Stands(Items(t), 4 + Offsets(ss)[k - 1], ColumnItems(t, names[k]))
    <2>1. k \in 1 .. Len(ss) /\ Stands(Items(t), 4, FlattenSeq(ss))
      BY <1>4, <1>11 DEF x
    <2>2. Stands(Items(t), 4 + Offsets(ss)[k - 1], ss[k])
      BY <1>4, <2>1, StandsPiece
    <2> QED BY <1>4, <2>2
  <1>13. Items(t)[3].what = Len(names) /\ Items(t)[4].what = Height(t)
    BY <1>8, <1>9
  <1> QED BY <1>2, <1>4, <1>6, <1>7, <1>9, <1>10, <1>12, <1>13

LEMMA ColumnPlaces ==
    ASSUME NEW t \in Tables
    PROVE  /\ Len(Names(t)) \in Nat
           /\ ColumnStart(t, 0) = 4 /\ ColumnStart(t, Len(Names(t))) = Len(Items(t))
           /\ \A k \in 0 .. Len(Names(t)) : ColumnStart(t, k) \in Nat
           /\ \A k \in 1 .. Len(Names(t)) :
                 /\ Names(t)[k] \in DOMAIN t
                 /\ ColumnStart(t, k - 1) \in Nat
                 /\ Items(t)[ColumnStart(t, k - 1) + 2].what = Names(t)[k]
                 /\ ValueStart(t, k, 0) = ColumnStart(t, k - 1) + 2
                 /\ ValueStart(t, k, Height(t)) = ColumnStart(t, k)
  <1> DEFINE names == Names(t)
             ss == ColumnSeqs(t)
             at == Offsets(ss)
  <1>1. names \in Seq(DOMAIN t) /\ Len(names) \in Nat
    BY NamesFacts
  <1>2. /\ at \in [0 .. Len(names) -> Nat] /\ at[0] = 0
        /\ \A k \in 1 .. Len(names) : at[k] = at[k - 1] + Len(ss[k])
        /\ \A k \in 1 .. Len(names) : ss[k] = ColumnItems(t, names[k])
        /\ Len(Items(t)) = 4 + at[Len(names)]
        /\ \A k \in 1 .. Len(names) : Stands(Items(t), 4 + at[k - 1], ColumnItems(t, names[k]))
    BY ItemsFacts DEF AreOffsets
  <1>3. \A k : ColumnStart(t, k) = 4 + at[k]
    BY DEF ColumnStart
  <1>4. names = Names(t)
    OBVIOUS
  <1> HIDE DEF at, ss, names
  <1>5. \A k \in 0 .. Len(names) : ColumnStart(t, k) \in Nat
    BY <1>2, <1>3
  <1>6. ASSUME NEW k \in 1 .. Len(names)
        PROVE  /\ names[k] \in DOMAIN t
               /\ ColumnStart(t, k - 1) \in Nat
               /\ Items(t)[ColumnStart(t, k - 1) + 2].what = names[k]
               /\ ValueStart(t, k, 0) = ColumnStart(t, k - 1) + 2
               /\ ValueStart(t, k, Height(t)) = ColumnStart(t, k)
    <2> DEFINE c == names[k]
               p == ColumnStart(t, k - 1)
               bt == Offsets(ValueSeqs(t, c))
    <2>1. c \in DOMAIN t /\ k - 1 \in 0 .. Len(names)
      BY <1>1
    <2>2. p \in Nat /\ p = 4 + at[k - 1] /\ ColumnStart(t, k) = 4 + at[k]
      BY <1>3, <1>5, <2>1
    <2>3. \A i : ValueStart(t, k, i) = p + 2 + bt[i]
      BY <1>4 DEF ValueStart
    <2>4. at[k] = at[k - 1] + Len(ColumnItems(t, c)) /\ at[k - 1] \in Nat
      BY <1>2, <2>1
    <2>5. Stands(Items(t), p, ColumnItems(t, c))
      BY <1>2, <2>2
    <2> HIDE DEF c, p
    <2>6. /\ bt \in [0 .. Height(t) -> Nat] /\ bt[0] = 0
          /\ Len(ColumnItems(t, c)) = 2 + bt[Height(t)]
          /\ Items(t)[p + 2].what = c
      BY <2>1, <2>2, <2>5, ColumnFacts DEF AreOffsets
    <2>7. Height(t) \in Nat
      BY <2>1, HeightIs
    <2> HIDE DEF bt
    <2>8. bt[Height(t)] \in Nat
      BY <2>6, <2>7
    <2>9. ValueStart(t, k, 0) = p + 2 /\ ValueStart(t, k, Height(t)) = ColumnStart(t, k)
      <3>1. ValueStart(t, k, 0) = p + 2 + bt[0] /\ ValueStart(t, k, Height(t)) = p + 2 + bt[Height(t)]
        BY <2>3
      <3>2. at[k] = at[k - 1] + (2 + bt[Height(t)])
        BY <2>4, <2>6
      <3> DEFINE b == bt[Height(t)]
                 a == at[k - 1]
      <3>3. a \in Nat /\ b \in Nat /\ at[k] = a + (2 + b) /\ p = 4 + a
        BY <2>2, <2>4, <2>8, <3>2
      <3>4. ValueStart(t, k, Height(t)) = p + 2 + b /\ ColumnStart(t, k) = 4 + at[k]
        BY <2>2, <3>1
      <3>5. ValueStart(t, k, 0) = p + 2 + 0
        BY <2>6, <3>1
      <3> HIDE DEF a, b
      <3>6. ValueStart(t, k, Height(t)) = ColumnStart(t, k)
        BY <3>3, <3>4
      <3>7. ValueStart(t, k, 0) = p + 2
        BY <2>2, <3>5
      <3> QED BY <3>6, <3>7
    <2> QED BY <2>1, <2>2, <2>6, <2>9 DEF c, p
  <1>7. at[Len(names)] \in Nat /\ ColumnStart(t, 0) = 4
        /\ ColumnStart(t, Len(names)) = Len(Items(t))
    BY <1>1, <1>2, <1>3
  <1> QED BY <1>1, <1>4, <1>5, <1>6, <1>7

LEMMA ValuePlaces ==
    ASSUME NEW t \in Tables, NEW k \in 1 .. Len(Names(t)), NEW i \in 1 .. Height(t)
    PROVE  LET v == t[Names(t)[k]][i]
               p == ValueStart(t, k, i - 1)
           IN  /\ Names(t)[k] \in DOMAIN t /\ v \in Values
               /\ p \in Nat
               /\ ValueStart(t, k, i) = p + Len(storeValue(v))
               /\ Stands(Items(t), p, storeValue(v))
  <1> DEFINE c == Names(t)[k]
             v == t[c][i]
             ss == ValueSeqs(t, c)
             at == Offsets(ss)
             q == ColumnStart(t, k - 1)
  <1>1. c \in DOMAIN t /\ q \in Nat
    BY ColumnPlaces
  <1>2. Stands(Items(t), q, ColumnItems(t, c))
    BY ItemsFacts DEF ColumnStart
  <1>3. \A j : ValueStart(t, k, j) = q + 2 + at[j]
    BY DEF ValueStart
  <1> HIDE DEF c, q
  <1>4. /\ at \in [0 .. Height(t) -> Nat] /\ at[i] = at[i - 1] + Len(ss[i])
        /\ ss[i] = storeValue(v)
        /\ Stands(Items(t), q + 2 + at[i - 1], storeValue(v))
    BY <1>1, <1>2, ColumnFacts DEF AreOffsets
  <1>5. Height(t) \in Nat /\ v \in Values
    <2>1. Len(t[c]) = Height(t) /\ Height(t) \in Nat /\ t[c] \in Seq(Values)
      BY <1>1, HeightIs
    <2> QED BY <2>1
  <1> HIDE DEF at, ss, v
  <1>6. at[i - 1] \in Nat /\ i - 1 \in 0 .. Height(t)
    BY <1>4, <1>5
  <1>7. storeValue(v) \in Seq(ItemSet)
    BY <1>5, ValueFacts
  <1>8. Len(storeValue(v)) \in Nat
    BY <1>7
  <1>9. ValueStart(t, k, i - 1) \in Nat
        /\ ValueStart(t, k, i) = ValueStart(t, k, i - 1) + Len(storeValue(v))
    <2>1. /\ ValueStart(t, k, i - 1) = q + 2 + at[i - 1] /\ ValueStart(t, k, i) = q + 2 + at[i]
          /\ at[i] = at[i - 1] + Len(storeValue(v))
      BY <1>3, <1>4
    <2> QED BY <1>1, <1>6, <1>8, <2>1
  <1> QED BY <1>1, <1>3, <1>4, <1>5, <1>9 DEF c, v

LEMMA CellPlaces ==
    ASSUME NEW t \in Tables, NEW k \in 1 .. Len(Names(t)), NEW i \in 1 .. Height(t),
           t[Names(t)[k]][i] \notin Cells
    PROVE  LET v == t[Names(t)[k]][i]
               p == ValueStart(t, k, i - 1)
           IN  /\ v \in Seq(Cells)
               /\ Items(t)[p + 1].what = "array" /\ Items(t)[p + 2].what = Len(v)
               /\ CellStart(t, k, i, 0) = p + 2
               /\ CellStart(t, k, i, Len(v)) = ValueStart(t, k, i)
               /\ \A j \in 1 .. Len(v) :
                     /\ CellStart(t, k, i, j - 1) \in Nat
                     /\ CellStart(t, k, i, j) = CellStart(t, k, i, j - 1) + Len(CellItems(v[j]))
                     /\ Stands(Items(t), CellStart(t, k, i, j - 1), CellItems(v[j]))
  <1> DEFINE v == t[Names(t)[k]][i]
             p == ValueStart(t, k, i - 1)
             ss == CellSeqs(v)
             at == Offsets(ss)
  <1>1. /\ v \in Values /\ p \in Nat /\ ValueStart(t, k, i) = p + Len(storeValue(v))
        /\ Stands(Items(t), p, storeValue(v))
    BY ValuePlaces
  <1>2. \A j : CellStart(t, k, i, j) = p + 2 + at[j]
    BY DEF CellStart
  <1>3. v \notin Cells
    OBVIOUS
  <1> HIDE DEF v, p
  <1>4. /\ v \in Seq(Cells) /\ Len(ss) = Len(v)
        /\ AreOffsets(at, ss)
        /\ Len(storeValue(v)) = 2 + at[Len(v)]
        /\ Items(t)[p + 1].what = "array" /\ Items(t)[p + 2].what = Len(v)
        /\ \A j \in 1 .. Len(v) : Stands(Items(t), p + 2 + at[j - 1], CellItems(v[j]))
    BY <1>1, <1>3, ValueFacts
  <1>5. /\ at \in [0 .. Len(v) -> Nat] /\ at[0] = 0
        /\ \A j \in 1 .. Len(v) : at[j] = at[j - 1] + Len(ss[j])
    BY <1>4 DEF AreOffsets
  <1>6. \A j \in 1 .. Len(v) : ss[j] = CellItems(v[j]) /\ v[j] \in Cells
    BY <1>4 DEF CellSeqs
  <1> HIDE DEF at, ss
  <1>7. Len(v) \in Nat /\ at[Len(v)] \in Nat
    BY <1>4, <1>5
  <1>8. CellStart(t, k, i, 0) = p + 2 /\ CellStart(t, k, i, Len(v)) = ValueStart(t, k, i)
    <2>1. /\ CellStart(t, k, i, 0) = p + 2 + at[0]
          /\ CellStart(t, k, i, Len(v)) = p + 2 + at[Len(v)]
          /\ ValueStart(t, k, i) = p + (2 + at[Len(v)])
      BY <1>1, <1>2, <1>4
    <2> QED BY <1>1, <1>5, <1>7, <2>1
  <1>9. ASSUME NEW j \in 1 .. Len(v)
        PROVE  /\ CellStart(t, k, i, j - 1) \in Nat
               /\ CellStart(t, k, i, j) = CellStart(t, k, i, j - 1) + Len(CellItems(v[j]))
               /\ Stands(Items(t), CellStart(t, k, i, j - 1), CellItems(v[j]))
    <2>1. at[j - 1] \in Nat
      <3>1. j - 1 \in 0 .. Len(v)
        BY <1>7
      <3> QED BY <1>5, <3>1
    <2>2. CellItems(v[j]) \in Seq(ItemSet)
      BY <1>6, CellItemsFacts
    <2>3. Len(CellItems(v[j])) \in Nat
      BY <2>2
    <2>4. at[j] = at[j - 1] + Len(CellItems(v[j]))
      BY <1>5, <1>6
    <2>5. CellStart(t, k, i, j - 1) = p + 2 + at[j - 1]
          /\ CellStart(t, k, i, j) = p + 2 + at[j]
      BY <1>2
    <2>6. CellStart(t, k, i, j - 1) \in Nat
          /\ CellStart(t, k, i, j) = CellStart(t, k, i, j - 1) + Len(CellItems(v[j]))
      <3>1. \A a, n \in Nat : p + 2 + a \in Nat /\ p + 2 + (a + n) = (p + 2 + a) + n
        BY <1>1
      <3> QED BY <2>1, <2>3, <2>4, <2>5, <3>1
    <2>7. Stands(Items(t), CellStart(t, k, i, j - 1), CellItems(v[j]))
      BY <1>4, <2>5
    <2> QED BY <2>6, <2>7
  <1> QED BY <1>4, <1>8, <1>9 DEF v, p

-----------------------------------------------------------------------------
(* What load has read.                                                     *)

\* The table and the description are among the given ones.
Given == saved \in Tables /\ m_tblType \in [Columns -> ColumnTypes]

\* What is on the disk is the beginning of what save writes.
FileInv ==
    /\ Len(file) \in Nat /\ DOMAIN file = 1 .. Len(file) /\ Len(file) <= Len(Items(saved))
    /\ file = [i \in 1 .. Len(file) |-> file[i]]
    /\ \A i \in 1 .. Len(file) : file[i] = Items(saved)[i]

\* The columns whose names are read, and the rows of the last that are.
Done == Len(Names(saved)) - columns
RowsDone == Height(saved) - rows
CurrentColumn == Names(saved)[Done]
CurrentValue == saved[CurrentColumn][RowsDone + 1]

\* The columns that have become d, the others empty: how many values are before
\* each of them, and all that load makes of them.
Pieces(d) ==
    [k \in DOMAIN Names(saved) |->
        IF CutName[Names(saved)[k]] = d THEN saved[Names(saved)[k]] ELSE << >>]
At(d) == Offsets(Pieces(d))
CutAll(d) == [i \in DOMAIN Together(d) |-> CutValue(Together(d)[i])]

\* vals is the first n of the sequence whole.
Holds(vals, whole, n) ==
    vals \in Seq(Values) /\ Len(vals) = n /\ \A i \in 1 .. n : vals[i] = whole[i]

InArray ==
    /\ rows > 0 /\ CurrentValue \notin Cells
    /\ array = [size |-> Len(CurrentValue), vals |-> array.vals]
    /\ \E j \in 0 .. Len(CurrentValue) :
          /\ Holds(array.vals, CutValue(CurrentValue), j)
          /\ pos = CellStart(saved, Done, RowsDone + 1, j) + 1

\* pos is where the items of the next column, value or cell begin.
Position ==
    /\ pc \in {"save", "header"} => pos = 1 /\ array = NoArray /\ DOMAIN m_tbl = {}
    /\ pc \in {"name", "rows"} =>
          columns \in 0 .. Len(Names(saved)) /\ 4 <= Len(file) /\ pos - 1 <= Len(file)
    /\ pc = "name" => array = NoArray /\ pos = ColumnStart(saved, Done) + 1
    /\ pc = "rows" =>
          /\ Done > 0 /\ rows \in 0 .. Height(saved)
          /\ name = CutName[CurrentColumn] /\ name \in DOMAIN m_tbl
          /\ array = NoArray => pos = ValueStart(saved, Done, RowsDone) + 1
          /\ array # NoArray => InArray

\* Every value of m_tbl is one of the table's.
Origin ==
    \A d \in DOMAIN m_tbl :
       /\ d \in Columns /\ m_tbl[d] \in Seq(Values)
       /\ \A i \in 1 .. Len(m_tbl[d]) :
             \E c \in DOMAIN saved : \E r \in 1 .. Height(saved) :
                CutName[c] = d /\ m_tbl[d][i] = CutValue(saved[c][r])

\* m_tbl is the part of the table that is read.
RowsOf(d) == IF pc = "rows" /\ d = name THEN At(d)[Done - 1] + RowsDone ELSE At(d)[Done]

Contents ==
    pc \in {"name", "rows"} =>
       /\ DOMAIN m_tbl = {CutName[Names(saved)[k]] : k \in 1 .. Done}
       /\ \A d \in Columns : Holds(ColumnOf(d), CutAll(d), RowsOf(d))

\* fillTable has dealt with the columns that are not in todo.
Filled ==
    /\ pc \in {"save", "header", "name", "rows"} => DOMAIN block = {}
    /\ pc = "sent" => todo = {}
    /\ pc \in {"fill", "sent"} =>
          /\ todo \subseteq DOMAIN m_tbl /\ DOMAIN block \subseteq DOMAIN m_tbl
          /\ \A d \in DOMAIN m_tbl \ todo :
                d \notin DOMAIN block => Outcome(m_tblType[d], m_tbl[d]) = "throws"
          /\ \A d \in DOMAIN block :
                /\ Outcome(m_tblType[d], m_tbl[d]) = "converted"
                /\ block[d] = Column(m_tblType[d], m_tbl[d])
    /\ pc = "undefined" =>
          \E d \in DOMAIN m_tbl : Outcome(m_tblType[d], m_tbl[d]) = "undefined"
    /\ pc = "unsent" =>
          \/ /\ todo = {} /\ DOMAIN block \subseteq DOMAIN m_tbl
             /\ \A d \in DOMAIN block :
                   /\ Outcome(m_tblType[d], m_tbl[d]) = "converted"
                   /\ ~ (Size(m_tblType[d], Column(m_tblType[d], m_tbl[d])) > 0)
          \/ \E d, e \in DOMAIN m_tbl :
                /\ Outcome(m_tblType[d], m_tbl[d]) = "converted"
                /\ Outcome(m_tblType[e], m_tbl[e]) = "converted"
                /\ Size(m_tblType[d], Column(m_tblType[d], m_tbl[d]))
                     # Size(m_tblType[e], Column(m_tblType[e], m_tbl[e]))

PcOK == pc \in {"save", "header", "name", "rows", "rejected", "fill", "sent", "unsent", "undefined"}

ReadInv ==
    /\ PcOK /\ Given /\ FileInv /\ Position /\ Origin /\ Contents
    /\ WholeOrNothing /\ LoadedIsSaved
IInv == ReadInv /\ Filled

LEMMA CutFacts ==
    ASSUME NEW v \in Values
    PROVE  /\ CutValue(v) \in Values
           /\ v \in Cells => /\ CutValue(v) \in Cells
                             /\ v = Null => CutValue(v) = Null
                             /\ v # Null => CutValue(v) = CutString[v] /\ CutValue(v) \in Scalars
           /\ v \notin Cells =>
                /\ v \in Seq(Cells) /\ CutValue(v) \in Seq(Cells) /\ CutValue(v) \notin Cells
                /\ Len(CutValue(v)) = Len(v)
                /\ \A j \in 1 .. Len(v) : CutValue(v)[j] = CutValue(v[j])
  <1>1. CASE v \in Cells
    <2>1. v = Null => v \notin Scalars /\ CutValue(v) = Null
      BY ScalarAssumption DEF CutValue
    <2>2. v # Null => v \in Scalars /\ CutValue(v) = CutString[v] /\ CutString[v] \in Scalars
      BY <1>1, CutAssumption DEF CutValue, Cells
    <2> QED BY <1>1, <2>1, <2>2 DEF Cells, Values
  <1>2. CASE v \notin Cells
    <2> DEFINE w == CutValue(v)
    <2>1. v \in Seq(Cells) /\ v \notin Scalars /\ v # Null
      BY <1>2 DEF Values, Cells
    <2>2. w = [i \in DOMAIN v |-> IF v[i] = Null THEN Null ELSE CutString[v[i]]]
      BY <2>1 DEF CutValue
    <2>3. DOMAIN v = 1 .. Len(v) /\ Len(v) \in Nat /\ \A i \in 1 .. Len(v) : v[i] \in Cells
      BY <2>1
    <2> HIDE DEF w
    <2>4. \A i \in 1 .. Len(v) : w[i] = CutValue(v[i]) /\ w[i] \in Cells
      BY <2>2, <2>3, CutAssumption, ScalarAssumption DEF CutValue, Cells
    <2>5. w = [i \in 1 .. Len(v) |-> w[i]]
      BY <2>2, <2>3
    <2>6. w \in Seq(Cells) /\ Len(w) = Len(v)
      BY <2>3, <2>4, <2>5
    <2>7. w \notin Cells
      BY <2>6, ScalarAssumption DEF Cells
    <2> QED BY <1>2, <2>1, <2>4, <2>6, <2>7 DEF w, Values
  <1> QED BY <1>1, <1>2

LEMMA HoldsMore ==
    ASSUME NEW vals, NEW whole, NEW n \in Nat, Holds(vals, whole, n), whole[n + 1] \in Values
    PROVE  Holds(Append(vals, whole[n + 1]), whole, n + 1)
  <1> DEFINE x == whole[n + 1]
  <1>1. vals \in Seq(Values) /\ Len(vals) = n /\ x \in Values
    BY DEF Holds
  <1>2. \A i \in 1 .. n : vals[i] = whole[i]
    BY DEF Holds
  <1> HIDE DEF x
  <1>3. Append(vals, x) \in Seq(Values) /\ Len(Append(vals, x)) = n + 1
    BY <1>1
  <1>4. \A i \in 1 .. n + 1 : Append(vals, x)[i] = IF i = n + 1 THEN x ELSE vals[i]
    BY <1>1
  <1>5. \A i \in 1 .. n + 1 : i \in 1 .. n \/ i = n + 1
    OBVIOUS
  <1>6. \A i \in 1 .. n + 1 : Append(vals, x)[i] = whole[i]
    BY <1>2, <1>4, <1>5 DEF x
  <1> QED BY <1>3, <1>6 DEF Holds, x

LEMMA HoldsAll ==
    ASSUME NEW vals, NEW whole, NEW n \in Nat, Holds(vals, whole, n),
           DOMAIN whole = 1 .. n, whole = [i \in 1 .. n |-> whole[i]]
    PROVE  vals = whole
  <1>1. vals \in Seq(Values) /\ Len(vals) = n /\ \A i \in 1 .. n : vals[i] = whole[i]
    BY DEF Holds
  <1>2. vals = [i \in 1 .. n |-> vals[i]]
    BY <1>1
  <1> QED BY <1>1, <1>2

LEMMA PieceFacts ==
    ASSUME saved \in Tables, NEW d
    PROVE  /\ Together(d) \in Seq(Values) /\ At(d)[0] = 0
           /\ At(d)[Len(Names(saved))] = Len(Together(d))
           /\ \A k \in 1 .. Len(Names(saved)) :
                /\ At(d)[k] \in Nat /\ At(d)[k - 1] \in Nat
                /\ At(d)[k] = At(d)[k - 1]
                              + (IF CutName[Names(saved)[k]] = d THEN Height(saved) ELSE 0)
                /\ CutName[Names(saved)[k]] = d =>
                     \A j \in 1 .. Height(saved) :
                        /\ At(d)[k - 1] + j <= Len(Together(d))
                        /\ Together(d)[At(d)[k - 1] + j] = saved[Names(saved)[k]][j]
  <1> DEFINE names == Names(saved)
             ss == Pieces(d)
             e == << >>
  <1>1. names \in Seq(DOMAIN saved) /\ Len(names) \in Nat /\ DOMAIN names = 1 .. Len(names)
        /\ \A k \in 1 .. Len(names) : names[k] \in DOMAIN saved
    <2>1. names \in Seq(DOMAIN saved)
      BY NamesFacts
    <2> HIDE DEF names
    <2> QED BY <2>1
  <1>2. e \in Seq(Values) /\ Len(e) = 0
    OBVIOUS
  <1>3. ss = [k \in 1 .. Len(names) |-> IF CutName[names[k]] = d THEN saved[names[k]] ELSE e]
    BY <1>1 DEF Pieces
  <1>4. Together(d) = FlattenSeq(ss)
    BY DEF Together, Pieces, Names
  <1> HIDE DEF names, ss, e
  <1>5. ASSUME NEW k \in 1 .. Len(names)
        PROVE  /\ ss[k] = IF CutName[names[k]] = d THEN saved[names[k]] ELSE e
               /\ ss[k] \in Seq(Values)
               /\ Len(ss[k]) = IF CutName[names[k]] = d THEN Height(saved) ELSE 0
    <2>1. /\ Len(saved[names[k]]) = Height(saved) /\ saved[names[k]] \in Seq(Values)
      BY <1>1, HeightIs
    <2> QED BY <1>2, <1>3, <2>1
  <1>6. ss \in Seq(Seq(Values)) /\ Len(ss) = Len(names)
    BY <1>1, <1>3, <1>5
  <1>7. Together(d) \in Seq(Values) /\ AreOffsets(At(d), ss)
    BY <1>4, <1>6, FlattenFacts DEF At, ss
  <1> DEFINE at == At(d)
             all == Together(d)
  <1>8. /\ at \in [0 .. Len(names) -> Nat] /\ at[0] = 0 /\ at[Len(names)] = Len(all)
        /\ \A k \in 1 .. Len(names) : at[k] = at[k - 1] + Len(ss[k])
        /\ \A k \in 1 .. Len(names) : \A j \in 1 .. Len(ss[k]) :
              at[k - 1] + j <= Len(all) /\ all[at[k - 1] + j] = ss[k][j]
    BY <1>4, <1>6, <1>7 DEF AreOffsets
  <1> HIDE DEF at, all
  <1>9. ASSUME NEW k \in 1 .. Len(names)
        PROVE  /\ at[k] \in Nat /\ at[k - 1] \in Nat
               /\ at[k] = at[k - 1] + (IF CutName[names[k]] = d THEN Height(saved) ELSE 0)
               /\ CutName[names[k]] = d =>
                    \A j \in 1 .. Height(saved) :
                       at[k - 1] + j <= Len(all) /\ all[at[k - 1] + j] = saved[names[k]][j]
    <2>1. k \in 0 .. Len(names) /\ k - 1 \in 0 .. Len(names)
      BY <1>1
    <2>2. at[k] \in Nat /\ at[k - 1] \in Nat /\ at[k] = at[k - 1] + Len(ss[k])
      BY <1>8, <2>1
    <2>3. CASE CutName[names[k]] = d
      <3>1. ss[k] = saved[names[k]] /\ Len(ss[k]) = Height(saved)
        BY <1>5, <2>3
      <3> QED BY <1>8, <2>2, <2>3, <3>1
    <2>4. CASE CutName[names[k]] # d
      BY <1>5, <2>2, <2>4
    <2> QED BY <2>3, <2>4
  <1> QED BY <1>7, <1>8, <1>9 DEF at, all, names

LEMMA CutAllFacts ==
    ASSUME saved \in Tables, NEW d
    PROVE  /\ DOMAIN CutAll(d) = 1 .. Len(Together(d)) /\ Len(Together(d)) \in Nat
           /\ \A i \in 1 .. Len(Together(d)) : CutAll(d)[i] = CutValue(Together(d)[i])
           /\ CutAll(d) = [i \in 1 .. Len(Together(d)) |-> CutAll(d)[i]]
  <1> DEFINE all == Together(d)
  <1>1. all \in Seq(Values)
    BY PieceFacts
  <1>2. CutAll(d) = [i \in DOMAIN all |-> CutValue(all[i])]
    BY DEF CutAll
  <1> HIDE DEF all
  <1>3. DOMAIN all = 1 .. Len(all) /\ Len(all) \in Nat
    BY <1>1
  <1> QED BY <1>2, <1>3 DEF all

\* The item at pos is the first of a value that is there.
LEMMA TypeIsRead ==
    ASSUME FileInv, NEW p \in Nat, pos = p + 1, pos <= Len(file)
    PROVE  TypeRead = Items(saved)[p + 1].what
  BY DEF FileInv, TypeRead, What

LEMMA CellIsRead ==
    ASSUME FileInv, NEW v \in Cells, NEW p \in Nat, pos = p + 1,
           Stands(Items(saved), p, CellItems(v))
    PROVE  /\ pos <= Len(file) => TypeRead # "array"
           /\ Readable(ItemSize) =>
                /\ ItemSize = Len(CellItems(v)) /\ pos <= Len(file)
                /\ \A vals : CellRead(vals) = Append(vals, CutValue(v))
  <1> DEFINE s == CellItems(v)
  <1>1. /\ Len(s) \in {1, 2, 3}
        /\ v = Null => Len(s) = 1 /\ s[1].what = "unknown"
        /\ v # Null =>
             /\ v \in Scalars /\ Kind[v] \in {"uint", "int", "double", "bool", "str"}
             /\ s[1].what = Kind[v]
             /\ Kind[v] = "str" => Len(s) = 3 /\ s[3].what = v
             /\ Kind[v] # "str" => Len(s) = 2 /\ s[2].what = v
    BY CellItemsFacts
  <1>2. \A j \in 1 .. Len(s) : Items(saved)[p + j] = s[j]
    BY DEF Stands
  <1> HIDE DEF s
  <1>3. Items(saved)[p + 1] = s[1]
    BY <1>1, <1>2
  <1>4. ASSUME pos <= Len(file) PROVE TypeRead = s[1].what
    BY <1>3, <1>4, TypeIsRead
  <1>5. s[1].what # "array"
    BY <1>1
  <1>6. ASSUME Readable(ItemSize)
        PROVE  /\ ItemSize = Len(s) /\ pos <= Len(file)
               /\ \A vals : CellRead(vals) = Append(vals, CutValue(v))
    <2>1. ItemSize \in {1, 2, 3} /\ Len(file) \in Nat
      BY DEF ItemSize, FileInv
    <2>2. pos <= Len(file)
      BY <1>6, <2>1 DEF Readable
    <2>3. TypeRead = s[1].what
      BY <1>4, <2>2
    <2>4. CASE v = Null
      <3>1. TypeRead = "unknown" /\ ItemSize = Len(s)
        BY <1>1, <2>3, <2>4 DEF ItemSize
      <3>2. CutValue(v) = Null
        BY <2>4, CutFacts DEF Values
      <3> QED BY <2>2, <3>1, <3>2 DEF CellRead
    <2>5. CASE v # Null /\ Kind[v] = "str"
      <3>1. TypeRead = "str" /\ ItemSize = Len(s) /\ Len(s) = 3 /\ s[3].what = v
        BY <1>1, <2>3, <2>5 DEF ItemSize
      <3>2. pos + 2 = p + 3 /\ pos + 2 \in 1 .. Len(file)
        BY <1>6, <2>1, <3>1 DEF Readable
      <3>3. What(pos + 2) = v
        BY <1>2, <3>1, <3>2 DEF What, FileInv
      <3>4. CutValue(v) = CutString[v]
        BY <2>5, CutFacts DEF Values
      <3> QED BY <2>2, <3>1, <3>3, <3>4 DEF CellRead
    <2>6. CASE v # Null /\ Kind[v] # "str"
      <3>1. /\ TypeRead \in {"uint", "int", "double", "bool"} /\ ItemSize = Len(s)
            /\ Len(s) = 2 /\ s[2].what = v
        BY <1>1, <2>3, <2>6 DEF ItemSize
      <3>2. pos + 1 = p + 2 /\ pos + 1 \in 1 .. Len(file)
        BY <1>6, <2>1, <3>1 DEF Readable
      <3>3. What(pos + 1) = v
        BY <1>2, <3>1, <3>2 DEF What, FileInv
      <3>4. CutValue(v) = v
        BY <1>1, <2>6, CutFacts, CutAssumption DEF Values
      <3> QED BY <2>2, <3>1, <3>3, <3>4 DEF CellRead
    <2> QED BY <2>4, <2>5, <2>6
  <1> QED BY <1>4, <1>5, <1>6 DEF s

LEMMA SameOrigin ==
    ASSUME Origin, saved' = saved, m_tbl' = m_tbl
    PROVE  Origin'
  BY DEF Origin

LEMMA SameFile ==
    ASSUME FileInv, saved' = saved, file' = file
    PROVE  FileInv'
  BY DEF FileInv

\* Before load ends it has returned nothing.
LEMMA NotLoaded ==
    ASSUME pc' \in {"header", "name", "rows"}
    PROVE  WholeOrNothing' /\ LoadedIsSaved'
  BY DEF WholeOrNothing, LoadedIsSaved, HasLoaded

LEMMA SaveStep ==
    ASSUME ReadInv, save
    PROVE  ReadInv'
  <1>1. PICK n \in 0 .. Len(Items(saved)) : file' = SubSeq(Items(saved), 1, n)
    BY DEF save
  <1>2. /\ pc = "save" /\ pc' = "header" /\ saved' = saved /\ m_tblType' = m_tblType
        /\ pos' = pos /\ array' = array /\ m_tbl' = m_tbl
    BY DEF save, Goto, given, reader
  <1>3. Given' /\ PcOK'
    BY <1>2 DEF ReadInv, Given, PcOK
  <1>4. FileInv'
    <2> DEFINE items == Items(saved)
    <2>1. items \in Seq(ItemSet)
      BY ItemsFacts DEF ReadInv, Given
    <2>2. items = Items(saved)'
      BY <1>2
    <2> HIDE DEF items
    <2>3. /\ Len(SubSeq(items, 1, n)) = n /\ DOMAIN SubSeq(items, 1, n) = 1 .. n
          /\ \A i \in 1 .. n : SubSeq(items, 1, n)[i] = items[i]
          /\ SubSeq(items, 1, n) = [i \in 1 .. n |-> SubSeq(items, 1, n)[i]]
      BY <2>1 DEF items
    <2>4. n \in Nat /\ n <= Len(items)
      BY <2>1 DEF items
    <2> QED BY <1>1, <2>2, <2>3, <2>4 DEF FileInv, items
  <1>5. Position' /\ Contents'
    BY <1>2 DEF ReadInv, Position, Contents
  <1>6. Origin'
    BY <1>2, SameOrigin DEF ReadInv
  <1> QED BY <1>2, <1>3, <1>4, <1>5, <1>6, NotLoaded DEF ReadInv

LEMMA HeaderStep ==
    ASSUME ReadInv, Header
    PROVE  ReadInv'
  <1>1. /\ pc = "header" /\ pc' = "name" /\ saved' = saved /\ m_tblType' = m_tblType
        /\ file' = file /\ array' = array /\ m_tbl' = m_tbl
        /\ columns' = What(3) /\ pos' = pos + 4 /\ Readable(4)
    BY DEF Header, Goto, given
  <1>2. Given' /\ PcOK' /\ FileInv' /\ Origin'
    BY <1>1, SameFile, SameOrigin DEF ReadInv, Given, PcOK
  <1>3. pos = 1 /\ array = NoArray /\ DOMAIN m_tbl = {} /\ Len(file) \in Nat /\ saved \in Tables
    BY <1>1 DEF ReadInv, Position, FileInv, Given
  <1>4. 4 <= Len(file) /\ pos' = 5
    BY <1>1, <1>3 DEF Readable
  <1>5. columns' = Len(Names(saved)) /\ columns' \in Nat
    <2>1. file[3] = Items(saved)[3]
      BY <1>3, <1>4 DEF ReadInv, FileInv
    <2> QED BY <1>1, <1>3, <2>1, ItemsFacts, ColumnPlaces DEF What
  <1>6. Done' = 0
    BY <1>1, <1>5 DEF Done
  <1>7. Position'
    <2>1. ColumnStart(saved, 0) = 4
      BY <1>3, ColumnPlaces
    <2>2. pos' = ColumnStart(saved', Done') + 1
      BY <1>1, <1>4, <1>6, <2>1
    <2>3. columns' \in 0 .. Len(Names(saved')) /\ pos' - 1 <= Len(file') /\ 4 <= Len(file')
      BY <1>1, <1>3, <1>4, <1>5
    <2> QED BY <1>1, <1>3, <2>2, <2>3 DEF Position
  <1>8. Contents'
    <2> DEFINE e == << >>
    <2>1. \A k : k \notin 1 .. Done'
      BY <1>6
    <2>2. e \in Seq(Values) /\ Len(e) = 0
      OBVIOUS
    <2>3. \A d : ColumnOf(d)' = e /\ CutAll(d)' = CutAll(d) /\ At(d)' = At(d)
      BY <1>1, <1>3 DEF ColumnOf, CutAll, Together, At, Pieces
    <2>4. \A d : RowsOf(d)' = 0
      BY <1>1, <1>3, <1>6, <2>3, PieceFacts DEF RowsOf
    <2> HIDE DEF e
    <2>5. ASSUME NEW d PROVE Holds(ColumnOf(d), CutAll(d), RowsOf(d))'
      <3>1. ColumnOf(d)' = e /\ RowsOf(d)' = 0
        BY <2>3, <2>4
      <3>2. \A i : i \notin 1 .. 0
        OBVIOUS
      <3> QED BY <2>2, <3>1, <3>2 DEF Holds
    <2> QED BY <1>1, <1>3, <2>1, <2>5 DEF Contents
  <1> QED BY <1>1, <1>2, <1>7, <1>8, NotLoaded DEF ReadInv

LEMMA NameStep ==
    ASSUME ReadInv, Name
    PROVE  ReadInv'
  <1> DEFINE k == Done + 1
             names == Names(saved)
             c == CutName[names[k]]
             q == ColumnStart(saved, k - 1)
  <1>1. /\ pc = "name" /\ pc' = "rows" /\ saved' = saved /\ m_tblType' = m_tblType
        /\ file' = file /\ array' = array
        /\ columns > 0 /\ columns' = columns - 1 /\ rows' = rowCount
        /\ Readable(2) /\ pos' = pos + 2
        /\ name' = CutName[What(pos + 1)]
        /\ m_tbl' = [d \in DOMAIN m_tbl \union {name'} |-> ColumnOf(d)]
    BY DEF Name, Goto, given
  <1>2. /\ saved \in Tables /\ Len(file) \in Nat /\ 4 <= Len(file)
        /\ columns \in 0 .. Len(names) /\ array = NoArray
        /\ pos = ColumnStart(saved, Done) + 1
    BY <1>1 DEF ReadInv, Given, FileInv, Position
  <1>3. /\ Len(names) \in Nat /\ k \in 1 .. Len(names) /\ k - 1 = Done /\ Done' = k /\ k > 0
        /\ columns' \in 0 .. Len(names)
    <2>1. Len(names) \in Nat
      BY <1>2, ColumnPlaces
    <2> QED BY <1>1, <1>2, <2>1 DEF Done
  <1> HIDE DEF k
  <1>4. /\ names[k] \in DOMAIN saved /\ q \in Nat /\ Items(saved)[q + 2].what = names[k]
        /\ ValueStart(saved, k, 0) = q + 2
    BY <1>2, <1>3, ColumnPlaces
  <1>5. pos = q + 1
    BY <1>2, <1>3
  <1> HIDE DEF q
  <1>6. q + 2 <= Len(file) /\ pos' = q + 3
    BY <1>1, <1>2, <1>4, <1>5 DEF Readable
  <1>7. name' = c /\ rows' = Height(saved) /\ Height(saved) \in Nat
    <2>1. file[q + 2] = Items(saved)[q + 2] /\ file[4] = Items(saved)[4]
      BY <1>2, <1>4, <1>6 DEF ReadInv, FileInv
    <2>2. pos + 1 = q + 2
      BY <1>4, <1>5
    <2>3. What(pos + 1) = names[k]
      BY <1>4, <2>1, <2>2 DEF What
    <2>4. rowCount = Height(saved) /\ Height(saved) \in Nat
      BY <1>2, <2>1, ItemsFacts DEF rowCount, What
    <2> QED BY <1>1, <2>3, <2>4
  <1>8. RowsDone' = 0 /\ CurrentColumn' = names[k]
    BY <1>1, <1>3, <1>7 DEF RowsDone, CurrentColumn
  <1>9. DOMAIN m_tbl' = DOMAIN m_tbl \union {c}
        /\ \A d \in DOMAIN m_tbl' : m_tbl'[d] = ColumnOf(d)
    BY <1>1, <1>7
  <1>10. Given' /\ PcOK' /\ FileInv'
    BY <1>1, SameFile DEF ReadInv, Given, PcOK
  <1>11. Position'
    <2>1. columns' \in 0 .. Len(Names(saved')) /\ 4 <= Len(file') /\ pos' - 1 <= Len(file')
      BY <1>1, <1>2, <1>3, <1>4, <1>6
    <2>2. rows' \in 0 .. Height(saved') /\ name' = CutName[CurrentColumn'] /\ name' \in DOMAIN m_tbl'
      BY <1>1, <1>7, <1>8, <1>9
    <2>3. pos' = ValueStart(saved', Done', RowsDone') + 1
      BY <1>1, <1>3, <1>4, <1>6, <1>8
    <2> QED BY <1>1, <1>2, <1>3, <2>1, <2>2, <2>3 DEF Position
  <1>12. Origin'
    <2>1. c \in Columns
      BY <1>2, <1>4, TableAssumption, CutAssumption
    <2>2. ASSUME NEW d \in DOMAIN m_tbl'
          PROVE  /\ d \in Columns /\ m_tbl'[d] \in Seq(Values)
                 /\ \A i \in 1 .. Len(m_tbl'[d]) :
                       \E b \in DOMAIN saved : \E r \in 1 .. Height(saved) :
                          CutName[b] = d /\ m_tbl'[d][i] = CutValue(saved[b][r])
      <3>1. CASE d \in DOMAIN m_tbl
        BY <1>9, <3>1 DEF ReadInv, Origin, ColumnOf
      <3>2. CASE d \notin DOMAIN m_tbl
        <4> DEFINE e == << >>
        <4>1. e \in Seq(Values) /\ Len(e) = 0
          OBVIOUS
        <4>2. m_tbl'[d] = e /\ d = c
          BY <1>9, <3>2 DEF ColumnOf
        <4> HIDE DEF e
        <4> QED BY <2>1, <4>1, <4>2
      <3> QED BY <3>1, <3>2
    <2>3. saved' = saved
      BY <1>1
    <2> QED BY <2>2, <2>3 DEF Origin
  <1>13. DOMAIN m_tbl' = {CutName[names[l]] : l \in 1 .. k}
    <2>1. DOMAIN m_tbl = {CutName[names[l]] : l \in 1 .. k - 1}
      BY <1>1, <1>3 DEF ReadInv, Contents
    <2>2. k \in 1 .. k /\ \A l \in 1 .. k : l \in 1 .. k - 1 \/ l = k
      BY <1>3
    <2>3. \A l \in 1 .. k - 1 : l \in 1 .. k
      BY <1>3
    <2> QED BY <1>9, <2>1, <2>2, <2>3
  <1>14. ASSUME NEW d \in Columns
         PROVE  Holds(ColumnOf(d), CutAll(d), RowsOf(d))'
    <2>1. Holds(ColumnOf(d), CutAll(d), At(d)[k - 1])
      BY <1>1, <1>3 DEF ReadInv, Contents, RowsOf
    <2>2. CutAll(d)' = CutAll(d) /\ At(d)' = At(d)
      BY <1>1 DEF CutAll, Together, At, Pieces
    <2>3. ColumnOf(d)' = ColumnOf(d)
      BY <1>9 DEF ColumnOf
    <2>4. RowsOf(d)' = At(d)[k - 1]
      <3>1. At(d)[k - 1] \in Nat /\ (c # d => At(d)[k] = At(d)[k - 1])
        BY <1>2, <1>3, PieceFacts
      <3>2. CASE d = c
        BY <1>1, <1>3, <1>7, <1>8, <2>2, <3>1, <3>2 DEF RowsOf
      <3>3. CASE d # c
        BY <1>1, <1>3, <1>7, <2>2, <3>1, <3>3 DEF RowsOf
      <3> QED BY <3>2, <3>3
    <2> QED BY <2>1, <2>2, <2>3, <2>4 DEF Holds
  <1>15. Contents'
    BY <1>1, <1>3, <1>13, <1>14 DEF Contents
  <1> QED BY <1>1, <1>10, <1>11, <1>12, <1>15, NotLoaded DEF ReadInv

\* The value at hand, and where its items are.
LEMMA RowPlace ==
    ASSUME ReadInv, pc = "rows"
    PROVE  /\ saved \in Tables /\ Height(saved) \in Nat /\ Len(file) \in Nat
           /\ Done \in 1 .. Len(Names(saved)) /\ RowsDone \in 0 .. Height(saved)
           /\ rows \in 0 .. Height(saved) /\ name = CutName[CurrentColumn]
           /\ name \in DOMAIN m_tbl /\ CurrentColumn \in DOMAIN saved
           /\ rows > 0 =>
                /\ RowsDone + 1 \in 1 .. Height(saved)
                /\ CurrentValue \in Values
                /\ CurrentValue = saved[Names(saved)[Done]][RowsDone + 1]
                /\ ValueStart(saved, Done, RowsDone) \in Nat
                /\ ValueStart(saved, Done, RowsDone + 1)
                     = ValueStart(saved, Done, RowsDone) + Len(storeValue(CurrentValue))
                /\ Stands(Items(saved), ValueStart(saved, Done, RowsDone), storeValue(CurrentValue))
  <1>1. /\ saved \in Tables /\ Height(saved) \in Nat /\ Len(file) \in Nat
        /\ columns \in 0 .. Len(Names(saved)) /\ Len(Names(saved)) \in Nat
        /\ Done > 0 /\ rows \in 0 .. Height(saved) /\ name = CutName[CurrentColumn]
        /\ name \in DOMAIN m_tbl
    BY ItemsFacts, ColumnPlaces DEF ReadInv, Position, FileInv, Given
  <1>2. Done \in 1 .. Len(Names(saved))
    BY <1>1 DEF Done
  <1>3. RowsDone \in 0 .. Height(saved) /\ (rows > 0 => RowsDone + 1 \in 1 .. Height(saved))
    BY <1>1 DEF RowsDone
  <1>4. CurrentColumn \in DOMAIN saved
    BY <1>1, <1>2, ColumnPlaces DEF CurrentColumn
  <1>5. ASSUME rows > 0
        PROVE  /\ CurrentValue \in Values
               /\ CurrentValue = saved[Names(saved)[Done]][RowsDone + 1]
               /\ ValueStart(saved, Done, RowsDone) \in Nat
               /\ ValueStart(saved, Done, RowsDone + 1)
                    = ValueStart(saved, Done, RowsDone) + Len(storeValue(CurrentValue))
               /\ Stands(Items(saved), ValueStart(saved, Done, RowsDone), storeValue(CurrentValue))
    <2> DEFINE k == Done
               i == RowsDone + 1
    <2>1. k \in 1 .. Len(Names(saved)) /\ i \in 1 .. Height(saved) /\ i - 1 = RowsDone
      BY <1>1, <1>2, <1>3, <1>5
    <2>2. CurrentValue = saved[Names(saved)[k]][i]
      BY DEF CurrentValue, CurrentColumn
    <2> HIDE DEF k, i
    <2>3. /\ CurrentValue \in Values
          /\ ValueStart(saved, k, i - 1) \in Nat
          /\ ValueStart(saved, k, i) = ValueStart(saved, k, i - 1) + Len(storeValue(CurrentValue))
          /\ Stands(Items(saved), ValueStart(saved, k, i - 1), storeValue(CurrentValue))
      BY <1>1, <2>1, <2>2, ValuePlaces
    <2> QED BY <2>1, <2>2, <2>3 DEF k, i
  <1> QED BY <1>1, <1>2, <1>3, <1>4, <1>5

\* The cells of the array at hand.
LEMMA CellPlace ==
    ASSUME ReadInv, pc = "rows", rows > 0, CurrentValue \notin Cells
    PROVE  LET v == CurrentValue
               p == ValueStart(saved, Done, RowsDone)
               cell(j) == CellStart(saved, Done, RowsDone + 1, j)
           IN  /\ v \in Seq(Cells) /\ Len(v) \in Nat
               /\ Items(saved)[p + 1].what = "array" /\ Items(saved)[p + 2].what = Len(v)
               /\ cell(0) = p + 2
               /\ cell(Len(v)) = ValueStart(saved, Done, RowsDone + 1)
               /\ \A j \in 1 .. Len(v) :
                     /\ cell(j - 1) \in Nat
                     /\ cell(j) = cell(j - 1) + Len(CellItems(v[j]))
                     /\ Stands(Items(saved), cell(j - 1), CellItems(v[j]))
  <1> DEFINE k == Done
             i == RowsDone + 1
             v == CurrentValue
  <1>1. /\ saved \in Tables /\ k \in 1 .. Len(Names(saved)) /\ i \in 1 .. Height(saved)
        /\ RowsDone \in 0 .. Height(saved) /\ Height(saved) \in Nat
        /\ v = saved[Names(saved)[k]][i]
    BY RowPlace
  <1>2. i - 1 = RowsDone
    BY <1>1
  <1>3. saved[Names(saved)[k]][i] \notin Cells
    BY <1>1
  <1>4. RowsDone + 1 = i /\ Done = k /\ v = CurrentValue
    OBVIOUS
  <1> HIDE DEF k, i, v
  <1>5. /\ v \in Seq(Cells)
        /\ Items(saved)[ValueStart(saved, k, i - 1) + 1].what = "array"
        /\ Items(saved)[ValueStart(saved, k, i - 1) + 2].what = Len(v)
        /\ CellStart(saved, k, i, 0) = ValueStart(saved, k, i - 1) + 2
        /\ CellStart(saved, k, i, Len(v)) = ValueStart(saved, k, i)
        /\ \A j \in 1 .. Len(v) :
              /\ CellStart(saved, k, i, j - 1) \in Nat
              /\ CellStart(saved, k, i, j) = CellStart(saved, k, i, j - 1) + Len(CellItems(v[j]))
              /\ Stands(Items(saved), CellStart(saved, k, i, j - 1), CellItems(v[j]))
    BY <1>1, <1>3, CellPlaces
  <1>6. Len(v) \in Nat
    BY <1>5
  <1> QED BY <1>2, <1>4, <1>5, <1>6

\* A row goes to the column at hand.
LEMMA RowAdded ==
    ASSUME ReadInv, pc = "rows", rows > 0, pc' = pc, saved' = saved, columns' = columns,
           rows' = rows - 1, name' = name,
           m_tbl' = [m_tbl EXCEPT ![name] = Append(m_tbl[name], CutValue(CurrentValue))]
    PROVE  /\ Origin' /\ Contents' /\ Done' = Done /\ RowsDone' = RowsDone + 1
           /\ rows' \in 0 .. Height(saved) /\ CurrentColumn' = CurrentColumn
           /\ DOMAIN m_tbl' = DOMAIN m_tbl
  <1> DEFINE names == Names(saved)
             x == CutValue(CurrentValue)
             k == Done
  <1>1. /\ saved \in Tables /\ Height(saved) \in Nat /\ k \in 1 .. Len(names)
        /\ RowsDone \in 0 .. Height(saved) /\ rows \in 0 .. Height(saved)
        /\ name = CutName[CurrentColumn] /\ name \in DOMAIN m_tbl
        /\ CurrentColumn \in DOMAIN saved /\ CurrentColumn = names[k]
        /\ RowsDone + 1 \in 1 .. Height(saved) /\ CurrentValue \in Values
    BY RowPlace DEF CurrentColumn
  <1>2. x \in Values
    BY <1>1, CutFacts
  <1>3. Done' = Done /\ CurrentColumn' = CurrentColumn
    BY DEF Done, CurrentColumn
  <1>4. RowsDone' = RowsDone + 1 /\ rows' \in 0 .. Height(saved)
    BY <1>1 DEF RowsDone
  <1> HIDE DEF x
  <1>5. /\ DOMAIN m_tbl' = DOMAIN m_tbl /\ m_tbl'[name] = Append(m_tbl[name], x)
        /\ \A d \in DOMAIN m_tbl : d # name => m_tbl'[d] = m_tbl[d]
    BY <1>1 DEF x
  <1>6. \A d \in DOMAIN m_tbl :
           /\ d \in Columns /\ m_tbl[d] \in Seq(Values)
           /\ \A i \in 1 .. Len(m_tbl[d]) :
                 \E c \in DOMAIN saved : \E r \in 1 .. Height(saved) :
                    CutName[c] = d /\ m_tbl[d][i] = CutValue(saved[c][r])
    BY DEF ReadInv, Origin
  <1>7. ASSUME NEW d \in DOMAIN m_tbl'
        PROVE  /\ d \in Columns /\ m_tbl'[d] \in Seq(Values)
               /\ \A i \in 1 .. Len(m_tbl'[d]) :
                     \E c \in DOMAIN saved : \E r \in 1 .. Height(saved) :
                        CutName[c] = d /\ m_tbl'[d][i] = CutValue(saved[c][r])
    <2>1. CASE d # name
      BY <1>5, <1>6, <2>1
    <2>2. CASE d = name
      <3> DEFINE old == m_tbl[name]
                 new == Append(old, x)
      <3>1. old \in Seq(Values) /\ d \in Columns
        BY <1>1, <1>6, <2>2
      <3>2. \A i \in 1 .. Len(old) :
               \E c \in DOMAIN saved : \E r \in 1 .. Height(saved) :
                  CutName[c] = d /\ old[i] = CutValue(saved[c][r])
        <4>1. \A i \in 1 .. Len(m_tbl[d]) :
                 \E c \in DOMAIN saved : \E r \in 1 .. Height(saved) :
                    CutName[c] = d /\ m_tbl[d][i] = CutValue(saved[c][r])
          <5>1. d \in DOMAIN m_tbl
            BY <1>1, <2>2
          <5> QED BY <1>6, <5>1
        <4>2. old = m_tbl[d]
          BY <2>2
        <4> HIDE DEF old
        <4> QED BY <4>1, <4>2
      <3> HIDE DEF old
      <3>3. new \in Seq(Values) /\ Len(new) = Len(old) + 1 /\ Len(old) \in Nat
        BY <1>2, <3>1
      <3>4. ASSUME NEW i \in 1 .. Len(new)
            PROVE  \E c \in DOMAIN saved : \E r \in 1 .. Height(saved) :
                      CutName[c] = d /\ new[i] = CutValue(saved[c][r])
        <4>1. CASE i \in 1 .. Len(old)
          <5>1. new[i] = old[i]
            BY <3>1, <4>1
          <5> QED BY <3>2, <4>1, <5>1
        <4>2. CASE i = Len(old) + 1
          <5>1. new[i] = x
            BY <3>1, <4>2
          <5> QED BY <1>1, <2>2, <5>1 DEF x, CurrentValue
        <4> QED BY <3>3, <4>1, <4>2
      <3>5. m_tbl'[d] = new
        BY <1>5, <2>2 DEF old
      <3> HIDE DEF new
      <3> QED BY <3>1, <3>3, <3>4, <3>5
    <2> QED BY <2>1, <2>2
  <1>8. Origin'
    <2>1. saved' = saved
      OBVIOUS
    <2>2. SUFFICES \A d \in DOMAIN m_tbl' :
                      /\ d \in Columns /\ m_tbl'[d] \in Seq(Values)
                      /\ \A i \in 1 .. Len(m_tbl'[d]) :
                            \E c \in DOMAIN saved : \E r \in 1 .. Height(saved) :
                               CutName[c] = d /\ m_tbl'[d][i] = CutValue(saved[c][r])
      BY <2>1 DEF Origin
    <2> QED BY <1>7
  <1>9. ASSUME NEW d \in Columns
        PROVE  Holds(ColumnOf(d), CutAll(d), RowsOf(d))'
    <2>1. Holds(ColumnOf(d), CutAll(d), RowsOf(d))
      BY DEF ReadInv, Contents
    <2>2. CutAll(d)' = CutAll(d) /\ At(d)' = At(d)
      BY DEF CutAll, Together, At, Pieces
    <2>3. CASE d # name
      <3>1. ColumnOf(d)' = ColumnOf(d)
        BY <1>5, <2>3 DEF ColumnOf
      <3>2. RowsOf(d)' = RowsOf(d)
        BY <1>3, <2>2, <2>3 DEF RowsOf
      <3> QED BY <2>1, <2>2, <3>1, <3>2 DEF Holds
    <2>4. CASE d = name
      <3> DEFINE n == At(d)[k - 1] + RowsDone
                 whole == CutAll(d)
      <3>1. ColumnOf(d) = m_tbl[name] /\ ColumnOf(d)' = Append(m_tbl[name], x)
        BY <1>1, <1>5, <2>4 DEF ColumnOf
      <3>2. At(d)[k - 1] \in Nat /\ RowsOf(d) = n /\ RowsOf(d)' = At(d)[k - 1] + (RowsDone + 1)
        <4>1. At(d)[k - 1] \in Nat
          BY <1>1, PieceFacts
        <4> QED BY <1>3, <1>4, <2>2, <2>4, <4>1 DEF RowsOf
      <3>3. n \in Nat /\ RowsOf(d)' = n + 1
        <4>1. \A a, b \in Nat : a + b \in Nat /\ a + (b + 1) = (a + b) + 1
          OBVIOUS
        <4>2. RowsDone \in Nat
          BY <1>1
        <4> QED BY <3>2, <4>1, <4>2
      <3>4. whole[n + 1] = x
        <4>1. /\ n + 1 = At(d)[k - 1] + (RowsDone + 1)
              /\ At(d)[k - 1] + (RowsDone + 1) <= Len(Together(d))
              /\ Together(d)[At(d)[k - 1] + (RowsDone + 1)] = saved[names[k]][RowsDone + 1]
          <5>1. k \in 1 .. Len(names) /\ CutName[names[k]] = d
            BY <1>1, <2>4
          <5>2. /\ At(d)[k - 1] + (RowsDone + 1) <= Len(Together(d))
                /\ Together(d)[At(d)[k - 1] + (RowsDone + 1)] = saved[names[k]][RowsDone + 1]
            BY <1>1, <5>1, PieceFacts
          <5>3. n + 1 = At(d)[k - 1] + (RowsDone + 1)
            BY <1>1, <3>2
          <5> QED BY <5>2, <5>3
        <4>2. n + 1 \in 1 .. Len(Together(d))
          BY <1>1, <3>3, <4>1, CutAllFacts
        <4>3. Together(d)[n + 1] = CurrentValue
          BY <1>1, <4>1 DEF CurrentValue
        <4> HIDE DEF n
        <4> QED BY <1>1, <4>2, <4>3, CutAllFacts DEF x
      <3> HIDE DEF n, whole
      <3>5. Holds(m_tbl[name], whole, n)
        BY <2>1, <3>1, <3>2 DEF whole
      <3>6. Holds(Append(m_tbl[name], x), whole, n + 1)
        BY <1>2, <3>3, <3>4, <3>5, HoldsMore
      <3> QED BY <2>2, <3>1, <3>3, <3>6 DEF Holds, whole
    <2> QED BY <2>3, <2>4
  <1>10. Contents'
    <2>1. DOMAIN m_tbl = {CutName[names[l]] : l \in 1 .. k}
      BY DEF ReadInv, Contents
    <2>2. Done' = k /\ names = Names(saved)'
      BY <1>3
    <2> HIDE DEF k, names
    <2> QED BY <1>5, <1>9, <2>1, <2>2 DEF Contents
  <1> QED BY <1>3, <1>4, <1>5, <1>8, <1>10

\* A step within a row.
LEMMA SameContents ==
    ASSUME ReadInv, pc' = pc, saved' = saved, columns' = columns, rows' = rows, m_tbl' = m_tbl,
           name' = name
    PROVE  /\ Origin' /\ Contents' /\ Done' = Done /\ RowsDone' = RowsDone
           /\ CurrentColumn' = CurrentColumn /\ CurrentValue' = CurrentValue
  <1>1. Done' = Done /\ RowsDone' = RowsDone
    BY DEF Done, RowsDone
  <1>2. CurrentColumn' = CurrentColumn /\ CurrentValue' = CurrentValue
    BY <1>1 DEF CurrentColumn, CurrentValue
  <1>3. Origin'
    BY SameOrigin DEF ReadInv
  <1>4. \A d : /\ CutAll(d)' = CutAll(d) /\ ColumnOf(d)' = ColumnOf(d)
               /\ RowsOf(d)' = RowsOf(d)
    BY <1>1 DEF CutAll, Together, ColumnOf, RowsOf, At, Pieces
  <1>5. Contents'
    BY <1>1, <1>4 DEF ReadInv, Contents, Holds
  <1> QED BY <1>1, <1>2, <1>3, <1>5

LEMMA ReadCellStep ==
    ASSUME ReadInv, ReadCell
    PROVE  ReadInv'
  <1> DEFINE v == CurrentValue
             p == ValueStart(saved, Done, RowsDone)
  <1>1. /\ pc = "rows" /\ pc' = pc /\ saved' = saved /\ m_tblType' = m_tblType
        /\ file' = file /\ columns' = columns /\ name' = name
        /\ More /\ Readable(ItemSize) /\ TypeRead # "array" /\ pos' = pos + ItemSize
    BY DEF ReadCell, given
  <1>2. /\ saved \in Tables /\ Height(saved) \in Nat /\ Len(file) \in Nat
        /\ Done \in 1 .. Len(Names(saved)) /\ RowsDone \in 0 .. Height(saved)
        /\ rows \in 0 .. Height(saved) /\ name = CutName[CurrentColumn]
        /\ name \in DOMAIN m_tbl
    BY <1>1, RowPlace
  <1>3. Given' /\ PcOK' /\ FileInv' /\ FileInv
    BY <1>1, SameFile DEF ReadInv, Given, PcOK
  <1>4. ItemSize \in {1, 2, 3}
    BY DEF ItemSize
  <1>5. columns \in 0 .. Len(Names(saved)) /\ 4 <= Len(file)
    BY <1>1 DEF ReadInv, Position
  <1>6. CASE array = NoArray
    <2>1. /\ m_tbl' = [m_tbl EXCEPT ![name] = CellRead(m_tbl[name])]
          /\ rows' = rows - 1 /\ array' = array
      BY <1>6 DEF ReadCell, AddToColumn
    <2>2. rows > 0
      BY <1>1, <1>6 DEF More
    <2>3. /\ RowsDone + 1 \in 1 .. Height(saved) /\ v \in Values /\ p \in Nat
          /\ ValueStart(saved, Done, RowsDone + 1) = p + Len(storeValue(v))
          /\ Stands(Items(saved), p, storeValue(v))
      BY <1>1, <2>2, RowPlace
    <2>4. pos = p + 1
      BY <1>1, <1>6 DEF ReadInv, Position
    <2>5. v \in Cells
      <3>1. SUFFICES ASSUME v \notin Cells PROVE FALSE
        OBVIOUS
      <3>2. Items(saved)[p + 1].what = "array"
        BY <1>1, <2>2, <3>1, CellPlace
      <3> HIDE DEF p
      <3>3. pos <= Len(file)
        BY <1>1, <1>2, <1>4, <2>3, <2>4 DEF Readable
      <3> QED BY <1>1, <1>3, <2>3, <2>4, <3>2, <3>3, TypeIsRead
    <2> HIDE DEF p, v
    <2>6. storeValue(v) = CellItems(v)
      BY <2>3, <2>5, ValueFacts
    <2>7. ItemSize = Len(CellItems(v)) /\ CellRead(m_tbl[name]) = Append(m_tbl[name], CutValue(v))
      BY <1>1, <1>3, <2>3, <2>4, <2>5, <2>6, CellIsRead
    <2>8. m_tbl' = [m_tbl EXCEPT ![name] = Append(m_tbl[name], CutValue(CurrentValue))]
      BY <2>1, <2>7 DEF v
    <2>9. /\ Origin' /\ Contents' /\ Done' = Done /\ RowsDone' = RowsDone + 1
          /\ rows' \in 0 .. Height(saved) /\ CurrentColumn' = CurrentColumn
          /\ DOMAIN m_tbl' = DOMAIN m_tbl
      BY <1>1, <2>1, <2>2, <2>8, RowAdded
    <2>10. pos' = ValueStart(saved, Done, RowsDone + 1) + 1 /\ pos' - 1 <= Len(file)
      BY <1>1, <1>2, <1>4, <2>3, <2>4, <2>6, <2>7 DEF Readable
    <2>11. Position'
      <3>1. pos' = ValueStart(saved', Done', RowsDone') + 1
        BY <1>1, <2>9, <2>10
      <3>2. /\ columns' \in 0 .. Len(Names(saved')) /\ 4 <= Len(file') /\ pos' - 1 <= Len(file')
            /\ rows' \in 0 .. Height(saved') /\ Done' > 0
            /\ name' = CutName[CurrentColumn'] /\ name' \in DOMAIN m_tbl'
        BY <1>1, <1>2, <1>5, <2>9, <2>10
      <3>3. array' = NoArray
        BY <1>6, <2>1
      <3> QED BY <1>1, <3>1, <3>2, <3>3 DEF Position
    <2> QED BY <1>1, <1>3, <2>9, <2>11, NotLoaded DEF ReadInv
  <1>7. CASE array # NoArray
    <2>1. /\ array' = [array EXCEPT !.vals = CellRead(array.vals)]
          /\ m_tbl' = m_tbl /\ rows' = rows
      BY <1>7 DEF ReadCell
    <2> DEFINE at(j) == CellStart(saved, Done, RowsDone + 1, j)
    <2>2. /\ rows > 0 /\ v \notin Cells
          /\ array = [size |-> Len(v), vals |-> array.vals]
      BY <1>1, <1>7 DEF ReadInv, Position, InArray
    <2>3. PICK j \in 0 .. Len(v) : Holds(array.vals, CutValue(v), j) /\ pos = at(j) + 1
      BY <1>1, <1>7 DEF ReadInv, Position, InArray
    <2>4. /\ v \in Seq(Cells) /\ Len(v) \in Nat
          /\ \A i \in 1 .. Len(v) :
                /\ at(i - 1) \in Nat
                /\ at(i) = at(i - 1) + Len(CellItems(v[i]))
                /\ Stands(Items(saved), at(i - 1), CellItems(v[i]))
      BY <1>1, <2>2, CellPlace
    <2>5. v \in Values
      BY <1>1, <2>2, RowPlace
    <2>6. Len(array.vals) < Len(v) /\ Len(array.vals) = j
      <3>1. array.size = Len(v)
        BY <2>2
      <3> QED BY <1>1, <1>7, <2>3, <3>1 DEF More, Holds
    <2> DEFINE x == v[j + 1]
               whole == CutValue(v)
    <2>7. j + 1 \in 1 .. Len(v) /\ (j + 1) - 1 = j /\ j \in Nat
      BY <2>4, <2>6
    <2>8. x \in Cells
      BY <2>4, <2>7
    <2>9. at(j) \in Nat /\ at(j + 1) = at(j) + Len(CellItems(x))
          /\ Stands(Items(saved), at(j), CellItems(x))
      BY <2>4, <2>7
    <2>10. whole[j + 1] = CutValue(x) /\ CutValue(x) \in Values
      BY <2>2, <2>5, <2>8, <2>7, CutFacts DEF Values
    <2>11. v = CurrentValue
      OBVIOUS
    <2> HIDE DEF v, x, whole
    <2>12. ItemSize = Len(CellItems(x)) /\ CellRead(array.vals) = Append(array.vals, CutValue(x))
      <3> DEFINE q == at(j)
      <3>1. q \in Nat /\ Stands(Items(saved), q, CellItems(x)) /\ pos = q + 1
        BY <2>3, <2>9
      <3> HIDE DEF q
      <3> QED BY <1>1, <1>3, <2>8, <3>1, CellIsRead
    <2>13. /\ Origin' /\ Contents' /\ Done' = Done /\ RowsDone' = RowsDone
           /\ CurrentColumn' = CurrentColumn /\ CurrentValue' = v
      BY <1>1, <2>1, <2>11, SameContents
    <2>14. Holds(array.vals, whole, j)
      BY <2>3 DEF whole
    <2>15. Holds(Append(array.vals, whole[j + 1]), whole, j + 1)
      BY <2>10, <2>14, <2>7, HoldsMore
    <2>16. array' = [size |-> Len(v), vals |-> Append(array.vals, whole[j + 1])]
      <3> DEFINE a == array.vals
                 b == Append(a, whole[j + 1])
      <3>1. array = [size |-> Len(v), vals |-> a] /\ array' = [array EXCEPT !.vals = b]
        BY <2>1, <2>2, <2>10, <2>12, <2>11
      <3>2. b = Append(array.vals, whole[j + 1])
        OBVIOUS
      <3> HIDE DEF a, b
      <3> QED BY <3>1, <3>2
    <2>17. array'.vals = Append(array.vals, whole[j + 1]) /\ array' # NoArray
           /\ array' = [size |-> Len(v), vals |-> array'.vals]
      <3>1. array'.vals = Append(array.vals, whole[j + 1]) /\ array'.size = Len(v)
        BY <2>16
      <3>2. NoArray.size = -1
        BY DEF NoArray
      <3>3. array' # NoArray
        BY <2>4, <3>1, <3>2
      <3> QED BY <2>16, <3>1, <3>3
    <2>18. pos' = at(j + 1) + 1 /\ pos' - 1 <= Len(file) /\ at(j + 1) \in Nat
      <3> DEFINE q == at(j)
                 r == at(j + 1)
                 l == Len(CellItems(x))
      <3>1. q \in Nat /\ r = q + l /\ pos = q + 1 /\ pos' = pos + l /\ l \in {1, 2, 3}
            /\ pos + l - 1 <= Len(file)
        BY <1>1, <1>4, <2>3, <2>9, <2>12 DEF Readable
      <3> HIDE DEF q, r, l
      <3>2. pos' = r + 1 /\ pos' - 1 <= Len(file) /\ r \in Nat
        BY <1>2, <3>1
      <3> QED BY <3>2 DEF r
    <2>19. InArray'
      <3>1. Holds(array'.vals, CutValue(CurrentValue'), j + 1)
        BY <2>13, <2>15, <2>17 DEF whole
      <3>2. pos' = CellStart(saved', Done', RowsDone' + 1, j + 1) + 1
        BY <1>1, <2>13, <2>18
      <3>3. j + 1 \in 0 .. Len(CurrentValue')
        BY <2>4, <2>13, <2>7
      <3>4. /\ rows' > 0 /\ CurrentValue' \notin Cells
            /\ array' = [size |-> Len(CurrentValue'), vals |-> array'.vals]
        BY <2>1, <2>2, <2>13, <2>17, <2>11
      <3> QED BY <3>1, <3>2, <3>3, <3>4 DEF InArray
    <2>20. Position'
      <3>1. /\ columns' \in 0 .. Len(Names(saved')) /\ 4 <= Len(file') /\ pos' - 1 <= Len(file')
            /\ rows' \in 0 .. Height(saved') /\ Done' > 0
            /\ name' = CutName[CurrentColumn'] /\ name' \in DOMAIN m_tbl'
        BY <1>1, <1>2, <1>5, <2>1, <2>13, <2>18
      <3> QED BY <1>1, <2>17, <2>19, <3>1 DEF Position
    <2> QED BY <1>1, <1>3, <2>13, <2>20, NotLoaded DEF ReadInv
  <1> QED BY <1>6, <1>7

LEMMA ReadArrayStep ==
    ASSUME ReadInv, ReadArray
    PROVE  ReadInv'
  <1> DEFINE v == CurrentValue
             p == ValueStart(saved, Done, RowsDone)
             at(j) == CellStart(saved, Done, RowsDone + 1, j)
  <1>1. /\ pc = "rows" /\ pc' = pc /\ saved' = saved /\ m_tblType' = m_tblType
        /\ file' = file /\ columns' = columns /\ rows' = rows /\ name' = name /\ m_tbl' = m_tbl
        /\ More /\ Readable(2) /\ TypeRead = "array" /\ pos' = pos + 2
        /\ array' = [size |-> What(pos + 1), vals |-> << >>]
    BY DEF ReadArray, given
  <1>2. /\ saved \in Tables /\ Height(saved) \in Nat /\ Len(file) \in Nat
        /\ Done \in 1 .. Len(Names(saved)) /\ RowsDone \in 0 .. Height(saved)
        /\ rows \in 0 .. Height(saved) /\ name = CutName[CurrentColumn]
        /\ name \in DOMAIN m_tbl
    BY <1>1, RowPlace
  <1>3. Given' /\ PcOK' /\ FileInv' /\ FileInv
    BY <1>1, SameFile DEF ReadInv, Given, PcOK
  <1>4. columns \in 0 .. Len(Names(saved)) /\ 4 <= Len(file)
    BY <1>1 DEF ReadInv, Position
  <1>5. array = NoArray
    <2>1. SUFFICES ASSUME array # NoArray PROVE FALSE
      OBVIOUS
    <2>2. rows > 0 /\ v \notin Cells /\ array = [size |-> Len(v), vals |-> array.vals]
      BY <1>1, <2>1 DEF ReadInv, Position, InArray
    <2>3. PICK j \in 0 .. Len(v) : Holds(array.vals, CutValue(v), j) /\ pos = at(j) + 1
      BY <1>1, <2>1 DEF ReadInv, Position, InArray
    <2>4. /\ v \in Seq(Cells) /\ Len(v) \in Nat
          /\ \A i \in 1 .. Len(v) :
                at(i - 1) \in Nat /\ Stands(Items(saved), at(i - 1), CellItems(v[i]))
      BY <1>1, <2>2, CellPlace
    <2>5. j < Len(v)
      <3>1. array.size = Len(v)
        BY <2>2
      <3> QED BY <1>1, <2>1, <2>3, <3>1 DEF More, Holds
    <2>6. j + 1 \in 1 .. Len(v) /\ (j + 1) - 1 = j
      BY <2>4, <2>5
    <2> DEFINE x == v[j + 1]
               q == at(j)
    <2>7. q \in Nat /\ Stands(Items(saved), q, CellItems(x)) /\ x \in Cells /\ pos = q + 1
      BY <2>3, <2>4, <2>6
    <2> HIDE DEF x, q
    <2>8. pos <= Len(file)
      BY <1>1, <1>2, <2>7 DEF Readable
    <2> QED BY <1>1, <1>3, <2>7, <2>8, CellIsRead
  <1>6. rows > 0 /\ pos = p + 1
    BY <1>1, <1>5 DEF More, ReadInv, Position
  <1>7. /\ p \in Nat /\ v \in Values /\ Stands(Items(saved), p, storeValue(v))
    BY <1>1, <1>6, RowPlace
  <1>8. v = CurrentValue
    OBVIOUS
  <1>9. v \notin Cells
    <2>1. SUFFICES ASSUME v \in Cells PROVE FALSE
      OBVIOUS
    <2> HIDE DEF p, v
    <2>2. Stands(Items(saved), p, CellItems(v))
      BY <1>7, <2>1, ValueFacts
    <2>3. pos <= Len(file)
      BY <1>1, <1>2, <1>6, <1>7 DEF Readable
    <2> QED BY <1>1, <1>3, <1>6, <1>7, <2>1, <2>2, <2>3, CellIsRead
  <1>10. Len(v) \in Nat /\ Items(saved)[p + 2].what = Len(v) /\ at(0) = p + 2
    BY <1>1, <1>6, <1>9, CellPlace
  <1>11. /\ Origin' /\ Contents' /\ Done' = Done /\ RowsDone' = RowsDone
         /\ CurrentColumn' = CurrentColumn /\ CurrentValue' = v
    BY <1>1, <1>8, SameContents
  <1> HIDE DEF p, v
  <1>12. pos + 1 = p + 2 /\ p + 2 <= Len(file) /\ pos' = p + 3
    BY <1>1, <1>2, <1>6, <1>7 DEF Readable
  <1>13. What(pos + 1) = Len(v)
    <2>1. file[p + 2] = Items(saved)[p + 2]
      BY <1>2, <1>3, <1>7, <1>12 DEF FileInv
    <2> QED BY <1>10, <1>12, <2>1 DEF What
  <1> DEFINE e == << >>
  <1>14. e \in Seq(Values) /\ Len(e) = 0 /\ array' = [size |-> Len(v), vals |-> e]
    BY <1>1, <1>13
  <1> HIDE DEF e
  <1>15. /\ array'.vals = e /\ array' = [size |-> Len(v), vals |-> array'.vals]
         /\ array' # NoArray
    <2>1. array'.size = Len(v) /\ array'.vals = e
      BY <1>14
    <2>2. NoArray.size = -1
      BY DEF NoArray
    <2> QED BY <1>10, <1>14, <2>1, <2>2
  <1>16. InArray'
    <2>1. Holds(array'.vals, CutValue(CurrentValue'), 0)
      BY <1>14, <1>15 DEF Holds
    <2>2. pos' = CellStart(saved', Done', RowsDone' + 1, 0) + 1
      <3>1. CellStart(saved', Done', RowsDone' + 1, 0) = p + 2
        BY <1>1, <1>10, <1>11
      <3> QED BY <1>7, <1>12, <3>1
    <2>3. 0 \in 0 .. Len(CurrentValue')
      BY <1>10, <1>11
    <2>4. /\ rows' > 0 /\ CurrentValue' \notin Cells
          /\ array' = [size |-> Len(CurrentValue'), vals |-> array'.vals]
      BY <1>1, <1>6, <1>9, <1>11, <1>15
    <2> QED BY <2>1, <2>2, <2>3, <2>4 DEF InArray
  <1>17. Position'
    <2>1. /\ columns' \in 0 .. Len(Names(saved')) /\ 4 <= Len(file') /\ pos' - 1 <= Len(file')
          /\ rows' \in 0 .. Height(saved') /\ Done' > 0
          /\ name' = CutName[CurrentColumn'] /\ name' \in DOMAIN m_tbl'
      BY <1>1, <1>2, <1>4, <1>7, <1>11, <1>12
    <2> QED BY <1>1, <1>15, <1>16, <2>1 DEF Position
  <1> QED BY <1>1, <1>3, <1>11, <1>17, NotLoaded DEF ReadInv

LEMMA EndArrayStep ==
    ASSUME ReadInv, EndArray
    PROVE  ReadInv'
  <1> DEFINE v == CurrentValue
             at(j) == CellStart(saved, Done, RowsDone + 1, j)
  <1>1. /\ pc = "rows" /\ pc' = pc /\ saved' = saved /\ m_tblType' = m_tblType
        /\ file' = file /\ columns' = columns /\ rows' = rows - 1 /\ name' = name
        /\ array # NoArray /\ ~ More /\ pos' = pos /\ array' = NoArray
        /\ m_tbl' = [m_tbl EXCEPT ![name] = Append(m_tbl[name], array.vals)]
    BY DEF EndArray, given, AddToColumn
  <1>2. /\ saved \in Tables /\ Height(saved) \in Nat /\ Len(file) \in Nat
        /\ Done \in 1 .. Len(Names(saved)) /\ RowsDone \in 0 .. Height(saved)
        /\ name = CutName[CurrentColumn] /\ name \in DOMAIN m_tbl
    BY <1>1, RowPlace
  <1>3. Given' /\ PcOK' /\ FileInv'
    BY <1>1, SameFile DEF ReadInv, Given, PcOK
  <1>4. columns \in 0 .. Len(Names(saved)) /\ 4 <= Len(file) /\ pos - 1 <= Len(file)
    BY <1>1 DEF ReadInv, Position
  <1>5. rows > 0 /\ v \notin Cells /\ array = [size |-> Len(v), vals |-> array.vals]
    BY <1>1 DEF ReadInv, Position, InArray
  <1>6. PICK j \in 0 .. Len(v) : Holds(array.vals, CutValue(v), j) /\ pos = at(j) + 1
    BY <1>1 DEF ReadInv, Position, InArray
  <1>7. /\ v \in Seq(Cells) /\ Len(v) \in Nat
        /\ at(Len(v)) = ValueStart(saved, Done, RowsDone + 1)
    BY <1>1, <1>5, CellPlace
  <1>8. j = Len(v)
    <2>1. array.size = Len(v)
      BY <1>5
    <2> QED BY <1>1, <1>6, <1>7, <2>1 DEF More, Holds
  <1>9. array.vals = CutValue(v)
    <2>1. v \in Values
      BY <1>1, <1>5, RowPlace
    <2>2. CutValue(v) \in Seq(Cells) /\ Len(CutValue(v)) = Len(v)
      BY <1>5, <2>1, CutFacts
    <2> DEFINE w == CutValue(v)
    <2>3. DOMAIN w = 1 .. j /\ w = [i \in 1 .. j |-> w[i]]
      <3> HIDE DEF w
      <3> QED BY <1>8, <2>2 DEF w
    <2>4. Holds(array.vals, w, j) /\ j \in Nat
      BY <1>6, <1>7, <1>8
    <2> HIDE DEF w
    <2>5. array.vals = w
      BY <2>3, <2>4, HoldsAll
    <2> QED BY <2>5 DEF w
  <1>10. /\ Origin' /\ Contents' /\ Done' = Done /\ RowsDone' = RowsDone + 1
         /\ rows' \in 0 .. Height(saved) /\ CurrentColumn' = CurrentColumn
         /\ DOMAIN m_tbl' = DOMAIN m_tbl
    BY <1>1, <1>5, <1>9, RowAdded
  <1>11. Position'
    <2>1. /\ columns' \in 0 .. Len(Names(saved')) /\ 4 <= Len(file') /\ pos' - 1 <= Len(file')
          /\ rows' \in 0 .. Height(saved') /\ Done' > 0
          /\ name' = CutName[CurrentColumn'] /\ name' \in DOMAIN m_tbl'
      BY <1>1, <1>2, <1>4, <1>10
    <2>2. pos' = ValueStart(saved', Done', RowsDone') + 1
      BY <1>1, <1>6, <1>7, <1>8, <1>10
    <2> QED BY <1>1, <2>1, <2>2 DEF Position
  <1> QED BY <1>1, <1>3, <1>10, <1>11, NotLoaded DEF ReadInv

LEMMA NextColumnStep ==
    ASSUME ReadInv, NextColumn
    PROVE  ReadInv'
  <1>1. /\ pc = "rows" /\ pc' = "name" /\ saved' = saved /\ m_tblType' = m_tblType
        /\ file' = file /\ columns' = columns /\ rows' = rows
        /\ array = NoArray /\ array' = array /\ ~ More /\ pos' = pos /\ m_tbl' = m_tbl
    BY DEF NextColumn, given, reader, Goto
  <1>2. /\ saved \in Tables /\ Height(saved) \in Nat
        /\ Done \in 1 .. Len(Names(saved)) /\ rows \in 0 .. Height(saved)
    BY <1>1, RowPlace
  <1>3. RowsDone = Height(saved)
    BY <1>1, <1>2 DEF More, RowsDone
  <1>4. Given' /\ PcOK' /\ FileInv' /\ Origin'
    BY <1>1, SameFile, SameOrigin DEF ReadInv, Given, PcOK
  <1>5. Done' = Done
    BY <1>1 DEF Done
  <1>6. Position'
    <2>1. pos = ValueStart(saved, Done, Height(saved)) + 1
      BY <1>1, <1>3 DEF ReadInv, Position
    <2>2. ValueStart(saved, Done, Height(saved)) = ColumnStart(saved, Done)
      BY <1>2, ColumnPlaces
    <2>3. columns \in 0 .. Len(Names(saved)) /\ 4 <= Len(file) /\ pos - 1 <= Len(file)
      BY <1>1 DEF ReadInv, Position
    <2> QED BY <1>1, <1>5, <2>1, <2>2, <2>3 DEF Position
  <1>7. Contents'
    <2>1. \A d : /\ CutAll(d)' = CutAll(d) /\ ColumnOf(d)' = ColumnOf(d)
                 /\ At(d)' = At(d)
      BY <1>1 DEF CutAll, Together, ColumnOf, At, Pieces
    <2>2. ASSUME NEW d PROVE RowsOf(d)' = RowsOf(d)
      <3>1. At(d)[Done] = At(d)[Done - 1]
                          + (IF CutName[Names(saved)[Done]] = d THEN Height(saved) ELSE 0)
        BY <1>2, PieceFacts
      <3>2. name = CutName[Names(saved)[Done]]
        BY <1>1, RowPlace DEF CurrentColumn
      <3> QED BY <1>1, <1>3, <1>5, <2>1, <3>1, <3>2 DEF RowsOf
    <2> QED BY <1>1, <1>5, <2>1, <2>2 DEF ReadInv, Contents, Holds
  <1> QED BY <1>1, <1>4, <1>6, <1>7, NotLoaded DEF ReadInv

LEMMA RejectStep ==
    ASSUME ReadInv, Reject
    PROVE  ReadInv'
  <1> DEFINE e == << >>
  <1>1. /\ pc' = "rejected" /\ saved' = saved /\ m_tblType' = m_tblType
        /\ file' = file /\ m_tbl' = e /\ m_rowCount' = 0
    BY DEF Reject, given, Goto
  <1>2. DOMAIN e = {}
    OBVIOUS
  <1>3. WholeOrNothing'
    BY <1>1 DEF WholeOrNothing, HasLoaded
  <1> HIDE DEF e
  <1>4. Given' /\ PcOK' /\ FileInv'
    BY <1>1, SameFile DEF ReadInv, Given, PcOK
  <1>5. Origin'
    BY <1>1, <1>2 DEF Origin
  <1>6. Position' /\ Contents' /\ LoadedIsSaved'
    BY <1>1 DEF Position, Contents, LoadedIsSaved, HasLoaded
  <1> QED BY <1>3, <1>4, <1>5, <1>6 DEF ReadInv

LEMMA LoadedStep ==
    ASSUME ReadInv, Loaded
    PROVE  ReadInv'
  <1> DEFINE names == Names(saved)
  <1>1. /\ pc = "name" /\ pc' = "fill" /\ columns = 0 /\ saved' = saved /\ m_tblType' = m_tblType
        /\ file' = file /\ m_tbl' = m_tbl /\ m_rowCount' = rowCount
    BY DEF Loaded, given, Goto
  <1>2. Given' /\ PcOK' /\ FileInv' /\ Origin'
    BY <1>1, SameFile, SameOrigin DEF ReadInv, Given, PcOK
  <1>3. Position' /\ Contents'
    BY <1>1 DEF Position, Contents
  <1>4. /\ saved \in Tables /\ FileInv /\ 4 <= Len(file) /\ pos - 1 <= Len(file)
        /\ pos = ColumnStart(saved, Done) + 1
    BY <1>1 DEF ReadInv, Given, Position
  <1>5. /\ names \in Seq(DOMAIN saved) /\ Len(names) \in Nat
        /\ \A c \in DOMAIN saved : \E k \in 1 .. Len(names) : names[k] = c
    BY <1>4, NamesFacts
  <1>6. Done = Len(names)
    BY <1>1, <1>5 DEF Done
  <1>7. Items(saved) \in Seq(ItemSet) /\ Items(saved)[4].what = Height(saved)
        /\ Height(saved) \in Nat
    BY <1>4, ItemsFacts
  <1>8. Len(file) = Len(Items(saved))
    <2>1. ColumnStart(saved, Len(names)) = Len(Items(saved))
      BY <1>4, ColumnPlaces
    <2>2. pos - 1 = Len(Items(saved))
      BY <1>4, <1>6, <1>7, <2>1
    <2> QED BY <1>4, <1>7, <2>2 DEF FileInv
  <1>9. m_rowCount' = Height(saved)
    BY <1>1, <1>4, <1>7 DEF FileInv, rowCount, What
  <1>10. /\ DOMAIN m_tbl = {CutName[c] : c \in DOMAIN saved}
         /\ \A d \in DOMAIN m_tbl : m_tbl[d] = CutAll(d)
    <2>1. DOMAIN m_tbl = {CutName[names[k]] : k \in 1 .. Len(names)}
      BY <1>1, <1>6 DEF ReadInv, Contents
    <2>2. DOMAIN m_tbl = {CutName[c] : c \in DOMAIN saved}
      <3>1. \A k \in 1 .. Len(names) : names[k] \in DOMAIN saved
        BY <1>5
      <3> HIDE DEF names
      <3> QED BY <1>5, <2>1, <3>1
    <2>3. ASSUME NEW d \in DOMAIN m_tbl PROVE m_tbl[d] = CutAll(d)
      <3> DEFINE whole == CutAll(d)
                 n == Len(Together(d))
      <3>1. d \in Columns
        BY DEF ReadInv, Origin
      <3>2. Holds(ColumnOf(d), whole, At(d)[Len(names)])
        BY <1>1, <1>6, <3>1 DEF ReadInv, Contents, RowsOf
      <3>3. Holds(m_tbl[d], whole, n)
        BY <1>4, <3>2, PieceFacts DEF ColumnOf
      <3>4. /\ DOMAIN whole = 1 .. n /\ n \in Nat
            /\ whole = [i \in 1 .. n |-> whole[i]]
        BY <1>4, CutAllFacts
      <3> HIDE DEF whole, n
      <3>5. m_tbl[d] = whole
        BY <3>3, <3>4, HoldsAll
      <3> QED BY <3>5 DEF whole
    <2> QED BY <2>2, <2>3
  <1>11. WholeOrNothing'
    <2> DEFINE items == Items(saved)
    <2>1. items \in Seq(ItemSet) /\ Len(file) = Len(items) /\ Len(file) \in Nat
      BY <1>4, <1>7, <1>8 DEF FileInv
    <2>2. /\ file = [i \in 1 .. Len(file) |-> file[i]]
          /\ \A i \in 1 .. Len(file) : file[i] = items[i]
      BY <1>4 DEF FileInv
    <2> HIDE DEF items
    <2>3. items = [i \in 1 .. Len(items) |-> items[i]]
      BY <2>1
    <2>4. file = items
      BY <2>1, <2>2, <2>3
    <2>5. file' = Items(saved)'
      BY <1>1, <2>4 DEF items
    <2> QED BY <1>1, <2>5 DEF WholeOrNothing
  <1>12. LoadedIsSaved'
    <2>1. SUFFICES /\ m_rowCount' = Height(saved)'
                   /\ DOMAIN m_tbl' = {CutName[c] : c \in DOMAIN saved'}
                   /\ \A d \in DOMAIN m_tbl' : m_tbl'[d] = CutAll(d)'
      BY DEF LoadedIsSaved, CutAll
    <2>2. saved' = saved /\ m_tbl' = m_tbl
      BY <1>1
    <2>3. Height(saved)' = Height(saved) /\ \A d : CutAll(d)' = CutAll(d)
      BY <2>2 DEF CutAll, Together
    <2> QED BY <1>9, <1>10, <2>2, <2>3
  <1> QED BY <1>2, <1>3, <1>11, <1>12 DEF ReadInv

LEMMA SentStep ==
    ASSUME ReadInv, (\E c \in Columns : FillColumn(c)) \/ Send
    PROVE  ReadInv'
  <1>1. /\ pc = "fill" /\ pc' \in {"fill", "sent", "unsent", "undefined"} /\ saved' = saved
        /\ m_tblType' = m_tblType /\ file' = file /\ m_tbl' = m_tbl /\ m_rowCount' = m_rowCount
    <2>1. CASE Send
      BY <2>1 DEF Send, given, Goto
    <2>2. CASE \E c \in Columns : FillColumn(c)
      BY <2>2 DEF FillColumn, given, Goto
    <2> QED BY <2>1, <2>2
  <1>2. Given' /\ PcOK' /\ FileInv' /\ Origin'
    BY <1>1, SameFile, SameOrigin DEF ReadInv, Given, PcOK
  <1>3. Position' /\ Contents'
    BY <1>1 DEF Position, Contents
  <1>4. WholeOrNothing'
    BY <1>1 DEF ReadInv, WholeOrNothing, HasLoaded
  <1>5. LoadedIsSaved'
    BY <1>1 DEF ReadInv, LoadedIsSaved, HasLoaded, Together
  <1> QED BY <1>2, <1>3, <1>4, <1>5 DEF ReadInv

LEMMA SameRead ==
    ASSUME ReadInv, UNCHANGED vars
    PROVE  ReadInv'
  <1>1. /\ saved' = saved /\ m_tblType' = m_tblType /\ file' = file /\ pc' = pc /\ pos' = pos
        /\ columns' = columns /\ rows' = rows /\ name' = name /\ array' = array
        /\ m_tbl' = m_tbl /\ m_rowCount' = m_rowCount
    BY DEF vars, given, reader
  <1>2. Given' /\ PcOK' /\ FileInv'
    BY <1>1, SameFile DEF ReadInv, Given, PcOK
  <1>3. /\ Origin' /\ Contents' /\ Done' = Done /\ RowsDone' = RowsDone
        /\ CurrentColumn' = CurrentColumn /\ CurrentValue' = CurrentValue
    BY <1>1, SameContents
  <1>4. Position'
    <2>1. InArray' = InArray
      BY <1>1, <1>3 DEF InArray
    <2> QED BY <1>1, <1>3, <2>1 DEF ReadInv, Position
  <1>5. WholeOrNothing' /\ LoadedIsSaved'
    BY <1>1 DEF ReadInv, WholeOrNothing, LoadedIsSaved, HasLoaded, Together
  <1> QED BY <1>2, <1>3, <1>4, <1>5 DEF ReadInv

LEMMA ReadInit ==
    ASSUME Init
    PROVE  ReadInv
  <1>1. /\ saved \in Tables /\ pc = "save" /\ pos = 1 /\ array = NoArray
        /\ file = << >> /\ m_tbl = << >>
    BY DEF Init
  <1>2. m_tblType \in [Columns -> ColumnTypes]
    <2>1. /\ m_tblType \in [Columns -> UNION {TypesOf[c] : c \in Columns}]
          /\ \A c \in Columns : m_tblType[c] \in TypesOf[c]
      BY DEF Init
    <2>2. \A c \in Columns : TypesOf[c] \subseteq ColumnTypes
      BY TypeAssumption
    <2>3. \A c \in Columns : m_tblType[c] \in ColumnTypes
      BY <2>1, <2>2
    <2> QED BY <2>1, <2>3
  <1> DEFINE e == << >>
  <1>3. Len(e) = 0 /\ DOMAIN e = {} /\ DOMAIN e = 1 .. 0 /\ e = [i \in 1 .. 0 |-> e[i]]
    OBVIOUS
  <1>4. file = e /\ m_tbl = e
    BY <1>1
  <1> HIDE DEF e
  <1>5. FileInv
    <2>1. Len(Items(saved)) \in Nat
      <3>1. Items(saved) \in Seq(ItemSet)
        BY <1>1, ItemsFacts
      <3> QED BY <3>1
    <2> QED BY <1>3, <1>4, <2>1 DEF FileInv
  <1>6. Given /\ PcOK /\ Position /\ Origin /\ Contents
    BY <1>1, <1>2, <1>3, <1>4 DEF Given, PcOK, Position, Origin, Contents
  <1>7. WholeOrNothing /\ LoadedIsSaved
    BY <1>1 DEF WholeOrNothing, LoadedIsSaved, HasLoaded
  <1> QED BY <1>5, <1>6, <1>7 DEF ReadInv

LEMMA ReadStep ==
    ASSUME ReadInv, [Next]_vars
    PROVE  ReadInv'
  <1>1. CASE save
    BY <1>1, SaveStep
  <1>2. CASE load
    BY <1>2, HeaderStep, NameStep, ReadCellStep, ReadArrayStep, EndArrayStep,
       NextColumnStep, RejectStep, LoadedStep DEF load
  <1>3. CASE (\E c \in Columns : FillColumn(c)) \/ Send
    BY <1>3, SentStep
  <1>4. CASE UNCHANGED vars
    BY <1>4, SameRead
  <1> QED BY <1>1, <1>2, <1>3, <1>4 DEF Next

(***************************************************************************)
(* Wherever a full disk or a crash has cut a file of ClickTable::save,     *)
(* load rejects it and flushTbl leaves no row of it, for any table.        *)
(***************************************************************************)
THEOREM CutFilesAreRejected == Spec => []WholeOrNothing
  <1>1. Init => ReadInv
    BY ReadInit
  <1>2. ReadInv /\ [Next]_vars => ReadInv'
    BY ReadStep
  <1>3. ReadInv => WholeOrNothing
    BY DEF ReadInv
  <1> QED BY <1>1, <1>2, <1>3, PTL DEF Spec

(***************************************************************************)
(* What ClickTable::load returns is what save was given, column by column  *)
(* and array by array, for any table, names that are one up to a zero byte *)
(* included.                                                               *)
(***************************************************************************)
THEOREM TablesSurvive == Spec => []LoadedIsSaved
  <1>1. Init => ReadInv
    BY ReadInit
  <1>2. ReadInv /\ [Next]_vars => ReadInv'
    BY ReadStep
  <1>3. ReadInv => LoadedIsSaved
    BY DEF ReadInv
  <1> QED BY <1>1, <1>2, <1>3, PTL DEF Spec

-----------------------------------------------------------------------------
(* What fillTable makes of it.                                             *)

LEMMA FilledInit ==
    ASSUME Init
    PROVE  Filled
  <1> DEFINE e == << >>
  <1>1. pc = "save" /\ block = e
    BY DEF Init
  <1>2. DOMAIN e = {}
    OBVIOUS
  <1> HIDE DEF e
  <1> QED BY <1>1, <1>2 DEF Filled

LEMMA FilledStep ==
    ASSUME PcOK, Filled, [Next]_vars
    PROVE  Filled'
  <1>1. CASE save \/ Header \/ Name \/ ReadCell \/ ReadArray \/ EndArray \/ NextColumn \/ Reject
    <2>1. /\ pc \in {"save", "header", "name", "rows"} /\ block' = block
          /\ pc' \in {"header", "name", "rows", "rejected"}
      <3>1. CASE save
        BY <3>1 DEF save, filler, Goto
      <3>2. CASE Header
        BY <3>2 DEF Header, filler, Goto
      <3>3. CASE Name
        BY <3>3 DEF Name, filler, Goto
      <3>4. CASE ReadCell
        BY <3>4 DEF ReadCell, filler
      <3>5. CASE ReadArray
        BY <3>5 DEF ReadArray, filler
      <3>6. CASE EndArray
        BY <3>6 DEF EndArray, filler
      <3>7. CASE NextColumn
        BY <3>7 DEF NextColumn, filler, Goto
      <3>8. CASE Reject
        BY <3>8 DEF Reject, filler, Goto
      <3> QED BY <1>1, <3>1, <3>2, <3>3, <3>4, <3>5, <3>6, <3>7, <3>8
    <2>2. DOMAIN block = {}
      BY <2>1 DEF Filled
    <2> QED BY <2>1, <2>2 DEF Filled
  <1>2. CASE Loaded
    <2>1. /\ pc = "name" /\ pc' = "fill" /\ todo' = DOMAIN m_tbl /\ m_tbl' = m_tbl
          /\ block' = block
      BY <1>2 DEF Loaded, Goto
    <2>2. DOMAIN block' = {}
      BY <2>1 DEF Filled
    <2> QED BY <2>1, <2>2 DEF Filled
  <1>3. CASE \E c \in Columns : FillColumn(c)
    <2>1. PICK c \in Columns : FillColumn(c)
      BY <1>3
    <2> DEFINE outcome == Outcome(m_tblType[c], m_tbl[c])
    <2>2. /\ pc = "fill" /\ c \in todo /\ todo' = todo \ {c}
          /\ m_tblType' = m_tblType /\ m_tbl' = m_tbl
      BY <2>1 DEF FillColumn, given
    <2>3. /\ c \in DOMAIN m_tbl /\ todo \subseteq DOMAIN m_tbl /\ DOMAIN block \subseteq DOMAIN m_tbl
          /\ \A d \in DOMAIN m_tbl \ todo :
                d \notin DOMAIN block => Outcome(m_tblType[d], m_tbl[d]) = "throws"
          /\ \A d \in DOMAIN block :
                /\ Outcome(m_tblType[d], m_tbl[d]) = "converted"
                /\ block[d] = Column(m_tblType[d], m_tbl[d])
      BY <2>2 DEF Filled
    <2>4. CASE /\ outcome = "converted" /\ pc' = "fill"
               /\ block' = [d \in DOMAIN block \union {c} |->
                              IF d = c THEN Column(m_tblType[c], m_tbl[c]) ELSE block[d]]
      <3>1. /\ DOMAIN block' = DOMAIN block \union {c}
            /\ \A d \in DOMAIN block' :
                  block'[d] = IF d = c THEN Column(m_tblType[c], m_tbl[c]) ELSE block[d]
        BY <2>4
      <3>2. ASSUME NEW d \in DOMAIN block'
            PROVE  /\ Outcome(m_tblType[d], m_tbl[d]) = "converted"
                   /\ block'[d] = Column(m_tblType[d], m_tbl[d])
        BY <2>3, <2>4, <3>1
      <3>3. ASSUME NEW d \in DOMAIN m_tbl \ todo', d \notin DOMAIN block'
            PROVE  Outcome(m_tblType[d], m_tbl[d]) = "throws"
        BY <2>2, <2>3, <3>1, <3>3
      <3>4. DOMAIN block' \subseteq DOMAIN m_tbl' /\ todo' \subseteq DOMAIN m_tbl'
        BY <2>2, <2>3, <3>1
      <3> QED BY <2>2, <2>4, <3>2, <3>3, <3>4 DEF Filled
    <2>5. CASE outcome = "throws" /\ pc' = "fill" /\ block' = block
      <3>1. ASSUME NEW d \in DOMAIN m_tbl \ todo', d \notin DOMAIN block'
            PROVE  Outcome(m_tblType[d], m_tbl[d]) = "throws"
        BY <2>2, <2>3, <2>5, <3>1
      <3> QED BY <2>2, <2>3, <2>5, <3>1 DEF Filled
    <2>6. CASE outcome = "undefined" /\ pc' = "undefined"
      BY <2>2, <2>3, <2>6 DEF Filled
    <2>7. CASE /\ pc' = "unsent" /\ outcome = "converted"
               /\ \E d \in DOMAIN block :
                     Size(m_tblType[d], block[d])
                       # Size(m_tblType[c], Column(m_tblType[c], m_tbl[c]))
      <3>1. PICK d \in DOMAIN block :
               Size(m_tblType[d], block[d]) # Size(m_tblType[c], Column(m_tblType[c], m_tbl[c]))
        BY <2>7
      <3> QED BY <2>2, <2>3, <2>7, <3>1 DEF Filled
    <2> QED
      <3>1. \/ /\ outcome = "converted" /\ pc' = "fill"
               /\ block' = [d \in DOMAIN block \union {c} |->
                              IF d = c THEN Column(m_tblType[c], m_tbl[c]) ELSE block[d]]
            \/ outcome = "throws" /\ pc' = "fill" /\ block' = block
            \/ outcome = "undefined" /\ pc' = "undefined"
            \/ /\ pc' = "unsent" /\ outcome = "converted"
               /\ \E d \in DOMAIN block :
                     Size(m_tblType[d], block[d])
                       # Size(m_tblType[c], Column(m_tblType[c], m_tbl[c]))
        <4> HIDE DEF outcome
        <4> QED BY <2>1, <2>2 DEF FillColumn, Goto, outcome
      <3> QED BY <2>4, <2>5, <2>6, <2>7, <3>1
  <1>4. CASE Send
    <2>1. /\ pc = "fill" /\ pc' \in {"sent", "unsent"} /\ todo = {}
          /\ todo' = todo /\ block' = block /\ m_tbl' = m_tbl /\ m_tblType' = m_tblType
      BY <1>4 DEF Send, Goto, given, filler
    <2>2. pc' = "unsent" => ~ \E c \in DOMAIN block : Size(m_tblType[c], block[c]) > 0
      BY <1>4 DEF Send, Goto
    <2> QED BY <2>1, <2>2 DEF Filled
  <1>5. CASE UNCHANGED vars
    <2>1. /\ pc' = pc /\ todo' = todo /\ block' = block /\ m_tbl' = m_tbl
          /\ m_tblType' = m_tblType
      BY <1>5 DEF vars, given, filler
    <2> QED BY <2>1 DEF Filled
  <1> QED BY <1>1, <1>2, <1>3, <1>4, <1>5 DEF Next, load

\* Why a column is converted, is not, or makes the process read through no
\* pointer.
LEMMA OutcomeFacts ==
    ASSUME NEW t \in ColumnTypes, NEW vs \in Seq(Values)
    PROVE  /\ Outcome(t, vs) = "converted" =>
                \A i \in 1 .. Len(vs) : (t.array => HasVector(vs[i])) /\ RowTaken(t, vs[i])
           /\ Outcome(t, vs) = "undefined" =>
                t.array /\ \E i \in 1 .. Len(vs) : ~ HasVector(vs[i])
           /\ Outcome(t, vs) = "throws" =>
                \/ t.base = "Tuple"
                \/ \E i \in 1 .. Len(vs) :
                      (t.array => HasVector(vs[i])) /\ ~ RowTaken(t, vs[i])
  <1> DEFINE good(i) == (t.array => HasVector(vs[i])) /\ RowTaken(t, vs[i])
             bad == {i \in DOMAIN vs : ~ good(i)}
             first == CHOOSE i \in bad : \A j \in bad : i <= j
  <1>1. DOMAIN vs = 1 .. Len(vs) /\ Len(vs) \in Nat
    OBVIOUS
  <1>2. CASE bad = {}
    <2>1. Outcome(t, vs) = IF t.base = "Tuple" /\ ~ t.array THEN "throws" ELSE "converted"
      BY <1>2 DEF Outcome
    <2>2. \A i \in 1 .. Len(vs) : good(i)
      BY <1>1, <1>2
    <2> HIDE DEF bad, good
    <2>3. Outcome(t, vs) = "throws" => t.base = "Tuple"
      BY <2>1
    <2>4. Outcome(t, vs) # "undefined"
      BY <2>1
    <2> QED BY <2>2, <2>3, <2>4 DEF good
  <1>3. CASE bad # {}
    <2>1. Outcome(t, vs) = IF t.array /\ ~ HasVector(vs[first]) /\ t.base # "Tuple"
                           THEN "undefined" ELSE "throws"
      BY <1>3 DEF Outcome
    <2>2. first \in bad
      <3>1. bad \in SUBSET Nat
        BY <1>1
      <3> HIDE DEF bad
      <3>2. \E i \in bad : \A j \in bad : i <= j
        BY <1>3, <3>1, NatLeast
      <3> QED BY <3>2
    <2>3. first \in 1 .. Len(vs) /\ ~ good(first)
      BY <1>1, <2>2
    <2> HIDE DEF first, bad
    <2>4. /\ Outcome(t, vs) # "converted"
          /\ Outcome(t, vs) = "undefined" => t.array /\ ~ HasVector(vs[first])
          /\ Outcome(t, vs) = "throws" =>
                t.base = "Tuple" \/ ~ t.array \/ HasVector(vs[first])
      BY <2>1
    <2>5. ~ ((t.array => HasVector(vs[first])) /\ RowTaken(t, vs[first]))
      BY <2>3
    <2> HIDE DEF good
    <2>6. ASSUME Outcome(t, vs) = "throws", t.base # "Tuple"
          PROVE  (t.array => HasVector(vs[first])) /\ ~ RowTaken(t, vs[first])
      BY <2>4, <2>5, <2>6
    <2> QED BY <2>3, <2>4, <2>6
  <1> QED BY <1>2, <1>3

LEMMA HasVectorIs ==
    ASSUME NEW v
    PROVE  HasVector(v) <=> v \notin Cells
  BY DEF HasVector, IsScalar, Cells

LEMMA UndefinedIsExplained ==
    ASSUME IInv
    PROVE  UndefinedExplained
  <1> SUFFICES ASSUME pc = "undefined"
               PROVE  \E c \in DOMAIN saved :
                         /\ m_tblType[CutName[c]].array
                         /\ \E i \in DOMAIN saved[c] : saved[c][i] \in Cells
    BY DEF UndefinedExplained
  <1>1. PICK d \in DOMAIN m_tbl : Outcome(m_tblType[d], m_tbl[d]) = "undefined"
    BY DEF IInv, Filled
  <1>2. d \in Columns /\ m_tbl[d] \in Seq(Values) /\ m_tblType[d] \in ColumnTypes
        /\ saved \in Tables
    BY DEF IInv, ReadInv, Origin, Given
  <1>3. m_tblType[d].array /\ \E i \in 1 .. Len(m_tbl[d]) : ~ HasVector(m_tbl[d][i])
    BY <1>1, <1>2, OutcomeFacts
  <1>4. PICK i \in 1 .. Len(m_tbl[d]) : ~ HasVector(m_tbl[d][i])
    BY <1>3
  <1>5. PICK c \in DOMAIN saved : \E r \in 1 .. Height(saved) :
           CutName[c] = d /\ m_tbl[d][i] = CutValue(saved[c][r])
    BY DEF IInv, ReadInv, Origin
  <1>6. PICK r \in 1 .. Height(saved) :
           CutName[c] = d /\ m_tbl[d][i] = CutValue(saved[c][r])
    BY <1>5
  <1>7. DOMAIN saved[c] = 1 .. Height(saved) /\ saved[c][r] \in Values
    BY <1>2, HeightIs
  <1>8. saved[c][r] \in Cells
    BY <1>4, <1>6, <1>7, CutFacts, HasVectorIs
  <1> QED BY <1>3, <1>6, <1>7, <1>8

LEMMA LeftOutIsExplained ==
    ASSUME IInv
    PROVE  LeftOutExplained
  <1> SUFFICES ASSUME pc \in {"fill", "sent"},
                      NEW d \in DOMAIN m_tbl \ (DOMAIN block \union todo)
               PROVE  LET t == m_tblType[d] IN
                      \/ t.base = "Tuple"
                      \/ \E c \in DOMAIN saved : \E i \in DOMAIN saved[c] :
                           /\ CutName[c] = d
                           /\ IF t.array
                              THEN \E j \in DOMAIN saved[c][i] : ~ HasPlace(t, saved[c][i][j])
                              ELSE ~ HasPlace(t, saved[c][i])
    BY DEF LeftOutExplained
  <1> DEFINE t == m_tblType[d]
             vs == m_tbl[d]
  <1>1. saved \in Tables
    BY DEF IInv, ReadInv, Given
  <1>2. Outcome(t, vs) = "throws"
    BY DEF IInv, Filled
  <1>3. vs \in Seq(Values) /\ t \in ColumnTypes
    BY DEF IInv, ReadInv, Origin, Given
  <1>4. \A i \in 1 .. Len(vs) : \E c \in DOMAIN saved : \E r \in 1 .. Height(saved) :
           CutName[c] = d /\ vs[i] = CutValue(saved[c][r])
    BY DEF IInv, ReadInv, Origin
  <1> HIDE DEF t, vs
  <1>5. SUFFICES ASSUME t.base # "Tuple"
                 PROVE  \E c \in DOMAIN saved : \E i \in DOMAIN saved[c] :
                           /\ CutName[c] = d
                           /\ IF t.array
                              THEN \E j \in DOMAIN saved[c][i] : ~ HasPlace(t, saved[c][i][j])
                              ELSE ~ HasPlace(t, saved[c][i])
    BY DEF t
  <1>6. PICK n \in 1 .. Len(vs) : (t.array => HasVector(vs[n])) /\ ~ RowTaken(t, vs[n])
    BY <1>2, <1>3, <1>5, OutcomeFacts
  <1>7. PICK c \in DOMAIN saved :
           \E r \in 1 .. Height(saved) : CutName[c] = d /\ vs[n] = CutValue(saved[c][r])
    BY <1>4
  <1>8. PICK i \in 1 .. Height(saved) : CutName[c] = d /\ vs[n] = CutValue(saved[c][i])
    BY <1>7
  <1> DEFINE v == saved[c][i]
  <1>9. v \in Values /\ vs[n] = CutValue(v) /\ i \in DOMAIN saved[c] /\ CutName[c] = d
    BY <1>1, <1>8, HeightIs
  \* A cell that is not taken has no place.
  <1>10. ASSUME NEW x \in Values, ~ Takes(t.base, CutValue(x))
        PROVE  ~ HasPlace(t, x)
    <2>1. t.base = "Enum8" /\ ~ EnumTakes(CutValue(x))
      BY <1>10 DEF Takes
    <2>2. SUFFICES ASSUME HasPlace(t, x) PROVE FALSE
      OBVIOUS
    <2>3. /\ x \in Scalars
          /\ Kind[x] \in {"uint", "int"} \/ (Kind[x] = "str" /\ HasName(x))
      BY <2>1, <2>2 DEF HasPlace
    <2>4. CutValue(x) = CutString[x] /\ CutString[x] \in Scalars /\ Kind[CutString[x]] = Kind[x]
      BY <2>3, CutAssumption DEF CutValue
    <2> QED BY <2>1, <2>3, <2>4 DEF EnumTakes, EnumKinds, IsScalar, HasName
  <1>11. CASE ~ t.array
    <2>1. ~ Takes(t.base, CutValue(v))
      BY <1>5, <1>6, <1>9, <1>11 DEF RowTaken
    <2> QED BY <1>9, <1>10, <1>11, <2>1
  <1>12. CASE t.array
    <2>1. v \notin Cells
      BY <1>6, <1>9, <1>12, CutFacts, HasVectorIs
    <2>2. /\ v \in Seq(Cells) /\ CutValue(v) \in Seq(Cells) /\ Len(CutValue(v)) = Len(v)
          /\ \A j \in 1 .. Len(v) : CutValue(v)[j] = CutValue(v[j])
      BY <1>9, <2>1, CutFacts
    <2>3. PICK j \in DOMAIN CutValue(v) : ~ Takes(t.base, CutValue(v)[j])
      BY <1>5, <1>6, <1>9, <1>12 DEF RowTaken
    <2>4. j \in 1 .. Len(v) /\ j \in DOMAIN v /\ v[j] \in Values
      BY <2>2, <2>3 DEF Values
    <2>5. ~ HasPlace(t, v[j])
      BY <1>10, <2>2, <2>3, <2>4
    <2> QED BY <1>9, <1>12, <2>4, <2>5
  <1> QED BY <1>11, <1>12

LEMMA InvInit == Init => IInv
  BY ReadInit, FilledInit DEF IInv

LEMMA InvStep == IInv /\ [Next]_vars => IInv'
  BY ReadStep, FilledStep DEF IInv, ReadInv

-----------------------------------------------------------------------------
(* The columns of a block.                                                 *)

Data(base) == {Cell(base, v) : v \in Values}
ColumnSet(base) == [data : Seq(Data(base)), nulls : Seq(BOOLEAN), offsets : Seq(Nat)]

\* column has the values vs behind its first n.
Has(t, column, n, vs) ==
    /\ n + Len(vs) <= Len(column.data)
    /\ \A i \in 1 .. Len(vs) :
          /\ column.data[n + i] = Cell(t.base, vs[i])
          /\ t.nullable => column.nulls[n + i] = (vs[i] = Null)

LEMMA EmptyFacts ==
    ASSUME NEW base
    PROVE  /\ Empty \in ColumnSet(base)
           /\ Len(Empty.data) = 0 /\ Len(Empty.nulls) = 0 /\ Len(Empty.offsets) = 0
  BY DEF Empty, ColumnSet

LEMMA AppendAllFacts ==
    ASSUME NEW t \in ColumnTypes, NEW column \in ColumnSet(t.base), NEW vs \in Seq(Values),
           t.nullable => Len(column.nulls) = Len(column.data)
    PROVE  LET new == AppendAll(t, column, vs)
           IN  /\ new \in ColumnSet(t.base) /\ new.offsets = column.offsets
               /\ Len(new.data) = Len(column.data) + Len(vs)
               /\ t.nullable => Len(new.nulls) = Len(new.data)
               /\ Has(t, new, Len(column.data), vs)
               /\ \A i \in 1 .. Len(column.data) :
                     /\ new.data[i] = column.data[i]
                     /\ t.nullable => new.nulls[i] = column.nulls[i]
  <1> DEFINE new == AppendAll(t, column, vs)
             d == column.data
             f == column.nulls
             x == [i \in DOMAIN vs |-> Cell(t.base, vs[i])]
             y == Flags(t, vs)
  <1>1. DOMAIN vs = 1 .. Len(vs) /\ Len(vs) \in Nat /\ \A i \in 1 .. Len(vs) : vs[i] \in Values
    OBVIOUS
  <1>2. /\ d \in Seq(Data(t.base)) /\ f \in Seq(BOOLEAN) /\ column.offsets \in Seq(Nat)
        /\ column = [data |-> d, nulls |-> f, offsets |-> column.offsets]
    BY DEF ColumnSet
  <1>3. /\ x \in Seq(Data(t.base)) /\ Len(x) = Len(vs)
        /\ \A i \in 1 .. Len(vs) : x[i] = Cell(t.base, vs[i])
    <2>1. x = [i \in 1 .. Len(vs) |-> Cell(t.base, vs[i])]
      BY <1>1
    <2>2. \A i \in 1 .. Len(vs) : Cell(t.base, vs[i]) \in Data(t.base)
      BY <1>1 DEF Data
    <2> HIDE DEF x
    <2> QED BY <1>1, <2>1, <2>2
  <1>4. /\ y \in Seq(BOOLEAN)
        /\ t.nullable => Len(y) = Len(vs) /\ \A i \in 1 .. Len(vs) : y[i] = (vs[i] = Null)
    <2>1. CASE t.nullable
      <3>1. y = [i \in 1 .. Len(vs) |-> vs[i] = Null]
        BY <1>1, <2>1 DEF Flags
      <3> HIDE DEF y
      <3> QED BY <1>1, <3>1
    <2>2. CASE ~ t.nullable
      BY <2>2 DEF Flags
    <2> QED BY <2>1, <2>2
  <1> HIDE DEF x, y
  <1>5. new.data = d \o x /\ new.nulls = f \o y /\ new.offsets = column.offsets
        /\ new = [data |-> d \o x, nulls |-> f \o y, offsets |-> column.offsets]
    <2>1. new = [column EXCEPT !.data = d \o x, !.nulls = f \o y]
      BY DEF AppendAll, x, y
    <2> DEFINE dx == d \o x
               fy == f \o y
               o == column.offsets
    <2>2. /\ new = [column EXCEPT !.data = dx, !.nulls = fy]
          /\ column = [data |-> d, nulls |-> f, offsets |-> o]
      BY <1>2, <2>1
    <2> HIDE DEF dx, fy, d, f, o, new
    <2>3. new = [data |-> dx, nulls |-> fy, offsets |-> o]
      BY <2>2
    <2> QED BY <2>3 DEF dx, fy, o
  <1> HIDE DEF new, d, f
  <1>6. /\ d \o x \in Seq(Data(t.base)) /\ Len(d \o x) = Len(d) + Len(vs)
        /\ \A i \in 1 .. Len(d) : (d \o x)[i] = d[i]
        /\ \A i \in 1 .. Len(vs) : (d \o x)[Len(d) + i] = Cell(t.base, vs[i])
    <2> DEFINE D == Data(t.base)
    <2>1. d \in Seq(D) /\ x \in Seq(D)
      BY <1>2, <1>3
    <2> HIDE DEF D
    <2>2. /\ d \o x \in Seq(D) /\ Len(d \o x) = Len(d) + Len(x)
          /\ \A i \in 1 .. Len(d) : (d \o x)[i] = d[i]
          /\ \A i \in 1 .. Len(x) : (d \o x)[Len(d) + i] = x[i]
      BY <2>1, ConcatFacts
    <2> QED BY <1>3, <2>2 DEF D
  <1>7. /\ f \o y \in Seq(BOOLEAN)
        /\ Len(f \o y) = Len(f) + Len(y)
        /\ \A i \in 1 .. Len(f) : (f \o y)[i] = f[i]
        /\ \A i \in 1 .. Len(y) : (f \o y)[Len(f) + i] = y[i]
    BY <1>2, <1>4, ConcatFacts
  <1>8. Len(d) \in Nat
    BY <1>2
  <1>9. new \in ColumnSet(t.base)
    BY <1>2, <1>5, <1>6, <1>7 DEF ColumnSet
  <1>10. t.nullable => Len(f) = Len(d)
    BY DEF d, f
  <1>11. Has(t, new, Len(d), vs)
    BY <1>1, <1>4, <1>5, <1>6, <1>7, <1>8, <1>10 DEF Has
  <1>12. /\ Len(new.data) = Len(d) + Len(vs)
         /\ t.nullable => Len(new.nulls) = Len(new.data)
    BY <1>1, <1>4, <1>5, <1>6, <1>7, <1>8, <1>10
  <1>13. \A i \in 1 .. Len(d) :
            /\ new.data[i] = d[i]
            /\ t.nullable => new.nulls[i] = f[i]
    BY <1>5, <1>6, <1>7, <1>10
  <1> QED BY <1>5, <1>9, <1>11, <1>12, <1>13 DEF new, d, f

\* The column of the values vs, none of them an array.
LEMMA PlainColumn ==
    ASSUME NEW t \in ColumnTypes, ~ t.array, NEW vs \in Seq(Values)
    PROVE  Has(t, Column(t, vs), 0, vs) /\ Size(t, Column(t, vs)) = Len(vs)
  <1> DEFINE c == Column(t, vs)
  <1>1. c = AppendAll(t, Empty, vs)
    BY DEF Column
  <1>2. /\ Has(t, c, 0, vs) /\ Len(c.data) = 0 + Len(vs)
        /\ t.nullable => Len(c.nulls) = Len(c.data)
    BY <1>1, EmptyFacts, AppendAllFacts
  <1>3. Len(vs) \in Nat
    OBVIOUS
  <1> HIDE DEF c
  <1>4. Size(t, c) = Len(vs)
    BY <1>2, <1>3 DEF Size
  <1> QED BY <1>2, <1>4 DEF c

\* g[n] is the column of the first n of the arrays vs.
Rows(g, t, vs, k) ==
    g = [n \in 0 .. k |-> IF n = 0 THEN Empty ELSE AppendAsColumn(t, g[n - 1], vs[n])]

LEMMA RowsExist ==
    ASSUME NEW t, NEW vs, NEW k \in Nat
    PROVE  \E g : Rows(g, t, vs, k)
  <1> DEFINE T == {n \in Nat : \E g : Rows(g, t, vs, n)}
  <1>1. 0 \in T
    <2> DEFINE g == [n \in 0 .. 0 |-> Empty]
    <2>1. Rows(g, t, vs, 0)
      BY DEF Rows
    <2> QED BY <2>1
  <1>2. ASSUME NEW n \in Nat, n \in T PROVE \E g : Rows(g, t, vs, n + 1)
    <2>1. PICK f : Rows(f, t, vs, n)
      BY <1>2
    <2> DEFINE last == AppendAsColumn(t, f[n], vs[n + 1])
               g == [m \in 0 .. n + 1 |-> IF m = n + 1 THEN last ELSE f[m]]
    <2>2. \A m \in 0 .. n : f[m] = IF m = 0 THEN Empty ELSE AppendAsColumn(t, f[m - 1], vs[m])
      BY <2>1 DEF Rows
    <2>3. ASSUME NEW m \in 0 .. n + 1
          PROVE  g[m] = IF m = 0 THEN Empty ELSE AppendAsColumn(t, g[m - 1], vs[m])
      <3>1. CASE m = n + 1
        <4>1. m # 0 /\ m - 1 = n /\ n \in 0 .. n + 1 /\ n # n + 1
          BY <3>1
        <4>2. g[m] = last /\ g[m - 1] = f[n]
          BY <3>1, <4>1
        <4> HIDE DEF g
        <4> QED BY <3>1, <4>1, <4>2
      <3>2. CASE m # n + 1
        <4>1. m \in 0 .. n /\ (m # 0 => m - 1 \in 0 .. n + 1 /\ m - 1 # n + 1)
          BY <3>2
        <4>2. g[m] = f[m] /\ (m # 0 => g[m - 1] = f[m - 1])
          BY <3>2, <4>1
        <4> HIDE DEF g
        <4> QED BY <2>2, <4>1, <4>2
      <3> QED BY <3>1, <3>2
    <2>4. g = [m \in 0 .. n + 1 |-> g[m]]
      OBVIOUS
    <2> HIDE DEF g
    <2>5. Rows(g, t, vs, n + 1)
      BY <2>3, <2>4 DEF Rows
    <2> QED BY <2>5
  <1>3. \A n \in Nat : n \in T => n + 1 \in T
    BY <1>2
  <1> HIDE DEF T
  <1>4. Nat \subseteq T
    BY <1>1, <1>3, Induction
  <1> QED BY <1>4 DEF T

\* Where row i begins among the elements.
From(offsets, i) == IF i = 1 THEN 0 ELSE offsets[i - 1]

\* The column of the values vs, all of them arrays.
LEMMA ArrayColumn ==
    ASSUME NEW t \in ColumnTypes, t.array, NEW vs \in Seq(Values),
           \A i \in 1 .. Len(vs) : vs[i] \in Seq(Cells)
    PROVE  LET c == Column(t, vs)
           IN  /\ Size(t, c) = Len(vs)
               /\ \A i \in 1 .. Len(vs) :
                     /\ From(c.offsets, i) \in Nat
                     /\ c.offsets[i] = From(c.offsets, i) + Len(vs[i])
                     /\ Has(t, c, From(c.offsets, i), vs[i])
  <1> DEFINE n == Len(vs)
             upTo == CHOOSE g : Rows(g, t, vs, n)
             c == Column(t, vs)
  <1>1. n \in Nat
    OBVIOUS
  <1>2. c = upTo[n]
    BY DEF Column, Rows
  <1>3. Rows(upTo, t, vs, n)
    BY <1>1, RowsExist
  <1> HIDE DEF upTo, c, n
  <1>4. \A k \in 0 .. n : upTo[k] = IF k = 0 THEN Empty ELSE AppendAsColumn(t, upTo[k - 1], vs[k])
    BY <1>3 DEF Rows
  <1> DEFINE Good(x, k) ==
               /\ x \in ColumnSet(t.base) /\ Len(x.offsets) = k
               /\ t.nullable => Len(x.nulls) = Len(x.data)
               /\ Len(x.data) = From(x.offsets, k + 1)
               /\ \A i \in 1 .. k :
                     /\ From(x.offsets, i) \in Nat
                     /\ x.offsets[i] = From(x.offsets, i) + Len(vs[i])
                     /\ Has(t, x, From(x.offsets, i), vs[i])
             T == {k \in Nat : k <= n => Good(upTo[k], k)}
  <1>5. 0 \in T
    <2>1. upTo[0] = Empty
      BY <1>1, <1>4
    <2>2. Good(Empty, 0)
      BY EmptyFacts DEF From
    <2> QED BY <2>1, <2>2
  <1>6. ASSUME NEW k \in Nat, k \in T, k + 1 <= n PROVE Good(upTo[k + 1], k + 1)
    <2> DEFINE old == upTo[k]
               row == vs[k + 1]
               all == AppendAll(t, old, row)
               size == NextOffset(old.offsets, Len(row))
               new == upTo[k + 1]
    <2>1. Good(old, k)
      BY <1>1, <1>6
    <2>2. row \in Seq(Cells) /\ row \in Seq(Values) /\ Len(row) \in Nat
      <3>1. row \in Seq(Cells)
        BY <1>1, <1>6 DEF n
      <3> HIDE DEF row
      <3>2. \A i \in 1 .. Len(row) : row[i] \in Values
        BY <3>1 DEF Values
      <3>3. row = [i \in 1 .. Len(row) |-> row[i]] /\ Len(row) \in Nat
        BY <3>1
      <3> QED BY <3>1, <3>2, <3>3
    <2>3. new = AppendAsColumn(t, old, row)
      <3>1. k + 1 \in 0 .. n /\ k + 1 # 0 /\ (k + 1) - 1 = k
        BY <1>1, <1>6
      <3> QED BY <1>4, <3>1
    <2> HIDE DEF old, row, new
    <2>4. new = [all EXCEPT !.offsets = Append(all.offsets, NextOffset(all.offsets, Len(row)))]
      BY <2>3 DEF AppendAsColumn
    <2>5. /\ all \in ColumnSet(t.base) /\ all.offsets = old.offsets
          /\ Len(all.data) = Len(old.data) + Len(row)
          /\ t.nullable => Len(all.nulls) = Len(all.data)
          /\ Has(t, all, Len(old.data), row)
          /\ \A i \in 1 .. Len(old.data) :
                /\ all.data[i] = old.data[i]
                /\ t.nullable => all.nulls[i] = old.nulls[i]
      BY <2>1, <2>2, AppendAllFacts
    <2> HIDE DEF all
    <2>6. /\ old.offsets \in Seq(Nat) /\ Len(old.offsets) = k
          /\ Len(old.data) = From(old.offsets, k + 1) /\ Len(old.data) \in Nat
      BY <2>1 DEF ColumnSet
    <2>7. size = Len(old.data) + Len(row)
      <3>1. CASE k = 0
        <4>1. old.offsets = << >>
          BY <2>6, <3>1
        <4> QED BY <2>2, <2>6, <3>1, <4>1 DEF NextOffset, From
      <3>2. CASE k # 0
        <4>1. Len(old.data) = old.offsets[k]
          BY <2>6, <3>2 DEF From
        <4>2. old.offsets # << >>
          BY <2>6, <3>2
        <4> QED BY <2>6, <4>1, <4>2 DEF NextOffset
      <3> QED BY <3>1, <3>2
    <2>8. new = [all EXCEPT !.offsets = Append(old.offsets, size)]
      BY <2>4, <2>5
    <2> HIDE DEF size
    <2>9. /\ new.data = all.data /\ new.nulls = all.nulls
          /\ new.offsets = Append(old.offsets, size)
      BY <2>5, <2>8 DEF ColumnSet
    <2>10. size \in Nat
      BY <2>2, <2>6, <2>7
    <2>11. /\ new.offsets \in Seq(Nat) /\ Len(new.offsets) = k + 1
           /\ \A i \in 1 .. k : new.offsets[i] = old.offsets[i]
           /\ new.offsets[k + 1] = size
      BY <2>6, <2>9, <2>10
    <2>12. new \in ColumnSet(t.base)
      <3>1. new = [data |-> all.data, nulls |-> all.nulls, offsets |-> new.offsets]
        BY <2>5, <2>8, <2>9 DEF ColumnSet
      <3> QED BY <2>5, <2>11, <3>1 DEF ColumnSet
    <2>13. \A i \in 1 .. k + 1 : From(new.offsets, i) = From(old.offsets, i)
      <3> TAKE i \in 1 .. k + 1
      <3>1. i # 1 => i - 1 \in 1 .. k
        OBVIOUS
      <3> QED BY <2>11, <3>1 DEF From
    <2>14. From(new.offsets, (k + 1) + 1) = size
      <3>1. (k + 1) + 1 # 1 /\ ((k + 1) + 1) - 1 = k + 1
        OBVIOUS
      <3> QED BY <2>11, <3>1 DEF From
    <2>15. ASSUME NEW i \in 1 .. k + 1
           PROVE  /\ From(new.offsets, i) \in Nat
                  /\ new.offsets[i] = From(new.offsets, i) + Len(vs[i])
                  /\ Has(t, new, From(new.offsets, i), vs[i])
      <3>1. CASE i = k + 1
        <4>1. From(new.offsets, i) = Len(old.data)
          BY <2>6, <2>13, <3>1
        <4>2. Has(t, new, Len(old.data), row)
          BY <2>5, <2>9 DEF Has
        <4> QED BY <2>6, <2>7, <2>11, <3>1, <4>1, <4>2 DEF row
      <3>2. CASE i \in 1 .. k
        <4> DEFINE q == From(old.offsets, i)
        <4>1. /\ q \in Nat /\ old.offsets[i] = q + Len(vs[i])
              /\ Has(t, old, q, vs[i])
          BY <2>1, <3>2
        <4>2. From(new.offsets, i) = q
          BY <2>13
        <4> HIDE DEF q
        <4>3. vs[i] \in Seq(Cells) /\ Len(vs[i]) \in Nat
          <5>1. i \in 1 .. Len(vs)
            BY <1>1, <1>6, <3>2 DEF n
          <5>2. vs[i] \in Seq(Cells)
            BY <5>1
          <5> QED BY <5>2
        <4>4. q + Len(vs[i]) <= Len(new.data)
          BY <2>2, <2>5, <2>6, <2>9, <4>1, <4>3 DEF Has
        <4>5. ASSUME NEW j \in 1 .. Len(vs[i])
              PROVE  /\ new.data[q + j] = Cell(t.base, vs[i][j])
                     /\ t.nullable => new.nulls[q + j] = (vs[i][j] = Null)
          <5>1. q + j \in 1 .. Len(old.data)
            BY <2>6, <4>1, <4>3 DEF Has
          <5>2. /\ new.data[q + j] = old.data[q + j]
                /\ t.nullable => new.nulls[q + j] = old.nulls[q + j]
            BY <2>5, <2>9, <5>1
          <5> QED BY <4>1, <5>2 DEF Has
        <4> QED BY <2>11, <3>2, <4>1, <4>2, <4>4, <4>5 DEF Has
      <3> QED BY <3>1, <3>2
    <2>16. /\ t.nullable => Len(new.nulls) = Len(new.data)
           /\ Len(new.data) = From(new.offsets, (k + 1) + 1)
      BY <2>5, <2>7, <2>9, <2>14
    <2> QED BY <2>11, <2>12, <2>15, <2>16 DEF new
  <1> HIDE DEF Good
  <1>7. ASSUME NEW k \in Nat, k \in T PROVE k + 1 \in T
    <2>1. k + 1 <= n => Good(upTo[k + 1], k + 1)
      BY <1>6, <1>7
    <2> QED BY <2>1
  <1> HIDE DEF T
  <1>8. Nat \subseteq T
    BY <1>5, <1>7, Induction
  <1>9. Good(c, n)
    BY <1>1, <1>2, <1>8 DEF T
  <1>10. Size(t, c) = n
    BY <1>9 DEF Size, Good
  <1> QED BY <1>9, <1>10 DEF Good, n, c

LEMMA CellArrives ==
    ASSUME NEW t \in ColumnTypes, NEW x \in Values, NEW isNull,
           t.nullable => isNull = (CutValue(x) = Null)
    PROVE  Arrives(t, x, Cell(t.base, CutValue(x)), isNull)
  <1>1. /\ x = Null => CutValue(x) = Null
        /\ x \in Scalars => CutValue(x) = CutString[x] /\ CutValue(x) \in Scalars
        /\ x \notin Scalars /\ x # Null => CutValue(x) # Null
    BY CutFacts, ScalarAssumption DEF Cells
  <1>2. t.nullable => (isNull <=> x = Null)
    BY <1>1, ScalarAssumption
  <1>3. ASSUME x \in Scalars, t.base = "Int64" \/ (t.base = "UInt8" /\ Number[x] \in 0 .. 255)
        PROVE  Cell(t.base, CutValue(x)) = Number[CutString[x]]
    <2>1. CutValue(x) = CutString[x] /\ CutString[x] \in Scalars
          /\ Number[CutString[x]] = Number[x]
      BY <1>1, <1>3, ScalarAssumption, CutAssumption
    <2>2. getInt64(CutValue(x)) = Number[CutString[x]]
      BY <2>1 DEF getInt64, IsScalar
    <2>3. CASE t.base = "Int64"
      BY <2>2, <2>3 DEF Cell
    <2>4. CASE t.base = "UInt8" /\ Number[x] \in 0 .. 255
      <3> DEFINE m == Number[x]
      <3>1. m \in 0 .. 255 /\ getInt64(CutValue(x)) = m
        BY <2>1, <2>2, <2>4
      <3> HIDE DEF m
      <3>2. m % 256 = m
        BY <3>1
      <3>3. Cell(t.base, CutValue(x)) = m
        BY <2>4, <3>1, <3>2 DEF Cell, getUInt8
      <3> QED BY <2>1, <3>3 DEF m
    <2> QED BY <1>3, <2>3, <2>4
  <1>4. ASSUME x \in Scalars, t.base = "String"
        PROVE  Cell(t.base, CutValue(x)) = Text[CutString[x]]
    BY <1>1, <1>4, ScalarAssumption DEF Cell, getString, IsScalar
  <1> QED BY <1>2, <1>3, <1>4 DEF Arrives

\* What load has made of the columns that are d up to a zero byte.
LEMMA ColumnLoaded ==
    ASSUME IInv, HasLoaded, NEW d \in DOMAIN m_tbl
    PROVE  LET vs == Together(d)
           IN  /\ vs \in Seq(Values) /\ m_tbl[d] \in Seq(Values) /\ Len(m_tbl[d]) = Len(vs)
               /\ \A i \in 1 .. Len(vs) : m_tbl[d][i] = CutValue(vs[i])
               /\ m_tblType[d] \in ColumnTypes
  <1> DEFINE vs == Together(d)
             whole == CutAll(d)
  <1>1. saved \in Tables /\ m_tbl[d] \in Seq(Values) /\ m_tblType[d] \in ColumnTypes
    BY DEF IInv, ReadInv, Given, Origin
  <1>2. m_tbl[d] = whole
    BY DEF IInv, ReadInv, LoadedIsSaved, CutAll
  <1>3. vs \in Seq(Values)
    BY <1>1, PieceFacts
  <1>4. DOMAIN whole = 1 .. Len(vs) /\ \A i \in 1 .. Len(vs) : whole[i] = CutValue(vs[i])
    BY <1>1, CutAllFacts
  <1> HIDE DEF vs, whole
  <1>5. Len(m_tbl[d]) = Len(vs)
    BY <1>1, <1>2, <1>3, <1>4
  <1> QED BY <1>1, <1>2, <1>3, <1>4, <1>5 DEF vs

\* The size of a column is the number of its values.
LEMMA SizeIs ==
    ASSUME NEW t \in ColumnTypes, NEW vs \in Seq(Values), Outcome(t, vs) = "converted"
    PROVE  Size(t, Column(t, vs)) = Len(vs)
  <1>1. CASE ~ t.array
    BY <1>1, PlainColumn
  <1>2. CASE t.array
    <2>1. \A i \in 1 .. Len(vs) : vs[i] \in Values /\ vs[i] \notin Cells
      BY <1>2, OutcomeFacts, HasVectorIs
    <2> QED BY <1>2, <2>1, ArrayColumn DEF Values
  <1> QED BY <1>1, <1>2

LEMMA UnsentIsExplained ==
    ASSUME IInv
    PROVE  UnsentExplained
  <1> SUFFICES ASSUME pc = "unsent"
               PROVE  \/ todo = {} /\ \A d \in DOMAIN block : Together(d) = << >>
                      \/ \E d, e \in DOMAIN m_tbl : Len(Together(d)) # Len(Together(e))
    BY DEF UnsentExplained
  <1>1. ASSUME NEW d \in DOMAIN m_tbl, Outcome(m_tblType[d], m_tbl[d]) = "converted"
        PROVE  /\ Together(d) \in Seq(Values)
               /\ Size(m_tblType[d], Column(m_tblType[d], m_tbl[d])) = Len(Together(d))
    <2>1. /\ Together(d) \in Seq(Values) /\ m_tbl[d] \in Seq(Values)
          /\ Len(m_tbl[d]) = Len(Together(d)) /\ m_tblType[d] \in ColumnTypes
      BY ColumnLoaded DEF HasLoaded
    <2> QED BY <1>1, <2>1, SizeIs
  <1>2. CASE /\ todo = {} /\ DOMAIN block \subseteq DOMAIN m_tbl
             /\ \A d \in DOMAIN block :
                   /\ Outcome(m_tblType[d], m_tbl[d]) = "converted"
                   /\ ~ (Size(m_tblType[d], Column(m_tblType[d], m_tbl[d])) > 0)
    <2>1. ASSUME NEW d \in DOMAIN block PROVE Together(d) = << >>
      <3> DEFINE vs == Together(d)
      <3>1. vs \in Seq(Values) /\ ~ (Len(vs) > 0)
        BY <1>1, <1>2
      <3> HIDE DEF vs
      <3>2. vs = << >>
        BY <3>1
      <3> QED BY <3>2 DEF vs
    <2> QED BY <1>2, <2>1
  <1>3. CASE \E d, e \in DOMAIN m_tbl :
                /\ Outcome(m_tblType[d], m_tbl[d]) = "converted"
                /\ Outcome(m_tblType[e], m_tbl[e]) = "converted"
                /\ Size(m_tblType[d], Column(m_tblType[d], m_tbl[d]))
                     # Size(m_tblType[e], Column(m_tblType[e], m_tbl[e]))
    BY <1>1, <1>3
  <1> QED BY <1>2, <1>3 DEF IInv, Filled

(***************************************************************************)
(* Of any table that is loaded fillTable leaves out a column only for a    *)
(* type it does not support or a value that is none of an Enum, column2-   *)
(* ClickColumn reads through no pointer but for an array that is not       *)
(* there, and AppendColumn refuses a column only beside columns that have  *)
(* become one.                                                             *)
(***************************************************************************)
THEOREM FailuresAreExplained == Spec => []FailuresExplained
  <1>1. IInv => FailuresExplained
    BY UndefinedIsExplained, LeftOutIsExplained, UnsentIsExplained DEF FailuresExplained
  <1> QED BY <1>1, InvInit, InvStep, PTL DEF Spec

LEMMA RowsHaveArrived ==
    ASSUME IInv
    PROVE  RowsArrive
  <1> SUFFICES ASSUME pc = "sent", NEW d \in DOMAIN block
               PROVE  LET t == m_tblType[d]
                          column == block[d]
                          vs == Together(d)
                          flag(i) == t.nullable /\ column.nulls[i]
                          from(i) == IF i = 1 THEN 0 ELSE column.offsets[i - 1]
                      IN  /\ Size(t, column) = Len(vs)
                          /\ \A i \in DOMAIN vs :
                               IF ~ t.array
                               THEN Arrives(t, vs[i], column.data[i], flag(i))
                               ELSE /\ column.offsets[i] - from(i) = Len(vs[i])
                                    /\ \A j \in DOMAIN vs[i] :
                                         Arrives(t, vs[i][j], column.data[from(i) + j],
                                                 flag(from(i) + j))
    BY DEF RowsArrive
  <1> DEFINE t == m_tblType[d]
             all == Together(d)
             n == Len(Together(d))
             vs == m_tbl[d]
             column == block[d]
             flag(i) == t.nullable /\ column.nulls[i]
  <1>1. d \in DOMAIN m_tbl /\ Outcome(t, vs) = "converted" /\ column = Column(t, vs)
    BY DEF IInv, Filled
  <1>2. /\ all \in Seq(Values) /\ vs \in Seq(Values) /\ Len(vs) = n /\ t \in ColumnTypes
        /\ \A i \in 1 .. n : vs[i] = CutValue(all[i])
    BY <1>1, ColumnLoaded DEF HasLoaded
  <1> HIDE DEF t, all, n, vs, column
  <1>3. DOMAIN all = 1 .. n /\ n \in Nat /\ \A i \in 1 .. n : all[i] \in Values
    BY <1>2 DEF n, all
  <1>4. \A i \in 1 .. n : (t.array => HasVector(vs[i])) /\ RowTaken(t, vs[i])
    BY <1>1, <1>2, OutcomeFacts
  <1>5. CASE ~ t.array
    <2>1. Has(t, column, 0, vs) /\ Size(t, column) = n
      BY <1>1, <1>2, <1>5, PlainColumn
    <2>2. ASSUME NEW i \in 1 .. n
          PROVE  Arrives(t, all[i], column.data[i], flag(i))
      <3> DEFINE x == all[i]
      <3>1. /\ column.data[0 + i] = Cell(t.base, CutValue(x))
            /\ t.nullable => column.nulls[0 + i] = (CutValue(x) = Null)
        BY <1>2, <2>1 DEF Has
      <3>2. 0 + i = i
        OBVIOUS
      <3>3. column.data[i] = Cell(t.base, CutValue(x))
            /\ (t.nullable => flag(i) = (CutValue(x) = Null))
        BY <3>1, <3>2
      <3>4. x \in Values
        BY <1>3
      <3> QED BY <1>2, <3>3, <3>4, CellArrives
    <2> QED BY <1>3, <1>5, <2>1, <2>2 DEF t, column, all, n
  <1>6. CASE t.array
    <2>1. ASSUME NEW i \in 1 .. n
          PROVE  /\ all[i] \in Seq(Cells) /\ vs[i] \in Seq(Cells)
                 /\ Len(vs[i]) = Len(all[i])
                 /\ \A j \in 1 .. Len(all[i]) : vs[i][j] = CutValue(all[i][j])
      <3> DEFINE v == all[i]
      <3>1. v \in Values /\ vs[i] = CutValue(v) /\ vs[i] \notin Cells
        BY <1>2, <1>3, <1>4, <1>6, HasVectorIs
      <3> HIDE DEF v
      <3>2. v \notin Cells
        BY <3>1, CutFacts
      <3>3. /\ v \in Seq(Cells) /\ CutValue(v) \in Seq(Cells) /\ Len(CutValue(v)) = Len(v)
            /\ \A j \in 1 .. Len(v) : CutValue(v)[j] = CutValue(v[j])
        BY <3>1, <3>2, CutFacts
      <3> QED BY <3>1, <3>3 DEF v
    <2>2. /\ Size(t, column) = n
          /\ \A i \in 1 .. n :
                /\ From(column.offsets, i) \in Nat
                /\ column.offsets[i] = From(column.offsets, i) + Len(vs[i])
                /\ Has(t, column, From(column.offsets, i), vs[i])
      <3>1. \A i \in 1 .. Len(vs) : vs[i] \in Seq(Cells)
        BY <1>2, <2>1
      <3>2. /\ Size(t, Column(t, vs)) = Len(vs)
            /\ \A i \in 1 .. Len(vs) :
                  /\ From(Column(t, vs).offsets, i) \in Nat
                  /\ Column(t, vs).offsets[i] = From(Column(t, vs).offsets, i) + Len(vs[i])
                  /\ Has(t, Column(t, vs), From(Column(t, vs).offsets, i), vs[i])
        BY <1>2, <1>6, <3>1, ArrayColumn
      <3> QED BY <1>1, <1>2, <3>2
    <2>3. ASSUME NEW i \in 1 .. n
          PROVE  LET from == From(column.offsets, i)
                 IN  /\ column.offsets[i] - from = Len(all[i])
                     /\ \A j \in DOMAIN all[i] :
                          Arrives(t, all[i][j], column.data[from + j], flag(from + j))
      <3> DEFINE v == all[i]
                 w == vs[i]
                 from == From(column.offsets, i)
      <3>1. /\ v \in Seq(Cells) /\ w \in Seq(Cells) /\ Len(w) = Len(v)
            /\ \A j \in 1 .. Len(v) : w[j] = CutValue(v[j])
        BY <2>1
      <3>2. from \in Nat /\ column.offsets[i] = from + Len(w) /\ Has(t, column, from, w)
        BY <2>2
      <3> HIDE DEF v, w, from
      <3>3. DOMAIN v = 1 .. Len(v) /\ Len(v) \in Nat
        BY <3>1
      <3>4. column.offsets[i] - from = Len(v)
        BY <3>1, <3>2, <3>3
      <3>5. ASSUME NEW j \in 1 .. Len(v)
            PROVE  Arrives(t, v[j], column.data[from + j], flag(from + j))
        <4>1. /\ column.data[from + j] = Cell(t.base, CutValue(v[j]))
              /\ t.nullable => column.nulls[from + j] = (CutValue(v[j]) = Null)
          BY <3>1, <3>2 DEF Has
        <4>2. v[j] \in Values
          BY <3>1 DEF Values
        <4> QED BY <1>2, <4>1, <4>2, CellArrives
      <3> QED BY <3>3, <3>4, <3>5 DEF v, from
    <2>4. \A i : From(column.offsets, i) = IF i = 1 THEN 0 ELSE column.offsets[i - 1]
      BY DEF From
    <2> QED BY <1>3, <1>6, <2>2, <2>3, <2>4 DEF t, column, all, n
  <1> QED BY <1>5, <1>6

(***************************************************************************)
(* In a block that sendTable sends, of any table and any types of columns, *)
(* the rows are those of the table, of columns whose names are one up to a *)
(* zero byte those of all: the offsets of the arrays, the flags of the     *)
(* nulls and the numbers that fit are where and what they were.            *)
(***************************************************************************)
THEOREM RowsReachTheServer == Spec => []RowsArrive
  BY RowsHaveArrived, InvInit, InvStep, PTL DEF Spec

=============================================================================
