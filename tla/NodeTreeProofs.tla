---------------------------- MODULE NodeTreeProofs ----------------------------
(***************************************************************************)
(* Proofs about NodeTree for any tree of nodes, configurations, files and  *)
(* number of processes: the walk over the tree visits every node of it     *)
(* once, with the pid lock only one process works at a time, and a handler *)
(* is called by one thread at a time and only between its init and its     *)
(* destructor.                                                             *)
(***************************************************************************)
EXTENDS NodeTree, FiniteSetTheorems, WellFoundedInduction, TLAPS

Usable == {"inited", "started"}

Stages == {"created", "inited", "started", "gone"}

\* What of the types the arguments below need.
Shape ==
    /\ lock \in Procs \union {NoProc}
    /\ pc \in [Procs -> Phases] /\ step \in [Procs -> Nat]
    /\ at \in [Procs -> {"call", "scan", "watch"}]
    /\ stage \in [Procs -> [Nodes -> Stages]]
    /\ life \in [Procs -> SUBSET Nodes]
    /\ watching \in [Procs -> BOOLEAN]
    /\ m_watchMap \in [Procs -> [Dirs -> Nodes \union {NoNode}]]
    /\ events \in [Procs -> Seq(Files)] /\ buffer \in [Procs -> Seq(Files)]
    /\ hand \in [Procs -> [Threads -> (Nodes \X Files) \union {Idle}]]

\* A process that has to hold the lock.
Engaged(p) == pc[p] \notin {"off", "lock", "failed"} \/ Works(p)

LockHeld == UseLock => \A p \in Procs : Engaged(p) => lock = p

\* Which thread may be in a doProc, by main's phase.
Callers(p) ==
    /\ at[p] # "call" => pc[p] \in {"init", "start"}
    /\ at[p] = "scan" => pc[p] = "start"
    /\ hand[p]["main"] # Idle => at[p] = "scan"
    /\ watching[p] => pc[p] \in {"wait", "stop", "join"}
    /\ buffer[p] # << >> \/ hand[p]["watcher"] # Idle => watching[p]

\* Has init been called for the i-th node, and no destructor.
Done(p, i) ==
    \/ pc[p] \in {"start", "listen", "wait", "stop", "join"}
    \/ pc[p] = "init" /\ (i < step[p] \/ (i = step[p] /\ at[p] = "watch"))

Visited(p) ==
    /\ pc[p] \in {"off", "lock", "create"} => step[p] = 1
    /\ pc[p] \in {"init", "start"} => step[p] \in 1 .. Len(Order)
    /\ \A i \in 1 .. Len(Order) : Done(p, i) => stage[p][Order[i]] \in Usable

\* Only nodes of the tree are called: doProc is given to them by their own
\* scan, or by the map their own watch has filled.
Called(p) ==
    /\ \A t \in Threads : hand[p][t] # Idle => hand[p][t][1] \in Range(Order)
    /\ \A d \in Dirs : m_watchMap[p][d] # NoNode => m_watchMap[p][d] \in Range(Order)
    /\ \A f \in Range(events[p]) \union Range(buffer[p]) : m_watchMap[p][FileDir[f]] # NoNode

Local(p) == Callers(p) /\ Visited(p) /\ Called(p)

IInv == Shape /\ LockHeld /\ \A p \in Procs : Local(p)

-----------------------------------------------------------------------------
(* Sequences put together. *)

LEMMA NatLeast ==
    ASSUME NEW S \in SUBSET Nat, S # {}
    PROVE  \E n \in S : \A m \in S : n <= m
  <1> DEFINE R == OpToRel(<, Nat)
  <1>1. IsWellFoundedOn(R, Nat)
    BY NatLessThanWellFounded
  <1>2. \A m, n \in Nat : m < n => <<m, n>> \in R
    BY DEF OpToRel
  <1> HIDE DEF R
  <1>3. PICK n \in S : \A m \in S : ~ (<<m, n>> \in R)
    BY <1>1, WFMin
  <1>4. n \in Nat /\ \A m \in S : m \in Nat /\ ~ (m < n)
    BY <1>2, <1>3, Zenon
  <1> QED BY <1>4

LEMMA Induction ==
    ASSUME NEW S, 0 \in S, \A n \in Nat : n \in S => n + 1 \in S
    PROVE  Nat \subseteq S
  <1> SUFFICES ASSUME Nat \ S # {} PROVE FALSE
    OBVIOUS
  <1>1. PICK n \in Nat \ S : \A m \in Nat \ S : n <= m
    BY NatLeast
  <1>2. n # 0 /\ n - 1 \in Nat /\ n - 1 \in S
    BY <1>1
  <1> QED BY <1>1, <1>2

LEMMA ConcatFacts ==
    ASSUME NEW S, NEW s \in Seq(S), NEW t \in Seq(S)
    PROVE  /\ s \o t \in Seq(S)
           /\ Range(s \o t) = Range(s) \union Range(t)
           /\ IsInjective(s) /\ IsInjective(t) /\ Range(s) \intersect Range(t) = {}
                 => IsInjective(s \o t)
  <1>1. /\ s \o t \in Seq(S) /\ Len(s) \in Nat
        /\ DOMAIN s = 1 .. Len(s) /\ DOMAIN t = 1 .. Len(t)
        /\ DOMAIN (s \o t) = 1 .. Len(s) + Len(t) /\ Len(t) \in Nat
        /\ \A i \in DOMAIN s : i \in DOMAIN (s \o t) /\ (s \o t)[i] = s[i]
    OBVIOUS
  <1>2. ASSUME NEW i \in DOMAIN (s \o t), i \notin DOMAIN s
        PROVE  i - Len(s) \in DOMAIN t /\ (s \o t)[i] = t[i - Len(s)]
    BY <1>1, <1>2
  <1>3. ASSUME NEW j \in DOMAIN t
        PROVE  j + Len(s) \in DOMAIN (s \o t) /\ (s \o t)[j + Len(s)] = t[j]
    BY <1>1
  <1>4. Range(s \o t) = Range(s) \union Range(t)
    <2>1. Range(s \o t) \subseteq Range(s) \union Range(t)
      BY <1>1, <1>2 DEF Range
    <2>2. Range(s) \union Range(t) \subseteq Range(s \o t)
      BY <1>1, <1>3 DEF Range
    <2> QED BY <2>1, <2>2
  <1>5. ASSUME IsInjective(s), IsInjective(t), Range(s) \intersect Range(t) = {},
               NEW i \in DOMAIN (s \o t), NEW j \in DOMAIN (s \o t), (s \o t)[i] = (s \o t)[j]
        PROVE  i = j
    <2>1. i \in DOMAIN s <=> j \in DOMAIN s
      BY <1>1, <1>2, <1>5 DEF Range
    <2>2. CASE i \in DOMAIN s
      BY <1>1, <1>5, <2>1, <2>2 DEF IsInjective
    <2>3. CASE i \notin DOMAIN s
      <3>1. i - Len(s) = j - Len(s)
        BY <1>2, <1>5, <2>1, <2>3 DEF IsInjective
      <3> QED BY <1>1, <3>1
    <2> QED BY <2>2, <2>3
  <1> QED BY <1>1, <1>4, <1>5 DEF IsInjective

\* f holds the first sequences of ss, put together.
Joins(f, ss, k) == \A i \in 1 .. k : f[i] = IF i = 1 THEN ss[i] ELSE f[i - 1] \o ss[i]

LEMMA JoinsExist ==
    ASSUME NEW S, NEW ss \in Seq(Seq(S))
    PROVE  \E f \in [1 .. Len(ss) -> Seq(S)] : Joins(f, ss, Len(ss))
  <1> DEFINE T == {k \in Nat : k <= Len(ss) => \E f \in [1 .. k -> Seq(S)] : Joins(f, ss, k)}
  <1>1. 0 \in T
    <2>1. [i \in 1 .. 0 |-> << >>] \in [1 .. 0 -> Seq(S)] /\ Joins([i \in 1 .. 0 |-> << >>], ss, 0)
      BY DEF Joins
    <2> QED BY <2>1
  <1>2. ASSUME NEW k \in Nat, k \in T, k + 1 <= Len(ss)
        PROVE  \E f \in [1 .. k + 1 -> Seq(S)] : Joins(f, ss, k + 1)
    <2>1. PICK f \in [1 .. k -> Seq(S)] : Joins(f, ss, k)
      BY <1>2
    <2> DEFINE last == IF k = 0 THEN ss[1] ELSE f[k] \o ss[k + 1]
               g == [i \in 1 .. k + 1 |-> IF i = k + 1 THEN last ELSE f[i]]
    <2>2. last \in Seq(S)
      <3>1. ss[k + 1] \in Seq(S) /\ (k # 0 => f[k] \in Seq(S))
        BY <1>2
      <3>2. k # 0 => f[k] \o ss[k + 1] \in Seq(S)
        BY <3>1, ConcatFacts
      <3> QED BY <3>1, <3>2
    <2> HIDE DEF last
    <2>3. g \in [1 .. k + 1 -> Seq(S)]
      BY <2>2
    <2>4. ASSUME NEW i \in 1 .. k + 1 PROVE g[i] = IF i = 1 THEN ss[i] ELSE g[i - 1] \o ss[i]
      <3>1. CASE i = k + 1 /\ k = 0
        BY <3>1 DEF last
      <3>2. CASE i = k + 1 /\ k # 0
        <4>1. i - 1 = k /\ i # 1 /\ k \in 1 .. k + 1 /\ k # k + 1
          BY <3>2
        <4>2. g[i] = last /\ g[k] = f[k]
          BY <3>2, <4>1
        <4> HIDE DEF g
        <4> QED BY <3>2, <4>1, <4>2 DEF last
      <3>3. CASE i \in 1 .. k
        <4>1. i # k + 1 /\ (i # 1 => i - 1 \in 1 .. k + 1 /\ i - 1 # k + 1)
          BY <3>3
        <4>2. g[i] = f[i] /\ (i # 1 => g[i - 1] = f[i - 1])
          BY <4>1
        <4> HIDE DEF g
        <4> QED BY <2>1, <3>3, <4>2 DEF Joins
      <3> QED BY <3>1, <3>2, <3>3
    <2> QED BY <2>3, <2>4 DEF Joins
  <1>3. \A k \in Nat : k \in T => k + 1 \in T
    BY <1>2
  <1> HIDE DEF T
  <1>4. Nat \subseteq T
    BY <1>1, <1>3, Induction
  <1> QED BY <1>4 DEF T

LEMMA FlattenIs ==
    ASSUME NEW S, NEW ss \in Seq(Seq(S)), Len(ss) # 0,
           NEW f \in [1 .. Len(ss) -> Seq(S)], Joins(f, ss, Len(ss))
    PROVE  FlattenSeq(ss) = f[Len(ss)]
  <1> DEFINE IsJoins(x) == x = [i \in 1 .. Len(ss) |-> IF i = 1 THEN ss[i] ELSE x[i - 1] \o ss[i]]
             flatten == CHOOSE x : IsJoins(x)
  <1>1. IsJoins(f)
    BY DEF Joins
  <1>2. IsJoins(flatten)
    BY <1>1
  <1>3. FlattenSeq(ss) = flatten[Len(ss)]
    BY DEF FlattenSeq
  <1> HIDE DEF flatten
  <1>4. DOMAIN flatten = 1 .. Len(ss) /\ Joins(flatten, ss, Len(ss))
    BY <1>2 DEF Joins
  <1> DEFINE T == {i \in Nat : i \in 1 .. Len(ss) => flatten[i] = f[i]}
  <1>5. 0 \in T
    OBVIOUS
  <1>6. ASSUME NEW i \in Nat, i \in T PROVE i + 1 \in T
    <2>1. CASE i + 1 \in 1 .. Len(ss) /\ i # 0
      <3>1. i \in 1 .. Len(ss) /\ (i + 1) - 1 = i /\ i + 1 # 1
        BY <2>1
      <3>2. flatten[i + 1] = flatten[i] \o ss[i + 1] /\ f[i + 1] = f[i] \o ss[i + 1]
        BY <1>4, <2>1, <3>1 DEF Joins
      <3>3. flatten[i] = f[i]
        BY <1>6, <3>1
      <3>4. flatten[i + 1] = f[i + 1]
        BY <3>2, <3>3
      <3> QED BY <3>4
    <2>2. CASE i = 0 /\ 1 \in 1 .. Len(ss)
      <3>1. flatten[1] = ss[1] /\ f[1] = ss[1]
        BY <1>4, <2>2 DEF Joins
      <3> QED BY <2>2, <3>1
    <2> QED BY <2>1, <2>2
  <1> HIDE DEF T
  <1>7. Nat \subseteq T
    BY <1>5, <1>6, Induction
  <1>8. Len(ss) \in Nat /\ Len(ss) \in 1 .. Len(ss)
    OBVIOUS
  <1>9. flatten[Len(ss)] = f[Len(ss)]
    BY <1>7, <1>8 DEF T
  <1> QED BY <1>3, <1>9

Apart(ss) ==
    /\ \A i \in DOMAIN ss : IsInjective(ss[i])
    /\ \A i, j \in DOMAIN ss : i # j => Range(ss[i]) \intersect Range(ss[j]) = {}

LEMMA FlattenFacts ==
    ASSUME NEW S, NEW ss \in Seq(Seq(S))
    PROVE  /\ FlattenSeq(ss) \in Seq(S)
           /\ \A i \in DOMAIN ss : Range(ss[i]) \subseteq Range(FlattenSeq(ss))
           /\ \A x \in Range(FlattenSeq(ss)) : \E i \in DOMAIN ss : x \in Range(ss[i])
           /\ Apart(ss) => IsInjective(FlattenSeq(ss))
  <1>1. DOMAIN ss = 1 .. Len(ss) /\ Len(ss) \in Nat /\ \A i \in 1 .. Len(ss) : ss[i] \in Seq(S)
    OBVIOUS
  <1>2. CASE Len(ss) = 0
    <2> DEFINE e == FlattenSeq(ss)
    <2>1. e = ss /\ DOMAIN ss = {} /\ e = << >>
      BY <1>1, <1>2 DEF FlattenSeq
    <2>2. e \in Seq(S) /\ Range(e) = {} /\ IsInjective(e)
      BY <2>1 DEF Range, IsInjective
    <2> HIDE DEF e
    <2>3. /\ \A i \in DOMAIN ss : Range(ss[i]) \subseteq Range(e)
          /\ \A x \in Range(e) : \E i \in DOMAIN ss : x \in Range(ss[i])
      BY <2>1, <2>2
    <2> QED BY <2>2, <2>3 DEF e
  <1>3. CASE Len(ss) # 0
    <2>1. PICK f \in [1 .. Len(ss) -> Seq(S)] : Joins(f, ss, Len(ss))
      BY JoinsExist
    <2> DEFINE Good(k) ==
                 /\ \A i \in 1 .. k : Range(ss[i]) \subseteq Range(f[k])
                 /\ \A x \in Range(f[k]) : \E i \in 1 .. k : x \in Range(ss[i])
                 /\ Apart(ss) => IsInjective(f[k])
               T == {k \in Nat : k \in 1 .. Len(ss) => Good(k)}
    <2>2. 0 \in T
      OBVIOUS
    <2>3. ASSUME NEW k \in Nat, k \in T, k + 1 \in 1 .. Len(ss) PROVE Good(k + 1)
      <3>1. CASE k = 0
        <4>1. 1 \in 1 .. Len(ss) /\ 1 \in DOMAIN ss /\ k + 1 = 1
          BY <1>1, <2>3, <3>1
        <4>2. f[1] = ss[1]
          BY <2>1, <4>1 DEF Joins
        <4>3. \A i \in 1 .. 1 : i = 1
          OBVIOUS
        <4> QED BY <4>1, <4>2, <4>3 DEF Apart
      <3>2. CASE k # 0
        <4>1. k \in 1 .. Len(ss) /\ (k + 1) - 1 = k /\ k + 1 # 1
          BY <2>3, <3>2
        <4>2. f[k + 1] = f[k] \o ss[k + 1]
          BY <2>1, <2>3, <4>1 DEF Joins
        <4>3. Good(k)
          BY <2>3, <4>1
        <4>4. f[k] \in Seq(S) /\ ss[k + 1] \in Seq(S)
          BY <1>1, <2>3, <4>1
        <4>5. /\ Range(f[k + 1]) = Range(f[k]) \union Range(ss[k + 1])
              /\ IsInjective(f[k]) /\ IsInjective(ss[k + 1])
                 /\ Range(f[k]) \intersect Range(ss[k + 1]) = {} => IsInjective(f[k + 1])
          BY <4>2, <4>4, ConcatFacts
        <4>6. \A i \in 1 .. k + 1 : i \in 1 .. k \/ i = k + 1
          OBVIOUS
        <4>7. \A i \in 1 .. k : i \in 1 .. k + 1 /\ i \in DOMAIN ss /\ i # k + 1
          BY <1>1, <4>1
        <4>8. k + 1 \in DOMAIN ss /\ k + 1 \in 1 .. k + 1
          BY <1>1, <2>3
        <4>9. \A i \in 1 .. k + 1 : Range(ss[i]) \subseteq Range(f[k + 1])
          BY <4>3, <4>5, <4>6
        <4>10. \A x \in Range(f[k + 1]) : \E i \in 1 .. k + 1 : x \in Range(ss[i])
          BY <4>3, <4>5, <4>7, <4>8
        <4>11. ASSUME Apart(ss) PROVE IsInjective(f[k + 1])
          <5>1. Range(f[k]) \intersect Range(ss[k + 1]) = {}
            BY <4>3, <4>7, <4>8, <4>11 DEF Apart
          <5> QED BY <4>3, <4>5, <4>8, <4>11, <5>1 DEF Apart
        <4> QED BY <4>9, <4>10, <4>11
      <3> QED BY <3>1, <3>2
    <2> HIDE DEF Good
    <2>4. ASSUME NEW k \in Nat, k \in T PROVE k + 1 \in T
      <3>1. k + 1 \in 1 .. Len(ss) => Good(k + 1)
        BY <2>3, <2>4
      <3> QED BY <3>1
    <2> HIDE DEF T
    <2>5. Nat \subseteq T
      BY <2>2, <2>4, Induction
    <2>6. Len(ss) \in 1 .. Len(ss)
      BY <1>1, <1>3
    <2>7. Good(Len(ss))
      BY <1>1, <2>5, <2>6 DEF T
    <2>8. FlattenSeq(ss) = f[Len(ss)] /\ f[Len(ss)] \in Seq(S)
      BY <1>3, <2>1, <2>6, FlattenIs
    <2> QED BY <1>1, <2>7, <2>8 DEF Good
  <1> QED BY <1>2, <1>3

-----------------------------------------------------------------------------
(* The walk over the tree. *)

Height(h) ==
    /\ h \in [Nodes -> 0 .. Cardinality(Nodes)]
    /\ \A n \in Nodes : \A i \in DOMAIN Sub[n] : h[Sub[n][i]] < h[n]

LEMMA SubFacts ==
    /\ Cardinality(Nodes) \in Nat
    /\ \E h : Height(h)
    /\ \A n \in Nodes : Sub[n] \in Seq(Nodes) /\ DOMAIN Sub[n] = 1 .. Len(Sub[n])
    /\ \A n \in Nodes : \A i \in DOMAIN Sub[n] : Sub[n][i] \in Nodes
  <1>1. Cardinality(Nodes) \in Nat
    BY TreeAssumption, FS_CardinalityType
  <1>2. \E h : Height(h)
    BY TreeAssumption DEF Height
  <1>3. \A n \in Nodes : Sub[n] \in Seq(Nodes)
    BY NodeAssumption
  <1>4. \A s \in Seq(Nodes) : DOMAIN s = 1 .. Len(s) /\ \A i \in DOMAIN s : s[i] \in Nodes
    OBVIOUS
  <1> QED BY <1>1, <1>2, <1>3, <1>4

Walks(f, n) == [i \in DOMAIN Sub[n] |-> f[Sub[n][i]]]
Walk(f, n) == <<n>> \o FlattenSeq(Walks(f, n))

LEMMA WalkType ==
    ASSUME NEW n \in Nodes, NEW f, \A i \in DOMAIN Sub[n] : f[Sub[n][i]] \in Seq(Nodes)
    PROVE  Walks(f, n) \in Seq(Seq(Nodes)) /\ Walk(f, n) \in Seq(Nodes)
  <1>1. Walks(f, n) \in [1 .. Len(Sub[n]) -> Seq(Nodes)] /\ Len(Sub[n]) \in Nat
    BY SubFacts DEF Walks
  <1>2. Walks(f, n) \in Seq(Seq(Nodes))
    BY <1>1
  <1>3. FlattenSeq(Walks(f, n)) \in Seq(Nodes)
    BY <1>2, FlattenFacts
  <1>4. <<n>> \in Seq(Nodes)
    OBVIOUS
  <1>5. Walk(f, n) \in Seq(Nodes)
    BY <1>3, <1>4, ConcatFacts DEF Walk
  <1> QED BY <1>2, <1>5

Lower(h, k) == {n \in Nodes : h[n] < k}
WalksTo(h, k) == \E f \in [Lower(h, k) -> Seq(Nodes)] : \A n \in Lower(h, k) : f[n] = Walk(f, n)

LEMMA WalksExist ==
    ASSUME NEW h, Height(h)
    PROVE  \A k \in Nat : WalksTo(h, k)
  <1> DEFINE T == {k \in Nat : WalksTo(h, k)}
  <1>1. \A n \in Nodes : h[n] \in Nat /\ \A i \in DOMAIN Sub[n] : h[Sub[n][i]] < h[n]
    BY SubFacts DEF Height
  <1>2. WalksTo(h, 0)
    <2>1. Lower(h, 0) = {}
      BY <1>1 DEF Lower
    <2>2. [n \in Lower(h, 0) |-> << >>] \in [Lower(h, 0) -> Seq(Nodes)]
      BY <2>1
    <2> QED BY <2>1, <2>2 DEF WalksTo
  <1>3. ASSUME NEW k \in Nat, WalksTo(h, k) PROVE WalksTo(h, k + 1)
    <2>1. PICK f \in [Lower(h, k) -> Seq(Nodes)] : \A n \in Lower(h, k) : f[n] = Walk(f, n)
      BY <1>3 DEF WalksTo
    <2> DEFINE g == [n \in Lower(h, k + 1) |-> IF n \in Lower(h, k) THEN f[n] ELSE Walk(f, n)]
    <2>2. \A n \in Lower(h, k) : n \in Lower(h, k + 1)
      BY <1>1 DEF Lower
    <2>3. ASSUME NEW n \in Lower(h, k + 1), NEW i \in DOMAIN Sub[n]
          PROVE  Sub[n][i] \in Lower(h, k)
      <3>1. n \in Nodes /\ Sub[n][i] \in Nodes /\ h[n] < k + 1
        BY SubFacts DEF Lower
      <3>2. h[n] \in Nat /\ h[Sub[n][i]] \in Nat /\ h[Sub[n][i]] < h[n]
        BY <1>1, <3>1
      <3> QED BY <3>1, <3>2 DEF Lower
    <2>4. \A n \in Lower(h, k + 1) : n \in Nodes /\ Walks(g, n) = Walks(f, n)
      BY <2>2, <2>3 DEF Walks, Lower
    <2>5. \A n \in Lower(h, k + 1) : g[n] = Walk(f, n)
      BY <2>1
    <2>6. \A n \in Lower(h, k + 1) : Walk(f, n) \in Seq(Nodes)
      BY <2>3, <2>4, WalkType
    <2>7. g \in [Lower(h, k + 1) -> Seq(Nodes)] /\ \A n \in Lower(h, k + 1) : g[n] = Walk(g, n)
      BY <2>4, <2>5, <2>6 DEF Walk
    <2> QED BY <2>7 DEF WalksTo
  <1>4. 0 \in T /\ \A k \in Nat : k \in T => k + 1 \in T
    BY <1>2, <1>3
  <1> HIDE DEF T
  <1>5. Nat \subseteq T
    BY <1>4, Induction
  <1> QED BY <1>5 DEF T

\* What the recursive definition of Preorder says.
LEMMA PreorderIs ==
    /\ Preorder \in [Nodes -> Seq(Nodes)]
    /\ \A n \in Nodes : Preorder[n] = Walk(Preorder, n)
  <1> DEFINE IsWalk(x) == x = [n \in Nodes |->
                                 <<n>> \o FlattenSeq([i \in DOMAIN Sub[n] |-> x[Sub[n][i]]])]
  <1>1. PICK h : Height(h)
    BY SubFacts
  <1> DEFINE c == Cardinality(Nodes)
  <1>2. c \in Nat /\ \A n \in Nodes : h[n] \in 0 .. c
    BY <1>1, SubFacts DEF Height
  <1>3. Lower(h, c + 1) = Nodes
    BY <1>2 DEF Lower
  <1>4. PICK f \in [Nodes -> Seq(Nodes)] : \A n \in Nodes : f[n] = Walk(f, n)
    BY <1>1, <1>2, <1>3, WalksExist DEF WalksTo
  <1>5. IsWalk(f)
    BY <1>4 DEF Walk, Walks
  <1>6. Preorder = CHOOSE x : IsWalk(x)
    BY DEF Preorder
  <1>7. IsWalk(Preorder)
    BY <1>5, <1>6
  <1>8. /\ Preorder = [n \in Nodes |-> Preorder[n]]
        /\ \A n \in Nodes : Preorder[n] = Walk(Preorder, n)
    BY <1>7 DEF Walk, Walks
  <1> HIDE DEF c
  <1> DEFINE T == {k \in Nat : \A n \in Nodes : h[n] < k => Preorder[n] = f[n]}
  <1>9. 0 \in T
    BY <1>2
  <1>10. ASSUME NEW k \in Nat, k \in T PROVE k + 1 \in T
    <2>1. ASSUME NEW n \in Nodes, h[n] < k + 1 PROVE Preorder[n] = f[n]
      <3>1. ASSUME NEW i \in DOMAIN Sub[n] PROVE Preorder[Sub[n][i]] = f[Sub[n][i]]
        <4>1. Sub[n][i] \in Nodes /\ h[Sub[n][i]] < h[n]
          BY <1>1, SubFacts DEF Height
        <4>2. h[Sub[n][i]] \in Nat /\ h[n] \in Nat
          BY <1>2, <4>1
        <4>3. h[Sub[n][i]] < k
          BY <2>1, <4>1, <4>2
        <4> QED BY <1>10, <4>1, <4>3
      <3>2. Walks(Preorder, n) = Walks(f, n)
        BY <3>1 DEF Walks
      <3> QED BY <1>4, <1>8, <3>2 DEF Walk
    <2> QED BY <2>1
  <1> HIDE DEF T
  <1>11. Nat \subseteq T
    BY <1>9, <1>10, Induction
  <1>12. c + 1 \in Nat /\ \A n \in Nodes : h[n] < c + 1
    BY <1>2
  <1>13. \A n \in Nodes : Preorder[n] = f[n]
    BY <1>11, <1>12 DEF T
  <1>14. Preorder = f
    BY <1>8, <1>13
  <1> QED BY <1>4, <1>14

\* Every node that the walk from n comes to is n, or one the walk from a
\* sub-node of n comes to.
LEMMA WalkFacts ==
    ASSUME NEW n \in Nodes
    PROVE  /\ Range(Preorder[n]) \subseteq Nodes
           /\ n \in Range(Preorder[n])
           /\ \A i \in DOMAIN Sub[n] : Range(Preorder[Sub[n][i]]) \subseteq Range(Preorder[n])
           /\ \A m \in Range(Preorder[n]) :
                 m = n \/ \E i \in DOMAIN Sub[n] : m \in Range(Preorder[Sub[n][i]])
           /\ /\ \A i \in DOMAIN Sub[n] : IsInjective(Preorder[Sub[n][i]])
              /\ \A i, j \in DOMAIN Sub[n] :
                    i # j => Range(Preorder[Sub[n][i]]) \intersect Range(Preorder[Sub[n][j]]) = {}
              /\ \A i \in DOMAIN Sub[n] : n \notin Range(Preorder[Sub[n][i]])
              => IsInjective(Preorder[n])
  <1> DEFINE ss == Walks(Preorder, n)
             one == <<n>>
             below == FlattenSeq(ss)
  <1>1. /\ ss \in Seq(Seq(Nodes)) /\ DOMAIN ss = DOMAIN Sub[n]
        /\ \A i \in DOMAIN Sub[n] : ss[i] = Preorder[Sub[n][i]]
    BY WalkType, PreorderIs, SubFacts DEF Walks
  <1>2. Preorder[n] = one \o below
    BY PreorderIs DEF Walk
  <1>3. one \in Seq(Nodes) /\ Range(one) = {n} /\ IsInjective(one)
    BY DEF Range, IsInjective
  <1> HIDE DEF ss, one
  <1>4. /\ below \in Seq(Nodes)
        /\ \A i \in DOMAIN ss : Range(ss[i]) \subseteq Range(below)
        /\ \A x \in Range(below) : \E i \in DOMAIN ss : x \in Range(ss[i])
        /\ Apart(ss) => IsInjective(below)
    BY <1>1, FlattenFacts
  <1> HIDE DEF below
  <1>5. /\ Range(Preorder[n]) = {n} \union Range(below)
        /\ IsInjective(below) /\ {n} \intersect Range(below) = {} => IsInjective(Preorder[n])
    BY <1>2, <1>3, <1>4, ConcatFacts
  <1>6. \A s \in Seq(Nodes) : Range(s) \subseteq Nodes
    BY DEF Range
  <1>7. Range(Preorder[n]) \subseteq Nodes
    BY <1>6, PreorderIs
  <1>8. ASSUME \A i \in DOMAIN Sub[n] : IsInjective(Preorder[Sub[n][i]]),
               \A i, j \in DOMAIN Sub[n] :
                  i # j => Range(Preorder[Sub[n][i]]) \intersect Range(Preorder[Sub[n][j]]) = {},
               \A i \in DOMAIN Sub[n] : n \notin Range(Preorder[Sub[n][i]])
        PROVE  IsInjective(Preorder[n])
    <2>1. Apart(ss)
      <3>1. \A i \in DOMAIN ss : IsInjective(ss[i])
        BY <1>1, <1>8
      <3>2. ASSUME NEW i \in DOMAIN ss, NEW j \in DOMAIN ss, i # j
            PROVE  Range(ss[i]) \intersect Range(ss[j]) = {}
        <4>1. /\ i \in DOMAIN Sub[n] /\ j \in DOMAIN Sub[n]
              /\ ss[i] = Preorder[Sub[n][i]] /\ ss[j] = Preorder[Sub[n][j]]
          BY <1>1
        <4>2. Range(Preorder[Sub[n][i]]) \intersect Range(Preorder[Sub[n][j]]) = {}
          BY <1>8, <3>2, <4>1
        <4> QED BY <4>1, <4>2
      <3> QED BY <3>1, <3>2 DEF Apart
    <2>2. n \notin Range(below)
      BY <1>1, <1>4, <1>8
    <2> QED BY <1>4, <1>5, <2>1, <2>2
  <1> QED BY <1>1, <1>4, <1>5, <1>7, <1>8

\* A property of every node follows if a node has it when its sub-nodes do.
LEMMA TreeInduction ==
    ASSUME NEW S, \A n \in Nodes : (\A i \in DOMAIN Sub[n] : Sub[n][i] \in S) => n \in S
    PROVE  Nodes \subseteq S
  <1>1. PICK h : Height(h)
    BY SubFacts
  <1>2. \A n \in Nodes : h[n] \in Nat /\ \A i \in DOMAIN Sub[n] : h[Sub[n][i]] < h[n]
    BY <1>1, SubFacts DEF Height
  <1> DEFINE T == {k \in Nat : \A n \in Nodes : h[n] < k => n \in S}
  <1>3. 0 \in T
    BY <1>2
  <1>4. ASSUME NEW k \in Nat, k \in T, NEW n \in Nodes, h[n] < k + 1 PROVE n \in S
    <2>1. ASSUME NEW i \in DOMAIN Sub[n] PROVE Sub[n][i] \in S
      <3>1. Sub[n][i] \in Nodes /\ h[Sub[n][i]] < h[n]
        BY <1>2, SubFacts
      <3>2. h[Sub[n][i]] \in Nat /\ h[n] \in Nat
        BY <1>2, <3>1
      <3>3. h[Sub[n][i]] < k
        BY <1>4, <3>1, <3>2
      <3> QED BY <1>4, <3>1, <3>3
    <2> QED BY <2>1
  <1>5. \A k \in Nat : k \in T => k + 1 \in T
    BY <1>4
  <1> HIDE DEF T
  <1>6. Nat \subseteq T
    BY <1>3, <1>5, Induction
  <1>7. ASSUME NEW n \in Nodes PROVE n \in S
    <2>1. h[n] + 1 \in T /\ h[n] < h[n] + 1
      BY <1>2, <1>6
    <2> QED BY <2>1 DEF T
  <1> QED BY <1>7

LEMMA WalkClosed ==
    ASSUME NEW n \in Nodes, NEW m \in Range(Preorder[n]), NEW i \in DOMAIN Sub[m]
    PROVE  Sub[m][i] \in Range(Preorder[n])
  <1> DEFINE Closed(a) == \A b \in Range(Preorder[a]) : \A j \in DOMAIN Sub[b] :
                             Sub[b][j] \in Range(Preorder[a])
             S == {a \in Nodes : Closed(a)}
  <1>1. ASSUME NEW a \in Nodes, \A j \in DOMAIN Sub[a] : Sub[a][j] \in S PROVE Closed(a)
    <2> SUFFICES ASSUME NEW b \in Range(Preorder[a]), NEW j \in DOMAIN Sub[b]
                 PROVE  Sub[b][j] \in Range(Preorder[a])
      OBVIOUS
    <2>1. CASE b = a
      BY <2>1, WalkFacts, SubFacts
    <2>2. ASSUME NEW l \in DOMAIN Sub[a], b \in Range(Preorder[Sub[a][l]])
          PROVE  Sub[b][j] \in Range(Preorder[a])
      <3>1. Closed(Sub[a][l])
        BY <1>1
      <3>2. Sub[b][j] \in Range(Preorder[Sub[a][l]])
        BY <2>2, <3>1
      <3> HIDE DEF S
      <3> QED BY <3>2, WalkFacts
    <2> HIDE DEF S
    <2> QED BY <2>1, <2>2, WalkFacts
  <1>2. \A a \in Nodes : (\A j \in DOMAIN Sub[a] : Sub[a][j] \in S) => a \in S
    BY <1>1
  <1> HIDE DEF S
  <1>3. Nodes \subseteq S
    BY <1>2, TreeInduction
  <1> QED BY <1>3 DEF S

LEMMA WalkWithin ==
    ASSUME NEW n \in Nodes, NEW m \in Range(Preorder[n])
    PROVE  Range(Preorder[m]) \subseteq Range(Preorder[n])
  <1> DEFINE Within(a) == \A b \in Range(Preorder[a]) :
                             Range(Preorder[b]) \subseteq Range(Preorder[a])
             S == {a \in Nodes : Within(a)}
  <1>1. ASSUME NEW a \in Nodes, \A j \in DOMAIN Sub[a] : Sub[a][j] \in S PROVE Within(a)
    <2> SUFFICES ASSUME NEW b \in Range(Preorder[a])
                 PROVE  Range(Preorder[b]) \subseteq Range(Preorder[a])
      OBVIOUS
    <2>1. ASSUME NEW l \in DOMAIN Sub[a], b \in Range(Preorder[Sub[a][l]])
          PROVE  Range(Preorder[b]) \subseteq Range(Preorder[a])
      <3>1. Range(Preorder[b]) \subseteq Range(Preorder[Sub[a][l]])
        BY <1>1, <2>1
      <3> HIDE DEF S
      <3> QED BY <3>1, WalkFacts
    <2> HIDE DEF S
    <2> QED BY <2>1, WalkFacts
  <1>2. \A a \in Nodes : (\A j \in DOMAIN Sub[a] : Sub[a][j] \in S) => a \in S
    BY <1>1
  <1> HIDE DEF S
  <1>3. Nodes \subseteq S
    BY <1>2, TreeInduction
  <1> QED BY <1>3 DEF S

\* A doProc comes to no node that is not below its own.
LEMMA CalleesBelow == \A n \in Nodes : Callees(n) \subseteq Range(Preorder[n])
  <1> SUFFICES ASSUME NEW n \in Nodes, NEW m \in Callees(n) PROVE m \in Range(Preorder[n])
    OBVIOUS
  <1>1. <<n, m>> \in Below
    BY DEF Callees, Calls
  <1>2. PICK a \in Nodes : <<n, m>> \in {<<a, b>> : b \in Range(Preorder[a])}
    BY <1>1 DEF Below
  <1> QED BY <1>2

\* The walk never climbs, and comes to another node only by its parent.
LEMMA WalkDescends ==
    ASSUME NEW h, Height(h), NEW n \in Nodes, NEW m \in Range(Preorder[n])
    PROVE  /\ h[m] <= h[n]
           /\ m # n => \E a \in Range(Preorder[n]) : \E i \in DOMAIN Sub[a] : m = Sub[a][i]
  <1> DEFINE Down(b) == \A x \in Range(Preorder[b]) :
                  /\ h[x] <= h[b]
                  /\ x # b => \E a \in Range(Preorder[b]) : \E i \in DOMAIN Sub[a] : x = Sub[a][i]
             S == {b \in Nodes : Down(b)}
  <1>1. \A b \in Nodes : h[b] \in Nat /\ \A i \in DOMAIN Sub[b] : h[Sub[b][i]] < h[b]
    BY SubFacts DEF Height
  <1>2. ASSUME NEW b \in Nodes, \A j \in DOMAIN Sub[b] : Sub[b][j] \in S PROVE Down(b)
    <2> SUFFICES ASSUME NEW x \in Range(Preorder[b])
                 PROVE  /\ h[x] <= h[b]
                        /\ x # b => \E a \in Range(Preorder[b]) : \E i \in DOMAIN Sub[a] : x = Sub[a][i]
      OBVIOUS
    <2>1. CASE x = b
      BY <1>1, <2>1
    <2>2. ASSUME NEW j \in DOMAIN Sub[b], x \in Range(Preorder[Sub[b][j]])
          PROVE  /\ h[x] <= h[b]
                 /\ \E a \in Range(Preorder[b]) : \E i \in DOMAIN Sub[a] : x = Sub[a][i]
      <3>1. PICK d \in Nodes : d = Sub[b][j]
        BY SubFacts
      <3>2. Down(d) /\ x \in Range(Preorder[d]) /\ h[d] < h[b]
        BY <1>1, <1>2, <2>2, <3>1
      <3>3. x \in Nodes /\ b \in Range(Preorder[b]) /\ Range(Preorder[d]) \subseteq Range(Preorder[b])
        BY <3>1, <3>2, WalkFacts
      <3>4. h[x] <= h[b]
        BY <1>1, <3>2, <3>3
      <3>5. CASE x = d
        BY <3>1, <3>3, <3>4, <3>5
      <3>6. CASE x # d
        <4>1. \E a \in Range(Preorder[d]) : \E i \in DOMAIN Sub[a] : x = Sub[a][i]
          BY <3>2, <3>6
        <4> QED BY <3>3, <3>4, <4>1
      <3> QED BY <3>5, <3>6
    <2> HIDE DEF S
    <2> QED BY <2>1, <2>2, WalkFacts
  <1>3. \A b \in Nodes : (\A j \in DOMAIN Sub[b] : Sub[b][j] \in S) => b \in S
    BY <1>2
  <1> HIDE DEF S
  <1>4. Nodes \subseteq S
    BY <1>3, TreeInduction
  <1> QED BY <1>4 DEF S

\* Two sub-nodes of a node have no node below them in common: the highest
\* would have a parent that is higher.
LEMMA SiblingsApart ==
    ASSUME NEW n \in Nodes, NEW i \in DOMAIN Sub[n], NEW j \in DOMAIN Sub[n], i # j
    PROVE  Range(Preorder[Sub[n][i]]) \intersect Range(Preorder[Sub[n][j]]) = {}
  <1>1. PICK a \in Nodes : a = Sub[n][i]
    BY SubFacts
  <1>2. PICK b \in Nodes : b = Sub[n][j]
    BY SubFacts
  <1> DEFINE B == Range(Preorder[a]) \intersect Range(Preorder[b])
  <1> SUFFICES ASSUME B # {} PROVE FALSE
    BY <1>1, <1>2
  <1>3. PICK h : Height(h)
    BY SubFacts
  <1> DEFINE c == Cardinality(Nodes)
  <1>4. c \in Nat /\ \A x \in Nodes : h[x] \in 0 .. c /\ \A l \in DOMAIN Sub[x] : h[Sub[x][l]] < h[x]
    BY <1>3, SubFacts DEF Height
  <1> HIDE DEF c
  <1>5. B \subseteq Nodes
    BY WalkFacts
  <1> DEFINE D == {c - h[x] : x \in B}
  <1>6. D \in SUBSET Nat /\ D # {}
    <2>1. \A x \in B : c - h[x] \in Nat
      BY <1>4, <1>5
    <2> QED BY <2>1
  <1>7. PICK x \in B : \A y \in B : c - h[x] <= c - h[y]
    <2> HIDE DEF B
    <2>1. PICK k \in D : \A l \in D : k <= l
      <3> HIDE DEF D
      <3> QED BY <1>6, NatLeast
    <2> QED BY <2>1
  <1>8. \A y \in B : h[y] <= h[x]
    BY <1>4, <1>5, <1>7
  <1>9. a # b
    BY <1>1, <1>2, TreeAssumption
  <1>10. \A y \in Nodes, z \in Nodes : \A k \in DOMAIN Sub[y], l \in DOMAIN Sub[z] :
            Sub[y][k] = Sub[z][l] => y = z
    BY TreeAssumption
  <1>11. CASE x # a /\ x # b
    <2>1. PICK y \in Range(Preorder[a]) : \E k \in DOMAIN Sub[y] : x = Sub[y][k]
      BY <1>3, <1>11, WalkDescends
    <2>2. PICK z \in Range(Preorder[b]) : \E k \in DOMAIN Sub[z] : x = Sub[z][k]
      BY <1>3, <1>11, WalkDescends
    <2>3. y \in Nodes /\ z \in Nodes
      BY WalkFacts
    <2>4. y = z /\ y \in B
      BY <1>10, <2>1, <2>2, <2>3
    <2>5. h[x] < h[y] /\ h[x] \in Nat /\ h[y] \in Nat
      BY <1>4, <1>5, <2>1, <2>3
    <2> QED BY <1>8, <2>4, <2>5
  <1>12. ASSUME NEW d \in {a, b}, x \in Range(Preorder[d]), x # d, x \in {a, b} PROVE FALSE
    <2>1. PICK y \in Range(Preorder[d]) : \E k \in DOMAIN Sub[y] : x = Sub[y][k]
      BY <1>3, <1>12, WalkDescends
    <2>2. y \in Nodes
      BY WalkFacts
    <2>3. y = n
      BY <1>1, <1>2, <1>10, <1>12, <2>1, <2>2
    <2>4. h[n] <= h[d]
      BY <1>3, <2>1, <2>3, WalkDescends
    <2>5. h[d] < h[n] /\ h[d] \in Nat /\ h[n] \in Nat
      BY <1>1, <1>2, <1>4
    <2> QED BY <2>4, <2>5
  <1>13. x \in Range(Preorder[a]) /\ x \in Range(Preorder[b])
    OBVIOUS
  <1> HIDE DEF B, D
  <1> QED BY <1>9, <1>11, <1>12, <1>13

LEMMA WalkOnce == \A n \in Nodes : IsInjective(Preorder[n])
  <1> DEFINE S == {n \in Nodes : IsInjective(Preorder[n])}
  <1>1. ASSUME NEW n \in Nodes, \A i \in DOMAIN Sub[n] : Sub[n][i] \in S
        PROVE  IsInjective(Preorder[n])
    <2>1. PICK h : Height(h)
      BY SubFacts
    <2>2. ASSUME NEW i \in DOMAIN Sub[n] PROVE n \notin Range(Preorder[Sub[n][i]])
      <3>1. Sub[n][i] \in Nodes /\ h[Sub[n][i]] < h[n]
        BY <2>1, SubFacts DEF Height
      <3>2. h[Sub[n][i]] \in Nat /\ h[n] \in Nat
        BY <2>1, <3>1, SubFacts DEF Height
      <3> QED BY <2>1, <3>1, <3>2, WalkDescends
    <2> QED BY <1>1, <2>2, SiblingsApart, WalkFacts
  <1>2. \A n \in Nodes : (\A i \in DOMAIN Sub[n] : Sub[n][i] \in S) => n \in S
    BY <1>1
  <1> HIDE DEF S
  <1>3. Nodes \subseteq S
    BY <1>2, TreeInduction
  <1> QED BY <1>3 DEF S

\* The order of init and start: it begins somewhere, has with a node its
\* sub-nodes, and visits no node twice.
LEMMA OrderFacts ==
    /\ Order \in Seq(Nodes) /\ Order # << >>
    /\ \A n \in Range(Order) : Range(Sub[n]) \subseteq Range(Order)
    /\ IsInjective(Order) /\ Len(Order) <= Cardinality(Nodes)
  <1>1. Root \in Nodes /\ Order = Preorder[Root]
    BY NodeAssumption DEF Order
  <1>2. Order \in Seq(Nodes)
    BY <1>1, PreorderIs
  <1>3. Root \in Range(Order)
    BY <1>1, WalkFacts
  <1>4. Order # << >>
    BY <1>3 DEF Range
  <1>5. ASSUME NEW n \in Range(Order) PROVE Range(Sub[n]) \subseteq Range(Order)
    BY <1>1, WalkClosed DEF Range
  <1>6. IsInjective(Order)
    BY <1>1, WalkOnce
  <1>7. Len(Order) <= Cardinality(Nodes)
    <2> DEFINE o == Order
    <2>1. o \in [1 .. Len(o) -> Nodes] /\ Len(o) \in Nat /\ DOMAIN o = 1 .. Len(o)
      BY <1>2
    <2> HIDE DEF o
    <2>2. IsInjective(o)
      BY <1>6 DEF o
    <2>3. o \in Injection(1 .. Len(o), Nodes)
      BY <2>1, <2>2 DEF Injection, IsInjective
    <2>4. Cardinality(1 .. Len(o)) <= Cardinality(Nodes)
      BY <2>3, TreeAssumption, FS_Injection
    <2>5. Cardinality(1 .. Len(o)) = Len(o)
      <3> DEFINE l == Len(o)
      <3>1. l \in Nat /\ l \in Int /\ 1 \in Int
        BY <2>1
      <3> HIDE DEF l
      <3>2. Cardinality(1 .. l) = IF 1 > l THEN 0 ELSE l - 1 + 1
        BY <3>1, FS_Interval
      <3>3. Cardinality(1 .. l) = l
        BY <3>1, <3>2
      <3> QED BY <3>3 DEF l
    <2> QED BY <2>4, <2>5 DEF o
  <1> QED BY <1>2, <1>4, <1>5, <1>6, <1>7

-----------------------------------------------------------------------------
(* Processes and their nodes.                                              *)

LEMMA Tree ==
    /\ Len(Order) \in Nat /\ Len(Order) >= 1
    /\ \A i \in 1 .. Len(Order) : Order[i] \in Nodes /\ Order[i] \in Range(Order)
    /\ \A n \in Range(Order) : n \in Nodes /\ \E i \in 1 .. Len(Order) : n = Order[i]
    /\ \A n \in Range(Order) : Callees(n) \subseteq Range(Order)
  <1> DEFINE O == Order
  <1>1. O \in Seq(Nodes) /\ O # << >>
    BY OrderFacts
  <1>2. \A n \in Range(O) : Callees(n) \subseteq Range(O)
    <2>1. Root \in Nodes /\ O = Preorder[Root]
      BY NodeAssumption DEF Order
    <2> HIDE DEF O
    <2> SUFFICES ASSUME NEW n \in Range(O) PROVE Callees(n) \subseteq Range(O)
      OBVIOUS
    <2>2. n \in Nodes /\ Range(Preorder[n]) \subseteq Range(O)
      BY <2>1, WalkFacts, WalkWithin
    <2> QED BY <2>2, CalleesBelow
  <1>3. Range(O) = {O[i] : i \in 1 .. Len(O)}
    BY <1>1 DEF Range
  <1> HIDE DEF O
  <1>4. Len(O) \in Nat /\ Len(O) >= 1 /\ \A i \in 1 .. Len(O) : O[i] \in Nodes
    BY <1>1
  <1>5. /\ \A i \in 1 .. Len(O) : O[i] \in Range(O)
        /\ \A n \in Range(O) : n \in Nodes /\ \E i \in 1 .. Len(O) : n = O[i]
    BY <1>3, <1>4
  <1> QED BY <1>2, <1>4, <1>5 DEF O

LEMMA Directories ==
    /\ \A f \in Files : FileDir[f] \in Dirs
    /\ \A n \in Nodes : Dir[n] \in Dirs
    /\ NoNode \notin Nodes /\ NoProc \notin Procs
    /\ \A n \in Nodes, f \in Files : <<n, f>> # Idle
  BY ProcAssumption, NodeAssumption DEF Dirs, Idle

\* A step of p leaves the other processes alone.
Only(p) ==
    \A q \in Procs \ {p} :
        /\ pc'[q] = pc[q] /\ step'[q] = step[q] /\ at'[q] = at[q] /\ stage'[q] = stage[q]
        /\ life'[q] = life[q] /\ watching'[q] = watching[q] /\ m_watchMap'[q] = m_watchMap[q]
        /\ events'[q] = events[q] /\ buffer'[q] = buffer[q] /\ hand'[q] = hand[q]

LEMMA OthersStay ==
    ASSUME NEW p, Only(p), NEW q \in Procs \ {p}
    PROVE  /\ Local(q) => Local(q)'
           /\ Engaged(q)' <=> Engaged(q)
  BY DEF Only, Local, Callers, Visited, Done, Called, Engaged, Works

\* A step that takes no lock and begins no work of a process without one.
SameLock(p) == lock' = lock /\ (Engaged(p)' => Engaged(p))

\* What each lemma below shows of a step of p.
Fine(p) == Shape' /\ Only(p) /\ Local(p)'

LEMMA InitInv == Init => IInv
  <1> SUFFICES ASSUME Init PROVE IInv
    OBVIOUS
  <1>1. Shape
    <2>1. hand \in [Procs -> [Threads -> (Nodes \X Files) \union {Idle}]]
      BY DEF Init
    <2>2. m_watchMap \in [Procs -> [Dirs -> Nodes \union {NoNode}]]
      BY DEF Init
    <2>3. stage \in [Procs -> [Nodes -> Stages]]
      BY DEF Init, Stages
    <2>4. pc \in [Procs -> Phases] /\ at \in [Procs -> {"call", "scan", "watch"}]
      BY DEF Init, Phases
    <2>5. life \in [Procs -> SUBSET Nodes] /\ watching \in [Procs -> BOOLEAN]
      BY DEF Init
    <2>6. events \in [Procs -> Seq(Files)] /\ buffer \in [Procs -> Seq(Files)]
      BY DEF Init
    <2> QED BY <2>1, <2>2, <2>3, <2>4, <2>5, <2>6 DEF Init, Shape
  <1>2. LockHeld
    BY DEF Init, LockHeld, Engaged, Works
  <1>3. ASSUME NEW p \in Procs PROVE Local(p)
    <2>1. Callers(p)
      BY DEF Init, Callers, Threads
    <2>2. Visited(p)
      BY DEF Init, Visited, Done
    <2>3. Called(p)
      BY DEF Init, Called, Range
    <2> QED BY <2>1, <2>2, <2>3 DEF Local
  <1> QED BY <1>1, <1>2, <1>3 DEF IInv

-----------------------------------------------------------------------------
(* main between its phases.                                                *)

rest == <<step, at, stage, m_watchMap, events, buffer, hand>>

\* main goes on to the phase ph; only the watcher's thread may start with it.
LEMMA PhaseStep ==
    ASSUME Shape, NEW p \in Procs, Local(p), NEW ph \in Phases \ {"off", "start", "listen"},
           pc' = [pc EXCEPT ![p] = ph], at[p] = "call",
           UNCHANGED rest, lock' \in Procs \union {NoProc}, life' = life,
           \/ watching' = watching /\ (watching[p] => ph \in {"wait", "stop", "join"})
           \/ watching' = [watching EXCEPT ![p] = TRUE] /\ ph = "wait",
           ph \in {"lock", "create"} => step[p] = 1,
           ph = "init" => pc[p] = "create",
           ph \in {"wait", "stop", "join"} => pc[p] \in {"listen", "wait", "stop", "join"}
    PROVE  Fine(p)
  <1> USE DEF rest
  <1>1. pc'[p] = ph /\ \A q \in Procs \ {p} : pc'[q] = pc[q] /\ watching'[q] = watching[q]
    BY DEF Shape
  <1>2. Shape'
    <2>1. pc' \in [Procs -> Phases] /\ watching' \in [Procs -> BOOLEAN]
      BY DEF Shape
    <2> QED BY <2>1 DEF Shape
  <1>3. Only(p)
    BY <1>1 DEF Only
  <1>4. Callers(p)'
    <2>1. ph = "wait" \/ watching'[p] = watching[p]
      BY DEF Shape
    <2>2. buffer[p] # << >> \/ hand[p]["watcher"] # Idle => watching'[p]
      BY DEF Local, Callers, Shape
    <2>3. watching'[p] => ph \in {"wait", "stop", "join"}
      BY <2>1
    <2> QED BY <1>1, <2>2, <2>3 DEF Local, Callers
  <1>5. Visited(p)'
    <2>1. pc[p] = "create" => step[p] = 1
      BY DEF Local, Visited
    <2>2. ASSUME NEW i \in 1 .. Len(Order), Done(p, i)' PROVE Done(p, i)
      BY <1>1, <2>1, <2>2 DEF Done
    <2>3. \A i \in 1 .. Len(Order) : Done(p, i)' => stage[p][Order[i]] \in Usable
      BY <2>2 DEF Local, Visited
    <2>4. ph \in {"init", "start"} => step[p] \in 1 .. Len(Order)
      BY <2>1, Tree
    <2> QED BY <1>1, <2>3, <2>4 DEF Visited
  <1>6. Called(p)'
    BY DEF Local, Called
  <1> QED BY <1>2, <1>3, <1>4, <1>5, <1>6 DEF Fine, Local

\* The steps of main that only change the phase.
Phase(p) ==
    \/ Launch(p) \/ PidLock(p) \/ create(p) \/ Fails(p) \/ WatcherStart(p)
    \/ Sigterm(p) \/ StopWatcher(p) \/ JoinWatcher(p)

LEMMA PhaseData == ASSUME Shape, NEW p \in Procs, Local(p), Phase(p) PROVE Fine(p)
  <1> USE DEF Goto, rest, place, tree, inotify
  <1>1. at[p] = "call" \/ pc[p] \in {"init", "start"}
    BY DEF Shape, Local, Callers
  <1>2. watching[p] => pc[p] \in {"wait", "stop", "join"}
    BY DEF Local, Callers
  <1>3. pc[p] \in {"off", "lock"} => step[p] = 1
    BY DEF Local, Visited
  <1>4. CASE Launch(p)
    BY <1>1, <1>2, <1>3, <1>4, PhaseStep DEF Launch, Phases, Shape
  <1>5. CASE PidLock(p)
    <2>1. lock' \in Procs \union {NoProc}
      BY <1>5 DEF PidLock, Shape
    <2> QED BY <1>1, <1>2, <1>3, <1>5, <2>1, PhaseStep DEF PidLock, Phases
  <1>6. CASE create(p)
    BY <1>1, <1>2, <1>6, PhaseStep DEF create, Phases, Shape
  <1>7. CASE Fails(p)
    BY <1>2, <1>7, PhaseStep DEF Fails, Phases, Shape
  <1>8. CASE WatcherStart(p)
    BY <1>1, <1>8, PhaseStep DEF WatcherStart, Listens, Phases, Shape
  <1>9. CASE Sigterm(p)
    BY <1>1, <1>9, PhaseStep DEF Sigterm, Phases, Shape
  <1>10. CASE StopWatcher(p)
    BY <1>1, <1>10, PhaseStep DEF StopWatcher, Phases, Shape
  <1>11. CASE JoinWatcher(p)
    BY <1>1, <1>11, PhaseStep DEF JoinWatcher, Joined, Phases, Shape
  <1> QED BY <1>4, <1>5, <1>6, <1>7, <1>8, <1>9, <1>10, <1>11 DEF Phase

-----------------------------------------------------------------------------
(* The visits of init and start to the nodes of the tree.                  *)

LEMMA Advanced ==
    ASSUME Shape, NEW p \in Procs, NEW ph \in Phases, Advance(p, ph)
    PROVE  /\ pc' \in [Procs -> Phases] /\ step' \in [Procs -> Nat]
           /\ at' \in [Procs -> {"call", "scan", "watch"}] /\ at'[p] = "call"
           /\ \A q \in Procs \ {p} : pc'[q] = pc[q] /\ step'[q] = step[q] /\ at'[q] = at[q]
           /\ \/ HasNext(p) /\ step'[p] = step[p] + 1 /\ pc'[p] = pc[p]
              \/ ~ HasNext(p) /\ step'[p] = 1 /\ pc'[p] = ph
  <1> USE DEF Shape, Advance, Goto
  <1>1. at' \in [Procs -> {"call", "scan", "watch"}] /\ at'[p] = "call"
    OBVIOUS
  <1>2. \A q \in Procs \ {p} : at'[q] = at[q]
    OBVIOUS
  <1>3. CASE HasNext(p)
    <2>1. step' = [step EXCEPT ![p] = step[p] + 1] /\ pc' = pc
      BY <1>3
    <2> QED BY <1>1, <1>2, <1>3, <2>1
  <1>4. CASE ~ HasNext(p)
    <2>1. step' = [step EXCEPT ![p] = 1] /\ pc' = [pc EXCEPT ![p] = ph]
      BY <1>4
    <2> QED BY <1>1, <1>2, <1>4, <2>1
  <1> QED BY <1>3, <1>4

\* What a visit to the node of p's step may do to the stages.
Staged(p) ==
    /\ stage' \in [Procs -> [Nodes -> Stages]]
    /\ \A q \in Procs : q # p => stage'[q] = stage[q]
    /\ \A n \in Nodes : stage[p][n] \in Usable => stage'[p][n] \in Usable
    /\ pc[p] = "init" => stage'[p][Order[step[p]]] \in Usable

After(p) == IF pc[p] = "init" THEN "start" ELSE "listen"

LEMMA VisitStep ==
    ASSUME Shape, NEW p \in Procs, Visited(p), pc[p] \in {"init", "start"},
           Staged(p), Advance(p, After(p))
    PROVE  Visited(p)'
  <1>1. After(p) \in Phases
    BY DEF After, Phases
  <1>2. /\ at'[p] = "call"
        /\ \/ step[p] < Len(Order) /\ step'[p] = step[p] + 1 /\ pc'[p] = pc[p]
           \/ ~ (step[p] < Len(Order)) /\ step'[p] = 1 /\ pc'[p] = After(p)
    BY <1>1, Advanced DEF HasNext
  <1>3. step[p] \in 1 .. Len(Order) /\ Len(Order) \in Nat
    BY Tree DEF Visited
  <1>4. pc'[p] \in {"init", "start", "listen"} /\ step'[p] \in 1 .. Len(Order)
    BY <1>2, <1>3 DEF After
  <1>5. ASSUME NEW i \in 1 .. Len(Order), Done(p, i)' PROVE stage'[p][Order[i]] \in Usable
    <2>1. CASE Done(p, i)
      BY <2>1, Tree DEF Visited, Staged
    <2>2. CASE ~ Done(p, i)
      <3>1. pc[p] = "init" /\ ~ (i < step[p])
        BY <2>2 DEF Done
      <3>2. i = step[p]
        BY <1>2, <1>3, <1>5, <3>1 DEF Done, After
      <3> QED BY <3>1, <3>2 DEF Staged
    <2> QED BY <2>1, <2>2
  <1> QED BY <1>4, <1>5 DEF Visited

\* On from a node, after whatever its init, start or watch did.
LEMMA NextNode ==
    ASSUME Shape, NEW p \in Procs, Local(p), pc[p] \in {"init", "start"}, at[p] # "scan",
           Staged(p), Advance(p, After(p)), Called(p)',
           life' \in [Procs -> SUBSET Nodes],
           m_watchMap' \in [Procs -> [Dirs -> Nodes \union {NoNode}]],
           \A q \in Procs : q # p => life'[q] = life[q] /\ m_watchMap'[q] = m_watchMap[q],
           UNCHANGED <<lock, watching, events, buffer, hand>>
    PROVE  Fine(p)
  <1>1. After(p) \in Phases /\ After(p) \notin {"off", "lock", "create"}
    BY DEF After, Phases
  <1>2. Shape'
    BY <1>1, Advanced DEF Shape, Staged
  <1>3. Only(p)
    BY <1>1, Advanced DEF Only, Staged
  <1>4. Callers(p)'
    <2>1. at'[p] = "call"
      BY <1>1, Advanced
    <2>2. hand[p]["main"] = Idle /\ ~ watching[p]
      BY DEF Local, Callers
    <2> QED BY <2>1, <2>2 DEF Local, Callers
  <1>5. Visited(p)'
    BY VisitStep DEF Local
  <1> QED BY <1>2, <1>3, <1>4, <1>5 DEF Fine, Local

\* On to the scan or to the watch of the same node.
LEMMA SameNode ==
    ASSUME Shape, NEW p \in Procs, Local(p), NEW a \in {"scan", "watch"},
           a = "scan" => pc[p] = "start", pc[p] \in {"init", "start"},
           hand[p]["main"] = Idle,
           at' = [at EXCEPT ![p] = a], Staged(p), life' \in [Procs -> SUBSET Nodes],
           \A q \in Procs : q # p => life'[q] = life[q],
           UNCHANGED <<lock, pc, step, watching, m_watchMap, events, buffer, hand>>
    PROVE  Fine(p)
  <1>1. at'[p] = a /\ \A q \in Procs : q # p => at'[q] = at[q]
    BY DEF Shape
  <1>2. Shape'
    <2>1. at' \in [Procs -> {"call", "scan", "watch"}]
      BY DEF Shape
    <2> QED BY <2>1 DEF Shape, Staged
  <1>3. Only(p)
    BY <1>1 DEF Only, Staged
  <1>4. Callers(p)'
    BY <1>1 DEF Local, Callers
  <1>5. Visited(p)'
    <2>1. ASSUME NEW i \in 1 .. Len(Order), Done(p, i)' PROVE stage'[p][Order[i]] \in Usable
      <3>1. CASE Done(p, i)
        BY <3>1, Tree DEF Local, Visited, Staged
      <3>2. CASE ~ Done(p, i)
        <4>1. pc[p] = "init" /\ i = step[p]
          BY <2>1, <3>2 DEF Done
        <4> QED BY <4>1 DEF Staged
      <3> QED BY <3>1, <3>2
    <2> QED BY <2>1 DEF Local, Visited
  <1>6. Called(p)'
    BY DEF Local, Called
  <1> QED BY <1>2, <1>3, <1>4, <1>5, <1>6 DEF Fine, Local

\* While main visits the tree it is at a node of it, and no watcher runs.
LEMMA AtNode ==
    ASSUME Shape, NEW p \in Procs, Local(p), pc[p] \in {"init", "start"}
    PROVE  /\ Node(p) = Order[step[p]] /\ Node(p) \in Nodes /\ Node(p) \in Range(Order)
           /\ ~ watching[p] /\ (at[p] # "scan" => hand[p]["main"] = Idle)
  BY Tree DEF Local, Visited, Callers, Node

LEMMA StageSet ==
    ASSUME Shape, NEW p \in Procs, NEW n \in Nodes, NEW s \in Usable,
           pc[p] = "init" => n = Order[step[p]],
           stage' = [stage EXCEPT ![p][n] = s]
    PROVE  Staged(p)
  <1>1. stage'[p][n] = s /\ \A m \in Nodes : m # n => stage'[p][m] = stage[p][m]
    BY DEF Shape
  <1>2. \A q \in Procs : q # p => stage'[q] = stage[q]
    BY DEF Shape
  <1>3. stage' \in [Procs -> [Nodes -> Stages]]
    BY DEF Shape, Usable, Stages
  <1> QED BY <1>1, <1>2, <1>3 DEF Staged

LEMMA StageSame ==
    ASSUME Shape, NEW p \in Procs, stage' = stage,
           pc[p] = "init" => stage[p][Order[step[p]]] \in Usable
    PROVE  Staged(p)
  BY DEF Shape, Staged

LEMMA initData == ASSUME Shape, NEW p \in Procs, Local(p), init(p) PROVE Fine(p)
  <1> DEFINE n == Node(p)
  <1>1. pc[p] = "init" /\ at[p] = "call" /\ n = Order[step[p]] /\ n \in Nodes
    BY AtNode DEF init
  <1>2. stage' = [stage EXCEPT ![p][n] = "inited"]
    BY DEF init
  <1> HIDE DEF n
  <1>3. Staged(p)
    BY <1>1, <1>2, StageSet DEF Usable
  <1>4. UNCHANGED <<lock, life, watching, m_watchMap, events, buffer, hand>>
    BY DEF init, inotify
  <1>5. CASE Advance(p, "start")
    <2>1. Advance(p, After(p))
      BY <1>1, <1>5 DEF After
    <2>2. Called(p)'
      BY <1>4 DEF Local, Called
    <2> QED BY <1>1, <1>3, <1>4, <2>1, <2>2, NextNode DEF Shape
  <1>6. CASE at' = [at EXCEPT ![p] = "watch"] /\ UNCHANGED <<pc, step>>
    <2>1. hand[p]["main"] = Idle
      BY <1>1, AtNode
    <2> QED BY <1>1, <1>3, <1>4, <1>6, <2>1, SameNode DEF Shape
  <1> QED BY <1>5, <1>6 DEF init

LEMMA startData == ASSUME Shape, NEW p \in Procs, Local(p), start(p) PROVE Fine(p)
  <1> DEFINE n == Node(p)
  <1>1. pc[p] = "start" /\ at[p] = "call" /\ n \in Nodes
    BY AtNode DEF start
  <1>2. /\ stage' = [stage EXCEPT ![p][n] = "started"]
        /\ life' = [life EXCEPT ![p] = IF Handler[n] \in Threaded THEN @ \union {n} ELSE @]
    BY DEF start
  <1> HIDE DEF n
  <1>3. Staged(p)
    BY <1>1, <1>2, StageSet DEF Usable
  <1>4. life' \in [Procs -> SUBSET Nodes] /\ \A q \in Procs : q # p => life'[q] = life[q]
    BY <1>1, <1>2 DEF Shape
  <1>5. UNCHANGED <<lock, watching, m_watchMap, events, buffer, hand>>
    BY DEF start, inotify
  <1>6. CASE Advance(p, "listen")
    <2>1. Advance(p, After(p))
      BY <1>1, <1>6 DEF After
    <2>2. Called(p)'
      BY <1>5 DEF Local, Called
    <2> QED BY <1>1, <1>3, <1>4, <1>5, <2>1, <2>2, NextNode DEF Shape
  <1>7. CASE at' = [at EXCEPT ![p] = "scan"] /\ UNCHANGED <<pc, step>>
    <2>1. hand[p]["main"] = Idle
      BY <1>1, AtNode
    <2> QED BY <1>1, <1>3, <1>4, <1>5, <1>7, <2>1, SameNode
  <1> QED BY <1>6, <1>7 DEF start

\* A directory whose entry is filled stays filled, so every event the kernel
\* has has a node to go to.
LEMMA watchData == ASSUME Shape, NEW p \in Procs, Local(p), watch(p) PROVE Fine(p)
  <1> DEFINE n == Node(p)
  <1>1. at[p] = "watch" /\ pc[p] \in {"init", "start"}
    BY DEF watch, Local, Callers
  <1>2. n \in Nodes /\ n \in Range(Order) /\ Dir[n] \in Dirs /\ n # NoNode
    BY <1>1, AtNode, Directories
  <1>3. m_watchMap' = [m_watchMap EXCEPT ![p] = addWatch(m_watchMap[p], n)]
    BY DEF watch
  <1>4. UNCHANGED <<lock, stage, life, watching, events, buffer, hand>>
    BY DEF watch, tree
  <1> HIDE DEF n
  <1>5. /\ m_watchMap' \in [Procs -> [Dirs -> Nodes \union {NoNode}]]
        /\ \A q \in Procs : q # p => m_watchMap'[q] = m_watchMap[q]
        /\ m_watchMap'[p] = [m_watchMap[p] EXCEPT ![Dir[n]] = n]
    BY <1>2, <1>3 DEF Shape, addWatch
  <1>6. Called(p)'
    <2>1. \A d \in Dirs : m_watchMap'[p][d] = IF d = Dir[n] THEN n ELSE m_watchMap[p][d]
      BY <1>2, <1>5 DEF Shape
    <2>2. \A f \in Range(events[p]) \union Range(buffer[p]) : FileDir[f] \in Dirs
      <3>1. events[p] \in Seq(Files) /\ buffer[p] \in Seq(Files)
        BY DEF Shape
      <3>2. Range(events[p]) \subseteq Files /\ Range(buffer[p]) \subseteq Files
        BY <3>1 DEF Range
      <3> QED BY <3>2, Directories
    <2> QED BY <1>2, <1>4, <2>1, <2>2 DEF Local, Called
  <1>7. Staged(p)
    <2>1. pc[p] = "init" => stage[p][Order[step[p]]] \in Usable
      <3>1. pc[p] = "init" => step[p] \in 1 .. Len(Order) /\ Done(p, step[p])
        BY <1>1 DEF Done, Local, Visited
      <3> QED BY <3>1 DEF Local, Visited
    <2> QED BY <1>4, <2>1, StageSame
  <1>8. Advance(p, After(p))
    BY DEF watch, After
  <1> QED BY <1>1, <1>4, <1>5, <1>6, <1>7, <1>8, NextNode DEF Shape

-----------------------------------------------------------------------------
(* The scan, the destructors, and the end of a process.                    *)

LEMMA DestroyData == ASSUME Shape, NEW p \in Procs, Local(p), Destroy(p) PROVE Fine(p)
  <1>1. pc[p] = "destroy" /\ "ended" \in Phases
    BY DEF Destroy, Phases
  <1>2. pc'[p] \in {"destroy", "ended"} /\ at'[p] = "call"
    BY <1>1, Advanced DEF Destroy
  <1>3. UNCHANGED <<lock, life, watching, m_watchMap, events, buffer, hand>>
    BY DEF Destroy, inotify
  <1>4. /\ stage' \in [Procs -> [Nodes -> Stages]]
        /\ \A q \in Procs : q # p => stage'[q] = stage[q]
    BY DEF Destroy, Shape, Stages
  <1>5. Shape'
    BY <1>1, <1>3, <1>4, Advanced DEF Destroy, Shape
  <1>6. Only(p)
    BY <1>1, <1>3, <1>4, Advanced DEF Destroy, Only
  <1>7. Callers(p)'
    <2>1. hand[p]["main"] = Idle /\ ~ watching[p]
      BY <1>1 DEF Local, Callers
    <2> QED BY <1>2, <1>3, <2>1 DEF Local, Callers
  <1>8. Visited(p)'
    BY <1>2 DEF Visited, Done
  <1>9. Called(p)'
    BY <1>3 DEF Local, Called
  <1> QED BY <1>5, <1>6, <1>7, <1>8, <1>9 DEF Fine, Local

LEMMA ScanData ==
    ASSUME Shape, NEW p \in Procs, Local(p),
           ScanDone(p) \/ StopLife(p) \/ \E f \in Files : ScanFile(p, f)
    PROVE  Fine(p)
  <1> USE DEF tree, inotify, place
  <1>1. CASE ScanDone(p)
    <2>1. pc[p] = "start"
      BY <1>1 DEF ScanDone, Local, Callers
    <2>2. Staged(p)
      BY <1>1, <2>1, StageSame DEF ScanDone
    <2> QED BY <1>1, <2>1, <2>2, SameNode DEF ScanDone, Shape
  <1>2. CASE StopLife(p)
    <2>1. Shape'
      BY <1>2 DEF StopLife, Shape
    <2>2. Only(p)
      BY <1>2 DEF StopLife, Only
    <2>3. Local(p)'
      BY <1>2 DEF StopLife, Local, Callers, Visited, Done, Called
    <2> QED BY <2>1, <2>2, <2>3 DEF Fine
  <1>3. ASSUME NEW f \in Files, ScanFile(p, f) PROVE Fine(p)
    <2>1. at[p] = "scan" /\ pc[p] = "start"
      BY <1>3 DEF ScanFile, Local, Callers
    <2>2. Node(p) \in Nodes /\ Node(p) \in Range(Order)
      BY <2>1, AtNode
    <2>3. /\ hand' = [hand EXCEPT ![p]["main"] = <<Node(p), f>>]
          /\ UNCHANGED <<lock, pc, step, at, stage, life, watching, m_watchMap, events, buffer>>
      BY <1>3 DEF ScanFile
    <2>4. /\ hand' \in [Procs -> [Threads -> (Nodes \X Files) \union {Idle}]]
          /\ \A q \in Procs \ {p} : hand'[q] = hand[q]
          /\ hand'[p]["main"] = <<Node(p), f>>
          /\ hand'[p]["watcher"] = hand[p]["watcher"]
      BY <2>2, <2>3 DEF Shape, Threads
    <2>5. Shape'
      BY <2>3, <2>4 DEF Shape
    <2>6. Only(p)
      BY <2>3, <2>4 DEF Only
    <2>7. Callers(p)'
      BY <2>1, <2>3, <2>4 DEF Local, Callers
    <2>8. Visited(p)'
      BY <2>3 DEF Local, Visited, Done
    <2>9. Called(p)'
      BY <2>2, <2>3, <2>4 DEF Local, Called, Threads
    <2> QED BY <2>5, <2>6, <2>7, <2>8, <2>9 DEF Fine, Local
  <1> QED BY <1>1, <1>2, <1>3

LEMMA ResetData ==
    ASSUME Shape, NEW p \in Procs, Local(p), Reset(p)
    PROVE  Fine(p) /\ ~ Engaged(p)'
  <1> USE DEF Reset, Goto
  <1>1. /\ pc'[p] = "off" /\ step'[p] = 1 /\ at'[p] = "call" /\ life'[p] = {}
        /\ watching'[p] = FALSE /\ m_watchMap'[p] = [d \in Dirs |-> NoNode]
        /\ events'[p] = << >> /\ buffer'[p] = << >>
        /\ hand'[p] = [t \in Threads |-> Idle]
    BY DEF Shape
  <1>2. Shape'
    <2>1. lock' \in Procs \union {NoProc} /\ pc' \in [Procs -> Phases]
      BY DEF Shape, Phases
    <2>2. step' \in [Procs -> Nat] /\ at' \in [Procs -> {"call", "scan", "watch"}]
      BY DEF Shape
    <2>3. stage' \in [Procs -> [Nodes -> Stages]] /\ life' \in [Procs -> SUBSET Nodes]
      BY DEF Shape, Stages
    <2>4. watching' \in [Procs -> BOOLEAN]
      BY DEF Shape
    <2>5. m_watchMap' \in [Procs -> [Dirs -> Nodes \union {NoNode}]]
      BY DEF Shape
    <2>6. events' \in [Procs -> Seq(Files)] /\ buffer' \in [Procs -> Seq(Files)]
      BY DEF Shape
    <2>7. hand' \in [Procs -> [Threads -> (Nodes \X Files) \union {Idle}]]
      BY DEF Shape
    <2> QED BY <2>1, <2>2, <2>3, <2>4, <2>5, <2>6, <2>7 DEF Shape
  <1>3. Only(p)
    BY DEF Only, Shape
  <1>4. Callers(p)'
    BY <1>1 DEF Callers, Threads
  <1>5. Visited(p)'
    BY <1>1 DEF Visited, Done
  <1>6. Called(p)'
    BY <1>1 DEF Called, Range
  <1>7. ~ Engaged(p)'
    BY <1>1 DEF Engaged, Works
  <1> QED BY <1>2, <1>3, <1>4, <1>5, <1>6, <1>7 DEF Fine, Local

-----------------------------------------------------------------------------
(* The watcher's thread, the end of a doProc, the life threads.            *)

LEMMA EventsOf ==
    ASSUME Shape, NEW p \in Procs
    PROVE  /\ events[p] \in Seq(Files) /\ buffer[p] \in Seq(Files)
           /\ Range(events[p]) \subseteq Files /\ Range(buffer[p]) \subseteq Files
           /\ buffer[p] # << >> =>
                /\ Head(buffer[p]) \in Range(buffer[p]) /\ Head(buffer[p]) \in Files
                /\ Tail(buffer[p]) \in Seq(Files)
                /\ Range(Tail(buffer[p])) \subseteq Range(buffer[p])
  <1>1. events[p] \in Seq(Files) /\ buffer[p] \in Seq(Files)
    BY DEF Shape
  <1>2. Range(events[p]) \subseteq Files /\ Range(buffer[p]) \subseteq Files
    BY <1>1 DEF Range
  <1>3. ASSUME buffer[p] # << >>
        PROVE  /\ Head(buffer[p]) \in Range(buffer[p]) /\ Head(buffer[p]) \in Files
               /\ Tail(buffer[p]) \in Seq(Files)
               /\ Range(Tail(buffer[p])) \subseteq Range(buffer[p])
    <2> DEFINE b == buffer[p]
    <2>1. b \in Seq(Files) /\ b # << >>
      BY <1>1, <1>3
    <2> HIDE DEF b
    <2>2. /\ Head(b) = b[1] /\ 1 \in DOMAIN b
          /\ Tail(b) \in Seq(Files)
          /\ \A i \in DOMAIN Tail(b) : Tail(b)[i] = b[i + 1] /\ i + 1 \in DOMAIN b
      BY <2>1
    <2>3. Head(b) \in Range(b) /\ Range(Tail(b)) \subseteq Range(b) /\ Head(b) \in Files
      BY <2>1, <2>2 DEF Range
    <2> QED BY <2>2, <2>3 DEF b
  <1> QED BY <1>1, <1>2, <1>3

LEMMA ReadData == ASSUME Shape, NEW p \in Procs, Local(p), Read(p) PROVE Fine(p)
  <1>1. UNCHANGED <<lock, pc, step, at, stage, life, watching, m_watchMap, hand>>
    BY DEF Read, place, tree
  <1>2. /\ buffer'[p] = events[p] /\ events'[p] = << >>
        /\ \A q \in Procs : q # p => buffer'[q] = buffer[q] /\ events'[q] = events[q]
    BY DEF Read, Shape
  <1>3. events' \in [Procs -> Seq(Files)] /\ buffer' \in [Procs -> Seq(Files)]
    BY EventsOf DEF Read, Shape
  <1>4. Shape'
    BY <1>1, <1>3 DEF Shape
  <1>5. Only(p)
    BY <1>1, <1>2 DEF Only
  <1>6. Callers(p)'
    BY <1>1 DEF Read, Local, Callers
  <1>7. Visited(p)'
    BY <1>1 DEF Local, Visited, Done
  <1>8. Called(p)'
    BY <1>1, <1>2 DEF Local, Called, Range
  <1> QED BY <1>4, <1>5, <1>6, <1>7, <1>8 DEF Fine, Local

LEMMA OnEventData == ASSUME Shape, NEW p \in Procs, Local(p), OnEvent(p) PROVE Fine(p)
  <1> DEFINE f == Head(buffer[p])
             n == m_watchMap[p][FileDir[f]]
  <1>1. UNCHANGED <<lock, pc, step, at, stage, life, watching, m_watchMap, events>>
    BY DEF OnEvent, place, tree
  <1>2. buffer[p] # << >> /\ watching[p]
    BY DEF OnEvent, Local, Callers
  <1>3. f \in Files /\ f \in Range(buffer[p])
    BY <1>2, EventsOf
  <1>4. n \in Range(Order) /\ n \in Nodes
    <2>1. FileDir[f] \in Dirs
      BY <1>3, Directories
    <2> QED BY <1>3, <2>1, Tree DEF Local, Called
  <1>5. hand' = hand \/ hand' = [hand EXCEPT ![p]["watcher"] = <<n, f>>]
    BY DEF OnEvent
  <1>6. buffer' = [buffer EXCEPT ![p] = Tail(buffer[p])]
    BY DEF OnEvent, Rest
  <1> HIDE DEF f, n
  <1>7. /\ hand' \in [Procs -> [Threads -> (Nodes \X Files) \union {Idle}]]
        /\ \A q \in Procs \ {p} : hand'[q] = hand[q]
        /\ hand'[p]["main"] = hand[p]["main"]
        /\ hand'[p]["watcher"] \in {hand[p]["watcher"], <<n, f>>}
    <2>1. <<n, f>> \in (Nodes \X Files) \union {Idle}
      BY <1>3, <1>4
    <2>2. CASE hand' = hand
      BY <2>2 DEF Shape
    <2>3. CASE hand' = [hand EXCEPT ![p]["watcher"] = <<n, f>>]
      BY <2>1, <2>3 DEF Shape, Threads
    <2> QED BY <1>5, <2>2, <2>3
  <1>8. buffer' \in [Procs -> Seq(Files)] /\ Range(buffer'[p]) \subseteq Range(buffer[p])
    BY <1>2, <1>6, EventsOf DEF Shape
  <1>9. \A q \in Procs \ {p} : buffer'[q] = buffer[q]
    BY <1>6 DEF Shape
  <1>10. Shape'
    BY <1>1, <1>7, <1>8 DEF Shape
  <1>11. Only(p)
    BY <1>1, <1>7, <1>9 DEF Only
  <1>12. Callers(p)'
    BY <1>1, <1>2, <1>7 DEF Local, Callers
  <1>13. Visited(p)'
    BY <1>1 DEF Local, Visited, Done
  <1>14. Called(p)'
    BY <1>1, <1>4, <1>7, <1>8 DEF Local, Called, Threads
  <1> QED BY <1>10, <1>11, <1>12, <1>13, <1>14 DEF Fine, Local

LEMMA WatcherExitData ==
    ASSUME Shape, NEW p \in Procs, Local(p), WatcherExit(p) \/ WatcherFails(p) PROVE Fine(p)
  <1>1. UNCHANGED <<lock, pc, step, at, stage, life, m_watchMap, events, buffer, hand>>
    BY DEF WatcherExit, WatcherFails, place, tree
  <1>2. /\ watching' \in [Procs -> BOOLEAN] /\ watching'[p] = FALSE
        /\ \A q \in Procs \ {p} : watching'[q] = watching[q]
    BY DEF WatcherExit, WatcherFails, Shape
  <1>3. Shape'
    BY <1>1, <1>2 DEF Shape
  <1>4. Only(p)
    BY <1>1, <1>2 DEF Only
  <1>5. Callers(p)'
    BY <1>1, <1>2 DEF WatcherExit, WatcherFails, Local, Callers
  <1>6. Visited(p)'
    BY <1>1 DEF Local, Visited, Done
  <1>7. Called(p)'
    BY <1>1 DEF Local, Called
  <1> QED BY <1>3, <1>4, <1>5, <1>6, <1>7 DEF Fine, Local

LEMMA ReturnData ==
    ASSUME Shape, NEW p \in Procs, Local(p), NEW t \in Threads, Return(p, t) PROVE Fine(p)
  <1>1. UNCHANGED <<lock, pc, step, at, stage, life, watching, m_watchMap, events, buffer>>
    BY DEF Return, place, tree, inotify
  <1>2. hand' = [hand EXCEPT ![p][t] = Idle]
    BY DEF Return
  <1>3. /\ hand' \in [Procs -> [Threads -> (Nodes \X Files) \union {Idle}]]
        /\ \A q \in Procs \ {p} : hand'[q] = hand[q]
        /\ \A u \in Threads : hand'[p][u] \in {hand[p][u], Idle}
    BY <1>2 DEF Shape
  <1>4. Shape'
    BY <1>1, <1>3 DEF Shape
  <1>5. Only(p)
    BY <1>1, <1>3 DEF Only
  <1>6. Callers(p)'
    BY <1>1, <1>3 DEF Local, Callers, Threads
  <1>7. Visited(p)'
    BY <1>1 DEF Local, Visited, Done
  <1>8. Called(p)'
    BY <1>1, <1>3 DEF Local, Called
  <1> QED BY <1>4, <1>5, <1>6, <1>7, <1>8 DEF Fine, Local

LEMMA LifeExitData ==
    ASSUME Shape, NEW p \in Procs, Local(p), NEW n \in Nodes, LifeExit(p, n)
    PROVE  Fine(p) /\ (Engaged(p)' => Engaged(p))
  <1>1. /\ UNCHANGED <<lock, pc, step, at, stage, watching, m_watchMap, events, buffer, hand>>
        /\ n \in life[p]
    BY DEF LifeExit, place, inotify
  <1>2. life' \in [Procs -> SUBSET Nodes] /\ \A q \in Procs \ {p} : life'[q] = life[q]
    BY DEF LifeExit, Shape
  <1>3. Shape'
    BY <1>1, <1>2 DEF Shape
  <1>4. Only(p)
    BY <1>1, <1>2 DEF Only
  <1>5. Local(p)'
    BY <1>1 DEF Local, Callers, Visited, Done, Called
  <1>6. Engaged(p)
    BY <1>1 DEF Engaged, Works
  <1> QED BY <1>3, <1>4, <1>5, <1>6 DEF Fine

\* A file is closed: the kernel notes it for the processes that watch its
\* directory.
LEMMA CloseData ==
    ASSUME Shape, NEW f \in Files, Close(f)
    PROVE  /\ Shape' /\ lock' = lock
           /\ \A p \in Procs : (Local(p) => Local(p)') /\ (Engaged(p)' <=> Engaged(p))
  <1>1. UNCHANGED <<lock, pc, step, at, stage, life, watching, m_watchMap, buffer, hand>>
    BY DEF Close, place, tree
  <1>2. events' = [p \in Procs |-> IF m_watchMap[p][FileDir[f]] # NoNode
                                  THEN Append(events[p], f) ELSE events[p]]
    BY DEF Close
  <1>3. \A p \in Procs : events[p] \in Seq(Files)
    BY DEF Shape
  <1>4. events' \in [Procs -> Seq(Files)]
    BY <1>2, <1>3
  <1>5. Shape'
    BY <1>1, <1>4 DEF Shape
  <1>6. ASSUME NEW p \in Procs, Local(p) PROVE Local(p)'
    <2> DEFINE e == events[p]
               heeds == m_watchMap[p][FileDir[f]] # NoNode
    <2>1. e \in Seq(Files) /\ events'[p] = IF heeds THEN Append(e, f) ELSE e
      BY <1>2, <1>3
    <2> HIDE DEF e, heeds
    <2>2. \A g \in Range(events'[p]) : g \in Range(e) \/ (g = f /\ heeds)
      <3>1. \A i \in DOMAIN Append(e, f) :
                Append(e, f)[i] = f \/ (i \in DOMAIN e /\ Append(e, f)[i] = e[i])
        BY <2>1
      <3>2. CASE heeds
        <4>1. Range(events'[p]) = {Append(e, f)[i] : i \in DOMAIN Append(e, f)}
          BY <2>1, <3>2 DEF Range
        <4> QED BY <3>1, <3>2, <4>1 DEF Range
      <3>3. CASE ~ heeds
        BY <2>1, <3>3
      <3> QED BY <3>2, <3>3
    <2> USE DEF e, heeds
    <2>3. Called(p)'
      BY <1>1, <1>6, <2>2 DEF Local, Called
    <2>4. Callers(p)' /\ Visited(p)'
      BY <1>1, <1>6 DEF Local, Callers, Visited, Done
    <2> QED BY <2>3, <2>4 DEF Local
  <1>7. ASSUME NEW p \in Procs PROVE Engaged(p)' <=> Engaged(p)
    BY <1>1 DEF Engaged, Works
  <1> QED BY <1>1, <1>5, <1>6, <1>7

-----------------------------------------------------------------------------
(* The invariant.                                                          *)

\* Every step of a process that is not the end of its life.
Acts(p) ==
    \/ Phase(p) \/ init(p) \/ start(p) \/ watch(p) \/ Destroy(p)
    \/ ScanDone(p) \/ StopLife(p) \/ (\E f \in Files : ScanFile(p, f))
    \/ Read(p) \/ OnEvent(p) \/ WatcherExit(p) \/ WatcherFails(p)
    \/ \E t \in Threads : Return(p, t)

LEMMA ActsData == ASSUME Shape, NEW p \in Procs, Local(p), Acts(p) PROVE Fine(p)
  BY PhaseData, initData, startData, watchData, DestroyData, ScanData, ReadData, OnEventData,
     WatcherExitData, ReturnData DEF Acts

\* Only pid_lock begins the work of a process, and it takes the lock; every
\* other step is one of a process at work.
LEMMA ActsLock ==
    ASSUME Shape, NEW p \in Procs, Local(p), Acts(p)
    PROVE  \/ SameLock(p)
           \/ UseLock /\ lock = NoProc /\ lock' = p
           \/ ~ UseLock
  <1>1. CASE PidLock(p)
    <2>1. CASE LockFree(p)
      BY <1>1, <2>1 DEF PidLock, LockFree
    <2>2. CASE ~ LockFree(p)
      <3>1. /\ lock' = lock /\ pc' = [pc EXCEPT ![p] = "failed"]
            /\ UNCHANGED <<life, watching, hand>>
        BY <1>1, <2>2 DEF PidLock, Goto, tree, inotify
      <3>2. pc'[p] = "failed"
        BY <3>1 DEF Shape
      <3> QED BY <3>1, <3>2 DEF SameLock, Engaged, Works
    <2> QED BY <2>1, <2>2
  <1>2. CASE Launch(p)
    <2>1. pc'[p] = "lock" /\ UNCHANGED <<lock, life, watching, hand>>
      BY <1>2 DEF Launch, Goto, tree, inotify, Shape
    <2> QED BY <2>1 DEF SameLock, Engaged, Works
  <1>3. ASSUME ~ PidLock(p), ~ Launch(p) PROVE lock' = lock /\ Engaged(p)
    <2>1. CASE Phase(p)
      BY <1>3, <2>1 DEF Phase, create, Fails, WatcherStart, Listens, Sigterm, StopWatcher,
                        JoinWatcher, Engaged
    <2>2. CASE init(p) \/ start(p) \/ Destroy(p) \/ StopLife(p)
      BY <2>2 DEF init, start, Destroy, StopLife, Engaged
    <2>3. CASE watch(p) \/ ScanDone(p) \/ \E f \in Files : ScanFile(p, f)
      BY <2>3 DEF watch, ScanDone, ScanFile, Engaged, Local, Callers
    <2>4. CASE Read(p) \/ OnEvent(p) \/ WatcherExit(p) \/ WatcherFails(p)
      BY <2>4 DEF Read, OnEvent, WatcherExit, WatcherFails, Engaged, Works, Local, Callers
    <2>5. CASE \E t \in Threads : Return(p, t)
      BY <2>5 DEF Return, Engaged, Works
    <2> QED BY <1>3, <2>1, <2>2, <2>3, <2>4, <2>5 DEF Acts
  <1> QED BY <1>1, <1>2, <1>3 DEF SameLock

\* A step of one process.
LEMMA OneMoves ==
    ASSUME IInv, NEW p \in Procs, Fine(p),
           \/ SameLock(p)
           \/ UseLock /\ lock = NoProc /\ lock' = p
           \/ ~ UseLock
           \/ ~ Engaged(p)' /\ lock' = IF lock = p THEN NoProc ELSE lock
    PROVE  IInv'
  <1>1. ASSUME NEW q \in Procs PROVE Local(q)'
    BY OthersStay DEF IInv, Fine
  <1>2. ASSUME UseLock, NEW q \in Procs, Engaged(q)' PROVE lock' = q
    <2>1. q # p => Engaged(q)
      BY <1>2, OthersStay DEF Fine
    <2>2. \A r \in Procs : Engaged(r) => lock = r
      BY <1>2 DEF IInv, LockHeld
    <2>3. q # NoProc
      BY ProcAssumption
    <2>4. CASE SameLock(p)
      BY <1>2, <2>1, <2>2, <2>4 DEF SameLock
    <2>5. CASE lock = NoProc /\ lock' = p
      BY <2>1, <2>2, <2>3, <2>5
    <2>6. CASE ~ Engaged(p)' /\ lock' = IF lock = p THEN NoProc ELSE lock
      BY <1>2, <2>1, <2>2, <2>6
    <2> QED BY <1>2, <2>4, <2>5, <2>6
  <1> QED BY <1>1, <1>2 DEF IInv, Fine, LockHeld

LEMMA NextInv == IInv /\ [Next]_vars => IInv'
  <1> SUFFICES ASSUME IInv, [Next]_vars PROVE IInv'
    OBVIOUS
  <1>1. Shape /\ \A p \in Procs : Local(p)
    BY DEF IInv
  <1>2. ASSUME NEW p \in Procs, Acts(p) PROVE IInv'
    BY <1>1, <1>2, ActsData, ActsLock, OneMoves
  <1>3. ASSUME NEW p \in Procs, Reset(p) PROVE IInv'
    BY <1>1, <1>3, ResetData, OneMoves DEF Reset
  <1>4. ASSUME NEW p \in Procs, NEW n \in Nodes, LifeExit(p, n) PROVE IInv'
    <2>1. SameLock(p)
      BY <1>1, <1>4, LifeExitData DEF LifeExit, SameLock
    <2> QED BY <1>1, <1>4, <2>1, LifeExitData, OneMoves
  <1>5. ASSUME UNCHANGED <<lock, place, pc, stage, life, inotify, hand>> PROVE IInv'
    BY <1>5 DEF IInv, Shape, LockHeld, Local, Callers, Visited, Done, Called, Engaged, Works,
                place, inotify
  <1>6. ASSUME NEW p \in Procs, NEW n \in Nodes, NEW f \in Files,
               LifeTakes(p, n, f) \/ LifeSpins(p, n, f)
        PROVE  IInv'
    BY <1>5, <1>6 DEF LifeTakes, LifeSpins, mem, tree
  <1>7. ASSUME NEW f \in Files, Close(f) PROVE IInv'
    BY <1>7, CloseData DEF IInv, LockHeld
  <1>8. ASSUME NEW p \in Procs,
               \/ Launch(p) \/ Sigterm(p) \/ Killed(p) \/ Main(p) \/ lifeProc(p)
               \/ WatcherFails(p)
        PROVE  Acts(p) \/ Reset(p)
    BY <1>8 DEF Main, lifeProc, Killed, Exit, Acts, Phase, Threads
  <1>9. CASE Next
    BY <1>2, <1>3, <1>4, <1>6, <1>7, <1>8, <1>9 DEF Next
  <1>10. CASE UNCHANGED vars
    BY <1>5, <1>10 DEF vars, mem, tree
  <1> QED BY <1>9, <1>10

LEMMA Invariance == Spec => []IInv
  BY InitInv, NextInv, PTL DEF Spec

-----------------------------------------------------------------------------
(* The rest of the types.                                                  *)

Others ==
    /\ given \in [Procs -> Configs]
    /\ step \in [Procs -> 1 .. Len(Order)]
    /\ stopping \in [Procs -> SUBSET Nodes] /\ spinning \in [Procs -> SUBSET Nodes]
    /\ m_run \in [Procs -> BOOLEAN]
    /\ scanned \in [Procs -> SUBSET Files]
    /\ file \in [Files -> {"none", "closed", "gone"}]
    /\ told \subseteq Files \X Nodes /\ heard \subseteq Files
    /\ faults \in 0 .. MaxFaults

LEMMA FaultType == Others /\ Fault => faults' \in 0 .. MaxFaults
  BY BoundAssumption DEF Others, Fault

\* Main goes on by one node while there is a next one.
LEMMA AdvanceType ==
    ASSUME Others, NEW p \in Procs, NEW ph, Advance(p, ph)
    PROVE  step' \in [Procs -> 1 .. Len(Order)] /\ scanned' \in [Procs -> SUBSET Files]
  <1>1. Len(Order) \in Nat /\ 1 \in 1 .. Len(Order) /\ step[p] \in 1 .. Len(Order)
    BY Tree DEF Others
  <1>2. PICK i \in 1 .. Len(Order) : step' = [step EXCEPT ![p] = i]
    <2>1. CASE HasNext(p)
      <3>1. step[p] + 1 \in 1 .. Len(Order) /\ step' = [step EXCEPT ![p] = step[p] + 1]
        BY <1>1, <2>1 DEF Advance, HasNext
      <3> QED BY <3>1
    <2>2. CASE ~ HasNext(p)
      BY <1>1, <2>2 DEF Advance
    <2> QED BY <2>1, <2>2
  <1>3. step' \in [Procs -> 1 .. Len(Order)]
    BY <1>2 DEF Others
  <1>4. scanned' \in [Procs -> SUBSET Files]
    BY DEF Advance, Others
  <1> QED BY <1>3, <1>4

LEMMA MainTypes ==
    ASSUME Shape, Others, NEW p \in Procs, Local(p),
           \/ Launch(p) \/ Sigterm(p) \/ Killed(p) \/ Main(p) \/ lifeProc(p)
           \/ WatcherFails(p),
           \A t \in Threads : ~ Return(p, t)
    PROVE  Others'
  <1>1. CASE Launch(p)
    <2>1. given' \in [Procs -> Configs]
      BY <1>1 DEF Launch, Others
    <2> QED BY <1>1, <2>1 DEF Launch, Others, tree, inotify, world
  <1>2. CASE PidLock(p) \/ Sigterm(p) \/ JoinWatcher(p)
    BY <1>2 DEF PidLock, Sigterm, JoinWatcher, Others, place, tree, inotify, world
  <1>3. CASE create(p) \/ Fails(p)
    <2>1. faults' \in 0 .. MaxFaults
      BY <1>3, FaultType DEF create, Fails, Others
    <2> QED BY <1>3, <2>1 DEF create, Fails, Others, place, tree, inotify, world
  <1>4. CASE init(p)
    <2>1. step' \in [Procs -> 1 .. Len(Order)] /\ scanned' \in [Procs -> SUBSET Files]
      BY <1>4, AdvanceType DEF init, Others
    <2>2. told' \subseteq Files \X Nodes
      <3>1. Node(p) \in Nodes
        BY <1>4, AtNode DEF init
      <3> QED BY <1>4, <3>1 DEF init, Others, Lying
    <2> QED BY <1>4, <2>1, <2>2 DEF init, Others, inotify
  <1>5. CASE start(p)
    <2>1. step' \in [Procs -> 1 .. Len(Order)] /\ scanned' \in [Procs -> SUBSET Files]
      BY <1>5, AdvanceType DEF start, Others
    <2> QED BY <1>5, <2>1 DEF start, Others, inotify, world
  <1>6. ASSUME NEW f \in Files, ScanFile(p, f) PROVE Others'
    <2>1. scanned' \in [Procs -> SUBSET Files]
      BY <1>6 DEF ScanFile, Others
    <2> QED BY <1>6, <2>1 DEF ScanFile, Others, tree, inotify, world
  <1>7. CASE ScanDone(p)
    BY <1>7 DEF ScanDone, Others, tree, inotify, world
  <1>8. CASE watch(p)
    <2>1. step' \in [Procs -> 1 .. Len(Order)] /\ scanned' \in [Procs -> SUBSET Files]
      BY <1>8, AdvanceType DEF watch
    <2> QED BY <1>8, <2>1 DEF watch, Others, tree, world
  <1>9. CASE WatcherStart(p) \/ StopWatcher(p)
    <2>1. m_run' \in [Procs -> BOOLEAN]
      BY <1>9 DEF WatcherStart, StopWatcher, Others
    <2> QED BY <1>9, <2>1 DEF WatcherStart, StopWatcher, Others, place, tree, world
  <1>10. CASE StopLife(p)
    <2>1. Node(p) \in Nodes
      BY <1>10 DEF StopLife, Shape
    <2>2. stopping' \in [Procs -> SUBSET Nodes]
      BY <1>10, <2>1 DEF StopLife, Others
    <2> QED BY <1>10, <2>2 DEF StopLife, Others, place, inotify, world
  <1>11. CASE Destroy(p)
    <2>1. step' \in [Procs -> 1 .. Len(Order)] /\ scanned' \in [Procs -> SUBSET Files]
      BY <1>11, AdvanceType DEF Destroy
    <2> QED BY <1>11, <2>1 DEF Destroy, Others, inotify, world
  <1>12. CASE Exit(p) \/ Killed(p)
    <2>1. Reset(p) /\ faults' \in 0 .. MaxFaults
      BY <1>12, FaultType DEF Exit, Killed, Others
    <2>2. step' \in [Procs -> 1 .. Len(Order)]
      BY <2>1, Tree DEF Reset, Others
    <2>3. /\ stopping' \in [Procs -> SUBSET Nodes] /\ spinning' \in [Procs -> SUBSET Nodes]
          /\ m_run' \in [Procs -> BOOLEAN]
          /\ scanned' \in [Procs -> SUBSET Files] /\ heard' \subseteq Files
      BY <2>1 DEF Reset, Others
    <2> QED BY <2>1, <2>2, <2>3 DEF Reset, Others
  <1>13. CASE Read(p) \/ OnEvent(p) \/ WatcherExit(p)
    <2>1. UNCHANGED <<place, stopping, spinning, m_run, world, faults>>
      BY <1>13 DEF Read, OnEvent, WatcherExit, tree
    <2> QED BY <2>1 DEF Others, place, world
  <1>14. CASE WatcherFails(p)
    <2>1. faults' \in 0 .. MaxFaults
      BY <1>14, FaultType DEF WatcherFails
    <2>2. UNCHANGED <<place, stopping, spinning, m_run, world>>
      BY <1>14 DEF WatcherFails, tree
    <2> QED BY <2>1, <2>2 DEF Others, place, world
  <1> QED
    BY <1>1, <1>2, <1>3, <1>4, <1>5, <1>6, <1>7, <1>8, <1>9, <1>10, <1>11, <1>12, <1>13, <1>14
       DEF Main, lifeProc, Threads

LEMMA OthersStep ==
    ASSUME Shape, Others, \A p \in Procs : Local(p), Next
    PROVE  Others'
  <1>1. ASSUME NEW p \in Procs, NEW t \in Threads, Return(p, t) PROVE Others'
    <2>1. hand[p][t][1] \in Nodes /\ hand[p][t][2] \in Files
      BY <1>1 DEF Return, Shape
    <2> DEFINE n == hand[p][t][1]
               f == hand[p][t][2]
    <2>2. n \in Nodes /\ f \in Files
      BY <2>1
    <2>3. PICK k \in DOMAIN Order :
             /\ Fault \/ UNCHANGED faults
             /\ told' = told \union {<<f, m>> : m \in {m \in CalledBy(n, k) : Handler[m] # "none"}}
             /\ file' = IF HasPipeset(CalledBy(n, k)) THEN [file EXCEPT ![f] = "gone"] ELSE file
      BY <1>1 DEF Return
    <2> HIDE DEF n, f
    <2>4. CalledBy(n, k) \subseteq Nodes
      BY DEF CalledBy, Callees
    <2>5. told' \subseteq Files \X Nodes
      BY <2>2, <2>3, <2>4 DEF Others
    <2>6. file' \in [Files -> {"none", "closed", "gone"}]
      BY <2>3 DEF Others
    <2>7. faults' \in 0 .. MaxFaults
      BY <2>3, FaultType DEF Others
    <2> QED BY <1>1, <2>5, <2>6, <2>7 DEF Return, Others, place, tree, inotify
  <1>2. ASSUME NEW p \in Procs,
               \/ Launch(p) \/ Sigterm(p) \/ Killed(p) \/ Main(p) \/ lifeProc(p)
               \/ WatcherFails(p)
        PROVE  Others'
    BY <1>1, <1>2, MainTypes
  <1>3. ASSUME NEW p \in Procs, NEW n \in Nodes, LifeExit(p, n) PROVE Others'
    BY <1>3 DEF LifeExit, Others, place, inotify, world
  <1>4. ASSUME NEW p \in Procs, NEW n \in Nodes, NEW f \in Files, LifeTakes(p, n, f) PROVE Others'
    <2>1. file' \in [Files -> {"none", "closed", "gone"}]
      BY <1>4 DEF LifeTakes, Others
    <2> QED BY <1>4, <2>1 DEF LifeTakes, Others, mem, place, tree, inotify
  <1>5. ASSUME NEW p \in Procs, NEW n \in Nodes, NEW f \in Files, LifeSpins(p, n, f) PROVE Others'
    <2>1. spinning' \in [Procs -> SUBSET Nodes]
      BY <1>5 DEF LifeSpins, Others
    <2>2. faults' \in 0 .. MaxFaults
      BY <1>5, FaultType DEF LifeSpins
    <2> QED BY <1>5, <2>1, <2>2 DEF LifeSpins, Others, place, inotify, world
  <1>6. ASSUME NEW f \in Files, Close(f) PROVE Others'
    <2>1. file' \in [Files -> {"none", "closed", "gone"}] /\ heard' \subseteq Files
      BY <1>6 DEF Close, Others
    <2> QED BY <1>6, <2>1 DEF Close, Others, place, tree
  <1> QED BY <1>2, <1>3, <1>4, <1>6, <1>5 DEF Next

LEMMA InitOthers == Init => Others
  <1> SUFFICES ASSUME Init PROVE Others
    OBVIOUS
  <1>1. given \in [Procs -> Configs]
    BY ConfigAssumption DEF Init
  <1>2. step \in [Procs -> 1 .. Len(Order)]
    BY Tree DEF Init
  <1>3. faults \in 0 .. MaxFaults
    BY BoundAssumption DEF Init
  <1> QED BY <1>1, <1>2, <1>3 DEF Init, Others

-----------------------------------------------------------------------------
(* What follows from it.                                                   *)

(***************************************************************************)
(* Every state of the processes is one of the types: Node::init and start  *)
(* and the destructors go over the tree without running off its end, and   *)
(* main is never at more nodes than there are.                             *)
(***************************************************************************)
THEOREM TypeCorrect == Spec => []TypeOK
  <1>1. IInv /\ Others /\ [Next]_vars => Others'
    <2>1. ASSUME UNCHANGED vars, Others PROVE Others'
      BY <2>1 DEF vars, mem, place, tree, inotify, world, Others
    <2> QED BY <2>1, OthersStep DEF IInv
  <1>2. IInv /\ Others => TypeOK
    <2> SUFFICES ASSUME IInv, Others PROVE TypeOK
      OBVIOUS
    <2>1. step \in [Procs -> 1 .. Cardinality(Nodes)]
      <3>1. \A i \in 1 .. Len(Order) : i \in 1 .. Cardinality(Nodes)
        <4>1. Len(Order) <= Cardinality(Nodes)
          BY OrderFacts
        <4>2. Len(Order) \in Nat /\ Cardinality(Nodes) \in Nat
          BY Tree, SubFacts
        <4> QED BY <4>1, <4>2
      <3> QED BY <3>1 DEF Others
    <2>2. \A p \in Procs, t \in Threads : hand[p][t] \in (Nodes \X Files) \union {Idle}
      BY DEF IInv, Shape
    <2> QED BY <2>1, <2>2 DEF IInv, Shape, Others, TypeOK, Stages
  <1> QED BY <1>1, <1>2, InitOthers, Invariance, PTL DEF Spec

(***************************************************************************)
(* With -pid_lock two processes are never at work at the same time: the    *)
(* lock is taken before FlexEtl::init, it is held when a thread runs or a  *)
(* doProc does, and the destructors join every thread before ~PidFile.     *)
(***************************************************************************)
THEOREM OnlyOneAtWork == Spec => []OneProcess
  <1>1. IInv => OneProcess
    BY DEF IInv, LockHeld, Engaged, OneProcess
  <1> QED BY <1>1, Invariance, PTL

(***************************************************************************)
(* For any tree and any configuration, doProc of a process's nodes is run  *)
(* by one thread at a time, and the node and those below it that it calls, *)
(* through pipes at any depth, have been through Handler::init and not     *)
(* through their destructors.                                              *)
(***************************************************************************)
THEOREM HandlersAreSafe == Spec => []CallsAreSafe
  <1> SUFFICES ASSUME IInv PROVE CallsAreSafe
    BY Invariance, PTL
  <1>1. ASSUME NEW p \in Procs, NEW t \in Threads, hand[p][t] # Idle
        PROVE  pc[p] \in {"start", "wait", "stop", "join"}
    BY <1>1 DEF IInv, Local, Callers, Threads
  <1>2. OneCaller
    BY DEF IInv, Local, Callers, OneCaller
  <1>3. CalleesReady
    <2> SUFFICES ASSUME NEW p \in Procs, NEW t \in Threads, hand[p][t] # Idle,
                        NEW m \in Callees(hand[p][t][1])
                 PROVE  stage[p][m] \in Usable
      BY DEF CalleesReady, Usable
    <2>1. hand[p][t][1] \in Range(Order)
      BY DEF IInv, Local, Called
    <2>2. m \in Range(Order)
      BY <2>1, Tree
    <2>3. PICK i \in 1 .. Len(Order) : m = Order[i]
      BY <2>2, Tree
    <2>4. Done(p, i)
      BY <1>1 DEF Done
    <2> QED BY <2>3, <2>4 DEF IInv, Local, Visited
  <1> QED BY <1>2, <1>3 DEF CallsAreSafe

=============================================================================
