---------------------------- MODULE MetricsProofs ----------------------------
(***************************************************************************)
(* Proofs about Metrics for any counters, names, numbers and faults: every *)
(* count is at each moment in one place, the minutes of the reports are    *)
(* all different, and those written come in their order but for what a     *)
(* broken connection refused.                                              *)
(***************************************************************************)
EXTENDS Metrics, WellFoundedInduction, TLAPS

MinutesOf(q) == [i \in DOMAIN q |-> q[i].minute]
Queued(p) == MinutesOf(m_sendQueue[p])

InHand == IF sender = "write" THEN {hand.minute} ELSE {}

\* The minutes of all reports the sender has taken.
Taken == Range(sent) \union InHand \union Range(Queued("send"))

\* Made before the report that agregateProc is at.
Past(m) == m <= lastTime /\ (agregate = "flush" => m < lastTime)

\* The sender takes reports in the order of their minutes.
Chronological ==
    /\ lastTime <= clock
    /\ \A m \in Taken \union Range(Queued("agregate")) : Past(m)
    /\ \A m \in Taken : \A i \in DOMAIN Queued("agregate") : m < Queued("agregate")[i]
    /\ \A i, j \in DOMAIN Queued("agregate") :
          i < j => Queued("agregate")[i] < Queued("agregate")[j]

\* What it has taken is written, at hand or to be written again, once.
Distinct ==
    /\ IsInjective(sent) /\ IsInjective(Queued("send"))
    /\ Range(sent) \intersect Range(Queued("send")) = {}
    /\ InHand \intersect (Range(sent) \union Range(Queued("send"))) = {}

\* Only what was refused is late.
Excused ==
    /\ Range(Queued("send")) \subseteq refused
    /\ \A m \in InHand \ refused : \A k \in Range(sent) : k < m
    /\ \A i, j \in DOMAIN sent : i < j /\ sent[j] < sent[i] => sent[j] \in refused

Ordered == Chronological /\ Distinct /\ Excused

\* Counters of one name count in one cell, and no others count there.
Cells ==
    /\ \A n \in Registered : m_counterMap[n] <= connected /\ Name[m_counterMap[n]] = n
    /\ \A c \in Counters : c <= connected => m_val[c] = m_counterMap[Name[c]]
    /\ \A c \in Counters : connected < c => cell[c] = 0

\* The report being made holds nothing of the names still to come.
Drafted ==
    /\ left \subseteq Registered
    /\ agregate # "flush" => left = {} /\ \A n \in Names : draft[n] = 0
    /\ \A n \in Names : n \in left \/ n \notin Registered => draft[n] = 0

Linked == Cells /\ Drafted /\ (hand # NoReport <=> sender = "write")

IInv == TypeOK /\ Linked /\ CountedOnce /\ (~ setBack => Ordered)

-----------------------------------------------------------------------------
(* Sums. *)

LEMMA NatLeast ==
    ASSUME NEW S \in SUBSET Nat, S # {}
    PROVE  \E n \in S : \A m \in S : n <= m
  <1> DEFINE R == OpToRel(<, Nat)
  <1>1. IsWellFoundedOn(R, Nat)
    BY NatLessThanWellFounded
  <1>2. \A m, n \in Nat : m < n => <<m, n>> \in R
    BY DEF OpToRel
  <1> HIDE DEF R
  <1>3. PICK n \in S : \A m \in S : ~ (<<m, n>> \in R)
    BY <1>1, WFMin
  <1>4. n \in Nat /\ \A m \in S : m \in Nat /\ ~ (m < n)
    BY <1>2, <1>3, Zenon
  <1> QED BY <1>4

LEMMA Induction ==
    ASSUME NEW S, 0 \in S, \A n \in Nat : n \in S => n + 1 \in S
    PROVE  Nat \subseteq S
  <1> SUFFICES ASSUME Nat \ S # {} PROVE FALSE
    OBVIOUS
  <1>1. PICK n \in Nat \ S : \A m \in Nat \ S : n <= m
    BY NatLeast
  <1>2. n # 0 /\ n - 1 \in Nat /\ n - 1 \in S
    BY <1>1
  <1> QED BY <1>1, <1>2

\* f holds the sums of the first numbers of h.
Partial(f, h, k) == \A i \in 0 .. k : f[i] = IF i = 0 THEN 0 ELSE f[i - 1] + h[i]

HasSums(h, k) == k <= Len(h) => \E f \in [0 .. k -> Nat] : Partial(f, h, k)

LEMMA SumsExist ==
    ASSUME NEW h \in Seq(Nat)
    PROVE  \E f \in [0 .. Len(h) -> Nat] : Partial(f, h, Len(h))
  <1> DEFINE S == {k \in Nat : HasSums(h, k)}
  <1>1. HasSums(h, 0)
    <2>1. [i \in 0 .. 0 |-> 0] \in [0 .. 0 -> Nat] /\ Partial([i \in 0 .. 0 |-> 0], h, 0)
      BY DEF Partial
    <2> QED BY <2>1 DEF HasSums
  <1>2. ASSUME NEW k \in Nat, HasSums(h, k) PROVE HasSums(h, k + 1)
    <2> SUFFICES ASSUME k + 1 <= Len(h)
                 PROVE  \E f \in [0 .. k + 1 -> Nat] : Partial(f, h, k + 1)
      BY DEF HasSums
    <2>1. PICK f \in [0 .. k -> Nat] : Partial(f, h, k)
      BY <1>2 DEF HasSums
    <2> DEFINE g == [i \in 0 .. k + 1 |-> IF i = k + 1 THEN f[k] + h[k + 1] ELSE f[i]]
    <2>2. h[k + 1] \in Nat /\ f[k] \in Nat
      OBVIOUS
    <2>3. g \in [0 .. k + 1 -> Nat]
      BY <2>2
    <2>4. ASSUME NEW i \in 0 .. k + 1 PROVE g[i] = IF i = 0 THEN 0 ELSE g[i - 1] + h[i]
      <3>1. CASE i = k + 1
        BY <3>1
      <3>2. CASE i \in 0 .. k
        BY <2>1, <3>2 DEF Partial
      <3> QED BY <3>1, <3>2
    <2> QED BY <2>3, <2>4 DEF Partial
  <1>3. 0 \in S /\ \A k \in Nat : k \in S => k + 1 \in S
    BY <1>1, <1>2
  <1> HIDE DEF S
  <1>4. Nat \subseteq S
    BY <1>3, Induction
  <1>5. HasSums(h, Len(h))
    BY <1>4 DEF S
  <1> QED BY <1>5 DEF HasSums

LEMMA TotalIs ==
    ASSUME NEW h \in Seq(Nat), NEW f \in [0 .. Len(h) -> Nat], Partial(f, h, Len(h))
    PROVE  Total(h) = f[Len(h)]
  <1> DEFINE IsSums(x) == x = [i \in 0 .. Len(h) |-> IF i = 0 THEN 0 ELSE x[i - 1] + h[i]]
             sum == CHOOSE x : IsSums(x)
  <1>2. IsSums(f)
    BY DEF Partial
  <1>3. IsSums(sum)
    BY <1>2
  <1>4. Total(h) = sum[Len(h)]
    BY DEF Total
  <1> HIDE DEF sum
  <1>5. DOMAIN sum = 0 .. Len(h) /\ Partial(sum, h, Len(h))
    BY <1>3 DEF Partial
  <1>6. \A i \in 0 .. Len(h) : sum[i] = f[i]
    <2> DEFINE S == {i \in Nat : i <= Len(h) => sum[i] = f[i]}
    <2>1. 0 \in S
      BY <1>5 DEF Partial
    <2>2. ASSUME NEW i \in Nat, i \in S PROVE i + 1 \in S
      <3>1. CASE i + 1 <= Len(h)
        <4>1. sum[i + 1] = sum[i] + h[i + 1] /\ f[i + 1] = f[i] + h[i + 1]
          BY <1>5, <3>1 DEF Partial
        <4> QED BY <2>2, <3>1, <4>1
      <3> QED BY <3>1
    <2> HIDE DEF S
    <2>3. Nat \subseteq S
      BY <2>1, <2>2, Induction
    <2> QED BY <2>3 DEF S
  <1>7. sum[Len(h)] = f[Len(h)]
    BY <1>6
  <1> QED BY <1>4, <1>7

LEMMA TotalFacts ==
    /\ Total(<< >>) = 0
    /\ \A h \in Seq(Nat) : Total(h) \in Nat
    /\ \A h \in Seq(Nat), v \in Nat : Total(Append(h, v)) = Total(h) + v
    /\ \A h \in Seq(Nat) : h # << >> => Total(h) = Head(h) + Total(Tail(h))
  <1>1. \A h \in Seq(Nat) : Total(h) \in Nat
    BY SumsExist, TotalIs
  <1>2. Total(<< >>) = 0
    <2> DEFINE e == << >>
    <2>1. e \in Seq(Nat) /\ Len(e) = 0
      OBVIOUS
    <2> HIDE DEF e
    <2>2. PICK f \in [0 .. Len(e) -> Nat] : Partial(f, e, Len(e))
      BY <2>1, SumsExist
    <2>3. f[0] = 0
      BY <2>1, <2>2 DEF Partial
    <2>4. Total(e) = 0
      BY <2>1, <2>2, <2>3, TotalIs
    <2> QED BY <2>4 DEF e
  <1>3. ASSUME NEW h \in Seq(Nat), NEW v \in Nat PROVE Total(Append(h, v)) = Total(h) + v
    <2>1. PICK f \in [0 .. Len(h) -> Nat] : Partial(f, h, Len(h))
      BY SumsExist
    <2> DEFINE l == Len(h)
               e == Append(h, v)
               g == [i \in 0 .. l + 1 |-> IF i = l + 1 THEN f[l] + v ELSE f[i]]
    <2>2. e \in Seq(Nat) /\ Len(e) = l + 1 /\ e[l + 1] = v /\ \A i \in 1 .. l : e[i] = h[i]
      OBVIOUS
    <2>3. l \in Nat /\ f[l] \in Nat /\ g \in [0 .. l + 1 -> Nat]
      OBVIOUS
    <2> HIDE DEF e
    <2>4. ASSUME NEW i \in 0 .. l + 1 PROVE g[i] = IF i = 0 THEN 0 ELSE g[i - 1] + e[i]
      <3>1. CASE i = l + 1
        BY <2>2, <2>3, <3>1
      <3>2. CASE i \in 0 .. l
        BY <2>1, <2>2, <2>3, <3>2 DEF Partial
      <3> QED BY <2>3, <3>1, <3>2
    <2>5. Partial(g, e, Len(e))
      BY <2>2, <2>4 DEF Partial
    <2>6. g[l + 1] = f[l] + v
      BY <2>3
    <2> HIDE DEF g
    <2>7. Total(e) = g[l + 1]
      BY <2>2, <2>3, <2>5, TotalIs
    <2> QED BY <2>1, <2>6, <2>7, TotalIs DEF e
  <1>4. ASSUME NEW h \in Seq(Nat), h # << >> PROVE Total(h) = Head(h) + Total(Tail(h))
    <2> DEFINE t == Tail(h)
               l == Len(h)
    <2>1. t \in Seq(Nat) /\ Len(t) = l - 1 /\ l \in Nat \ {0} /\ Head(h) = h[1] /\ h[1] \in Nat
      BY <1>4
    <2>2. \A i \in 1 .. l - 1 : t[i] = h[i + 1]
      BY <1>4
    <2> HIDE DEF t
    <2>3. PICK g \in [0 .. l - 1 -> Nat] : Partial(g, t, l - 1)
      BY <2>1, SumsExist
    <2> DEFINE f == [i \in 0 .. l |-> IF i = 0 THEN 0 ELSE h[1] + g[i - 1]]
    <2>4. f \in [0 .. l -> Nat]
      BY <2>1
    <2>5. f[0] = 0 /\ f[1] = f[0] + h[1]
      BY <2>1, <2>3 DEF Partial
    <2>6. ASSUME NEW j \in 1 .. l - 1 PROVE f[j + 1] = f[j] + h[j + 1]
      <3>1. /\ j \in Nat \ {0} /\ j \in 0 .. l /\ j - 1 \in 0 .. l - 1 /\ j \in 0 .. l - 1
            /\ j + 1 \in 0 .. l /\ j + 1 # 0 /\ (j + 1) - 1 = j /\ j + 1 \in 1 .. l
        BY <2>1
      <3>2. g[j] = g[j - 1] + h[j + 1]
        BY <2>2, <2>3, <3>1 DEF Partial
      <3>3. f[j + 1] = h[1] + g[j] /\ f[j] = h[1] + g[j - 1]
        BY <3>1
      <3>4. \A i \in 1 .. l : h[i] \in Nat
        OBVIOUS
      <3> HIDE DEF f, l
      <3>5. h[1] \in Nat /\ g[j - 1] \in Nat /\ h[j + 1] \in Nat
        BY <2>1, <3>1, <3>4
      <3> QED BY <3>2, <3>3, <3>5
    <2> HIDE DEF f
    <2>7. ASSUME NEW i \in 0 .. l PROVE f[i] = IF i = 0 THEN 0 ELSE f[i - 1] + h[i]
      <3>1. CASE i \in {0, 1}
        BY <2>5, <3>1
      <3>2. CASE i \notin {0, 1}
        <4>1. i - 1 \in 1 .. l - 1 /\ (i - 1) + 1 = i /\ i # 0
          BY <2>1, <3>2
        <4> QED BY <2>6, <4>1
      <3> QED BY <3>1, <3>2
    <2>8. Partial(f, h, l)
      BY <2>7 DEF Partial
    <2>9. f[l] = h[1] + g[l - 1]
      BY <2>1 DEF f
    <2>10. Total(h) = f[l]
      BY <2>4, <2>8, TotalIs
    <2>11. Total(t) = g[l - 1]
      BY <2>1, <2>3, TotalIs
    <2> QED BY <2>1, <2>9, <2>10, <2>11 DEF t
  <1> QED BY <1>1, <1>2, <1>3, <1>4

-----------------------------------------------------------------------------
(* Reports. *)

LEMMA CounterFacts ==
    /\ Counters = 1 .. Len(Name) /\ Len(Name) \in Nat
    /\ \A c \in Counters : Name[c] \in Names
  BY CounterAssumption DEF Counters

LEMMA Bounds ==
    /\ Minutes \subseteq Nat /\ 0 \in Minutes /\ Counts \subseteq Nat /\ 0 \in Counts
    /\ \A k \in Nat : k <= MaxCount => k \in Counts
    /\ \A k \in Counts : k <= MaxCount
  BY BoundAssumption DEF Minutes, Counts

\* What a report, or no report, holds of a name.
LEMMA HeldFacts ==
    /\ \A r \in Reports, n \in Names : Held(r, n) \in Counts
    /\ \A n \in Names : Held(NoReport, n) = 0
    /\ \A r \in Reports : r # NoReport /\ r.minute \in Minutes /\ r.minute \in Nat
  <1>1. ASSUME NEW r \in Reports, NEW n \in Names PROVE Held(r, n) \in Counts
    <2>1. PICK S \in SUBSET Names : r.val \in [S -> Counts]
      BY DEF Reports
    <2> QED BY <2>1, Bounds DEF Held
  <1>2. \A n \in Names : Held(NoReport, n) = 0
    BY DEF Held
  <1>3. \A r \in Reports : r # NoReport /\ r.minute \in Minutes
    BY ReportAssumption DEF Reports
  <1> QED BY <1>1, <1>2, <1>3, Bounds

\* The report that agregateProc makes, and what it holds.
LEMMA NextReport ==
    ASSUME TypeOK, Drafted, WorthSending,
           NEW r, r = [minute |-> lastTime, val |-> [n \in Registered |-> draft[n]]]
    PROVE  r \in Reports /\ \A n \in Names : Held(r, n) = draft[n]
  <1>1. Registered \in (SUBSET Names) \ {{}} /\ Registered \subseteq Names
    BY DEF Registered, WorthSending
  <1>2. \A n \in Registered : draft[n] \in Counts
    BY <1>1 DEF TypeOK
  <1>3. [n \in Registered |-> draft[n]] \in [Registered -> Counts]
    BY <1>2
  <1>4. [n \in Registered |-> draft[n]] \in UNION {[S -> Counts] : S \in (SUBSET Names) \ {{}}}
    BY <1>1, <1>3
  <1>5. r \in Reports
    BY <1>4 DEF Reports, TypeOK
  <1>6. r.val = [n \in Registered |-> draft[n]]
    OBVIOUS
  <1>7. \A n \in Names : Held(r, n) = draft[n]
    BY <1>5, <1>6, HeldFacts DEF Held, Drafted
  <1> QED BY <1>5, <1>7

-----------------------------------------------------------------------------
(* The sum over a queue. *)

HeldIn(q, n) == [i \in DOMAIN q |-> Held(q[i], n)]

LEMMA HeldInFacts ==
    ASSUME NEW q \in Seq(Reports), NEW n \in Names
    PROVE  /\ HeldIn(q, n) \in Seq(Nat)
           /\ \A r \in Reports : HeldIn(Append(q, r), n) = Append(HeldIn(q, n), Held(r, n))
           /\ q # << >> =>
                 /\ HeldIn(q, n) # << >>
                 /\ Head(HeldIn(q, n)) = Held(Head(q), n)
                 /\ Tail(HeldIn(q, n)) = HeldIn(Tail(q), n)
  <1>1. /\ DOMAIN q = 1 .. Len(q) /\ Len(q) \in Nat /\ \A i \in 1 .. Len(q) : q[i] \in Reports
    OBVIOUS
  <1>2. \A r \in Reports : Held(r, n) \in Nat
    BY HeldFacts, Bounds
  <1>3. HeldIn(q, n) \in Seq(Nat) /\ Len(HeldIn(q, n)) = Len(q)
    BY <1>1, <1>2 DEF HeldIn
  <1>4. ASSUME NEW r \in Reports
        PROVE  HeldIn(Append(q, r), n) = Append(HeldIn(q, n), Held(r, n))
    BY <1>1, <1>2, <1>3 DEF HeldIn
  <1>5. ASSUME q # << >>
        PROVE  HeldIn(q, n) # << >> /\ Head(HeldIn(q, n)) = Held(Head(q), n)
    BY <1>1, <1>3, <1>5 DEF HeldIn
  <1>6. ASSUME q # << >> PROVE Tail(HeldIn(q, n)) = HeldIn(Tail(q), n)
    BY <1>1, <1>3, <1>5, <1>6 DEF HeldIn
  <1> QED BY <1>3, <1>4, <1>5, <1>6

LEMMA QueueSums ==
    ASSUME NEW q \in Seq(Reports), NEW n \in Names
    PROVE  /\ Total(HeldIn(q, n)) \in Nat
           /\ \A r \in Reports :
                 Total(HeldIn(Append(q, r), n)) = Total(HeldIn(q, n)) + Held(r, n)
           /\ q # << >> =>
                 Total(HeldIn(q, n)) = Held(Head(q), n) + Total(HeldIn(Tail(q), n))
  <1> DEFINE h == HeldIn(q, n)
             t == HeldIn(Tail(q), n)
  <1>1. h \in Seq(Nat) /\ Total(h) \in Nat
    BY HeldInFacts, TotalFacts
  <1>2. ASSUME NEW r \in Reports PROVE Total(HeldIn(Append(q, r), n)) = Total(h) + Held(r, n)
    <2>1. HeldIn(Append(q, r), n) = Append(h, Held(r, n)) /\ Held(r, n) \in Nat
      BY HeldInFacts, HeldFacts, Bounds
    <2> HIDE DEF h
    <2> QED BY <1>1, <2>1, TotalFacts
  <1>3. ASSUME q # << >> PROVE Total(h) = Held(Head(q), n) + Total(t)
    <2>1. h # << >> /\ Head(h) = Held(Head(q), n) /\ Tail(h) = t
      BY <1>3, HeldInFacts
    <2> HIDE DEF h, t
    <2>2. Total(h) = Head(h) + Total(Tail(h))
      BY <1>1, <2>1, TotalFacts
    <2> QED BY <2>1, <2>2
  <1> QED BY <1>1, <1>2, <1>3

LEMMA InQueueIs ==
    \A p, n : InQueue(p, n) = Total(HeldIn(m_sendQueue[p], n))
  BY DEF InQueue, HeldIn

LEMMA InQueueNat ==
    ASSUME TypeOK, NEW p \in Producers, NEW n \in Names
    PROVE  InQueue(p, n) \in Nat
  BY InQueueIs, QueueSums DEF TypeOK

-----------------------------------------------------------------------------
(* Counters and their cells. *)

LEMMA CellFacts ==
    ASSUME TypeOK, Cells
    PROVE  /\ \A n \in Registered : m_counterMap[n] \in Counters
           /\ \A n \in Names : Cell(n) \in Counts
           /\ \A c \in Counters : c <= connected =>
                 /\ Name[c] \in Registered /\ m_val[c] \in Counters
                 /\ m_val[c] = m_counterMap[Name[c]] /\ Cell(Name[c]) = cell[m_val[c]]
           /\ \A c, n : n \in Registered /\ c \in Counters /\ c <= connected
                 => (m_counterMap[n] = m_val[c] <=> n = Name[c])
  <1>1. \A n \in Registered : m_counterMap[n] \in Counters /\ n \in Names
    BY DEF TypeOK, Registered
  <1>2. \A n \in Names : Cell(n) \in Counts
    BY <1>1, Bounds DEF Cell, TypeOK
  <1>3. ASSUME NEW c \in Counters, c <= connected
        PROVE  /\ Name[c] \in Registered /\ m_val[c] \in Counters
               /\ m_val[c] = m_counterMap[Name[c]] /\ Cell(Name[c]) = cell[m_val[c]]
    <2>1. m_val[c] \in Counters /\ m_val[c] = m_counterMap[Name[c]] /\ Name[c] \in Names
      BY <1>3, CounterFacts DEF TypeOK, Cells
    <2>2. 0 \notin Counters
      BY CounterFacts
    <2> QED BY <2>1, <2>2 DEF Registered, Cell, NoCounter
  <1>4. ASSUME NEW n \in Registered, NEW c \in Counters, c <= connected,
               m_counterMap[n] = m_val[c]
        PROVE  n = Name[c]
    BY <1>3, <1>4 DEF Cells
  <1> QED BY <1>1, <1>2, <1>3, <1>4

\* Nothing of a name is more than was counted of it.
LEMMA Counted ==
    ASSUME TypeOK, Linked, CountedOnce, NEW n \in Names
    PROVE  Cell(n) <= counted[n] /\ got[n] + Held(hand, n) <= counted[n]
  <1>1. Cell(n) \in Nat /\ draft[n] \in Nat /\ got[n] \in Nat /\ Held(hand, n) \in Nat
    BY CellFacts, HeldFacts, Bounds DEF Linked, TypeOK
  <1>2. InQueue("agregate", n) \in Nat /\ InQueue("send", n) \in Nat
    BY InQueueNat DEF Producers
  <1> QED BY <1>1, <1>2 DEF CountedOnce

LEMMA TypeStep ==
    ASSUME TypeOK, Linked, CountedOnce, Next
    PROVE  TypeOK'
  <1>1. CASE Minute
    BY <1>1, BoundAssumption
       DEF Minute, TypeOK, Minutes, counting, agregating, sending, history
  <1>2. CASE SetBack
    BY <1>2, BoundAssumption
       DEF SetBack, Fault, TypeOK, Minutes, counting, agregating, sending, history
  <1>3. ASSUME NEW to \in {"up", "down", "stalled"}, ServerTurns(to) PROVE TypeOK'
    <2>1. socket_' \in {"closed", "open", "broken", "reset"} /\ faults' \in 0 .. MaxFaults
          /\ server' \in {"up", "down", "stalled"}
      BY <1>3, BoundAssumption DEF ServerTurns, Fault, TypeOK
    <2> QED BY <1>3, <2>1 DEF ServerTurns, TypeOK, counting, agregating, history
  <1>4. CASE Destructor
    <2>1. m_run' \in BOOLEAN /\ UNCHANGED <<counting, cell, m_sendQueue, faults>>
      BY <1>4 DEF Destructor
    <2>2. UNCHANGED <<agregate, lastTime, draft, left, sender, hand, due, socket_>>
      BY <1>4 DEF Destructor, agregating, sending
    <2>3. UNCHANGED <<clock, server, setBack, counted, sent, got, refused>>
      BY <1>4 DEF Destructor, env, history
    <2> QED BY <2>1, <2>2, <2>3 DEF TypeOK, counting
  <1>5. ASSUME NEW c \in Counters, connect(c) PROVE TypeOK'
    <2>1. Name[c] \in Names /\ SharedCell(c) \in Counters /\ c \in 0 .. Len(Name)
      <3>1. Name[c] \in Registered => m_counterMap[Name[c]] \in Counters
        BY CellFacts DEF Linked
      <3> QED BY <3>1, CounterFacts DEF SharedCell
    <2>2. m_val' \in [Counters -> Counters] /\ connected' \in 0 .. Len(Name)
      BY <1>5, <2>1 DEF connect, TypeOK
    <2>3. m_counterMap' \in [Names -> Counters \union {NoCounter}]
      BY <1>5, <2>1 DEF connect, TypeOK
    <2> QED BY <1>5, <2>2, <2>3 DEF connect, TypeOK, agregating, sending, env, history
  <1>6. ASSUME NEW c \in Counters, Count(c) PROVE TypeOK'
    <2> DEFINE n == Name[c]
    <2>1. n \in Names /\ c <= connected
      BY <1>6, CounterFacts DEF Count
    <2>2. m_val[c] \in Counters /\ cell[m_val[c]] = Cell(n)
      BY <2>1, CellFacts DEF Linked
    <2>3. cell[m_val[c]] \in Nat /\ counted[n] \in Nat /\ counted[n] < MaxCount
      BY <1>6, <2>1, <2>2, Bounds DEF Count, TypeOK
    <2>4. cell[m_val[c]] + 1 \in Counts /\ counted[n] + 1 \in Counts
      BY <2>1, <2>2, <2>3, Counted, Bounds, BoundAssumption
    <2>5. cell' \in [Counters -> Counts] /\ counted' \in [Names -> Counts]
      BY <1>6, <2>4 DEF Count, TypeOK
    <2> QED BY <1>6, <2>5 DEF Count, TypeOK, counting, agregating, sending, env
  <1>7. CASE Agregate
    <2>1. draft' \in [Names -> Counts] /\ left' \subseteq Names
      BY <1>7, Bounds DEF Agregate, Registered
    <2> QED BY <1>7, <2>1 DEF Agregate, TypeOK, counting, sending, env, history
  <1>8. ASSUME NEW n \in Names, Flush(n) PROVE TypeOK'
    <2>1. m_counterMap[n] \in Counters
      BY <1>8, CellFacts DEF Flush, Linked, Drafted
    <2>2. cell[m_counterMap[n]] \in Counts
      BY <2>1 DEF TypeOK
    <2>3. cell' \in [Counters -> Counts] /\ draft' \in [Names -> Counts] /\ left' \subseteq Names
      BY <1>8, <2>1, <2>2, Bounds DEF Flush, Exchange, TypeOK
    <2> QED BY <1>8, <2>3 DEF Flush, TypeOK, counting, sending, env, history
  <1>9. CASE Enqueue
    <2>1. m_sendQueue' \in [Producers -> Seq(Reports)]
      <3>1. CASE ~ WorthSending
        BY <1>9, <3>1 DEF Enqueue, TypeOK
      <3>2. CASE WorthSending
        <4>1. PICK r \in Reports : m_sendQueue' = [m_sendQueue EXCEPT !["agregate"] = Append(@, r)]
          BY <1>9, <3>2, NextReport DEF Enqueue, Behind, Linked
        <4>2. Append(m_sendQueue["agregate"], r) \in Seq(Reports)
          BY DEF TypeOK, Producers
        <4> QED BY <4>1, <4>2 DEF TypeOK
      <3> QED BY <3>1, <3>2
    <2>2. draft' \in [Names -> Counts]
      BY <1>9, Bounds DEF Enqueue
    <2> QED BY <1>9, <2>1, <2>2 DEF Enqueue, TypeOK, counting, sending, env, history
  <1>10. CASE AgregateExit
    <2>1. agregate' = "done" /\ UNCHANGED <<m_run, counting, cell, m_sendQueue, faults>>
      BY <1>10 DEF AgregateExit
    <2>2. UNCHANGED <<lastTime, draft, left, sender, hand, due, socket_>>
      BY <1>10 DEF AgregateExit, sending
    <2>3. UNCHANGED <<clock, server, setBack, counted, sent, got, refused>>
      BY <1>10 DEF AgregateExit, env, history
    <2> QED BY <2>1, <2>2, <2>3 DEF TypeOK, counting
  <1>11. CASE While \/ Wait
    <2>1. /\ due' \in BOOLEAN /\ sender' \in {"check", "turn", "write", "done"}
          /\ socket_' \in {"closed", "open", "broken", "reset"}
          /\ UNCHANGED <<m_run, counting, cell, hand, m_sendQueue, faults>>
      BY <1>11 DEF While, Wait, SendTo, TypeOK
    <2>2. UNCHANGED <<agregate, lastTime, draft, left>>
      BY <1>11 DEF While, Wait, agregating
    <2>3. UNCHANGED <<clock, server, setBack, counted, sent, got, refused>>
      BY <1>11 DEF While, Wait, env, history
    <2> QED BY <2>1, <2>2, <2>3 DEF TypeOK, counting
  <1>12. CASE ResetConnection
    <2>1. faults' \in 0 .. MaxFaults /\ socket_' \in {"closed", "open", "broken", "reset"}
          /\ sender' \in {"check", "turn", "write", "done"}
      BY <1>12, BoundAssumption DEF ResetConnection, SendTo, Fault, TypeOK
    <2> QED BY <1>12, <2>1 DEF ResetConnection, TypeOK, counting, agregating, env, history
  <1>13. CASE Dequeue
    <2>1. Best \in Producers
      BY DEF Best, Producers
    <2>2. m_sendQueue[Best] \in Seq(Reports)
      BY <2>1 DEF TypeOK
    <2>3. m_sendQueue[Best] # << >> =>
             Head(m_sendQueue[Best]) \in Reports /\ Tail(m_sendQueue[Best]) \in Seq(Reports)
      BY <2>2
    <2>4. m_sendQueue' \in [Producers -> Seq(Reports)]
      BY <1>13, <2>3 DEF Dequeue, TypeOK
    <2>5. hand' = NoReport \/ hand' \in Reports
      BY <1>13, <2>3 DEF Dequeue, TypeOK
    <2> QED BY <1>13, <2>4, <2>5 DEF Dequeue, SendTo, TypeOK, counting, agregating, env, history
  <1>14. CASE Write
    <2>1. hand \in Reports /\ hand.minute \in Minutes
      BY <1>14, HeldFacts DEF Write, Linked, TypeOK
    <2>2. sent' \in Seq(Minutes)
      BY <1>14, <2>1 DEF Write, TypeOK
    <2>3. \A n \in Names : got[n] + Held(hand, n) \in Counts
      <3>1. \A n \in Names : got[n] \in Nat /\ Held(hand, n) \in Nat /\ counted[n] \in Nat
                             /\ counted[n] <= MaxCount
        BY <2>1, HeldFacts, Bounds DEF TypeOK
      <3> QED BY <3>1, Counted, Bounds, BoundAssumption
    <2>4. got' \in [Names -> Counts]
      BY <1>14, <2>3 DEF Write
    <2>5. socket_' \in {"closed", "open", "broken", "reset"} /\ hand' = NoReport
          /\ sender' = "check"
      BY <1>14 DEF Write, SendTo, TypeOK
    <2> QED BY <1>14, <2>2, <2>4, <2>5 DEF Write, TypeOK, counting, agregating, env
  <1>15. CASE WriteFails
    <2>1. hand \in Reports /\ hand.minute \in Minutes
      BY <1>15, HeldFacts DEF WriteFails, Linked, TypeOK
    <2>2. m_sendQueue' \in [Producers -> Seq(Reports)]
      <3>1. Append(m_sendQueue["send"], hand) \in Seq(Reports)
        BY <2>1 DEF TypeOK, Producers
      <3> QED BY <1>15, <3>1 DEF WriteFails, Behind, TypeOK
    <2>3. faults' \in 0 .. MaxFaults /\ refused' \subseteq Minutes
      BY <1>15, <2>1, BoundAssumption DEF WriteFails, Fault, TypeOK
    <2>4. socket_' = "closed" /\ hand' = NoReport /\ sender' = "check" /\ due' = TRUE
      BY <1>15 DEF WriteFails, CloseBroken, SendTo
    <2> QED BY <1>15, <2>2, <2>3, <2>4 DEF WriteFails, TypeOK, counting, agregating, env
  <1> QED
    BY <1>1, <1>2, <1>3, <1>4, <1>5, <1>6, <1>7, <1>8, <1>9, <1>10, <1>11, <1>12, <1>13,
       <1>14, <1>15 DEF Next, agregateProc, sendProc

-----------------------------------------------------------------------------
(* Every count is in one place. *)

LEMMA ConnectLink ==
    ASSUME TypeOK, Linked, NEW c \in Counters, connect(c)
    PROVE  /\ Linked'
           /\ \A n \in Names : Cell(n)' = Cell(n)
  <1> DEFINE k == SharedCell(c)
  <1>1. /\ UNCHANGED <<cell, agregate, draft, left, sender, hand>> /\ agregate # "flush"
        /\ c = connected + 1 /\ connected' = c /\ connected \in Nat /\ c \in Nat
    BY CounterFacts DEF connect, agregating, sending, TypeOK
  <1>2. m_val' \in [Counters -> Counters] /\ m_val'[c] = k
        /\ \A d \in Counters : d # c => m_val'[d] = m_val[d]
    <2>1. k \in Counters
      BY CellFacts DEF SharedCell, Linked
    <2> QED BY <2>1 DEF connect, TypeOK
  <1>3. /\ Name[c] \in Names /\ m_counterMap'[Name[c]] = k
        /\ \A n \in Names : n # Name[c] => m_counterMap'[n] = m_counterMap[n]
    <2>1. m_counterMap' = [m_counterMap EXCEPT ![Name[c]] = IF @ = NoCounter THEN c ELSE @]
      BY DEF connect
    <2>2. m_counterMap[Name[c]] = NoCounter <=> Name[c] \notin Registered
      BY CounterFacts DEF Registered
    <2> QED BY <2>1, <2>2, CounterFacts DEF SharedCell, TypeOK
  <1>4. k \in Counters /\ k <= c /\ Name[k] = Name[c] /\ k # NoCounter
    <2>1. CASE Name[c] \in Registered
      <3>1. k \in Counters /\ k <= connected /\ Name[k] = Name[c]
        BY <2>1, CellFacts DEF SharedCell, Linked, Cells
      <3> QED BY <1>1, <3>1, CounterFacts DEF NoCounter
    <2>2. CASE Name[c] \notin Registered
      BY <1>1, <2>2, CounterFacts DEF SharedCell, NoCounter
    <2> QED BY <2>1, <2>2
  <1> HIDE DEF k
  <1>5. Registered' = Registered \union {Name[c]}
    BY <1>3, <1>4 DEF Registered
  <1>6. ASSUME NEW n \in Registered' PROVE m_counterMap'[n] <= connected' /\ Name[m_counterMap'[n]] = n
    <2>1. CASE n = Name[c]
      BY <1>1, <1>3, <1>4, <2>1
    <2>2. CASE n # Name[c]
      <3>1. n \in Registered /\ n \in Names /\ m_counterMap[n] \in Nat /\ m_counterMap[n] <= connected
        BY <1>5, <1>6, <2>2, CellFacts, CounterFacts DEF Linked, Cells, Registered
      <3> QED BY <1>1, <1>3, <2>2, <3>1 DEF Linked, Cells
    <2> QED BY <2>1, <2>2
  <1>7. ASSUME NEW d \in Counters, d <= connected' PROVE m_val'[d] = m_counterMap'[Name[d]]
    <2>1. CASE d = c
      BY <1>2, <1>3, <2>1
    <2>2. CASE d # c
      <3>1. d <= connected
        BY <1>1, <1>7, <2>2, CounterFacts
      <3>2. Name[d] \in Registered /\ m_val[d] = m_counterMap[Name[d]] /\ Name[d] \in Names
        BY <3>1, CellFacts, CounterFacts DEF Linked
      <3>3. Name[d] = Name[c] => k = m_counterMap[Name[d]]
        BY <3>2 DEF k, SharedCell
      <3> QED BY <1>2, <1>3, <2>2, <3>2, <3>3
    <2> QED BY <2>1, <2>2
  <1>8. \A d \in Counters : connected' < d => cell'[d] = 0
    BY <1>1, CounterFacts DEF Linked, Cells
  <1>9. Cells'
    BY <1>6, <1>7, <1>8 DEF Cells
  <1>10. Drafted'
    BY <1>1, <1>5 DEF Linked, Drafted
  <1>11. ASSUME NEW n \in Names PROVE Cell(n)' = Cell(n)
    <2>1. CASE n # Name[c]
      BY <1>1, <1>3, <1>5, <2>1 DEF Cell
    <2>2. CASE n = Name[c] /\ n \in Registered
      BY <1>1, <1>3, <1>5, <2>2 DEF Cell, k, SharedCell
    <2>3. CASE n = Name[c] /\ n \notin Registered
      <3>1. k = c /\ cell[c] = 0
        BY <1>1, <2>3 DEF k, SharedCell, Linked, Cells
      <3> QED BY <1>1, <1>3, <1>5, <2>3, <3>1 DEF Cell
    <2> QED BY <2>1, <2>2, <2>3
  <1> QED BY <1>1, <1>9, <1>10, <1>11 DEF Linked

\* A number of one name changes alone.
LEMMA CellStep ==
    ASSUME TypeOK, Linked, NEW c \in Counters, c <= connected, UNCHANGED counting,
           NEW v, cell' = [cell EXCEPT ![m_val[c]] = v]
    PROVE  /\ Cells'
           /\ Cell(Name[c])' = v
           /\ \A n \in Names : n # Name[c] => Cell(n)' = Cell(n)
  <1>1. /\ UNCHANGED <<m_counterMap, connected, m_val>> /\ Registered' = Registered
        /\ cell'[m_val[c]] = v
        /\ \A d \in Counters : d # m_val[c] => cell'[d] = cell[d]
    BY CellFacts DEF counting, Registered, Linked, TypeOK
  <1>2. /\ Name[c] \in Registered /\ m_val[c] \in Counters /\ m_val[c] = m_counterMap[Name[c]]
    BY CellFacts DEF Linked
  <1>3. \A n \in Registered : m_counterMap[n] \in Counters /\ (m_counterMap[n] = m_val[c] <=> n = Name[c])
    BY CellFacts DEF Linked
  <1>4. \A d \in Counters : connected < d => d # m_val[c]
    BY <1>2, CounterFacts DEF Linked, Cells, TypeOK
  <1>5. Cells'
    BY <1>1, <1>4 DEF Linked, Cells
  <1> QED BY <1>1, <1>2, <1>3, <1>5 DEF Cell

LEMMA LinkStep ==
    ASSUME TypeOK, Linked, Next
    PROVE  Linked'
  <1>1. CASE Minute \/ SetBack \/ Destructor \/ \E to \in {"up", "down", "stalled"} : ServerTurns(to)
    <2>1. UNCHANGED <<counting, cell, agregate, draft, left, sender, hand>>
      BY <1>1 DEF Minute, SetBack, Destructor, ServerTurns, agregating, sending
    <2> QED BY <2>1 DEF Linked, Cells, Drafted, Registered, counting
  <1>2. ASSUME NEW c \in Counters, connect(c) PROVE Linked'
    BY <1>2, ConnectLink
  <1>3. ASSUME NEW c \in Counters, Count(c) PROVE Linked'
    <2>1. UNCHANGED <<counting, agregate, draft, left, sender, hand>> /\ c <= connected
      BY <1>3, CounterFacts DEF Count, agregating, sending
    <2>2. PICK v : cell' = [cell EXCEPT ![m_val[c]] = v]
      BY <1>3 DEF Count
    <2>3. Cells'
      BY <2>1, <2>2, CellStep
    <2> QED BY <2>1, <2>3 DEF Linked, Drafted, Registered, counting
  <1>4. CASE Agregate
    <2>1. UNCHANGED <<counting, cell, sender, hand>> /\ agregate' = "flush" /\ left' = Registered
          /\ \A n \in Names : draft'[n] = 0
      BY <1>4 DEF Agregate, sending
    <2> QED BY <2>1 DEF Linked, Cells, Drafted, Registered, counting
  <1>5. ASSUME NEW n \in Names, Flush(n) PROVE Linked'
    <2>1. /\ UNCHANGED <<counting, agregate, sender, hand>> /\ n \in left /\ n \in Registered
          /\ left' = left \ {n} /\ agregate = "flush"
      BY <1>5 DEF Flush, sending, Linked, Drafted
    <2>2. PICK c \in Counters : c = m_counterMap[n] /\ c <= connected /\ Name[c] = n
      BY <2>1, CellFacts DEF Linked, Cells
    <2>3. cell' = [cell EXCEPT ![m_val[c]] = 0]
      BY <1>5, <2>2, CellFacts DEF Flush, Exchange, Linked
    <2>4. Cells'
      BY <2>1, <2>2, <2>3, CellStep
    <2>5. \A m \in Names : m # n => draft'[m] = draft[m]
      BY <1>5 DEF Flush, TypeOK
    <2>6. Drafted'
      BY <2>1, <2>5 DEF Linked, Drafted, Registered, counting
    <2> QED BY <2>1, <2>4, <2>6 DEF Linked
  <1>6. CASE Enqueue
    <2>1. UNCHANGED <<counting, cell, left, sender, hand>> /\ left = {}
          /\ \A n \in Names : draft'[n] = 0
      BY <1>6 DEF Enqueue, sending
    <2> QED BY <2>1 DEF Linked, Cells, Drafted, Registered, counting
  <1>7. CASE AgregateExit
    <2>1. UNCHANGED <<counting, cell, draft, left, sender, hand>> /\ agregate # "flush"
      BY <1>7 DEF AgregateExit, sending
    <2> QED BY <2>1 DEF Linked, Cells, Drafted, Registered, counting
  <1>8. CASE sendProc
    <2>1. UNCHANGED <<counting, cell, agregate, draft, left>>
      BY <1>8 DEF sendProc, While, ResetConnection, Wait, Dequeue, Write, WriteFails, agregating
    <2>2. hand' # NoReport <=> sender' = "write"
      <3>1. CASE Dequeue
        <4>1. Best \in Producers /\ m_sendQueue[Best] \in Seq(Reports)
          BY DEF Best, Producers, TypeOK
        <4>2. m_sendQueue[Best] # << >> => Head(m_sendQueue[Best]) # NoReport
          BY <4>1, HeldFacts
        <4> QED BY <3>1, <4>2 DEF Dequeue, SendTo, Linked
      <3>2. CASE Write \/ WriteFails
        BY <3>2 DEF Write, WriteFails, SendTo
      <3>3. CASE While \/ ResetConnection \/ Wait
        BY <3>3 DEF While, ResetConnection, Wait, SendTo, Linked
      <3> QED BY <1>8, <3>1, <3>2, <3>3 DEF sendProc
    <2> QED BY <2>1, <2>2 DEF Linked, Cells, Drafted, Registered, counting
  <1> QED BY <1>1, <1>2, <1>3, <1>4, <1>5, <1>6, <1>7, <1>8 DEF Next, agregateProc

\* What CountedOnce adds up is numbers.
LEMMA Terms ==
    ASSUME TypeOK, Linked, NEW n \in Names
    PROVE  /\ Cell(n) \in Nat /\ draft[n] \in Nat /\ Held(hand, n) \in Nat /\ got[n] \in Nat
           /\ InQueue("agregate", n) \in Nat /\ InQueue("send", n) \in Nat /\ counted[n] \in Nat
  <1>1. Cell(n) \in Nat /\ draft[n] \in Nat /\ got[n] \in Nat /\ Held(hand, n) \in Nat
        /\ counted[n] \in Nat
    BY CellFacts, HeldFacts, Bounds DEF Linked, TypeOK
  <1> QED BY <1>1, InQueueNat DEF Producers

\* One queue changes, and what it holds of a name with it.
LEMMA QueueStep ==
    ASSUME TypeOK, NEW p \in Producers, NEW n \in Names, NEW q \in Seq(Reports),
           m_sendQueue' = [m_sendQueue EXCEPT ![p] = q]
    PROVE  /\ InQueue(p, n)' = Total(HeldIn(q, n))
           /\ \A o \in Producers : o # p => InQueue(o, n)' = InQueue(o, n)
  <1>1. m_sendQueue'[p] = q /\ \A o \in Producers : o # p => m_sendQueue'[o] = m_sendQueue[o]
    BY DEF TypeOK
  <1> QED BY <1>1 DEF InQueue, HeldIn

LEMMA SumStep ==
    ASSUME TypeOK, Linked, CountedOnce, Next, NEW n \in Names
    PROVE  counted'[n] = Cell(n)' + draft'[n] + InQueue("agregate", n)' + InQueue("send", n)'
                         + Held(hand', n) + got'[n]
  <1> DEFINE cl == Cell(n)
             a == InQueue("agregate", n)
             s == InQueue("send", n)
             h == Held(hand, n)
  <1>1. /\ cl \in Nat /\ draft[n] \in Nat /\ a \in Nat /\ s \in Nat /\ h \in Nat /\ got[n] \in Nat
        /\ counted[n] \in Nat /\ counted[n] = cl + draft[n] + a + s + h + got[n]
    BY Terms DEF CountedOnce
  <1>2. UNCHANGED m_sendQueue => a' = a /\ s' = s
    BY DEF InQueue
  <1>3. UNCHANGED <<counting, cell>> => cl' = cl
    BY DEF Cell, Registered, counting
  <1>4. CASE UNCHANGED <<counting, cell, draft, m_sendQueue, hand, counted, got>>
    BY <1>1, <1>2, <1>3, <1>4
  <1>5. ASSUME NEW c \in Counters, connect(c)
        PROVE  counted'[n] = cl' + draft'[n] + a' + s' + h' + got'[n]
    <2>1. UNCHANGED <<draft, m_sendQueue, hand, counted, got>> /\ cl' = cl
      BY <1>5, ConnectLink DEF connect, agregating, sending, history
    <2> QED BY <1>1, <1>2, <2>1
  <1>6. ASSUME NEW c \in Counters, Count(c)
        PROVE  counted'[n] = cl' + draft'[n] + a' + s' + h' + got'[n]
    <2>1. UNCHANGED <<counting, draft, m_sendQueue, hand, got>> /\ c <= connected /\ Name[c] \in Names
      BY <1>6, CounterFacts DEF Count, agregating, sending
    <2>2. cell' = [cell EXCEPT ![m_val[c]] = cell[m_val[c]] + 1]
      BY <1>6 DEF Count
    <2>3. Cell(Name[c])' = Cell(Name[c]) + 1 /\ \A m \in Names : m # Name[c] => Cell(m)' = Cell(m)
      BY <2>1, <2>2, CellStep, CellFacts DEF Linked
    <2>4. counted'[Name[c]] = counted[Name[c]] + 1
          /\ \A m \in Names : m # Name[c] => counted'[m] = counted[m]
      BY <1>6, <2>1 DEF Count, TypeOK
    <2>5. CASE n = Name[c]
      BY <1>1, <1>2, <2>1, <2>3, <2>4, <2>5
    <2>6. CASE n # Name[c]
      BY <1>1, <1>2, <2>1, <2>3, <2>4, <2>6
    <2> QED BY <2>5, <2>6
  <1>7. CASE Agregate
    <2>1. UNCHANGED <<counting, cell, m_sendQueue, hand, counted, got>> /\ draft'[n] = 0 /\ draft[n] = 0
      BY <1>7 DEF Agregate, sending, history, Linked, Drafted
    <2> QED BY <1>1, <1>2, <1>3, <2>1
  <1>8. ASSUME NEW m \in Names, Flush(m)
        PROVE  counted'[n] = cl' + draft'[n] + a' + s' + h' + got'[n]
    <2>1. /\ UNCHANGED <<counting, m_sendQueue, hand, counted, got>>
          /\ m \in left /\ m \in Registered /\ draft[m] = 0
      BY <1>8 DEF Flush, sending, history, Linked, Drafted
    <2>2. PICK c \in Counters : c = m_counterMap[m] /\ c <= connected /\ Name[c] = m
      BY <2>1, CellFacts DEF Linked, Cells
    <2>3. cell' = [cell EXCEPT ![m_val[c]] = 0]
      BY <1>8, <2>2, CellFacts DEF Flush, Exchange, Linked
    <2>4. Cell(m)' = 0 /\ (n # m => cl' = cl)
      BY <2>1, <2>2, <2>3, CellStep
    <2>5. draft'[m] = Cell(m) /\ (n # m => draft'[n] = draft[n])
      BY <1>8, <2>1 DEF Flush, TypeOK, Cell
    <2>6. CASE n = m
      BY <1>1, <1>2, <2>1, <2>4, <2>5, <2>6
    <2>7. CASE n # m
      BY <1>1, <1>2, <2>1, <2>4, <2>5, <2>7
    <2> QED BY <2>6, <2>7
  <1>9. CASE Enqueue
    <2>1. UNCHANGED <<counting, cell, hand, counted, got>> /\ draft'[n] = 0
      BY <1>9 DEF Enqueue, sending, history
    <2>2. CASE WorthSending
      <3>1. PICK r : r = [minute |-> lastTime, val |-> [m \in Registered |-> draft[m]]]
        OBVIOUS
      <3>2. r \in Reports /\ Held(r, n) = draft[n]
        BY <2>2, <3>1, NextReport DEF Linked
      <3>3. PICK q : q = Append(m_sendQueue["agregate"], r)
        OBVIOUS
      <3>4. m_sendQueue' = [m_sendQueue EXCEPT !["agregate"] = q]
        BY <1>9, <2>2, <3>1, <3>3 DEF Enqueue, Behind
      <3>5. m_sendQueue["agregate"] \in Seq(Reports) /\ q \in Seq(Reports)
        BY <3>2, <3>3 DEF TypeOK, Producers
      <3>6. Total(HeldIn(q, n)) = a + draft[n]
        BY <3>2, <3>3, <3>5, QueueSums, InQueueIs
      <3>7. a' = a + draft[n] /\ s' = s
        BY <3>4, <3>5, <3>6, QueueStep DEF Producers
      <3> QED BY <1>1, <1>3, <2>1, <3>7
    <2>3. CASE ~ WorthSending
      <3>1. UNCHANGED m_sendQueue /\ draft[n] = 0
        BY <1>9, <2>3 DEF Enqueue, WorthSending, Linked, Drafted
      <3> QED BY <1>1, <1>2, <1>3, <2>1, <3>1
    <2> QED BY <2>2, <2>3
  <1>10. CASE Dequeue /\ m_sendQueue[Best] # << >>
    <2>1. UNCHANGED <<counting, cell, draft, counted, got>> /\ sender = "turn"
      BY <1>10 DEF Dequeue, agregating, history
    <2>2. h = 0
      BY <2>1, HeldFacts DEF Linked
    <2>3. PICK p \in Producers : p = Best
      BY DEF Best, Producers
    <2>4. m_sendQueue[p] \in Seq(Reports) /\ m_sendQueue[p] # << >>
      BY <1>10, <2>3 DEF TypeOK
    <2>5. PICK q : q = Tail(m_sendQueue[p])
      OBVIOUS
    <2>6. q \in Seq(Reports) /\ hand' = Head(m_sendQueue[p]) /\ hand' \in Reports
      BY <1>10, <2>3, <2>4, <2>5 DEF Dequeue
    <2>7. m_sendQueue' = [m_sendQueue EXCEPT ![p] = q]
      BY <1>10, <2>3, <2>5 DEF Dequeue
    <2>8. InQueue(p, n) = h' + Total(HeldIn(q, n)) /\ h' \in Nat /\ Total(HeldIn(q, n)) \in Nat
      BY <2>4, <2>5, <2>6, QueueSums, InQueueIs, HeldFacts, Bounds
    <2>9. InQueue(p, n)' = Total(HeldIn(q, n))
          /\ \A o \in Producers : o # p => InQueue(o, n)' = InQueue(o, n)
      BY <2>6, <2>7, QueueStep
    <2>10. h' + a' + s' = a + s
      BY <1>1, <2>8, <2>9 DEF Producers
    <2>11. a' \in Nat /\ s' \in Nat
      BY <1>1, <2>8, <2>9 DEF Producers
    <2> QED BY <1>1, <1>3, <2>1, <2>2, <2>8, <2>10, <2>11
  <1>11. CASE Write
    <2>1. UNCHANGED <<counting, cell, draft, m_sendQueue, counted>> /\ hand' = NoReport
          /\ got'[n] = got[n] + h
      BY <1>11 DEF Write, agregating
    <2>2. h' = 0
      BY <2>1, HeldFacts
    <2> QED BY <1>1, <1>2, <1>3, <2>1, <2>2
  <1>12. CASE WriteFails
    <2>1. UNCHANGED <<counting, cell, draft, counted, got>> /\ hand' = NoReport /\ hand \in Reports
      BY <1>12 DEF WriteFails, agregating, Linked, TypeOK
    <2>2. h' = 0
      BY <2>1, HeldFacts
    <2>3. PICK q : q = Append(m_sendQueue["send"], hand)
      OBVIOUS
    <2>4. m_sendQueue' = [m_sendQueue EXCEPT !["send"] = q]
      BY <1>12, <2>3 DEF WriteFails, Behind
    <2>5. m_sendQueue["send"] \in Seq(Reports) /\ q \in Seq(Reports)
      BY <2>1, <2>3 DEF TypeOK, Producers
    <2>6. Total(HeldIn(q, n)) = s + h
      BY <2>1, <2>3, <2>5, QueueSums, InQueueIs
    <2>7. s' = s + h /\ a' = a
      BY <2>4, <2>5, <2>6, QueueStep DEF Producers
    <2> QED BY <1>1, <1>3, <2>1, <2>2, <2>7
  <1>13. CASE \/ Minute \/ SetBack \/ Destructor \/ \E to \in {"up", "down", "stalled"} : ServerTurns(to)
              \/ AgregateExit \/ While \/ ResetConnection \/ Wait
              \/ Dequeue /\ m_sendQueue[Best] = << >>
    <2>1. UNCHANGED <<counting, cell, draft, m_sendQueue, hand, counted, got>>
      BY <1>13 DEF Minute, SetBack, Destructor, ServerTurns, AgregateExit, While, ResetConnection,
                   Wait, Dequeue, agregating, sending, history
    <2> QED BY <1>4, <2>1
  <1> QED
    BY <1>5, <1>6, <1>7, <1>8, <1>9, <1>10, <1>11, <1>12, <1>13 DEF Next, agregateProc, sendProc

-----------------------------------------------------------------------------
(* Queues and their minutes. *)

LEMMA AppendFacts ==
    ASSUME NEW s \in Seq(Nat), NEW m \in Nat
    PROVE  /\ Append(s, m) \in Seq(Nat)
           /\ DOMAIN Append(s, m) = DOMAIN s \union {Len(s) + 1}
           /\ DOMAIN s = 1 .. Len(s)
           /\ \A i \in DOMAIN s : Append(s, m)[i] = s[i]
           /\ Append(s, m)[Len(s) + 1] = m
           /\ Range(Append(s, m)) = Range(s) \union {m}
           /\ IsInjective(s) /\ m \notin Range(s) => IsInjective(Append(s, m))
  <1>1. /\ Append(s, m) \in Seq(Nat)
        /\ DOMAIN Append(s, m) = DOMAIN s \union {Len(s) + 1}
        /\ DOMAIN s = 1 .. Len(s)
        /\ \A i \in DOMAIN s : Append(s, m)[i] = s[i]
        /\ Append(s, m)[Len(s) + 1] = m
    OBVIOUS
  <1>2. Range(Append(s, m)) = Range(s) \union {m}
    BY <1>1, Zenon DEF Range
  <1>3. IsInjective(s) /\ m \notin Range(s) => IsInjective(Append(s, m))
    BY <1>1, Zenon DEF IsInjective, Range
  <1> QED BY <1>1, <1>2, <1>3

LEMMA TailFacts ==
    ASSUME NEW s \in Seq(Nat), s # << >>
    PROVE  /\ Tail(s) \in Seq(Nat) /\ Head(s) \in Range(s)
           /\ \A i \in DOMAIN Tail(s) : i + 1 \in DOMAIN s /\ Tail(s)[i] = s[i + 1]
           /\ DOMAIN s \subseteq Int /\ DOMAIN Tail(s) \subseteq Nat
           /\ Range(s) = Range(Tail(s)) \union {Head(s)}
           /\ IsInjective(s) => IsInjective(Tail(s)) /\ Head(s) \notin Range(Tail(s))
  <1>1. /\ Tail(s) \in Seq(Nat) /\ 1 \in DOMAIN s /\ Head(s) = s[1]
        /\ DOMAIN Tail(s) = 1 .. Len(s) - 1 /\ DOMAIN s = 1 .. Len(s)
        /\ \A i \in DOMAIN Tail(s) : Tail(s)[i] = s[i + 1]
        /\ Len(s) \in Nat
    OBVIOUS
  <1>2. \A i \in DOMAIN Tail(s) : i + 1 \in DOMAIN s /\ i + 1 # 1 /\ i \in Nat
    BY <1>1
  <1>3. \A j \in DOMAIN s : j = 1 \/ (j - 1 \in DOMAIN Tail(s) /\ s[j] = Tail(s)[j - 1])
    BY <1>1
  <1>4. Range(s) = Range(Tail(s)) \union {Head(s)}
    <2>1. Range(s) \subseteq Range(Tail(s)) \union {Head(s)}
      BY <1>1, <1>3 DEF Range
    <2>2. Range(Tail(s)) \union {Head(s)} \subseteq Range(s)
      BY <1>1, <1>2 DEF Range
    <2> QED BY <2>1, <2>2
  <1>5. ASSUME IsInjective(s) PROVE IsInjective(Tail(s)) /\ Head(s) \notin Range(Tail(s))
    <2>1. ASSUME NEW i \in DOMAIN Tail(s), NEW j \in DOMAIN Tail(s), Tail(s)[i] = Tail(s)[j]
          PROVE  i = j
      <3>1. s[i + 1] = s[j + 1] /\ i + 1 \in DOMAIN s /\ j + 1 \in DOMAIN s
        BY <1>1, <1>2, <2>1
      <3>2. i + 1 = j + 1
        BY <1>5, <3>1 DEF IsInjective
      <3> QED BY <1>2, <3>2
    <2>2. ASSUME NEW i \in DOMAIN Tail(s) PROVE Tail(s)[i] # Head(s)
      BY <1>1, <1>2, <1>5 DEF IsInjective
    <2> QED BY <2>1, <2>2 DEF IsInjective, Range
  <1> QED BY <1>1, <1>2, <1>4, <1>5

LEMMA MinutesFacts ==
    ASSUME NEW q \in Seq(Reports)
    PROVE  /\ MinutesOf(q) \in Seq(Nat) /\ Len(MinutesOf(q)) = Len(q)
           /\ \A r \in Reports : MinutesOf(Append(q, r)) = Append(MinutesOf(q), r.minute)
           /\ q # << >> =>
                 /\ MinutesOf(q) # << >> /\ Head(q) \in Reports
                 /\ Head(q).minute = Head(MinutesOf(q))
                 /\ MinutesOf(Tail(q)) = Tail(MinutesOf(q)) /\ Tail(q) \in Seq(Reports)
  <1>1. \A r \in Reports : r.minute \in Nat
    BY HeldFacts
  <1>2. /\ DOMAIN q = 1 .. Len(q) /\ Len(q) \in Nat /\ \A i \in 1 .. Len(q) : q[i] \in Reports
    OBVIOUS
  <1>3. MinutesOf(q) \in Seq(Nat) /\ Len(MinutesOf(q)) = Len(q)
    BY <1>1, <1>2 DEF MinutesOf
  <1>4. ASSUME NEW r \in Reports
        PROVE  MinutesOf(Append(q, r)) = Append(MinutesOf(q), r.minute)
    BY <1>1, <1>2, <1>3 DEF MinutesOf
  <1>5. ASSUME q # << >>
        PROVE  /\ MinutesOf(q) # << >> /\ Head(q) \in Reports
               /\ Head(q).minute = Head(MinutesOf(q)) /\ Tail(q) \in Seq(Reports)
    BY <1>1, <1>2, <1>3, <1>5 DEF MinutesOf
  <1>6. ASSUME q # << >> PROVE MinutesOf(Tail(q)) = Tail(MinutesOf(q))
    BY <1>2, <1>3, <1>5, <1>6 DEF MinutesOf
  <1> QED BY <1>3, <1>4, <1>5, <1>6

-----------------------------------------------------------------------------
(* The order of the minutes. *)

\* What the order needs of the types.
Shape ==
    /\ lastTime \in Nat /\ clock \in Nat
    /\ m_sendQueue \in [Producers -> Seq(Reports)]
    /\ sender = "write" => hand \in Reports /\ hand.minute \in Nat
    /\ hand # NoReport => sender = "write"
    /\ sent \in Seq(Nat)

LEMMA MinuteSeqs ==
    ASSUME NEW s \in Seq(Minutes) PROVE s \in Seq(Nat)
  <1>1. Len(s) \in Nat /\ s \in [1 .. Len(s) -> Minutes]
    OBVIOUS
  <1>2. \A i \in 1 .. Len(s) : s[i] \in Nat
    BY <1>1, Bounds
  <1>3. s \in [1 .. Len(s) -> Nat]
    BY <1>1, <1>2
  <1> QED BY <1>1, <1>3

LEMMA ShapeHolds == (TypeOK /\ Linked => Shape) /\ (TypeOK' /\ Linked' => Shape')
  <1>1. TypeOK /\ Linked => Shape
    BY MinuteSeqs, Bounds, HeldFacts DEF TypeOK, Linked, Shape
  <1>2. TypeOK' /\ Linked' => Shape'
    BY MinuteSeqs, Bounds, HeldFacts DEF TypeOK, Linked, Shape
  <1> QED BY <1>1, <1>2

\* Steps that leave the reports where they are.
LEMMA SameOrder ==
    ASSUME Shape, Shape', Ordered, UNCHANGED <<lastTime, m_sendQueue, sent, refused>>,
           InHand' = InHand, clock <= clock', agregate' = "flush" => agregate = "flush"
    PROVE  Ordered'
  <1>1. Taken' = Taken /\ Queued("agregate")' = Queued("agregate") /\ Queued("send")' = Queued("send")
    BY DEF Taken, Queued
  <1>2. ASSUME NEW m \in Taken \union Range(Queued("agregate")) PROVE Past(m)'
    BY DEF Past, Ordered, Chronological
  <1>3. Chronological'
    <2>1. lastTime' <= clock'
      BY DEF Ordered, Chronological, Shape
    <2> QED BY <1>1, <1>2, <2>1 DEF Ordered, Chronological
  <1> QED BY <1>1, <1>3 DEF Ordered, Distinct, Excused

LEMMA QueueFacts ==
    ASSUME Shape
    PROVE  /\ m_sendQueue["agregate"] \in Seq(Reports) /\ m_sendQueue["send"] \in Seq(Reports)
           /\ Queued("agregate") \in Seq(Nat) /\ Queued("send") \in Seq(Nat)
           /\ Range(Queued("agregate")) \subseteq Nat /\ Taken \subseteq Nat
  <1>1. m_sendQueue["agregate"] \in Seq(Reports) /\ m_sendQueue["send"] \in Seq(Reports)
    BY DEF Shape, Producers
  <1>2. Queued("agregate") \in Seq(Nat) /\ Queued("send") \in Seq(Nat)
    BY <1>1, MinutesFacts DEF Queued
  <1>3. \A q \in Seq(Nat) : Range(q) \subseteq Nat
    BY DEF Range
  <1>4. InHand \subseteq Nat
    BY DEF InHand, Shape
  <1> QED BY <1>1, <1>2, <1>3, <1>4 DEF Taken, Shape

LEMMA AgregateOrder ==
    ASSUME Shape, Ordered, Agregate
    PROVE  Ordered'
  <1>1. UNCHANGED <<m_sendQueue, sent, refused, sender, hand, clock>> /\ lastTime' = clock
    BY DEF Agregate, sending, env, history
  <1>2. lastTime < clock
    BY DEF Agregate, NewMinute, Ordered, Chronological, Shape
  <1>3. /\ Taken' = Taken /\ InHand' = InHand
        /\ Queued("agregate")' = Queued("agregate") /\ Queued("send")' = Queued("send")
    BY <1>1 DEF Taken, Queued, InHand
  <1>4. ASSUME NEW m \in Taken \union Range(Queued("agregate")) PROVE Past(m)'
    <2>1. m \in Nat /\ m <= lastTime
      BY QueueFacts DEF Ordered, Chronological, Past
    <2> QED BY <1>1, <1>2, <2>1 DEF Past, Shape
  <1>5. lastTime' <= clock'
    BY <1>1 DEF Shape
  <1> QED BY <1>1, <1>3, <1>4, <1>5 DEF Ordered, Chronological, Distinct, Excused

\* The report goes behind those made before it.
LEMMA EnqueueOrder ==
    ASSUME TypeOK, Drafted, Shape, Shape', Ordered, Enqueue
    PROVE  Ordered'
  <1> DEFINE a == Queued("agregate")
  <1>1. UNCHANGED <<lastTime, sent, refused, sender, hand, clock>> /\ InHand' = InHand
    BY DEF Enqueue, sending, env, history, InHand
  <1>2. agregate = "flush" /\ agregate' = "idle"
    BY DEF Enqueue
  <1>3. CASE ~ WorthSending
    BY <1>1, <1>2, <1>3, SameOrder DEF Enqueue, Shape
  <1>4. CASE WorthSending
    <2>1. PICK r : r = [minute |-> lastTime, val |-> [n \in Registered |-> draft[n]]]
      OBVIOUS
    <2>2. r \in Reports /\ r.minute = lastTime
      BY <1>4, <2>1, NextReport
    <2>3. m_sendQueue'["agregate"] = Append(m_sendQueue["agregate"], r)
          /\ m_sendQueue'["send"] = m_sendQueue["send"]
      BY <1>4, <2>1 DEF Enqueue, Behind, Shape, Producers
    <2>4. Queued("agregate")' = Append(Queued("agregate"), lastTime)
          /\ Queued("send")' = Queued("send") /\ Taken' = Taken
      BY <1>1, <2>2, <2>3, QueueFacts, MinutesFacts DEF Queued, Taken
    <2>5. lastTime \in Nat /\ Queued("agregate") \in Seq(Nat) /\ Len(a) \in Nat
      BY QueueFacts DEF Shape
    <2>6. \A m \in Taken \union Range(a) : m \in Nat /\ m < lastTime
      BY <1>2, QueueFacts DEF Ordered, Chronological, Past
    <2>7. \A m \in Taken \union Range(a) \union {lastTime} : Past(m)'
      BY <1>1, <1>2, <2>5, <2>6 DEF Past
    <2>8. /\ DOMAIN Append(a, lastTime) = DOMAIN a \union {Len(a) + 1} /\ DOMAIN a = 1 .. Len(a)
          /\ \A i \in DOMAIN a : Append(a, lastTime)[i] = a[i] /\ a[i] \in Range(a)
          /\ Append(a, lastTime)[Len(a) + 1] = lastTime
          /\ Range(Append(a, lastTime)) = Range(a) \union {lastTime}
      BY <2>5, AppendFacts DEF Range
    <2>9. \A m \in Taken : \A i \in DOMAIN Append(a, lastTime) : m < Append(a, lastTime)[i]
      BY <2>6, <2>8 DEF Ordered, Chronological
    <2>10. ASSUME NEW i \in DOMAIN Append(a, lastTime), NEW j \in DOMAIN Append(a, lastTime), i < j
           PROVE  Append(a, lastTime)[i] < Append(a, lastTime)[j]
      <3>1. i \in DOMAIN a
        BY <2>5, <2>8, <2>10
      <3>2. CASE j \in DOMAIN a
        BY <2>8, <2>10, <3>1, <3>2 DEF Ordered, Chronological
      <3>3. CASE j = Len(a) + 1
        BY <2>6, <2>8, <3>1, <3>3
      <3> QED BY <2>8, <3>2, <3>3
    <2>11. Chronological'
      BY <1>1, <2>4, <2>7, <2>8, <2>9, <2>10 DEF Ordered, Chronological
    <2> QED BY <1>1, <2>4, <2>11 DEF Ordered, Distinct, Excused
  <1> QED BY <1>3, <1>4

\* From the sender's own queue only what was refused, from the other the
\* first of what is later than all that was taken.
LEMMA DequeueOrder ==
    ASSUME Shape, Shape', Ordered, Dequeue
    PROVE  Ordered'
  <1> DEFINE a == Queued("agregate")
             s == Queued("send")
  <1>1. UNCHANGED <<agregate, lastTime, sent, refused, clock>> /\ sender = "turn"
    BY DEF Dequeue, agregating, env, history
  <1>2. InHand = {} /\ Taken = Range(sent) \union Range(s)
    BY <1>1 DEF InHand, Taken
  <1>3. \A m \in Nat : Past(m)' <=> Past(m)
    BY <1>1 DEF Past
  <1>4. a \in Seq(Nat) /\ s \in Seq(Nat) /\ Range(a) \subseteq Nat /\ Taken \subseteq Nat
    BY QueueFacts
  <1>5. CASE m_sendQueue[Best] = << >>
    <2>1. UNCHANGED m_sendQueue /\ sender' = "check"
      BY <1>5 DEF Dequeue, SendTo
    <2>2. InHand' = InHand /\ clock <= clock'
      BY <1>1, <1>2, <2>1 DEF InHand, Shape
    <2> QED BY <1>1, <2>1, <2>2, SameOrder
  <1>6. CASE Best = "send" /\ m_sendQueue["send"] # << >>
    <2>1. /\ m_sendQueue'["send"] = Tail(m_sendQueue["send"])
          /\ m_sendQueue'["agregate"] = m_sendQueue["agregate"]
          /\ hand' = Head(m_sendQueue["send"]) /\ sender' = "write"
      BY <1>6 DEF Dequeue, SendTo, Shape, Producers
    <2>2. /\ s # << >> /\ Queued("send")' = Tail(s) /\ InHand' = {Head(s)}
          /\ Queued("agregate")' = a
      BY <1>6, <2>1, QueueFacts, MinutesFacts DEF Queued, InHand
    <2>3. Range(s) = Range(Tail(s)) \union {Head(s)} /\ Head(s) \in Range(s)
          /\ (IsInjective(s) => IsInjective(Tail(s)) /\ Head(s) \notin Range(Tail(s)))
      BY <1>4, <2>2, TailFacts
    <2>4. Taken' = Taken
      BY <1>1, <1>2, <2>2, <2>3 DEF Taken
    <2>5. Chronological'
      BY <1>1, <1>3, <1>4, <2>2, <2>4 DEF Ordered, Chronological
    <2>6. Distinct'
      BY <1>1, <2>2, <2>3 DEF Ordered, Distinct
    <2>7. Excused'
      BY <1>1, <2>2, <2>3 DEF Ordered, Excused
    <2> QED BY <2>5, <2>6, <2>7 DEF Ordered
  <1>7. CASE Best = "agregate" /\ m_sendQueue["agregate"] # << >>
    <2>1. /\ m_sendQueue'["agregate"] = Tail(m_sendQueue["agregate"])
          /\ m_sendQueue'["send"] = m_sendQueue["send"]
          /\ hand' = Head(m_sendQueue["agregate"]) /\ sender' = "write"
      BY <1>7 DEF Dequeue, SendTo, Shape, Producers
    <2>2. /\ a # << >> /\ Queued("agregate")' = Tail(a) /\ InHand' = {Head(a)}
          /\ Queued("send")' = s
      BY <1>7, <2>1, QueueFacts, MinutesFacts DEF Queued, InHand
    <2>3. /\ Range(a) = Range(Tail(a)) \union {Head(a)}
          /\ \A i \in DOMAIN Tail(a) : i + 1 \in DOMAIN a /\ Tail(a)[i] = a[i + 1]
          /\ DOMAIN Tail(a) \subseteq Nat
          /\ Head(a) = a[1] /\ 1 \in DOMAIN a
      BY <1>4, <2>2, TailFacts
    <2>4. Taken' = Taken \union {Head(a)}
      BY <1>1, <1>2, <2>2 DEF Taken
    <2>5. \A m \in Taken : m < Head(a)
      BY <2>3 DEF Ordered, Chronological
    <2>6. \A i \in DOMAIN Tail(a) : Head(a) < Tail(a)[i]
      BY <2>3 DEF Ordered, Chronological
    <2>7. \A i, j \in DOMAIN Tail(a) : i < j => Tail(a)[i] < Tail(a)[j]
      <3>1. \A i, j \in DOMAIN Tail(a) : i < j => i + 1 < j + 1
        BY <2>3
      <3> QED BY <2>3, <3>1 DEF Ordered, Chronological
    <2>8. \A m \in Taken : \A i \in DOMAIN Tail(a) : m < Tail(a)[i]
      BY <2>3 DEF Ordered, Chronological
    <2>9. Chronological'
      <3>1. \A m \in Taken' \union Range(Tail(a)) : Past(m)'
        BY <1>3, <1>4, <2>3, <2>4 DEF Ordered, Chronological
      <3>2. lastTime' <= clock'
        BY <1>1 DEF Ordered, Chronological
      <3> QED BY <2>2, <2>4, <2>6, <2>7, <2>8, <3>1, <3>2 DEF Chronological
    <2>10. Head(a) \notin Range(sent) \union Range(s)
      BY <1>2, <1>4, <2>5
    <2>11. Distinct'
      BY <1>1, <2>2, <2>10 DEF Ordered, Distinct
    <2>12. Excused'
      BY <1>1, <1>2, <2>2, <2>5 DEF Ordered, Excused
    <2> QED BY <2>9, <2>11, <2>12 DEF Ordered
  <1>8. Best \in {"send", "agregate"}
    BY DEF Best
  <1> QED BY <1>5, <1>6, <1>7, <1>8

\* What is at hand is new to those written, and later than they are unless
\* it was refused.
LEMMA WriteOrder ==
    ASSUME Shape, Shape', Ordered, Write
    PROVE  Ordered'
  <1> DEFINE m == hand.minute
             t == Append(sent, m)
  <1>1. /\ UNCHANGED <<agregate, lastTime, refused, clock, m_sendQueue>> /\ sender = "write"
        /\ sent' = t /\ sender' = "check"
    BY DEF Write, SendTo, agregating, env
  <1>2. InHand = {m} /\ InHand' = {} /\ m \in Nat /\ sent \in Seq(Nat)
    BY <1>1 DEF InHand, Shape
  <1>3. Queued("agregate")' = Queued("agregate") /\ Queued("send")' = Queued("send")
    BY <1>1 DEF Queued
  <1> HIDE DEF m
  <1>4. /\ Range(t) = Range(sent) \union {m}
        /\ DOMAIN t = DOMAIN sent \union {Len(sent) + 1} /\ DOMAIN sent = 1 .. Len(sent)
        /\ \A i \in DOMAIN sent : t[i] = sent[i] /\ sent[i] \in Range(sent)
        /\ t[Len(sent) + 1] = m
        /\ IsInjective(sent) /\ m \notin Range(sent) => IsInjective(t)
    BY <1>2, AppendFacts DEF Range
  <1>5. Len(sent) \in Nat /\ \A i \in DOMAIN sent : sent[i] \in Nat
    BY <1>2
  <1>6. Taken' = Taken
    BY <1>1, <1>2, <1>3, <1>4 DEF Taken
  <1>7. Chronological'
    BY <1>1, <1>3, <1>6 DEF Ordered, Chronological, Past
  <1>8. Distinct'
    BY <1>1, <1>2, <1>3, <1>4 DEF Ordered, Distinct
  <1>9. ASSUME NEW i \in DOMAIN t, NEW j \in DOMAIN t, i < j, t[j] < t[i]
        PROVE  t[j] \in refused
    <2>1. i \in DOMAIN sent
      BY <1>4, <1>5, <1>9
    <2>2. CASE j \in DOMAIN sent
      BY <1>4, <1>9, <2>1, <2>2 DEF Ordered, Excused
    <2>3. CASE j = Len(sent) + 1
      <3>1. m < sent[i] /\ sent[i] \in Range(sent) /\ t[j] = m
        BY <1>4, <1>9, <2>1, <2>3
      <3> QED BY <1>2, <1>5, <2>1, <3>1 DEF Ordered, Excused
    <2> QED BY <1>4, <2>2, <2>3
  <1>10. Excused'
    BY <1>1, <1>2, <1>3, <1>9 DEF Ordered, Excused
  <1> QED BY <1>7, <1>8, <1>10 DEF Ordered

\* What is refused goes to the end of the sender's own queue.
LEMMA RefusedOrder ==
    ASSUME Shape, Shape', Ordered, WriteFails
    PROVE  Ordered'
  <1> DEFINE m == hand.minute
             s == Queued("send")
  <1>1. /\ UNCHANGED <<agregate, lastTime, sent, clock>> /\ sender = "write" /\ sender' = "check"
        /\ refused' = refused \union {m}
    BY DEF WriteFails, SendTo, agregating, env
  <1>2. /\ m_sendQueue'["send"] = Append(m_sendQueue["send"], hand)
        /\ m_sendQueue'["agregate"] = m_sendQueue["agregate"]
    BY DEF WriteFails, Behind, Shape, Producers
  <1>3. InHand = {m} /\ InHand' = {} /\ m \in Nat /\ hand \in Reports
    BY <1>1 DEF InHand, Shape
  <1>4. Queued("agregate")' = Queued("agregate") /\ Queued("send")' = Append(s, m)
    BY <1>2, <1>3, QueueFacts, MinutesFacts DEF Queued
  <1> HIDE DEF m
  <1>5. /\ Range(Append(s, m)) = Range(s) \union {m}
        /\ IsInjective(s) /\ m \notin Range(s) => IsInjective(Append(s, m))
    BY <1>3, QueueFacts, AppendFacts
  <1>6. Taken' = Taken
    BY <1>1, <1>3, <1>4, <1>5 DEF Taken
  <1>7. Chronological'
    BY <1>1, <1>4, <1>6 DEF Ordered, Chronological, Past
  <1>8. Distinct'
    BY <1>1, <1>3, <1>4, <1>5 DEF Ordered, Distinct
  <1>9. Excused'
    BY <1>1, <1>3, <1>4, <1>5 DEF Ordered, Excused
  <1> QED BY <1>7, <1>8, <1>9 DEF Ordered

LEMMA OrderStep ==
    ASSUME TypeOK, Linked, Shape, Shape', ~ setBack => Ordered, ~ setBack', Next
    PROVE  Ordered'
  <1>1. ~ SetBack /\ ~ setBack
    BY DEF SetBack, Next, Minute, ServerTurns, connect, Count, agregateProc, Agregate, Flush,
           Enqueue, AgregateExit, sendProc, While, ResetConnection, Wait, Dequeue, Write,
           WriteFails, Destructor, env
  <1>2. clock \in Nat
    BY DEF Shape
  <1>3. CASE Minute \/ Destructor \/ \E to \in {"up", "down", "stalled"} : ServerTurns(to)
    <2>1. UNCHANGED <<agregate, lastTime, m_sendQueue, sender, hand, sent, refused>>
      BY <1>3 DEF Minute, Destructor, ServerTurns, agregating, sending, history
    <2>2. clock <= clock'
      BY <1>2, <1>3 DEF Minute, Destructor, ServerTurns, env
    <2> QED BY <1>1, <2>1, <2>2, SameOrder DEF InHand
  <1>4. CASE \/ \E c \in Counters : connect(c) \/ Count(c)
             \/ (\E n \in Names : Flush(n)) \/ AgregateExit
    <2>1. UNCHANGED <<lastTime, m_sendQueue, sender, hand, sent, refused, clock>>
      BY <1>4 DEF connect, Count, Flush, AgregateExit, agregating, sending, env, history
    <2>2. agregate' = "flush" => agregate = "flush"
      BY <1>4 DEF connect, Count, Flush, AgregateExit, agregating
    <2> QED BY <1>1, <1>2, <2>1, <2>2, SameOrder DEF InHand
  <1>5. CASE While \/ ResetConnection \/ Wait
    <2>1. UNCHANGED <<agregate, lastTime, m_sendQueue, sent, refused, clock>>
      BY <1>5 DEF While, ResetConnection, Wait, agregating, env, history
    <2>2. sender # "write" /\ sender' # "write"
      BY <1>5 DEF While, ResetConnection, Wait, SendTo
    <2> QED BY <1>1, <1>2, <2>1, <2>2, SameOrder DEF InHand
  <1> QED
    BY <1>1, <1>3, <1>4, <1>5, AgregateOrder, EnqueueOrder, DequeueOrder, WriteOrder, RefusedOrder
       DEF Next, agregateProc, sendProc, Linked

-----------------------------------------------------------------------------
(* The reports in one sequence. *)

LEMMA ConcatFacts ==
    ASSUME NEW s \in Seq(Nat), NEW t \in Seq(Nat)
    PROVE  /\ s \o t \in Seq(Nat)
           /\ \A i \in DOMAIN s : i \in DOMAIN (s \o t) /\ (s \o t)[i] = s[i]
           /\ Range(s \o t) \subseteq Range(s) \union Range(t)
           /\ IsInjective(s) /\ IsInjective(t) /\ Range(s) \intersect Range(t) = {}
                 => IsInjective(s \o t)
  <1>1. /\ s \o t \in Seq(Nat) /\ Len(s) \in Nat
        /\ DOMAIN s = 1 .. Len(s) /\ DOMAIN t = 1 .. Len(t)
        /\ DOMAIN (s \o t) = 1 .. Len(s) + Len(t) /\ Len(t) \in Nat
        /\ \A i \in DOMAIN s : i \in DOMAIN (s \o t) /\ (s \o t)[i] = s[i]
    OBVIOUS
  <1>2. ASSUME NEW i \in DOMAIN (s \o t), i \notin DOMAIN s
        PROVE  i - Len(s) \in DOMAIN t /\ (s \o t)[i] = t[i - Len(s)]
    BY <1>1, <1>2
  <1>3. Range(s \o t) \subseteq Range(s) \union Range(t)
    BY <1>1, <1>2 DEF Range
  <1>4. ASSUME IsInjective(s), IsInjective(t), Range(s) \intersect Range(t) = {},
               NEW i \in DOMAIN (s \o t), NEW j \in DOMAIN (s \o t), (s \o t)[i] = (s \o t)[j]
        PROVE  i = j
    <2>1. i \in DOMAIN s <=> j \in DOMAIN s
      BY <1>1, <1>2, <1>4 DEF Range
    <2>2. CASE i \in DOMAIN s
      BY <1>1, <1>4, <2>1, <2>2 DEF IsInjective
    <2>3. CASE i \notin DOMAIN s
      <3>1. i - Len(s) = j - Len(s)
        BY <1>2, <1>4, <2>1, <2>3 DEF IsInjective
      <3> QED BY <1>1, <3>1
    <2> QED BY <2>2, <2>3
  <1> QED BY <1>1, <1>3, <1>4 DEF IsInjective

LEMMA OrderedReports ==
    ASSUME Shape, Ordered
    PROVE  /\ \A i, j \in DOMAIN Made : Made[i] = Made[j] => i = j
           /\ \A i, j \in DOMAIN Made :
                 i < j /\ j <= Len(sent) /\ Made[j] < Made[i] => Made[j] \in refused
  <1> DEFINE h == IF hand = NoReport THEN << >> ELSE <<hand.minute>>
             a == Queued("agregate")
             s == Queued("send")
  <1>1. Made = ((sent \o h) \o s) \o a
    BY DEF Made, Queued, MinutesOf
  <1>2. /\ sent \in Seq(Nat) /\ a \in Seq(Nat) /\ s \in Seq(Nat)
        /\ h \in Seq(Nat) /\ Range(h) \subseteq InHand /\ IsInjective(h)
    <2>1. CASE hand = NoReport
      BY <2>1, QueueFacts DEF Shape, Range, IsInjective
    <2>2. CASE hand # NoReport
      <3>1. h = <<hand.minute>> /\ InHand = {hand.minute} /\ hand.minute \in Nat
        BY <2>2 DEF Shape, InHand
      <3> QED BY <3>1, QueueFacts DEF Shape, Range, IsInjective
    <2> QED BY <2>1, <2>2
  <1> HIDE DEF h
  <1>3. /\ sent \o h \in Seq(Nat) /\ IsInjective(sent \o h)
        /\ Range(sent \o h) \subseteq Range(sent) \union InHand
    BY <1>2, ConcatFacts DEF Ordered, Distinct
  <1>4. /\ (sent \o h) \o s \in Seq(Nat) /\ IsInjective((sent \o h) \o s)
        /\ Range((sent \o h) \o s) \subseteq Taken
    <2>1. IsInjective(s) /\ Range(sent \o h) \intersect Range(s) = {}
      BY <1>3 DEF Ordered, Distinct
    <2>2. /\ (sent \o h) \o s \in Seq(Nat) /\ IsInjective((sent \o h) \o s)
          /\ Range((sent \o h) \o s) \subseteq Range(sent \o h) \union Range(s)
      BY <1>2, <1>3, <2>1, ConcatFacts
    <2> QED BY <1>3, <2>2 DEF Taken
  <1>5. IsInjective(a) /\ Taken \intersect Range(a) = {}
    <2>1. \A i \in DOMAIN a : a[i] \in Nat /\ i \in Nat
      BY <1>2
    <2>2. \A i, j \in DOMAIN a : a[i] = a[j] => i = j
      <3>1. \A i, j \in DOMAIN a : i < j => a[i] # a[j]
        BY <2>1 DEF Ordered, Chronological
      <3> QED BY <2>1, <3>1
    <2>3. \A i \in DOMAIN a : a[i] \notin Taken
      BY <2>1 DEF Ordered, Chronological
    <2> QED BY <2>2, <2>3 DEF IsInjective, Range
  <1>6. IsInjective(Made)
    <2>1. Range((sent \o h) \o s) \intersect Range(a) = {}
      BY <1>4, <1>5
    <2> QED BY <1>1, <1>2, <1>4, <1>5, <2>1, ConcatFacts
  <1>7. \A i \in DOMAIN sent : Made[i] = sent[i]
    BY <1>1, <1>2, <1>3, <1>4, ConcatFacts
  <1>8. ASSUME NEW i \in DOMAIN Made, NEW j \in DOMAIN Made,
               i < j, j <= Len(sent), Made[j] < Made[i]
        PROVE  Made[j] \in refused
    <2>1. Made \in Seq(Nat)
      BY <1>1, <1>2, <1>4, ConcatFacts
    <2>2. i \in DOMAIN sent /\ j \in DOMAIN sent
      BY <1>2, <1>8, <2>1
    <2> QED BY <1>7, <1>8, <2>2 DEF Ordered, Excused
  <1> QED BY <1>6, <1>8 DEF IsInjective

-----------------------------------------------------------------------------
(* The invariant. *)

LEMMA InitInv == Init => IInv
  <1> SUFFICES ASSUME Init PROVE IInv
    OBVIOUS
  <1>1. TypeOK
    <2>1. sent \in Seq(Minutes) /\ m_sendQueue \in [Producers -> Seq(Reports)]
      BY DEF Init
    <2>2. m_counterMap \in [Names -> Counters \union {NoCounter}] /\ connected \in 0 .. Len(Name)
      BY CounterFacts DEF Init
    <2>3. m_val \in [Counters -> Counters] /\ cell \in [Counters -> Counts]
      BY Bounds DEF Init
    <2>4. draft \in [Names -> Counts] /\ counted \in [Names -> Counts] /\ got \in [Names -> Counts]
      BY Bounds DEF Init
    <2>5. lastTime \in Minutes /\ clock \in Minutes /\ faults \in 0 .. MaxFaults
      BY Bounds, BoundAssumption DEF Init
    <2> QED BY <2>1, <2>2, <2>3, <2>4, <2>5 DEF Init, TypeOK
  <1>2. Registered = {}
    BY DEF Init, Registered
  <1>3. Linked
    BY <1>2, CounterFacts DEF Init, Linked, Cells, Drafted, NoCounter
  <1>4. ASSUME NEW n \in Names
        PROVE  counted[n] = Cell(n) + draft[n] + InQueue("agregate", n) + InQueue("send", n)
                            + Held(hand, n) + got[n]
    <2>1. Cell(n) = 0 /\ draft[n] = 0 /\ got[n] = 0 /\ counted[n] = 0 /\ Held(hand, n) = 0
      BY <1>2, HeldFacts DEF Init, Cell
    <2>2. HeldIn(<< >>, n) = << >>
      BY DEF HeldIn
    <2>3. InQueue("agregate", n) = 0 /\ InQueue("send", n) = 0
      BY <2>2, InQueueIs, TotalFacts DEF Init, Producers
    <2> QED BY <2>1, <2>3
  <1>5. Ordered
    <2>1. Queued("agregate") = << >> /\ Queued("send") = << >> /\ InHand = {} /\ sent = << >>
      BY DEF Init, Queued, MinutesOf, Producers, InHand
    <2>2. Range(<< >>) = {} /\ IsInjective(<< >>)
      BY DEF Range, IsInjective
    <2> QED BY <2>1, <2>2 DEF Init, Ordered, Chronological, Distinct, Excused, Taken
  <1> QED BY <1>1, <1>3, <1>4, <1>5 DEF IInv, CountedOnce

LEMMA NextInv == IInv /\ [Next]_vars => IInv'
  <1>1. ASSUME IInv, Next PROVE IInv'
    <2>1. TypeOK' /\ Linked'
      BY <1>1, TypeStep, LinkStep DEF IInv
    <2>2. CountedOnce'
      BY <1>1, SumStep DEF IInv, CountedOnce
    <2>3. Shape /\ Shape'
      BY <1>1, <2>1, ShapeHolds DEF IInv
    <2>4. ~ setBack' => Ordered'
      BY <1>1, <2>3, OrderStep DEF IInv
    <2> QED BY <2>1, <2>2, <2>4 DEF IInv
  <1>2. ASSUME IInv, UNCHANGED vars PROVE IInv'
    <2>1. UNCHANGED <<m_run, m_counterMap, connected, m_val, cell, agregate, lastTime, draft, left,
                      sender, hand, due, socket_, m_sendQueue>>
      BY <1>2 DEF vars, counting, agregating, sending
    <2>2. UNCHANGED <<clock, server, setBack, counted, sent, got, refused, faults>>
      BY <1>2 DEF vars, env, history
    <2>3. TypeOK'
      BY <1>2, <2>1, <2>2 DEF IInv, TypeOK
    <2>4. Linked'
      BY <1>2, <2>1 DEF IInv, Linked, Cells, Drafted, Registered
    <2>5. CountedOnce'
      BY <1>2, <2>1, <2>2 DEF IInv, CountedOnce, Cell, Registered, InQueue
    <2>6. Shape /\ Shape'
      BY <1>2, <2>3, <2>4, ShapeHolds DEF IInv
    <2>7. InHand' = InHand /\ clock <= clock'
      BY <2>1, <2>2, <2>6 DEF InHand, Shape
    <2> QED BY <1>2, <2>1, <2>2, <2>3, <2>4, <2>5, <2>6, <2>7, SameOrder DEF IInv
  <1> QED BY <1>1, <1>2

-----------------------------------------------------------------------------

(***************************************************************************)
(* No step of a handler, of agregateProc or of sendProc leaves the types   *)
(* of Metrics: no number under a name is more than was counted under it.   *)
(***************************************************************************)
THEOREM TypeCorrect == Spec => []TypeOK
  BY InitInv, NextInv, PTL DEF Spec, IInv

(***************************************************************************)
(* Whatever handlers count with ++ under a name is at every moment in one  *)
(* place: the number, agregateProc's report, a queue, sendProc's hand, or  *)
(* written.                                                                *)
(***************************************************************************)
THEOREM CountsAreKept == Spec => []CountedOnce
  BY InitInv, NextInv, PTL DEF Spec, IInv

(***************************************************************************)
(* The reports of agregateProc, queued, at hand or written, are all of     *)
(* different minutes, and sendProc writes them in the order of the minutes *)
(* but for what a broken connection refused, unless the clock was set      *)
(* back.                                                                   *)
(***************************************************************************)
THEOREM ReportsAreOrdered == Spec => []MinutesInOrder
  <1>1. IInv => MinutesInOrder
    BY ShapeHolds, OrderedReports DEF IInv, MinutesInOrder, OnePerMinute, LateWasRefused
  <1> QED BY <1>1, InitInv, NextInv, PTL DEF Spec

=============================================================================
