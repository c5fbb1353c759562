--------------------------- MODULE Click2DBProofs ---------------------------
(***************************************************************************)
(* Proofs about Click2DB for any files, tables, faults and restarts: what  *)
(* the thread holds when it uses the client, that no file is lost track of *)
(* or held twice, that the destination keeps the promise of Outbox, which  *)
(* columns an accepted insert carries when the table is altered at any     *)
(* moment, and how many disturbances it takes until a file is given up.    *)
(***************************************************************************)
EXTENDS Click2DB, SequenceTheorems, FiniteSetTheorems, TLAPS

-----------------------------------------------------------------------------
(* The queue. *)

Queues == [Producers -> Seq(Entry)]

\* The first part of InPlayOnce: no two places of the queues name one file.
QueueOnce ==
    \A p, q \in Producers :
       \A i \in DOMAIN m_pQueue[p], j \in DOMAIN m_pQueue[q] :
          m_pQueue[p][i].name = m_pQueue[q][j].name => p = q /\ i = j

(***************************************************************************)
(* Queue::enqueue adds one file to those queued, and only once if it was   *)
(* not queued before.                                                      *)
(***************************************************************************)
LEMMA PushStep ==
    ASSUME m_pQueue \in Queues, NEW p \in Producers, NEW e \in Entry, Push(p, e)
    PROVE  /\ m_pQueue' \in Queues
           /\ \A f : Queued(f)' <=> Queued(f) \/ f = e.name
           /\ QueueOnce /\ ~ Queued(e.name) => QueueOnce'
  <1> DEFINE old == m_pQueue[p]
             new == Append(old, e)
  <1>1. old \in Seq(Entry) /\ Len(old) \in Nat
    BY DEF Queues
  <1>2. /\ new \in Seq(Entry)
        /\ DOMAIN old = 1 .. Len(old) /\ DOMAIN new = 1 .. (Len(old) + 1)
        /\ new[Len(old) + 1] = e
        /\ \A i \in 1 .. Len(old) : new[i] = old[i]
    BY <1>1
  <1>3. /\ m_pQueue'[p] = new
        /\ \A q \in Producers : q # p => m_pQueue'[q] = m_pQueue[q]
        /\ m_pQueue' \in Queues
    BY <1>2 DEF Push, Queues
  <1> HIDE DEF new
  <1>4. ASSUME NEW f PROVE Queued(f)' <=> Queued(f) \/ f = e.name
    <2>1. ASSUME Queued(f)' PROVE Queued(f) \/ f = e.name
      <3>1. PICK q \in Producers : \E i \in DOMAIN m_pQueue'[q] : m_pQueue'[q][i].name = f
        BY <2>1 DEF Queued
      <3>2. CASE q = p
        <4>1. PICK i \in DOMAIN new : new[i].name = f
          BY <1>3, <3>1, <3>2
        <4>2. CASE i = Len(old) + 1
          BY <1>2, <4>1, <4>2
        <4>3. CASE i \in 1 .. Len(old)
          BY <1>2, <4>1, <4>3 DEF Queued
        <4> QED BY <1>1, <1>2, <4>1, <4>2, <4>3
      <3>3. CASE q # p
        BY <1>3, <3>1, <3>3 DEF Queued
      <3> QED BY <3>2, <3>3
    <2>2. ASSUME Queued(f) PROVE Queued(f)'
      <3>1. PICK q \in Producers : \E i \in DOMAIN m_pQueue[q] : m_pQueue[q][i].name = f
        BY <2>2 DEF Queued
      <3>2. PICK i \in DOMAIN m_pQueue[q] : m_pQueue[q][i].name = f
        BY <3>1
      <3>3. i \in DOMAIN m_pQueue'[q] /\ m_pQueue'[q][i] = m_pQueue[q][i]
        BY <1>1, <1>2, <1>3, <3>1
      <3> QED BY <3>2, <3>3 DEF Queued
    <2>3. ASSUME f = e.name PROVE Queued(f)'
      <3>1. Len(old) + 1 \in DOMAIN m_pQueue'[p] /\ m_pQueue'[p][Len(old) + 1].name = f
        BY <1>1, <1>2, <1>3, <2>3
      <3> QED BY <3>1 DEF Queued
    <2> QED BY <2>1, <2>2, <2>3
  <1>5. ASSUME QueueOnce, ~ Queued(e.name),
               NEW q \in Producers, NEW r \in Producers,
               NEW i \in DOMAIN m_pQueue'[q], NEW j \in DOMAIN m_pQueue'[r],
               m_pQueue'[q][i].name = m_pQueue'[r][j].name
        PROVE  q = r /\ i = j
    <2>1. \A s \in Producers : \A k \in DOMAIN m_pQueue'[s] :
             \/ s = p /\ k = Len(old) + 1 /\ m_pQueue'[s][k] = e
             \/ k \in DOMAIN m_pQueue[s] /\ m_pQueue'[s][k] = m_pQueue[s][k]
      BY <1>1, <1>2, <1>3
    <2>2. \A s \in Producers : \A k \in DOMAIN m_pQueue[s] : m_pQueue[s][k].name # e.name
      BY <1>5 DEF Queued
    <2> QED
      BY <1>5, <2>1, <2>2 DEF QueueOnce
  <1> QED
    BY <1>3, <1>4, <1>5 DEF QueueOnce

(***************************************************************************)
(* Dequeuing takes one file from those queued.                             *)
(***************************************************************************)
LEMMA PopStep ==
    ASSUME m_pQueue \in Queues, QueueOnce, NEW p \in Producers, m_pQueue[p] # << >>,
           m_pQueue' = [m_pQueue EXCEPT ![p] = Tail(@)],
           NEW e, e = Head(m_pQueue[p])
    PROVE  /\ m_pQueue' \in Queues /\ e \in Entry
           /\ QueueOnce'
           /\ Queued(e.name) /\ ~ Queued(e.name)'
           /\ \A f : Queued(f) <=> Queued(f)' \/ f = e.name
  <1> DEFINE old == m_pQueue[p]
             new == Tail(old)
  <1>1. old \in Seq(Entry) /\ Len(old) \in Nat /\ Len(old) >= 1
    <2>1. old \in Seq(Entry)
      BY DEF Queues
    <2> QED
      BY <2>1, EmptySeq
  <1>2. /\ new \in Seq(Entry) /\ e \in Entry /\ e = old[1]
        /\ DOMAIN old = 1 .. Len(old) /\ DOMAIN new = 1 .. (Len(old) - 1)
        /\ \A i \in 1 .. (Len(old) - 1) : new[i] = old[i + 1]
    BY <1>1, HeadTailProperties
  <1>3. /\ m_pQueue'[p] = new
        /\ \A q \in Producers : q # p => m_pQueue'[q] = m_pQueue[q]
        /\ m_pQueue' \in Queues
    BY <1>2 DEF Queues
  <1> HIDE DEF new
  <1> DEFINE shift(q, i) == IF q = p THEN i + 1 ELSE i
  <1>4. \A q \in Producers : \A i \in DOMAIN m_pQueue'[q] :
           /\ shift(q, i) \in DOMAIN m_pQueue[q]
           /\ m_pQueue'[q][i] = m_pQueue[q][shift(q, i)]
           /\ i \in Nat \/ q # p
    BY <1>1, <1>2, <1>3
  <1>5. QueueOnce'
    BY <1>4 DEF QueueOnce
  <1>6. Queued(e.name)
    BY <1>1, <1>2 DEF Queued
  <1>7. ~ Queued(e.name)'
    <2>1. ASSUME NEW q \in Producers, NEW i \in DOMAIN m_pQueue'[q],
                 m_pQueue'[q][i].name = e.name
          PROVE  FALSE
      <3>1. 1 \in DOMAIN m_pQueue[p] /\ m_pQueue[p][1] = e
        BY <1>1, <1>2
      <3>2. /\ shift(q, i) \in DOMAIN m_pQueue[q]
            /\ m_pQueue[q][shift(q, i)].name = e.name
        <4> HIDE DEF shift
        <4> QED BY <1>4, <2>1
      <3>3. q = p /\ shift(q, i) = 1
        <4> HIDE DEF shift
        <4> QED BY <3>1, <3>2 DEF QueueOnce
      <3> QED
        BY <1>1, <1>2, <1>3, <2>1, <3>3
    <2> QED
      BY <2>1 DEF Queued
  <1>8. ASSUME NEW f, Queued(f)' PROVE Queued(f)
    BY <1>4, <1>8 DEF Queued
  <1>9. ASSUME NEW f, Queued(f), f # e.name PROVE Queued(f)'
    <2>1. PICK q \in Producers : \E i \in DOMAIN m_pQueue[q] : m_pQueue[q][i].name = f
      BY <1>9 DEF Queued
    <2>2. CASE q = p
      <3>0. PICK i \in DOMAIN m_pQueue[q] : m_pQueue[q][i].name = f
        BY <2>1
      <3>1. i - 1 \in DOMAIN m_pQueue'[q] /\ m_pQueue'[q][i - 1] = m_pQueue[q][i]
        BY <1>1, <1>2, <1>3, <1>9, <2>2, <3>0
      <3> QED BY <3>0, <3>1 DEF Queued
    <2>3. CASE q # p
      BY <1>3, <2>1, <2>3 DEF Queued
    <2> QED BY <2>2, <2>3
  <1> QED
    BY <1>2, <1>3, <1>5, <1>6, <1>7, <1>8, <1>9

(***************************************************************************)
(* The scan of init queues every file of tosend, each once.                *)
(***************************************************************************)
LEMMA BootStep ==
    ASSUME Boot
    PROVE  /\ m_pQueue' \in Queues
           /\ QueueOnce'
           /\ \A f : Queued(f)' <=> f \in Leftovers
  <1> DEFINE Listed(order) ==
               [EmptyQueue EXCEPT !["main"] =
                   [i \in DOMAIN order |-> [tries |-> 0, name |-> order[i]]]]
  <1>1. PICK order \in Listings(Leftovers) : m_pQueue' = Listed(order)
    BY DEF Boot
  <1>2. /\ Leftovers \subseteq Files
        /\ Cardinality(Leftovers) \in Nat
    BY FilesAssumption, FS_Subset, FS_CardinalityType DEF Leftovers
  <1>3. PICK n \in Nat :
           /\ order \in [1 .. n -> Leftovers]
           /\ \A i, j \in 1 .. n : order[i] = order[j] => i = j
           /\ \A f \in Leftovers : \E i \in 1 .. n : order[i] = f
    BY <1>1, <1>2 DEF Listings
  <1> DEFINE scan == [i \in 1 .. n |-> [tries |-> 0, name |-> order[i]]]
  <1>4. /\ m_pQueue'["main"] = scan
        /\ \A p \in Producers : p # "main" => m_pQueue'[p] = << >>
        /\ m_pQueue' = [p \in Producers |-> m_pQueue'[p]]
    BY <1>1, <1>3 DEF EmptyQueue, Producers
  <1>5. scan \in Seq(Entry)
    <2>1. scan \in [1 .. n -> Entry]
      BY <1>2, <1>3 DEF Entry
    <2> QED BY <2>1
  <1>6. DOMAIN scan = 1 .. n /\ \A i \in 1 .. n : scan[i].name = order[i]
    OBVIOUS
  <1> HIDE DEF scan
  <1>7. m_pQueue' \in Queues
    BY <1>4, <1>5, EmptySeq DEF Queues
  <1>8. \A p \in Producers : \A i \in DOMAIN m_pQueue'[p] :
           p = "main" /\ i \in 1 .. n /\ m_pQueue'[p][i].name = order[i]
    BY <1>4, <1>6
  <1>9. QueueOnce'
    BY <1>3, <1>8 DEF QueueOnce
  <1>10. ASSUME NEW f PROVE Queued(f)' <=> f \in Leftovers
    <2>1. ASSUME Queued(f)' PROVE f \in Leftovers
      BY <1>3, <1>8, <2>1 DEF Queued
    <2>2. ASSUME f \in Leftovers PROVE Queued(f)'
      <3>1. PICK i \in 1 .. n : order[i] = f
        BY <1>3, <2>2
      <3>2. i \in DOMAIN m_pQueue'["main"] /\ m_pQueue'["main"][i].name = f
        BY <1>4, <1>6, <3>1
      <3> QED
        BY <3>2 DEF Queued, Producers
    <2> QED BY <2>1, <2>2
  <1> QED
    BY <1>7, <1>9, <1>10

-----------------------------------------------------------------------------
(* Types. *)

\* The thread holds a file exactly at the labels that work on one.
Hands == IF pc \in Working THEN file \in Entry ELSE file = Idle

\* The ping resets the counter before it passes the bound of its type.
Counter == pc \in {"describe", "dequeue"} => emptyCounter <= 2 * CONNECT_TIMEOUT + 1

(***************************************************************************)
(* A table has at least one column, and blocks are parts of descriptions   *)
(* (fillTable).                                                            *)
(***************************************************************************)
LEMMA DescriptionFacts ==
    ASSUME TypeOK
    PROVE  /\ schema \in Description /\ schema # {} /\ {} \in Description
           /\ \A f : \A d \in Description : Fill(f, d) \in Description
  BY ColumnAssumption DEF TypeOK, Description, Fill

(***************************************************************************)
(* What the catch of sendTable leaves: another try in the queue, or the    *)
(* file still in hand on its way to "failed".                              *)
(***************************************************************************)
LEMMA RetryStep ==
    ASSUME TypeOK, Hands, pc \in Working, Retry
    PROVE  /\ m_pQueue' \in Queues /\ updateTblDesc' \in BOOLEAN
           /\ block' \in Description
           /\ \/ pc' = "park" /\ UNCHANGED <<m_pQueue, file>>
              \/ /\ pc' = "top" /\ file' = Idle
                 /\ \E e \in Entry : e.name = file.name /\ Push("life", e)
  <1>1. file \in Entry /\ file.tries \in 0 .. 2 /\ file.name \in Files
    BY DEF Hands, Entry
  <1>2. m_pQueue \in Queues
    BY DEF TypeOK, Queues
  <1>3. CASE GiveUp(file.tries)
    BY <1>2, <1>3 DEF Retry, Goto, TypeOK
  <1>4. CASE ~ GiveUp(file.tries)
    <2> DEFINE e == [file EXCEPT !.tries = @ + 1]
    <2>1. e \in Entry /\ e.name = file.name
      BY <1>1, <1>4 DEF GiveUp, Entry
    <2>2. Push("life", e) /\ updateTblDesc' = TRUE /\ file' = Idle /\ block' = {} /\ pc' = "top"
      BY <1>4 DEF Retry, Goto
    <2> HIDE DEF e
    <2>3. m_pQueue' \in Queues
      BY <1>2, <2>1, <2>2, PushStep DEF Producers
    <2>4. {} \in Description
      BY DescriptionFacts
    <2> QED
      BY <2>1, <2>2, <2>3, <2>4
  <1> QED
    BY <1>3, <1>4

Typed == TypeOK /\ Hands /\ Counter

(***************************************************************************)
(* Starting and ending the process keep the types (init, start,            *)
(* ~Click2DB).                                                             *)
(***************************************************************************)
LEMMA ProcessTypeStep ==
    ASSUME Typed, Boot \/ start \/ Destructor \/ Exit \/ Crash
    PROVE  Typed'
  <1> USE DEF Typed, Goto
  <1>1. CASE Boot
    <2>1. m_pQueue' \in [Producers -> Seq(Entry)]
      BY <1>1, BootStep DEF Queues
    <2>2. pc = "off" /\ pc' = "init" /\ starts' \in 0 .. MaxStarts
      BY <1>1, BoundAssumption DEF Boot, TypeOK
    <2>3. /\ UNCHANGED <<m_run, m_pClickDB, m_tblType, updateTblDesc, emptyCounter>>
          /\ UNCHANGED <<file, block, offer, tosend, failed, badfiles, up, schema>>
          /\ UNCHANGED <<sent, excused, stranded, steady, faults, offers>>
      BY <1>1 DEF Boot, disk, server, history
    <2> QED
      BY <2>1, <2>2, <2>3 DEF TypeOK, Labels, Hands, Counter, Working
  <1>2. CASE start
    BY <1>2 DEF start, disk, server, history, budget, TypeOK, Labels, Hands, Counter, Working
  <1>3. CASE Destructor
    BY <1>3 DEF Destructor, thread, disk, server, history, budget, TypeOK, Hands, Counter
  <1>4. CASE EndProcess
    <2>1. {} \in Description /\ EmptyQueue \in [Producers -> Seq(Entry)]
      BY EmptySeq DEF Description, EmptyQueue
    <2>2. excused' \subseteq Files /\ stranded' \subseteq Files
      BY <1>4 DEF EndProcess, TypeOK
    <2>3. emptyCounter' \in 0 .. MaxIdle
      BY <1>4, BoundAssumption DEF EndProcess, MaxIdle
    <2>4. /\ pc' = "off" /\ m_run' = FALSE /\ m_pClickDB' = "none" /\ m_tblType' = {}
          /\ updateTblDesc' = TRUE /\ m_pQueue' = EmptyQueue /\ file' = Idle
          /\ block' = {} /\ offer' = NoFile
          /\ UNCHANGED <<tosend, failed, badfiles, up, schema, sent, steady>>
          /\ UNCHANGED <<faults, starts, offers>>
      BY <1>4 DEF EndProcess, disk, server, budget
    <2> QED
      BY <2>1, <2>2, <2>3, <2>4 DEF TypeOK, Labels, Hands, Counter, Working
  <1> QED
    BY <1>1, <1>2, <1>3, <1>4 DEF Exit, Crash

(***************************************************************************)
(* Offering a file keeps the types (doProc).                               *)
(***************************************************************************)
LEMMA OfferTypeStep ==
    ASSUME Typed, doProc
    PROVE  Typed'
  <1> USE DEF Typed
  <1>1. ASSUME NEW f \in Files, CopyStart(f) PROVE Typed'
    <2>1. /\ offers' \in 0 .. MaxOffers /\ offer' \in Files
          /\ tosend' \in [Files -> Stage] /\ sent' \subseteq Files /\ excused' \subseteq Files
      BY <1>1, BoundAssumption DEF CopyStart, TypeOK, Stage
    <2> QED
      BY <1>1, <2>1 DEF CopyStart, thread, server, TypeOK, Hands, Counter
  <1>2. CASE CopyEnd
    <2>1. tosend' \in [Files -> Stage]
      BY <1>2 DEF CopyEnd, TypeOK, Stage
    <2> QED
      BY <1>2, <2>1 DEF CopyEnd, thread, server, history, budget, TypeOK, Hands, Counter
  <1>3. CASE CopyFails
    <2>1. faults' \in 0 .. MaxFaults /\ stranded' \subseteq Files
      BY <1>3, BoundAssumption DEF CopyFails, Fault, TypeOK
    <2> QED
      BY <1>3, <2>1 DEF CopyFails, thread, disk, server, TypeOK, Hands, Counter
  <1>4. CASE EnqueueOffer
    <2>1. [tries |-> 0, name |-> offer] \in Entry
      BY <1>4 DEF EnqueueOffer, TypeOK, Entry
    <2>2. m_pQueue \in Queues /\ \E p \in Producers : Push(p, [tries |-> 0, name |-> offer])
      BY <1>4 DEF EnqueueOffer, TypeOK, Queues, Producers
    <2>3. m_pQueue' \in [Producers -> Seq(Entry)]
      BY <2>1, <2>2, PushStep DEF Queues
    <2> QED
      BY <1>4, <2>3 DEF EnqueueOffer, thread, disk, server, history, budget,
                        TypeOK, Hands, Counter
  <1> QED
    BY <1>1, <1>2, <1>3, <1>4 DEF doProc

(***************************************************************************)
(* What befalls the server and its table keeps the types.                  *)
(***************************************************************************)
LEMMA ServerTypeStep ==
    ASSUME Typed, ServerDown \/ ServerUp \/ AlterTable
    PROVE  Typed'
  <1> USE DEF Typed
  <1>1. CASE ServerDown
    <2>1. faults' \in 0 .. MaxFaults /\ m_pClickDB' \in {"none", "ok", "stale"}
      BY <1>1, BoundAssumption DEF ServerDown, Fault, TypeOK
    <2> QED
      BY <1>1, <2>1 DEF ServerDown, disk, history, TypeOK, Hands, Counter
  <1>2. CASE ServerUp
    BY <1>2 DEF ServerUp, process, thread, disk, history, TypeOK, Hands, Counter
  <1>3. CASE AlterTable
    <2>1. faults' \in 0 .. MaxFaults /\ schema' \in Schemas /\ steady' \in Description
      BY <1>3, BoundAssumption DEF AlterTable, Fault, TypeOK, Description
    <2> QED
      BY <1>3, <2>1 DEF AlterTable, process, thread, disk, TypeOK, Hands, Counter
  <1> QED
    BY <1>1, <1>2, <1>3

(***************************************************************************)
(* The turns of the loop without a file keep the types; the ping bounds    *)
(* the idle counter (lifeProc).                                            *)
(***************************************************************************)
LEMMA LoopTypeStep ==
    ASSUME Typed,
           LeaveLoop \/ tryConnect \/ EnterLoop \/ Ping \/ KeepDescription \/ Describe
              \/ DequeueTimeout
    PROVE  Typed'
  <1> USE DEF Typed, Goto
  <1>0. {} \in Description /\ schema \in Description
    BY DescriptionFacts
  <1>1. emptyCounter \in Nat /\ CONNECT_TIMEOUT \in Nat
    BY BoundAssumption DEF TypeOK, MaxIdle
  <1>2. CASE LeaveLoop
    BY <1>2 DEF LeaveLoop, disk, history, shared, server,
                TypeOK, Labels, Hands, Counter, Working
  <1>3. CASE tryConnect
    <2>1. /\ pc = "top" /\ pc' \in {"top", "ping"}
          /\ m_pClickDB' \in {"none", "ok", "stale"} /\ m_tblType' \in Description
      BY <1>0, <1>3 DEF tryConnect, TypeOK
    <2>2. emptyCounter' \in 0 .. MaxIdle
      BY <1>1, <1>3 DEF tryConnect, TypeOK, MaxIdle
    <2> QED
      BY <1>3, <2>1, <2>2 DEF tryConnect, disk, history, shared, server,
                        TypeOK, Labels, Hands, Counter, Working
  <1>4. CASE EnterLoop
    BY <1>4 DEF EnterLoop, disk, history, shared, server,
                TypeOK, Labels, Hands, Counter, Working
  <1>5. CASE Ping
    <2>1. /\ pc = "ping" /\ pc' = "describe"
          /\ m_pClickDB' \in {"none", "ok", "stale"} /\ m_tblType' \in Description
      BY <1>0, <1>5 DEF Ping, TypeOK
    <2>2. emptyCounter' \in Nat /\ emptyCounter' <= 2 * CONNECT_TIMEOUT + 1
      <3>1. CASE emptyCounter' = 0
        BY <1>1, <3>1
      <3>2. CASE emptyCounter \div 2 <= CONNECT_TIMEOUT /\ emptyCounter' = emptyCounter
        BY <1>1, <3>2
      <3> QED
        BY <1>5, <3>1, <3>2 DEF Ping
    <2>3. emptyCounter' \in 0 .. MaxIdle
      BY <1>1, <2>2 DEF MaxIdle
    <2> QED
      BY <1>5, <2>1, <2>2, <2>3 DEF Ping, disk, history, shared, server,
                        TypeOK, Labels, Hands, Counter, Working
  <1>6. CASE KeepDescription
    BY <1>6 DEF KeepDescription, disk, history, shared, server,
                TypeOK, Labels, Hands, Counter, Working
  <1>7. CASE Describe
    <2>1. /\ pc = "describe" /\ pc' \in {"dequeue", "top"}
          /\ m_pClickDB' \in {"none", "ok", "stale"} /\ m_tblType' \in Description
          /\ updateTblDesc' \in BOOLEAN
      BY <1>0, <1>7 DEF Describe, AfterDescribeError, TypeOK
    <2>2. emptyCounter' \in 0 .. MaxIdle /\ emptyCounter' <= 2 * CONNECT_TIMEOUT + 1
      BY <1>1, <1>7 DEF Describe, MaxIdle
    <2> QED
      BY <1>7, <2>1, <2>2 DEF Describe, disk, history, shared, server,
                              TypeOK, Labels, Hands, Counter, Working
  <1>8. CASE DequeueTimeout
    <2>1. pc = "dequeue" /\ pc' = "top" /\ emptyCounter' \in 0 .. MaxIdle
      BY <1>1, <1>8 DEF DequeueTimeout, Counter, MaxIdle
    <2> QED
      BY <1>8, <2>1 DEF DequeueTimeout, disk, history, shared, server,
                        TypeOK, Labels, Hands, Counter, Working
  <1> QED
    BY <1>2, <1>3, <1>4, <1>5, <1>6, <1>7, <1>8

(***************************************************************************)
(* Loading and sending a file keep the types (lifeProc, sendTable).        *)
(***************************************************************************)
LEMMA SendTypeStep ==
    ASSUME Typed, QueueOnce,
           (\E p \in Producers : Dequeue(p)) \/ Load \/ LoadFails \/ Redescribe
              \/ Insert \/ InsertUnanswered \/ InsertFails
    PROVE  Typed'
  <1> USE DEF Typed, Goto
  <1>0. /\ {} \in Description /\ schema \in Description
        /\ \A f : \A d \in Description : Fill(f, d) \in Description
    BY DescriptionFacts
  <1>1. pc \in Working => file \in Entry /\ file.name \in Files
    BY DEF Hands, Entry
  <1>2. ASSUME NEW p \in Producers, Dequeue(p) PROVE Typed'
    <2>1. m_pQueue' \in [Producers -> Seq(Entry)] /\ file' \in Entry
      <3>1. m_pQueue \in Queues
        BY DEF TypeOK, Queues
      <3> QED
        BY <1>2, <3>1, PopStep DEF Dequeue, Queues
    <2>2. emptyCounter' \in 0 .. MaxIdle
      BY <1>2, BoundAssumption DEF Dequeue, MaxIdle
    <2>3. steady' \in Description /\ pc' = "load"
      BY <1>0, <1>2 DEF Dequeue
    <2> QED
      BY <1>2, <2>1, <2>2, <2>3 DEF Dequeue, disk, shared, server,
                                    TypeOK, Labels, Hands, Counter, Working
  <1>3. CASE Load
    <2>1. block' \in Description
      BY <1>0, <1>3 DEF Load, TypeOK
    <2>2. pc = "load" /\ pc' \in {"redescribe", "insert"}
      BY <1>3 DEF Load
    <2> QED
      BY <1>3, <2>1, <2>2 DEF Load, disk, history, shared, server,
                              TypeOK, Labels, Hands, Counter, Working
  <1>4. CASE LoadFails
    <2>1. faults' \in 0 .. MaxFaults
      BY <1>4, BoundAssumption DEF LoadFails, Fault, TypeOK
    <2> QED
      BY <1>4, <2>1 DEF LoadFails, disk, history, shared, server,
                        TypeOK, Labels, Hands, Counter, Working
  <1>5. ASSUME pc \in Working, Retry
        PROVE  /\ m_pQueue' \in [Producers -> Seq(Entry)] /\ updateTblDesc' \in BOOLEAN
               /\ block' \in Description /\ pc' \in Labels /\ Hands' /\ Counter'
               /\ file' \in Entry \union {Idle}
    BY <1>1, <1>5, RetryStep DEF Queues, Hands, Counter, Labels, Working
  <1>6. CASE Redescribe
    <2>1. pc = "redescribe" /\ m_tblType' \in Description
      BY <1>0, <1>6 DEF Redescribe, TypeOK
    <2>2. CASE Retry
      BY <1>5, <1>6, <2>1, <2>2 DEF Redescribe, disk, history, shared, server, TypeOK, Working
    <2>3. CASE /\ block' = Refill(file.name, m_tblType, schema) /\ pc' = "insert"
               /\ UNCHANGED <<m_pQueue, updateTblDesc, file>>
      <3>1. block' \in Description
        BY <1>0, <2>3 DEF Refill, TypeOK
      <3> QED
        BY <1>6, <2>1, <2>3, <3>1 DEF Redescribe, disk, history, shared, server,
                                      TypeOK, Labels, Hands, Counter, Working
    <2> QED
      BY <1>6, <2>2, <2>3 DEF Redescribe
  <1>7. CASE Insert
    <2>1. sent' \subseteq Files
      BY <1>1, <1>7 DEF Insert, TypeOK, Working
    <2> QED
      BY <1>7, <2>1 DEF Insert, disk, shared, server,
                        TypeOK, Labels, Hands, Counter, Working
  <1>8. CASE InsertUnanswered
    <2>1. sent' \subseteq Files /\ excused' \subseteq Files
      BY <1>1, <1>8 DEF InsertUnanswered, TypeOK, Working
    <2>2. faults' \in 0 .. MaxFaults
      BY <1>8, BoundAssumption DEF InsertUnanswered, Fault, TypeOK
    <2> QED
      BY <1>5, <1>8, <2>1, <2>2 DEF InsertUnanswered, disk, shared, server, TypeOK, Working
  <1>9. CASE InsertFails
    <2>1. faults' \in 0 .. MaxFaults
      BY <1>9, BoundAssumption DEF InsertFails, Fault, TypeOK
    <2> QED
      BY <1>5, <1>9, <2>1 DEF InsertFails, disk, history, shared, server, TypeOK, Working
  <1> QED
    BY <1>2, <1>3, <1>4, <1>6, <1>7, <1>8, <1>9

(***************************************************************************)
(* Moving a file out of tosend keeps the types (Node::moveFile).           *)
(***************************************************************************)
LEMMA MoveTypeStep ==
    ASSUME Typed, moveFile \/ MoveFails
    PROVE  Typed'
  <1> USE DEF Typed, Goto
  <1>1. pc \in Working /\ file \in Entry /\ file.name \in Files
    BY DEF moveFile, Remove, Park, Reject, MoveFails, Working, Hands, Entry
  <1>2. ASSUME Finish
        PROVE  /\ pc' = "top" /\ file' = Idle /\ block' \in Description /\ Hands' /\ Counter'
               /\ UNCHANGED <<m_pClickDB, m_tblType, updateTblDesc, emptyCounter>>
               /\ UNCHANGED <<sent, excused, steady, m_run, offer, up, schema, starts, offers>>
    BY <1>2, DescriptionFacts DEF Finish, shared, server, Hands, Counter, Working
  <1>3. CASE moveFile
    <2>1. tosend' \in [Files -> Stage]
      BY <1>3 DEF moveFile, Remove, Park, Reject, TypeOK, Stage
    <2>2. failed' \subseteq Files /\ badfiles' \subseteq Files
      BY <1>1, <1>3 DEF moveFile, Remove, Park, Reject, TypeOK
    <2> QED
      BY <1>2, <1>3, <2>1, <2>2 DEF moveFile, TypeOK, Labels
  <1>4. CASE MoveFails
    <2>1. faults' \in 0 .. MaxFaults /\ stranded' \subseteq Files
      BY <1>1, <1>4, BoundAssumption DEF MoveFails, Fault, TypeOK
    <2> QED
      BY <1>2, <1>4, <2>1 DEF MoveFails, disk, TypeOK, Labels
  <1> QED
    BY <1>3, <1>4

-----------------------------------------------------------------------------
(* The client at work. *)

\* Between the connection and the work, the ping may drop the client again.
Connected ==
    /\ ConnectedAtWork
    /\ pc = "ping" => m_pClickDB # "none"
    /\ pc = "describe" /\ m_tblType # {} => m_pClickDB # "none"

(***************************************************************************)
(* No step takes the client or the description from a working thread: a    *)
(* lost connection stays a client, only broken (lifeProc).                 *)
(***************************************************************************)
LEMMA ConnectedStep ==
    ASSUME Typed, Connected, Next
    PROVE  Connected'
  <1> USE DEF Connected, ConnectedAtWork, Goto
  <1>0. schema # {}
    BY DescriptionFacts DEF Typed
  <1>1. CASE Boot \/ start \/ Destructor \/ Exit \/ Crash
    BY <1>1 DEF Boot, start, Destructor, Exit, Crash, EndProcess, thread, Working
  <1>2. CASE doProc
    BY <1>2 DEF doProc, CopyStart, CopyEnd, CopyFails, EnqueueOffer, thread
  <1>3. CASE ServerDown \/ ServerUp \/ AlterTable
    BY <1>3 DEF ServerDown, ServerUp, AlterTable, process, thread
  <1>4. CASE LeaveLoop \/ tryConnect \/ EnterLoop \/ Ping \/ KeepDescription \/ Describe
                \/ DequeueTimeout
    BY <1>0, <1>4 DEF LeaveLoop, tryConnect, EnterLoop, Ping, KeepDescription, Describe,
                      DequeueTimeout, NeedDescription, Online, Working
  <1>5. CASE (\E p \in Producers : Dequeue(p)) \/ Load \/ LoadFails
    BY <1>5 DEF Dequeue, Load, LoadFails, Working
  <1>6. ASSUME pc \in Working, Retry PROVE pc' \in {"park", "top"}
    BY <1>6 DEF Retry
  <1>7. CASE Redescribe \/ Insert \/ InsertUnanswered \/ InsertFails
    BY <1>0, <1>6, <1>7 DEF Redescribe, Insert, InsertUnanswered, InsertFails, Online, Working
  <1>8. CASE moveFile \/ MoveFails
    BY <1>8 DEF moveFile, MoveFails, Finish, Working
  <1> QED
    BY <1>1, <1>2, <1>3, <1>4, <1>5, <1>7, <1>8 DEF Next, lifeProc

-----------------------------------------------------------------------------
(* Where the files are. *)

\* A file that was loaded is complete, and sent when it is about to be removed.
Loaded == pc \in {"redescribe", "insert", "remove", "park"} => tosend[file.name] = "full"
Done == pc = "remove" => file.name \in sent

\* Without a process there is nothing in memory.
Gone ==
    pc = "off" =>
       /\ ~ m_run /\ m_pQueue = EmptyQueue /\ offer = NoFile
       /\ \A f \in sent : tosend[f] # "none" => f \in excused

\* A file sent before and in play once more has its excuse; a new one is unsent.
Excuses ==
    /\ \A f \in sent : InPlay(f) /\ (pc = "remove" => file.name # f) => f \in excused
    /\ offer \notin sent

InPlayInv ==
    /\ InPlayOnce /\ InPlayOnDisk /\ NothingForgotten
    /\ Loaded /\ Done /\ Gone /\ Excuses

(***************************************************************************)
(* Consequences of the invariant used throughout: queued names are names   *)
(* of files, and the thread names one only while it works.                 *)
(***************************************************************************)
LEMMA InPlayFacts ==
    ASSUME Typed, InPlayInv
    PROVE  /\ m_pQueue \in Queues /\ QueueOnce
           /\ NoFile \notin Files /\ ~ Queued(NoFile)
           /\ \A f : Queued(f) => f \in Files
           /\ pc \in Working => file \in Entry /\ file.name \in Files
           /\ pc \notin Working => file = Idle /\ file.name = NoFile
  <1>1. m_pQueue \in Queues /\ QueueOnce
    BY DEF Typed, TypeOK, Queues, InPlayInv, InPlayOnce, QueueOnce
  <1>2. ASSUME NEW f, Queued(f) PROVE f \in Files
    <2>1. PICK p \in Producers : \E i \in DOMAIN m_pQueue[p] : m_pQueue[p][i].name = f
      BY <1>2 DEF Queued
    <2>2. PICK i \in DOMAIN m_pQueue[p] : m_pQueue[p][i].name = f
      BY <2>1
    <2>3. m_pQueue[p][i] \in Entry
      BY <1>1, ElementOfSeq DEF Queues
    <2> QED
      BY <2>2, <2>3 DEF Entry
  <1> QED
    BY <1>1, <1>2, FilesAssumption DEF Typed, Hands, Entry, Idle

(***************************************************************************)
(* Steps that move no file: the queues, the hands, the offer and the disk  *)
(* stay, and the thread neither takes nor lets go of a file.               *)
(***************************************************************************)
LEMMA QuietStep ==
    ASSUME Typed, InPlayInv,
           UNCHANGED <<m_pQueue, file, offer, tosend, sent, excused, stranded>>,
           pc' = "off" <=> pc = "off",
           m_run' => m_run \/ pc' # "off",
           pc' = "remove" <=> pc = "remove",
           pc' \in {"redescribe", "insert", "park"} => tosend[file.name] = "full"
    PROVE  InPlayInv'
  BY DEF InPlayInv, InPlayOnce, InPlayOnDisk, NothingForgotten, Loaded, Done, Gone,
         Excuses, InPlay, Queued

(***************************************************************************)
(* The steps that move no file, one after another.                         *)
(***************************************************************************)
LEMMA QuietActions ==
    ASSUME Typed, InPlayInv,
           \/ start \/ Destructor \/ ServerDown \/ ServerUp \/ AlterTable
           \/ LeaveLoop \/ tryConnect \/ EnterLoop \/ Ping \/ KeepDescription \/ Describe
           \/ DequeueTimeout \/ Load \/ LoadFails
    PROVE  InPlayInv'
  <1> USE DEF Goto, InPlayInv
  <1>1. CASE start \/ Destructor
    BY <1>1, QuietStep DEF start, Destructor, thread, disk, history, Loaded
  <1>2. CASE ServerDown \/ ServerUp \/ AlterTable
    BY <1>2, QuietStep DEF ServerDown, ServerUp, AlterTable, process, thread, disk, history,
                           Loaded
  <1>3. CASE LeaveLoop \/ tryConnect \/ EnterLoop \/ Ping \/ KeepDescription \/ Describe
                \/ DequeueTimeout
    BY <1>3, QuietStep DEF LeaveLoop, tryConnect, EnterLoop, Ping, KeepDescription, Describe,
                           DequeueTimeout, disk, history, shared
  <1>4. CASE Load \/ LoadFails
    BY <1>4, QuietStep DEF Load, LoadFails, disk, history, shared
  <1> QED
    BY <1>1, <1>2, <1>3, <1>4

(***************************************************************************)
(* The start finds in tosend whatever the last process left there.         *)
(***************************************************************************)
LEMMA BootInPlay ==
    ASSUME Typed, InPlayInv, Boot
    PROVE  InPlayInv'
  <1>1. /\ pc = "off" /\ pc' = "init" /\ file' = file /\ file = Idle
        /\ offer' = NoFile /\ UNCHANGED <<tosend, sent, excused, stranded>>
    BY DEF Boot, Goto, disk, history, InPlayInv, Gone, Typed, Hands, Working
  <1>2. QueueOnce' /\ \A f : Queued(f)' <=> f \in Leftovers
    BY BootStep
  <1>3. NoFile \notin Files /\ file'.name = NoFile
    BY <1>1, FilesAssumption DEF Idle
  <1>4. \A f : f \in Leftovers <=> f \in Files /\ tosend[f] # "none"
    BY DEF Leftovers
  <1>5. InPlayOnce'
    <2>1. ~ Queued(file.name)'
      <3>1. ~ Queued(NoFile)'
        BY <1>2, <1>3, <1>4
      <3> QED
        BY <1>3, <3>1 DEF Queued
    <2> QED
      BY <1>1, <1>2, <2>1 DEF InPlayOnce, QueueOnce
  <1>6. InPlayOnDisk'
    BY <1>1, <1>2, <1>3, <1>4 DEF InPlayOnDisk, InPlay
  <1>7. NothingForgotten'
    BY <1>1, <1>2, <1>4 DEF NothingForgotten, InPlay
  <1>8. Excuses'
    <2>1. sent \subseteq Files
      BY DEF Typed, TypeOK
    <2>2. \A f \in sent : tosend[f] # "none" => f \in excused
      BY <1>1 DEF InPlayInv, Gone
    <2> QED
      BY <1>1, <1>2, <1>3, <1>4, <2>1, <2>2 DEF Excuses, InPlay
  <1> QED
    BY <1>1, <1>5, <1>6, <1>7, <1>8 DEF InPlayInv, Loaded, Done, Gone

(***************************************************************************)
(* The end of the process, graceful or not, leaves the disk and doubts     *)
(* only what was sent and not removed.                                     *)
(***************************************************************************)
LEMMA EndInPlay ==
    ASSUME Typed, InPlayInv, EndProcess
    PROVE  InPlayInv'
  <1>1. /\ pc' = "off" /\ file' = Idle /\ m_pQueue' = EmptyQueue /\ offer' = NoFile
        /\ ~ m_run'
        /\ UNCHANGED <<tosend, sent>>
        /\ excused' = excused \union {f \in sent : tosend[f] # "none"}
    BY DEF EndProcess, Goto, disk
  <1>2. \A f : ~ Queued(f)'
    BY <1>1 DEF Queued, EmptyQueue
  <1>3. NoFile \notin Files /\ file'.name = NoFile /\ sent \subseteq Files
    BY <1>1, FilesAssumption DEF Idle, Typed, TypeOK
  <1>4. InPlayOnce'
    <2>1. ~ Queued(file.name)'
      BY <1>1 DEF Queued, EmptyQueue
    <2>2. QueueOnce'
      BY <1>1 DEF QueueOnce, EmptyQueue
    <2> QED
      BY <1>1, <2>1, <2>2 DEF InPlayOnce, QueueOnce
  <1> QED
    BY <1>1, <1>2, <1>3, <1>4
       DEF InPlayInv, InPlayOnDisk, NothingForgotten, Loaded, Done, Gone, Excuses, InPlay

(***************************************************************************)
(* A copy begins under a name that is in no queue and in nobody's hands:   *)
(* what is in play is on disk, and copy_file refuses a name on disk.       *)
(***************************************************************************)
LEMMA CopyStartInPlay ==
    ASSUME Typed, InPlayInv, NEW f \in Files, CopyStart(f)
    PROVE  InPlayInv'
  <1>1. /\ tosend[f] = "none" /\ offer = NoFile /\ offer' = f /\ f # NoFile
        /\ tosend' = [tosend EXCEPT ![f] = "partial"]
        /\ sent' = sent \ {f} /\ excused' = excused \ {f}
        /\ UNCHANGED <<pc, m_pQueue, file, stranded>>
    BY FilesAssumption DEF CopyStart, MayCopy, thread
  <1>2. pc # "off"
    BY DEF CopyStart, InPlayInv, Gone, Typed, TypeOK
  <1>3. ~ InPlay(f)
    BY <1>1 DEF InPlayInv, InPlayOnDisk
  <1>4. /\ tosend'[f] = "partial"
        /\ \A g \in Files : g # f => tosend'[g] = tosend[g]
    BY <1>1 DEF Typed, TypeOK
  <1>5. \A g : (Queued(g)' <=> Queued(g)) /\ (InPlay(g)' <=> InPlay(g))
    BY <1>1 DEF Queued, InPlay
  <1>6. InPlayOnce'
    BY <1>1, <1>3 DEF InPlayInv, InPlayOnce, InPlay, Queued
  <1>7. InPlayOnDisk'
    BY <1>4, <1>5 DEF InPlayInv, InPlayOnDisk
  <1>8. NothingForgotten'
    BY <1>1, <1>2, <1>4, <1>5, FilesAssumption DEF InPlayInv, NothingForgotten
  <1>9. Loaded' /\ Done'
    BY <1>1, <1>3, <1>4, InPlayFacts DEF InPlayInv, Loaded, Done, InPlay, Working
  <1>10. Excuses'
    BY <1>1, <1>3, <1>5 DEF InPlayInv, Excuses
  <1> QED
    BY <1>1, <1>2, <1>6, <1>7, <1>8, <1>9, <1>10 DEF InPlayInv, Gone

(***************************************************************************)
(* The copy ends, breaks off, or is enqueued: the offer becomes the one    *)
(* place that names the file, or nothing does (doProc).                    *)
(***************************************************************************)
LEMMA OfferInPlay ==
    ASSUME Typed, InPlayInv, CopyEnd \/ CopyFails \/ EnqueueOffer
    PROVE  InPlayInv'
  <1>0. /\ offer \in Files /\ offer # NoFile /\ NoFile \notin Files /\ pc # "off" /\ pc' = pc
        /\ file' = file /\ ~ InPlay(offer) /\ sent' = sent /\ excused' = excused
    BY FilesAssumption DEF CopyEnd, CopyFails, EnqueueOffer, thread, history, Typed, TypeOK,
                           InPlayInv, Gone, InPlayOnce
  <1>1. CASE CopyEnd
    <2>1. /\ tosend'[offer] = "full" /\ tosend[offer] = "partial"
          /\ \A g \in Files : g # offer => tosend'[g] = tosend[g]
          /\ UNCHANGED <<m_pQueue, offer, stranded>>
      BY <1>0, <1>1 DEF CopyEnd, history, Typed, TypeOK
    <2>2. \A g : (Queued(g)' <=> Queued(g)) /\ (InPlay(g)' <=> InPlay(g))
      BY <1>0, <2>1 DEF Queued, InPlay
    <2>3. InPlayOnce'
      BY <1>0, <2>1 DEF InPlayInv, InPlayOnce, InPlay, Queued
    <2>4. InPlayOnDisk' /\ NothingForgotten'
      BY <1>0, <2>1, <2>2 DEF InPlayInv, InPlayOnDisk, NothingForgotten
    <2>5. Loaded' /\ Done' /\ Gone'
      BY <1>0, <2>1, InPlayFacts DEF InPlayInv, Loaded, Done, Gone, Working
    <2>6. Excuses'
      BY <1>0, <2>1, <2>2 DEF InPlayInv, Excuses
    <2> QED
      BY <2>3, <2>4, <2>5, <2>6 DEF InPlayInv
  <1>2. CASE CopyFails
    <2>1. /\ offer' = NoFile /\ stranded' = stranded \union {offer}
          /\ UNCHANGED <<m_pQueue, tosend>>
      BY <1>2 DEF CopyFails, disk
    <2>2. \A g : (Queued(g)' <=> Queued(g)) /\ (InPlay(g)' <=> InPlay(g))
      BY <1>0, <2>1 DEF Queued, InPlay
    <2>3. InPlayOnce'
      BY <1>0, <2>1 DEF InPlayInv, InPlayOnce, InPlay, Queued
    <2>4. InPlayOnDisk' /\ NothingForgotten'
      BY <1>0, <2>1, <2>2 DEF InPlayInv, InPlayOnDisk, NothingForgotten
    <2>5. Loaded' /\ Done' /\ Gone'
      BY <1>0, <2>1 DEF InPlayInv, Loaded, Done, Gone
    <2>6. Excuses'
      BY <1>0, <2>1, <2>2 DEF InPlayInv, Excuses, Typed, TypeOK
    <2> QED
      BY <2>3, <2>4, <2>5, <2>6 DEF InPlayInv
  <1>3. CASE EnqueueOffer
    <2>1. PICK e \in Entry, p \in Producers : e.name = offer /\ Push(p, e)
      <3>1. [tries |-> 0, name |-> offer] \in Entry
        BY <1>0 DEF Entry
      <3> QED
        BY <1>3, <3>1 DEF EnqueueOffer, Producers
    <2>2. offer' = NoFile /\ UNCHANGED <<tosend, stranded>> /\ tosend[offer] = "full"
      BY <1>3 DEF EnqueueOffer, disk, history
    <2>3. /\ QueueOnce'
          /\ \A g : Queued(g)' <=> Queued(g) \/ g = offer
      BY <1>0, <2>1, InPlayFacts, PushStep DEF InPlay
    <2>4. \A g : InPlay(g)' <=> InPlay(g) \/ g = offer
      BY <1>0, <2>3 DEF InPlay
    <2>5. InPlayOnce'
      <3>1. file.name # offer /\ ~ Queued(file.name)
        BY <1>0 DEF InPlayInv, InPlayOnce, InPlay
      <3>2. ~ Queued(file.name)'
        <4>1. PICK n : n = file.name
          OBVIOUS
        <4>2. ~ Queued(n)'
          BY <2>3, <3>1, <4>1
        <4> QED
          BY <1>0, <4>1, <4>2 DEF Queued
      <3> QED
        BY <2>2, <2>3, <3>2 DEF InPlayOnce, QueueOnce
    <2>6. InPlayOnDisk' /\ NothingForgotten'
      BY <1>0, <2>2, <2>4 DEF InPlayInv, InPlayOnDisk, NothingForgotten
    <2>7. Loaded' /\ Done' /\ Gone'
      BY <1>0, <2>2 DEF InPlayInv, Loaded, Done, Gone
    <2>8. Excuses'
      BY <1>0, <2>2, <2>4 DEF InPlayInv, Excuses, Typed, TypeOK
    <2> QED
      BY <2>5, <2>6, <2>7, <2>8 DEF InPlayInv
  <1> QED
    BY <1>1, <1>2, <1>3

(***************************************************************************)
(* A file goes from the queue into the thread's hands and stays in play.   *)
(***************************************************************************)
LEMMA DequeueInPlay ==
    ASSUME Typed, InPlayInv, NEW p \in Producers, Dequeue(p)
    PROVE  InPlayInv'
  <1>1. PICK e : e = Head(m_pQueue[p])
    OBVIOUS
  <1>2. /\ pc = "dequeue" /\ pc' = "load" /\ file' = e /\ file.name = NoFile
        /\ UNCHANGED <<tosend, offer, stranded, sent, excused>>
    BY <1>1, InPlayFacts DEF Dequeue, Goto, disk, shared, Working
  <1>3. /\ e \in Entry /\ QueueOnce' /\ Queued(e.name) /\ ~ Queued(e.name)'
        /\ \A f : Queued(f) <=> Queued(f)' \/ f = e.name
    BY <1>1, InPlayFacts, PopStep DEF Dequeue
  <1>4. \A f \in Files : InPlay(f)' <=> InPlay(f)
    BY <1>2, <1>3, FilesAssumption DEF InPlay
  <1>5. InPlayOnce'
    <2>1. ~ Queued(file.name)'
      BY <1>2, <1>3 DEF Queued
    <2>2. offer' # NoFile => ~ InPlay(offer)'
      <3>1. PICK o : o = offer
        OBVIOUS
      <3>2. o # NoFile => o \in Files /\ ~ InPlay(o)
        BY <3>1 DEF InPlayInv, InPlayOnce, Typed, TypeOK
      <3>3. o # NoFile => ~ InPlay(o)'
        BY <1>4, <3>2
      <3> QED
        BY <1>2, <3>1, <3>3 DEF InPlay, Queued
    <2> QED
      BY <1>3, <2>1, <2>2 DEF InPlayOnce, QueueOnce
  <1>6. InPlayOnDisk' /\ NothingForgotten'
    BY <1>2, <1>4 DEF InPlayInv, InPlayOnDisk, NothingForgotten
  <1>7. Excuses'
    BY <1>2, <1>4 DEF InPlayInv, Excuses, Typed, TypeOK
  <1> QED
    BY <1>2, <1>5, <1>6, <1>7 DEF InPlayInv, Loaded, Done, Gone

(***************************************************************************)
(* A failed send, whether or not the server has stored the rows: the file  *)
(* goes back into the queue, or stays in hand to be given up.              *)
(***************************************************************************)
LEMMA RetryInPlay ==
    ASSUME Typed, InPlayInv, pc \in {"redescribe", "insert"}, Retry,
           UNCHANGED <<tosend, offer, stranded>>,
           \/ UNCHANGED <<sent, excused>>
           \/ /\ sent' = sent \union {file.name}
              /\ excused' = excused \union {file.name}
    PROVE  InPlayInv'
  <1>0. /\ pc \in Working /\ pc # "remove" /\ pc # "off" /\ file.name \in Files
        /\ NoFile \notin Files /\ InPlay(file.name) /\ ~ Queued(file.name)
        /\ tosend[file.name] = "full" /\ offer # file.name
    BY InPlayFacts DEF Working, InPlay, InPlayInv, InPlayOnce, Loaded
  <1>1. CASE pc' = "park" /\ UNCHANGED <<m_pQueue, file>>
    <2>1. \A g : (Queued(g)' <=> Queued(g)) /\ (InPlay(g)' <=> InPlay(g))
      BY <1>1 DEF Queued, InPlay
    <2>2. InPlayOnce'
      BY <1>1 DEF InPlayInv, InPlayOnce, InPlay, Queued
    <2>3. InPlayOnDisk' /\ NothingForgotten'
      BY <1>0, <2>1 DEF InPlayInv, InPlayOnDisk, NothingForgotten
    <2>4. Excuses'
      BY <1>0, <1>1, <2>1 DEF InPlayInv, Excuses
    <2> QED
      BY <1>0, <1>1, <2>2, <2>3, <2>4 DEF InPlayInv, Loaded, Done, Gone
  <1>2. ASSUME pc' = "top", file' = Idle, NEW e \in Entry, e.name = file.name, Push("life", e)
        PROVE  InPlayInv'
    <2>1. /\ QueueOnce'
          /\ \A g : Queued(g)' <=> Queued(g) \/ g = e.name
      BY <1>0, <1>2, InPlayFacts, PushStep DEF Producers
    <2>2. file'.name = NoFile
      BY <1>2 DEF Idle
    <2>3. \A g \in Files : InPlay(g)' <=> InPlay(g)
      BY <1>0, <1>2, <2>1, <2>2 DEF InPlay
    <2>4. InPlayOnce'
      <3>1. ~ Queued(file.name)'
        <4>1. ~ Queued(NoFile)'
          BY <1>0, <1>2, <2>1, InPlayFacts
        <4> QED
          BY <2>2, <4>1 DEF Queued
      <3>2. offer' # NoFile => ~ InPlay(offer)'
        <4>1. PICK o : o = offer
          OBVIOUS
        <4>2. o # NoFile => o \in Files /\ ~ InPlay(o)
          BY <4>1 DEF InPlayInv, InPlayOnce, Typed, TypeOK
        <4>3. o # NoFile => ~ InPlay(o)'
          BY <2>3, <4>2
        <4> QED
          BY <4>1, <4>3 DEF InPlay, Queued
      <3> QED
        BY <2>1, <3>1, <3>2 DEF InPlayOnce, QueueOnce
    <2>5. InPlayOnDisk' /\ NothingForgotten'
      BY <1>0, <2>3 DEF InPlayInv, InPlayOnDisk, NothingForgotten
    <2>6. Excuses'
      BY <1>0, <1>2, <2>3 DEF InPlayInv, Excuses, Typed, TypeOK
    <2> QED
      BY <1>0, <1>2, <2>4, <2>5, <2>6 DEF InPlayInv, Loaded, Done, Gone
  <1> QED
    BY <1>0, <1>1, <1>2, RetryStep DEF Typed

(***************************************************************************)
(* Sending, successful or not, keeps the file in play exactly once.        *)
(***************************************************************************)
LEMMA SendInPlay ==
    ASSUME Typed, InPlayInv, Redescribe \/ Insert \/ InsertUnanswered \/ InsertFails
    PROVE  InPlayInv'
  <1> USE DEF Goto
  <1>1. CASE Redescribe
    <2>1. /\ pc = "redescribe"
          /\ UNCHANGED <<tosend, offer, stranded, sent, excused, m_run>>
      BY <1>1 DEF Redescribe, disk, history, shared
    <2>2. CASE Retry
      BY <2>1, <2>2, RetryInPlay
    <2>3. CASE pc' = "insert" /\ UNCHANGED <<m_pQueue, file>>
      BY <2>1, <2>3, QuietStep DEF InPlayInv, Loaded
    <2> QED
      BY <1>1, <2>2, <2>3 DEF Redescribe
  <1>2. CASE Insert
    <2>1. /\ pc = "insert" /\ pc' = "remove" /\ sent' = sent \union {file.name}
          /\ UNCHANGED <<m_pQueue, file, tosend, offer, stranded, excused>>
      BY <1>2 DEF Insert, disk, shared
    <2>2. file.name \in Files /\ offer # file.name
      BY <2>1, InPlayFacts DEF Working, InPlayInv, InPlayOnce, InPlay
    <2>3. \A g : (Queued(g)' <=> Queued(g)) /\ (InPlay(g)' <=> InPlay(g))
      BY <2>1 DEF Queued, InPlay
    <2>4. InPlayOnce'
      BY <2>1 DEF InPlayInv, InPlayOnce, InPlay, Queued
    <2>5. InPlayOnDisk' /\ NothingForgotten'
      BY <2>1, <2>3 DEF InPlayInv, InPlayOnDisk, NothingForgotten
    <2>6. Loaded' /\ Done' /\ Gone'
      BY <2>1 DEF InPlayInv, Loaded, Done, Gone
    <2>7. Excuses'
      BY <2>1, <2>2, <2>3 DEF InPlayInv, Excuses
    <2> QED
      BY <2>4, <2>5, <2>6, <2>7 DEF InPlayInv
  <1>3. CASE InsertUnanswered
    BY <1>3, RetryInPlay DEF InsertUnanswered, disk, shared
  <1>4. CASE InsertFails
    BY <1>4, RetryInPlay DEF InsertFails, disk, history, shared
  <1> QED
    BY <1>1, <1>2, <1>3, <1>4

(***************************************************************************)
(* A file that leaves tosend was in play once, so nothing names it after.  *)
(***************************************************************************)
LEMMA MoveInPlay ==
    ASSUME Typed, InPlayInv, moveFile \/ MoveFails
    PROVE  InPlayInv'
  <1>0. pc \in Working /\ pc \in {"remove", "park", "reject"}
    BY DEF moveFile, Remove, Park, Reject, MoveFails, Working
  <1>1. /\ file.name \in Files /\ file.name # NoFile /\ pc # "off"
        /\ ~ Queued(file.name) /\ offer # file.name
    BY <1>0, InPlayFacts DEF Working, InPlayInv, InPlayOnce, InPlay
  <1>2. /\ pc' = "top" /\ file' = Idle /\ file'.name = NoFile
        /\ UNCHANGED <<m_pQueue, offer, sent, excused>>
    BY DEF moveFile, MoveFails, Finish, Goto, shared, Idle
  <1>3. \A g : Queued(g)' <=> Queued(g)
    BY <1>2 DEF Queued
  <1>4. \A g \in Files : InPlay(g)' <=> InPlay(g) /\ g # file.name
    BY <1>1, <1>2, <1>3, FilesAssumption DEF InPlay
  <1>5. /\ \A g \in Files : g # file.name => tosend'[g] = tosend[g]
        /\ tosend'[file.name] = "none" \/ file.name \in stranded'
        /\ stranded \subseteq stranded'
    BY <1>1 DEF moveFile, MoveFails, Remove, Park, Reject, disk, Typed, TypeOK
  <1>6. InPlayOnce'
    <2>1. ~ Queued(file.name)'
      <3>1. ~ Queued(NoFile)
        BY InPlayFacts
      <3> QED
        BY <1>2, <3>1 DEF Queued
    <2>2. offer' # NoFile => ~ InPlay(offer)'
      BY <1>2 DEF InPlayInv, InPlayOnce, InPlay, Queued
    <2> QED
      BY <1>2, <2>1, <2>2 DEF InPlayInv, InPlayOnce
  <1>7. InPlayOnDisk'
    BY <1>4, <1>5 DEF InPlayInv, InPlayOnDisk
  <1>8. NothingForgotten'
    BY <1>1, <1>2, <1>4, <1>5 DEF InPlayInv, NothingForgotten
  <1>9. Excuses'
    BY <1>2, <1>4 DEF InPlayInv, Excuses, Typed, TypeOK
  <1> QED
    BY <1>2, <1>6, <1>7, <1>8, <1>9 DEF InPlayInv, Loaded, Done, Gone

-----------------------------------------------------------------------------
(* The invariant. *)

IInv == Typed /\ Connected /\ InPlayInv

(***************************************************************************)
(* The invariant holds before the first start, over empty directories.     *)
(***************************************************************************)
LEMMA InitInv == Init => IInv
  <1> SUFFICES ASSUME Init PROVE IInv
    OBVIOUS
  <1>1. /\ pc = "off" /\ file = Idle /\ file.name = NoFile /\ m_pQueue = EmptyQueue
        /\ offer = NoFile /\ sent = {}
    BY DEF Init, Idle
  <1>2. Typed
    <2>1. /\ EmptyQueue \in [Producers -> Seq(Entry)] /\ {} \in Description
          /\ emptyCounter \in 0 .. MaxIdle /\ faults \in 0 .. MaxFaults
          /\ starts \in 0 .. MaxStarts /\ offers \in 0 .. MaxOffers
      BY EmptySeq, BoundAssumption DEF Init, EmptyQueue, Description, MaxIdle
    <2>2. tosend \in [Files -> Stage]
      BY DEF Init, Stage
    <2>3. /\ m_run \in BOOLEAN /\ updateTblDesc \in BOOLEAN /\ up \in BOOLEAN
          /\ schema \in Schemas /\ m_pClickDB = "none" /\ m_tblType = {} /\ block = {}
          /\ failed = {} /\ badfiles = {} /\ excused = {} /\ stranded = {} /\ steady = {}
      BY DEF Init
    <2>4. TypeOK
      BY <1>1, <2>1, <2>2, <2>3 DEF TypeOK, Labels
    <2> QED
      BY <1>1, <2>4 DEF Typed, Hands, Counter, Working
  <1>3. Connected
    BY <1>1 DEF Connected, ConnectedAtWork, Working
  <1>4. InPlayInv
    <2>1. \A f : ~ Queued(f)
      BY <1>1 DEF Queued, EmptyQueue
    <2>2. InPlayOnce
      BY <1>1, <2>1 DEF InPlayOnce, EmptyQueue
    <2> QED
      BY <1>1, <2>1, <2>2, FilesAssumption
         DEF Init, InPlayInv, InPlayOnDisk, NothingForgotten, Loaded, Done, Gone, Excuses, InPlay
  <1> QED
    BY <1>2, <1>3, <1>4 DEF IInv

(***************************************************************************)
(* Every step, and every stutter, keeps the invariant.                     *)
(***************************************************************************)
LEMMA NextInv == IInv /\ [Next]_vars => IInv'
  <1>1. ASSUME IInv, Next PROVE IInv'
    <2>0. Typed /\ Connected /\ InPlayInv /\ QueueOnce
      BY <1>1, InPlayFacts DEF IInv
    <2>1. Typed'
      BY <1>1, <2>0, ProcessTypeStep, OfferTypeStep, ServerTypeStep, LoopTypeStep,
         SendTypeStep, MoveTypeStep DEF Next, lifeProc
    <2>2. Connected'
      BY <1>1, <2>0, ConnectedStep
    <2>3. InPlayInv'
      BY <1>1, <2>0, QuietActions, BootInPlay, EndInPlay, CopyStartInPlay, OfferInPlay,
         DequeueInPlay, SendInPlay, MoveInPlay DEF Next, lifeProc, doProc, Exit, Crash
    <2> QED
      BY <2>1, <2>2, <2>3 DEF IInv
  <1>2. ASSUME IInv, UNCHANGED vars PROVE IInv'
    <2>1. UNCHANGED <<thread, m_run, m_pQueue, offer, disk, server, history, budget>>
      BY <1>2 DEF vars
    <2>2. Typed'
      BY <1>2, <2>1 DEF IInv, Typed, TypeOK, Hands, Counter,
                        thread, disk, server, history, budget
    <2>3. Connected'
      BY <1>2, <2>1 DEF IInv, Connected, ConnectedAtWork, thread
    <2>4. InPlayInv'
      <3>1. pc = "remove" \/ pc = "redescribe" \/ pc = "insert" \/ pc = "park"
               => tosend[file.name] = "full"
        BY <1>2 DEF IInv, InPlayInv, Loaded
      <3> QED
        BY <1>2, <2>1, <3>1, QuietStep DEF IInv, thread, disk, history
    <2> QED
      BY <2>2, <2>3, <2>4 DEF IInv
  <1> QED
    BY <1>1, <1>2

(***************************************************************************)
(* The invariant holds in every reachable state.                           *)
(***************************************************************************)
LEMMA Invariance == Spec => []IInv
  BY InitInv, NextInv, PTL DEF Spec

-----------------------------------------------------------------------------
(* The results. *)

(***************************************************************************)
(* Every variable keeps its type; in particular no try is counted beyond   *)
(* the third, and the idle counter stays within its bound (lifeProc).      *)
(***************************************************************************)
THEOREM TypeCorrect == Spec => []TypeOK
  <1>1. IInv => TypeOK
    BY DEF IInv, Typed
  <1> QED
    BY <1>1, Invariance, PTL

(***************************************************************************)
(* lifeProc dereferences m_pClickDB only when there is one, and fills a    *)
(* block only from a description it has read.                              *)
(***************************************************************************)
THEOREM ClientAtWork == Spec => []ConnectedAtWork
  <1>1. IInv => ConnectedAtWork
    BY DEF IInv, Connected
  <1> QED
    BY <1>1, Invariance, PTL

(***************************************************************************)
(* A file waits in one place of the queues, or is in the thread's hands,   *)
(* or is being offered, and never two of these (init, doProc, lifeProc);   *)
(* what waits or is in hand lies in tosend (doProc copies before it        *)
(* enqueues; lifeProc removes what it no longer holds).                    *)
(***************************************************************************)
THEOREM QueueStaysSound == Spec => []QueueIsSound
  <1>1. IInv => QueueIsSound
    BY DEF IInv, InPlayInv, QueueIsSound
  <1> QED
    BY <1>1, Invariance, PTL

(***************************************************************************)
(* What lies in tosend waits, is in hand, is being copied, or was left by  *)
(* a failed copy or move: crashes and restarts lose no file.               *)
(***************************************************************************)
THEOREM NoFileForgotten == Spec => []NothingForgotten
  <1>1. IInv => NothingForgotten
    BY DEF IInv, InPlayInv
  <1> QED
    BY <1>1, Invariance, PTL

(***************************************************************************)
(* A second insert of the same file has an excuse: a lost answer, or the   *)
(* end of the process between the insert and the removal.                  *)
(***************************************************************************)
THEOREM NoNeedlessDuplicate == Spec => []DuplicatesExplained
  <1>1. IInv => DuplicatesExplained
    <2>1. SUFFICES ASSUME IInv, pc = "insert", file.name \in sent PROVE file.name \in excused
      BY DEF DuplicatesExplained
    <2> QED
      BY <2>1 DEF IInv, InPlayInv, Excuses, InPlay
  <1> QED
    BY <1>1, Invariance, PTL

(***************************************************************************)
(* Click2DB implements Outbox: a file leaves tosend only when its rows     *)
(* were inserted, or for "failed" or "badfiles".                           *)
(***************************************************************************)
THEOREM DestinationKeepsPromise == Spec => KeepsPromise
  <1> DEFINE box == <<tosend, sent, failed, badfiles>>
  <1>1. Init => Promise!Init
    BY DEF Init, Promise!Init
  <1>2. ASSUME IInv, Next PROVE [Promise!Next]_box
    <2>0. /\ Typed /\ InPlayInv
          /\ pc \in Working => file.name \in Files /\ tosend[file.name] # "none"
      BY <1>2, InPlayFacts DEF IInv, InPlayInv, InPlayOnDisk, InPlay
    <2>1. CASE Boot \/ start \/ Destructor \/ Exit \/ Crash
      BY <2>1 DEF Boot, start, Destructor, Exit, Crash, EndProcess, disk, history
    <2>2. ASSUME NEW f \in Files, CopyStart(f) PROVE [Promise!Next]_box
      BY <2>2 DEF CopyStart, MayCopy, Promise!Next, Promise!BeginCopy
    <2>3. CASE CopyEnd
      BY <2>0, <2>3 DEF CopyEnd, history, Typed, TypeOK, Promise!Next, Promise!EndCopy
    <2>4. CASE CopyFails \/ EnqueueOffer
      BY <2>4 DEF CopyFails, EnqueueOffer, disk, history
    <2>5. CASE LeaveLoop \/ tryConnect \/ EnterLoop \/ Ping \/ KeepDescription \/ Describe
                  \/ DequeueTimeout
      BY <2>5 DEF LeaveLoop, tryConnect, EnterLoop, Ping, KeepDescription, Describe,
                  DequeueTimeout, disk, history
    <2>6. CASE (\E p \in Producers : Dequeue(p)) \/ Load \/ LoadFails \/ Redescribe \/ InsertFails
      BY <2>6 DEF Dequeue, Load, LoadFails, Redescribe, InsertFails, disk, history
    <2>7. CASE Insert \/ InsertUnanswered
      <3>1. pc = "insert" /\ sent' = sent \union {file.name} /\ UNCHANGED disk
        BY <2>7 DEF Insert, InsertUnanswered
      <3>2. tosend[file.name] = "full"
        BY <2>0, <3>1 DEF InPlayInv, Loaded
      <3> QED
        BY <2>0, <3>1, <3>2 DEF disk, Working, Promise!Next, Promise!Insert
    <2>8. CASE moveFile
      <3>1. sent' = sent
        BY <2>8 DEF moveFile, Finish
      <3>2. CASE Remove
        BY <2>0, <3>1, <3>2 DEF Remove, InPlayInv, Loaded, Done, Working,
                                Promise!Next, Promise!Remove
      <3>3. CASE Park
        BY <2>0, <3>1, <3>3 DEF Park, InPlayInv, Loaded, Working, Promise!Next, Promise!Park
      <3>4. CASE Reject
        BY <2>0, <3>1, <3>4 DEF Reject, Working, Promise!Next, Promise!Reject
      <3> QED
        BY <2>8, <3>2, <3>3, <3>4 DEF moveFile
    <2>9. CASE MoveFails
      BY <2>9 DEF MoveFails, Finish, disk
    <2>10. CASE ServerDown \/ ServerUp \/ AlterTable
      BY <2>10 DEF ServerDown, ServerUp, AlterTable, process, disk, history
    <2> QED
      BY <1>2, <2>1, <2>2, <2>3, <2>4, <2>5, <2>6, <2>7, <2>8, <2>9, <2>10
         DEF Next, lifeProc, doProc
  <1>3. UNCHANGED vars => UNCHANGED box
    BY DEF vars, disk, history
  <1>4. IInv /\ [Next]_vars => [Promise!Next]_Promise!vars
    BY <1>2, <1>3 DEF Promise!vars
  <1> QED
    BY <1>1, <1>4, Invariance, PTL DEF Spec, KeepsPromise, Promise!Spec

(***************************************************************************)
(* With both directories configured no complete file is lost: it leaves    *)
(* tosend inserted, or lies in "failed" or "badfiles" (Node::moveFile).    *)
(***************************************************************************)
THEOREM CompleteFilesKept == Spec => Promise!KeptOrSent
  <1>1. ASSUME IInv, Promise!Next, KeepFailed, KeepBad, NEW f \in Files,
               tosend[f] = "full", tosend'[f] = "none"
        PROVE  f \in sent' \union failed' \union badfiles'
    <2>1. PICK g \in Files :
             \/ Promise!BeginCopy(g) \/ Promise!EndCopy(g) \/ Promise!Insert(g)
             \/ Promise!Remove(g) \/ Promise!Park(g) \/ Promise!Reject(g)
      BY <1>1 DEF Promise!Next
    <2>2. tosend \in [Files -> Stage]
      BY <1>1 DEF IInv, Typed, TypeOK
    <2>3. f = g
      BY <1>1, <2>1, <2>2 DEF Promise!BeginCopy, Promise!EndCopy, Promise!Insert,
                              Promise!Remove, Promise!Park, Promise!Reject
    <2> QED
      BY <1>1, <2>1, <2>2, <2>3 DEF Promise!BeginCopy, Promise!EndCopy, Promise!Insert,
                                    Promise!Remove, Promise!Park, Promise!Reject
  <1>2. UNCHANGED Promise!vars => UNCHANGED tosend
    BY DEF Promise!vars
  <1>3. IInv /\ [Promise!Next]_Promise!vars =>
           [ KeepFailed /\ KeepBad =>
               \A f \in Files :
                  tosend[f] = "full" /\ tosend'[f] = "none"
                     => f \in sent' \union failed' \union badfiles' ]_Promise!vars
    BY <1>1, <1>2
  <1> QED
    BY <1>3, Invariance, DestinationKeepsPromise, PTL
       DEF KeepsPromise, Promise!Spec, Promise!KeptOrSent

-----------------------------------------------------------------------------
(* The description, the block and the table.                               *)

Sending == {"load", "redescribe", "insert"}

\* The block is what the description at hand lets through, the description
\* was read from the table, and no name of the file's is missing in it that
\* the table had all along.
SendInv ==
    /\ m_tblType \in Schemas \union {{}}
    /\ pc \in {"dequeue"} \union Working => ~ updateTblDesc
    /\ pc \in Sending => steady \subseteq schema
    /\ pc \in {"redescribe", "insert"} => block = Fill(file.name, m_tblType)
    /\ pc = "insert" =>
          \A d \in Fill(file.name, steady) : \E e \in m_tblType : e[1] = d[1]

\* Steps that touch neither the thread's data nor the table.
LEMMA SameSend ==
    ASSUME SendInv, UNCHANGED <<pc, m_tblType, updateTblDesc, file, block, schema, steady>>
    PROVE  SendInv'
  BY DEF SendInv

\* Steps after which the thread sends nothing.
LEMMA LeaveSend ==
    ASSUME SendInv, pc' \notin {"dequeue"} \union Working, m_tblType' \in {m_tblType, {}}
    PROVE  SendInv'
  BY DEF SendInv, Sending, Working

LEMMA SendStep ==
    ASSUME Typed, Connected, SendInv, Next
    PROVE  SendInv'
  <1> USE DEF Goto
  <1>1. CASE Boot \/ start \/ Exit \/ Crash
    BY <1>1, LeaveSend DEF Boot, start, Exit, Crash, EndProcess, Working
  <1>2. CASE Destructor \/ doProc \/ ServerDown \/ ServerUp
    BY <1>2, SameSend DEF Destructor, doProc, CopyStart, CopyEnd, CopyFails, EnqueueOffer,
                         ServerDown, ServerUp, process, thread, server, history
  <1>3. CASE AlterTable
    <2>1. /\ UNCHANGED <<pc, m_tblType, updateTblDesc, file, block>>
          /\ steady' = steady \intersect schema'
      BY <1>3 DEF AlterTable, process, thread
    <2>2. Fill(file.name, steady') \subseteq Fill(file.name, steady)
      BY <2>1 DEF Fill
    <2> QED BY <2>1, <2>2 DEF SendInv
  <1>4. CASE LeaveLoop \/ tryConnect \/ EnterLoop \/ Ping \/ DequeueTimeout
    BY <1>4, LeaveSend DEF LeaveLoop, tryConnect, EnterLoop, Ping, DequeueTimeout, Working
  <1>5. CASE KeepDescription
    BY <1>5 DEF KeepDescription, NeedDescription, SendInv, Sending, Working
  <1>6. CASE Describe
    <2>1. schema \in Schemas /\ schema' = schema
      BY <1>6 DEF Describe, shared, server, Typed, TypeOK
    <2> QED BY <1>6, <2>1 DEF Describe, SendInv, Sending, Working
  <1>7. ASSUME NEW p \in Producers, Dequeue(p) PROVE SendInv'
    BY <1>7 DEF Dequeue, shared, server, SendInv, Sending, Working
  <1>8. CASE Load
    <2>1. /\ pc = "load" /\ UNCHANGED <<m_tblType, updateTblDesc, file, schema, steady>>
          /\ block' = Fill(file.name, m_tblType)
          /\ pc' = IF HasUnknown(file.name, m_tblType) THEN "redescribe" ELSE "insert"
      BY <1>8 DEF Load, shared, server, history
    <2>2. ASSUME pc' = "insert", NEW d \in Fill(file.name, steady)
          PROVE  \E e \in m_tblType : e[1] = d[1]
      BY <2>1, <2>2 DEF HasUnknown, Fill
    <2> QED BY <2>1, <2>2 DEF SendInv, Sending, Working
  <1>9. CASE LoadFails
    BY <1>9 DEF LoadFails, shared, server, history, SendInv, Sending, Working
  <1>10. CASE Redescribe
    <2>1. pc = "redescribe" /\ UNCHANGED <<schema, steady>> /\ schema \in Schemas
      BY <1>10 DEF Redescribe, shared, server, history, Typed, TypeOK
    <2>2. ASSUME m_tblType' = schema, block' = Refill(file.name, m_tblType, schema),
                 pc' = "insert", UNCHANGED <<updateTblDesc, file>>
          PROVE  SendInv'
      <3>1. block' = Fill(file.name, schema)
        BY <2>1, <2>2 DEF Refill, SendInv
      <3>2. \A d \in Fill(file.name, steady) : d \in schema
        BY <2>1 DEF SendInv, Sending, Fill
      <3> QED BY <2>1, <2>2, <3>1, <3>2 DEF SendInv, Sending, Working
    <2>3. ASSUME Retry, m_tblType' = m_tblType PROVE SendInv'
      BY <2>1, <2>3 DEF Retry, SendInv, Sending, Working
    <2> QED BY <1>10, <2>2, <2>3 DEF Redescribe
  <1>11. CASE Insert
    BY <1>11 DEF Insert, shared, server, SendInv, Sending, Working
  <1>12. CASE InsertUnanswered \/ InsertFails
    <2>1. pc = "insert" /\ Retry /\ m_tblType' = m_tblType
      BY <1>12 DEF InsertUnanswered, InsertFails
    <2> QED BY <2>1 DEF Retry, SendInv, Sending, Working
  <1>13. CASE moveFile \/ MoveFails
    <2>1. pc' = "top" /\ m_tblType' = m_tblType
      BY <1>13 DEF moveFile, MoveFails, Finish
    <2> QED BY <2>1, LeaveSend DEF Working
  <1> QED
    BY <1>1, <1>2, <1>3, <1>4, <1>5, <1>6, <1>7, <1>8, <1>9, <1>10, <1>11, <1>12, <1>13
       DEF Next, lifeProc

LEMMA SendInvariance == Spec => []SendInv
  <1>1. Init => SendInv
    BY DEF Init, SendInv, Sending, Working
  <1>2. IInv /\ SendInv /\ [Next]_vars => SendInv'
    <2>1. ASSUME IInv, SendInv, Next PROVE SendInv'
      BY <2>1, SendStep DEF IInv
    <2>2. ASSUME SendInv, UNCHANGED vars PROVE SendInv'
      BY <2>2, SameSend DEF vars, thread, server, history
    <2> QED BY <2>1, <2>2
  <1> QED BY <1>1, <1>2, Invariance, PTL DEF Spec

(***************************************************************************)
(* sendTable: whenever the table is altered, before the file is dequeued,  *)
(* between the two describes or after them, an insert the server accepts   *)
(* leaves out no column that the table had throughout, unless the type on  *)
(* record is one the data does not convert to.                             *)
(***************************************************************************)
THEOREM ColumnsArrive == Spec => []NoFreshColumnDropped
  <1>1. ASSUME Typed, SendInv, Acceptable, NEW d \in Fill(file.name, steady)
        PROVE  d \in block \/ \E e \in m_tblType \ Convertible : e[1] = d[1]
    <2>1. pc = "insert" /\ block \subseteq schema /\ block = Fill(file.name, m_tblType)
      BY <1>1 DEF Acceptable, SendInv
    <2>2. PICK e \in m_tblType : e[1] = d[1]
      BY <1>1, <2>1 DEF SendInv
    <2>3. d \in schema /\ d[1] \in FileCols[file.name] /\ schema \in Schemas
      BY <1>1, <2>1 DEF SendInv, Sending, Fill, Typed, TypeOK
    <2>4. CASE e \in Convertible
      <3>1. e \in block
        BY <2>1, <2>2, <2>3, <2>4 DEF Fill
      <3>2. e = d
        BY <2>1, <2>2, <2>3, <3>1, NameAssumption
      <3> QED BY <3>1, <3>2
    <2> QED BY <2>2, <2>4
  <1>2. IInv /\ SendInv => NoFreshColumnDropped
    BY <1>1 DEF IInv, NoFreshColumnDropped
  <1> QED BY <1>2, Invariance, SendInvariance, PTL

-----------------------------------------------------------------------------
(* The retries.  Every counted try is one mark of its file, so that a sum  *)
(* over the queue is the cardinality of a set.                             *)

InQueue(e) == \E p \in Producers : \E i \in DOMAIN m_pQueue[p] : m_pQueue[p][i] = e

Holds(e) == InQueue(e) \/ file = e

Marks == {m \in Files \X {1, 2} :
             \E e \in Entry : Holds(e) /\ e.name = m[1] /\ m[2] <= e.tries}

\* The next attempt may fail without a further disturbance: the connection
\* is broken or the description old, and nothing makes the loop look.
Spoiled == ~ NeedDescription /\ ~ (Online /\ m_tblType = schema)

\* A disturbance that has happened and no mark shows yet.
Owing == pc = "park" \/ Spoiled

AllFit == \A f \in Files, s \in Schemas : Fill(f, s) # {}

\* Each mark, and each file in "failed" twice, has cost a disturbance.
Paid ==
    /\ Cardinality(Marks) + 2 * Cardinality(failed) <= faults
    /\ Owing => Cardinality(Marks) + 2 * Cardinality(failed) + 1 <= faults
    /\ failed # {} => 2 * Cardinality(failed) + 1 <= faults
    /\ pc = "park" => file.tries = 2

LEMMA Counts ==
    ASSUME TypeOK
    PROVE  /\ IsFiniteSet(Marks) /\ Cardinality(Marks) \in Nat
           /\ IsFiniteSet(failed) /\ Cardinality(failed) \in Nat
           /\ faults \in Nat
  <1>1. IsFiniteSet(Files \X {1, 2})
    <2>1. IsFiniteSet({1} \union {2}) /\ {1, 2} = {1} \union {2}
      BY FS_Singleton, FS_AddElement
    <2>2. IsFiniteSet({1, 2})
      BY <2>1
    <2> QED BY <2>2, FilesAssumption, FS_Product
  <1>2. Marks \subseteq Files \X {1, 2}
    BY DEF Marks
  <1>3. IsFiniteSet(Marks) /\ Cardinality(Marks) \in Nat
    BY <1>1, <1>2, FS_Subset, FS_CardinalityType
  <1>4. IsFiniteSet(failed) /\ Cardinality(failed) \in Nat
    BY FilesAssumption, FS_Subset, FS_CardinalityType DEF TypeOK
  <1> QED BY <1>3, <1>4, BoundAssumption DEF TypeOK

(***************************************************************************)
(* A step that adds no mark: what it owes it owed before, or a disturbance *)
(* comes with it.                                                          *)
(***************************************************************************)
LEMMA FreeStep ==
    ASSUME TypeOK, TypeOK', Paid, Marks' \subseteq Marks, failed' = failed,
           \/ faults' = faults + 1
           \/ faults' = faults /\ (Owing' => Owing),
           pc' = "park" => file'.tries = 2
    PROVE  Paid'
  <1>1. Cardinality(Marks') <= Cardinality(Marks) /\ Cardinality(Marks') \in Nat
    BY Counts, FS_Subset, FS_CardinalityType
  <1>2. Cardinality(Marks)' = Cardinality(Marks')
    OBVIOUS
  <1> QED BY <1>1, <1>2, Counts DEF Paid

(***************************************************************************)
(* A step that adds a mark: it is paid by what was owed or by a            *)
(* disturbance that comes with it, and the description will be read again. *)
(***************************************************************************)
LEMMA MarkStep ==
    ASSUME TypeOK, TypeOK', Paid, NEW m, Marks' \subseteq Marks \union {m}, failed' = failed,
           \/ faults' = faults + 1
           \/ faults' = faults /\ Owing,
           ~ Owing'
    PROVE  Paid'
  <1>1. /\ IsFiniteSet(Marks \union {m}) /\ Cardinality(Marks \union {m}) \in Nat
        /\ Cardinality(Marks \union {m}) <= Cardinality(Marks) + 1
    <2>1. /\ IsFiniteSet(Marks \union {m})
          /\ Cardinality(Marks \union {m}) = IF m \in Marks THEN Cardinality(Marks)
                                             ELSE Cardinality(Marks) + 1
      BY Counts, FS_AddElement
    <2> QED BY <2>1, Counts
  <1>2. Cardinality(Marks') <= Cardinality(Marks) + 1 /\ Cardinality(Marks') \in Nat
    BY <1>1, Counts, FS_Subset, FS_CardinalityType
  <1>3. pc' # "park"
    BY DEF Owing
  <1> QED BY <1>2, <1>3, Counts DEF Paid

(***************************************************************************)
(* Of the queue only what it holds matters.                                *)
(***************************************************************************)
LEMMA SameMarks ==
    ASSUME \A e \in Entry : e.tries > 0 /\ Holds(e)' => Holds(e)
    PROVE  Marks' \subseteq Marks
  <1>1. \A e \in Entry, n \in {1, 2} : n <= e.tries => e.tries > 0
    BY DEF Entry
  <1> QED BY <1>1 DEF Marks

LEMMA PushHolds ==
    ASSUME m_pQueue \in Queues, NEW p \in Producers, NEW e \in Entry, Push(p, e), NEW x,
           InQueue(x)'
    PROVE  InQueue(x) \/ x = e
  <1> DEFINE old == m_pQueue[p]
  <1>1. old \in Seq(Entry)
    BY DEF Queues
  <1>2. \A i \in DOMAIN Append(old, e) :
            Append(old, e)[i] = e \/ (i \in DOMAIN old /\ Append(old, e)[i] = old[i])
    BY <1>1
  <1>3. \A q \in Producers : m_pQueue'[q] = IF q = p THEN Append(old, e) ELSE m_pQueue[q]
    BY DEF Push, Queues
  <1> QED BY <1>2, <1>3 DEF InQueue

LEMMA PopHolds ==
    ASSUME m_pQueue \in Queues, NEW p \in Producers, m_pQueue[p] # << >>,
           m_pQueue' = [m_pQueue EXCEPT ![p] = Tail(@)]
    PROVE  InQueue(Head(m_pQueue[p])) /\ \A x : InQueue(x)' => InQueue(x)
  <1> DEFINE old == m_pQueue[p]
  <1>1. old \in Seq(Entry) /\ old # << >>
    BY DEF Queues
  <1>2. /\ 1 \in DOMAIN old /\ Head(old) = old[1]
        /\ \A i \in DOMAIN Tail(old) : i + 1 \in DOMAIN old /\ Tail(old)[i] = old[i + 1]
    BY <1>1
  <1>3. \A q \in Producers : m_pQueue'[q] = IF q = p THEN Tail(old) ELSE m_pQueue[q]
    BY DEF Queues
  <1> QED BY <1>2, <1>3 DEF InQueue

\* Steps that leave the queue and the file at hand alone.
LEMMA IdleMarks == ASSUME UNCHANGED <<m_pQueue, file>> PROVE Marks' = Marks
  BY DEF Marks, Holds, InQueue

\* Steps that leave alone what the next attempt depends on.
LEMMA IdleOwing ==
    ASSUME UNCHANGED <<m_pClickDB, m_tblType, updateTblDesc, up, schema>>, pc' # "park"
    PROVE  Owing' => Owing
  BY DEF Owing, Spoiled, NeedDescription, Online

\* The file at hand leaves, and nothing is queued for it.
LEMMA DropMarks ==
    ASSUME Typed, file' = Idle, UNCHANGED m_pQueue
    PROVE  Marks' \subseteq Marks
  BY SameMarks DEF Holds, InQueue, Idle

(***************************************************************************)
(* The catch of sendTable: one mark more and a new description, or the     *)
(* third failure.                                                          *)
(***************************************************************************)
LEMMA RetryPaid ==
    ASSUME Typed, TypeOK', Paid, pc \in {"redescribe", "insert"}, Retry, failed' = failed,
           \/ faults' = faults + 1
           \/ faults' = faults /\ Owing
    PROVE  Paid'
  <1>1. file \in Entry /\ file.tries \in 0 .. 2 /\ m_pQueue \in Queues
    BY DEF Typed, Hands, Working, Entry, TypeOK, Queues
  <1>2. CASE GiveUp(file.tries)
    <2>1. UNCHANGED <<m_pQueue, file>>
      BY <1>2 DEF Retry
    <2>2. file'.tries = 2
      BY <1>1, <1>2, <2>1 DEF GiveUp
    <2> QED BY <2>1, <2>2, IdleMarks, FreeStep DEF Typed
  <1>3. CASE ~ GiveUp(file.tries)
    <2> DEFINE e == [file EXCEPT !.tries = @ + 1]
               m == <<file.name, file.tries + 1>>
    <2>1. e \in Entry /\ e.name = file.name /\ e.tries = file.tries + 1
      BY <1>1, <1>3 DEF GiveUp, Entry
    <2>2. Push("life", e) /\ updateTblDesc' = TRUE /\ file' = Idle /\ pc' = "top"
      BY <1>3 DEF Retry, Goto
    <2> HIDE DEF e
    <2>3. ASSUME NEW x \in Entry, Holds(x)', x.tries > 0 PROVE Holds(x) \/ x = e
      BY <1>1, <2>1, <2>2, <2>3, PushHolds DEF Holds, Idle, Producers
    <2>4. Marks' \subseteq Marks \union {m}
      <3>1. ASSUME NEW f \in Files, NEW n \in {1, 2}, NEW x \in Entry, Holds(x)',
                   x.name = f, n <= x.tries
            PROVE  <<f, n>> \in Marks \union {m}
        <4>1. CASE Holds(x)
          BY <3>1, <4>1 DEF Marks
        <4>2. CASE x = e
          <5>1. n <= file.tries \/ n = file.tries + 1
            BY <1>1, <2>1, <3>1, <4>2
          <5>2. CASE n <= file.tries
            <6>1. f = file.name /\ Holds(file)
              BY <2>1, <3>1, <4>2 DEF Holds
            <6> DEFINE mark == <<f, n>>
            <6>2. mark \in Files \X {1, 2} /\ mark[1] = f /\ mark[2] = n
              OBVIOUS
            <6>3. \E y \in Entry : Holds(y) /\ y.name = mark[1] /\ mark[2] <= y.tries
              BY <1>1, <5>2, <6>1, <6>2
            <6> HIDE DEF mark
            <6>4. mark \in Marks
              BY <6>2, <6>3 DEF Marks
            <6> QED BY <6>4 DEF mark
          <5>3. CASE n = file.tries + 1
            BY <2>1, <3>1, <4>2, <5>3
          <5> QED BY <5>1, <5>2, <5>3
        <4>3. x.tries > 0
          BY <3>1 DEF Entry
        <4> QED BY <2>3, <3>1, <4>1, <4>2, <4>3
      <3>2. ASSUME NEW k \in Marks' PROVE k \in Marks \union {m}
        <4>1. k \in Files \X {1, 2} /\ \E x \in Entry : Holds(x)' /\ x.name = k[1] /\ k[2] <= x.tries
          BY <3>2 DEF Marks
        <4>2. PICK f \in Files, n \in {1, 2} : k = <<f, n>>
          BY <4>1
        <4> QED BY <3>1, <4>1, <4>2
      <3> QED BY <3>2
    <2>5. ~ Owing'
      BY <2>2 DEF Owing, Spoiled, NeedDescription
    <2> HIDE DEF m
    <2> QED BY <2>4, <2>5, MarkStep DEF Typed
  <1> QED BY <1>2, <1>3

(***************************************************************************)
(* A file is given up: its two marks and the third disturbance, which was  *)
(* still owed, are what its place in "failed" costs.                       *)
(***************************************************************************)
LEMMA ParkPaid ==
    ASSUME Typed, InPlayInv, TypeOK', Paid, moveFile, Park
    PROVE  Paid'
  <1>1. pc = "park" /\ file \in Entry /\ file.name \in Files /\ file.tries = 2
    BY DEF Park, Typed, Hands, Working, Entry, Paid
  <1>2. pc' = "top" /\ file' = Idle /\ UNCHANGED <<m_pQueue, faults>>
    BY <1>1 DEF moveFile, Finish, Goto
  <1> DEFINE m1 == <<file.name, 1>>
             m2 == <<file.name, 2>>
  <1>3. m1 \in Marks /\ m2 \in Marks /\ m1 # m2
    BY <1>1 DEF Marks, Holds
  <1>4. \A e \in Entry : Holds(e)' /\ e.tries > 0 => Holds(e) /\ e.name # file.name
    <2>1. \A e : InQueue(e) => e.name # file.name
      BY DEF InPlayInv, InPlayOnce, Queued, InQueue
    <2> QED BY <1>2, <2>1 DEF Holds, InQueue, Idle
  <1>5. Marks' \subseteq (Marks \ {m1}) \ {m2}
    <2>1. \A e \in Entry, n \in {1, 2} : n <= e.tries => e.tries > 0
      BY DEF Entry
    <2> QED BY <1>4, <2>1 DEF Marks
  <1>6. /\ IsFiniteSet((Marks \ {m1}) \ {m2})
        /\ Cardinality((Marks \ {m1}) \ {m2}) = Cardinality(Marks) - 2
    <2>1. IsFiniteSet(Marks \ {m1}) /\ Cardinality(Marks \ {m1}) = Cardinality(Marks) - 1
      BY <1>3, Counts, FS_RemoveElement DEF Typed
    <2>2. m2 \in Marks \ {m1}
      BY <1>3
    <2>3. /\ IsFiniteSet((Marks \ {m1}) \ {m2})
          /\ Cardinality((Marks \ {m1}) \ {m2}) = Cardinality(Marks \ {m1}) - 1
      BY <2>1, <2>2, FS_RemoveElement
    <2> QED BY <2>1, <2>3, Counts DEF Typed
  <1>7. Cardinality(Marks') <= Cardinality(Marks) - 2 /\ Cardinality(Marks') \in Nat
    BY <1>5, <1>6, FS_Subset, FS_CardinalityType
  <1>8. Cardinality(failed') <= Cardinality(failed) + 1 /\ Cardinality(failed') \in Nat
    <2>1. /\ IsFiniteSet(failed \union {file.name})
          /\ Cardinality(failed \union {file.name}) = IF file.name \in failed
                                 THEN Cardinality(failed) ELSE Cardinality(failed) + 1
      BY Counts, FS_AddElement DEF Typed
    <2>2. failed' = failed \/ failed' = failed \union {file.name}
      BY DEF Park
    <2> QED BY <2>1, <2>2, Counts DEF Typed
  <1>9. Cardinality(Marks) + 2 * Cardinality(failed) + 1 <= faults
    BY <1>1 DEF Paid, Owing
  <1>10. Cardinality(Marks)' = Cardinality(Marks') /\ Cardinality(failed)' = Cardinality(failed')
    OBVIOUS
  <1> HIDE DEF m1, m2
  <1>11. Cardinality(Marks') + 2 * Cardinality(failed') + 1 <= faults'
    BY <1>2, <1>7, <1>8, <1>9, Counts DEF Typed
  <1>12. 2 * Cardinality(failed') + 1 <= faults'
    BY <1>2, <1>7, <1>8, <1>11, Counts DEF Typed
  <1> QED BY <1>2, <1>7, <1>8, <1>10, <1>11, <1>12, Counts DEF Paid, Typed

LEMMA PaidStep ==
    ASSUME AllFit, Typed, TypeOK', Connected, InPlayInv, SendInv, Paid, Next
    PROVE  Paid'
  <1> USE DEF Goto
  <1>0. TypeOK /\ m_pQueue \in Queues
    BY DEF Typed, TypeOK, Queues
  <1>1. CASE Boot
    <2>1. /\ UNCHANGED <<failed, faults, file, m_pClickDB, m_tblType, updateTblDesc, up, schema>>
          /\ pc' = "init"
      BY <1>1 DEF Boot, disk, server
    <2>2. PICK order : m_pQueue' = [EmptyQueue EXCEPT !["main"] =
                          [i \in DOMAIN order |-> [tries |-> 0, name |-> order[i]]]]
      BY <1>1 DEF Boot
    <2>3. \A p \in Producers : \A i \in DOMAIN m_pQueue'[p] : m_pQueue'[p][i].tries = 0
      BY <2>2 DEF EmptyQueue, Producers
    <2>4. \A e \in Entry : e.tries > 0 /\ Holds(e)' => Holds(e)
      BY <2>1, <2>3 DEF Holds, InQueue
    <2> QED BY <1>0, <2>1, <2>4, SameMarks, IdleOwing, FreeStep
  <1>2. CASE EndProcess
    <2>1. Marks' \subseteq Marks
      BY <1>2, SameMarks DEF EndProcess, Holds, InQueue, EmptyQueue, Idle
    <2>2. ~ Owing' /\ pc' # "park"
      BY <1>2 DEF EndProcess, Owing, Spoiled, NeedDescription
    <2> QED BY <1>0, <1>2, <2>1, <2>2, FreeStep DEF EndProcess, disk, budget
  <1>3. CASE start \/ LeaveLoop \/ EnterLoop \/ KeepDescription \/ DequeueTimeout
    <2>1. /\ UNCHANGED <<failed, faults, file, m_pQueue>> /\ pc' # "park"
          /\ UNCHANGED <<m_pClickDB, m_tblType, updateTblDesc, up, schema>>
      BY <1>3 DEF start, LeaveLoop, EnterLoop, KeepDescription, DequeueTimeout, disk, server,
                  budget, shared
    <2> QED BY <1>0, <2>1, IdleMarks, IdleOwing, FreeStep
  <1>4. CASE Destructor \/ CopyEnd \/ CopyFails \/ \E f \in Files : CopyStart(f)
    <2>1. UNCHANGED <<failed, file, m_pQueue, pc>>
      BY <1>4 DEF Destructor, CopyEnd, CopyFails, CopyStart, thread, disk
    <2>2. (Owing' => Owing) /\ faults' \in {faults, faults + 1}
      BY <1>4 DEF Destructor, CopyEnd, CopyFails, CopyStart, Fault, thread, server, budget,
                  Owing, Spoiled, NeedDescription, Online
    <2>3. pc' = "park" => file'.tries = 2
      BY <2>1 DEF Paid
    <2> QED BY <1>0, <2>1, <2>2, <2>3, IdleMarks, FreeStep
  <1>5. CASE EnqueueOffer
    <2> DEFINE e == [tries |-> 0, name |-> offer]
    <2>1. PICK p \in Producers : Push(p, e)
      BY <1>5 DEF EnqueueOffer, Producers
    <2>2. e \in Entry /\ e.tries = 0
      BY <1>0, <1>5 DEF EnqueueOffer, Entry, TypeOK
    <2>3. /\ UNCHANGED <<failed, faults, file, pc>>
          /\ UNCHANGED <<m_pClickDB, m_tblType, updateTblDesc, up, schema>>
      BY <1>5 DEF EnqueueOffer, thread, disk, server, budget
    <2> HIDE DEF e
    <2>4. \A x \in Entry : x.tries > 0 /\ Holds(x)' => Holds(x)
      BY <1>0, <2>1, <2>2, <2>3, PushHolds DEF Holds
    <2>5. (Owing' => Owing) /\ (pc' = "park" => file'.tries = 2)
      BY <2>3 DEF Owing, Spoiled, NeedDescription, Online, Paid
    <2> QED BY <1>0, <2>3, <2>4, <2>5, SameMarks, FreeStep
  <1>6. CASE tryConnect \/ Ping \/ Describe
    <2>1. UNCHANGED <<failed, faults, file, m_pQueue, up, schema>> /\ pc' # "park"
      BY <1>6 DEF tryConnect, Ping, Describe, disk, shared, server
    <2>2. Owing' => Owing
      BY <1>6 DEF tryConnect, Ping, Describe, Owing, Spoiled, NeedDescription, Online, shared,
                  server, AfterDescribeError
    <2> QED BY <1>0, <2>1, <2>2, IdleMarks, FreeStep
  <1>7. ASSUME NEW p \in Producers, Dequeue(p) PROVE Paid'
    <2>1. /\ UNCHANGED <<failed, faults>> /\ pc' = "load"
          /\ UNCHANGED <<m_pClickDB, m_tblType, updateTblDesc, up, schema>>
          /\ file' = Head(m_pQueue[p]) /\ m_pQueue[p] # << >>
          /\ m_pQueue' = [m_pQueue EXCEPT ![p] = Tail(@)]
      BY <1>7 DEF Dequeue, disk, shared, server
    <2>2. \A e \in Entry : Holds(e)' => Holds(e)
      BY <1>0, <2>1, PopHolds DEF Holds
    <2> QED BY <1>0, <2>1, <2>2, SameMarks, IdleOwing, FreeStep
  <1>8. CASE Load \/ LoadFails \/ Insert
    <2>1. /\ UNCHANGED <<failed, file, m_pQueue>> /\ pc' # "park"
          /\ UNCHANGED <<m_pClickDB, m_tblType, updateTblDesc, up, schema>>
          /\ faults' \in {faults, faults + 1}
      BY <1>8 DEF Load, LoadFails, Insert, Fault, disk, shared, server
    <2> QED BY <1>0, <2>1, IdleMarks, IdleOwing, FreeStep
  <1>9. pc \in {"redescribe", "insert"} => ~ NeedDescription
    BY DEF SendInv, Connected, ConnectedAtWork, NeedDescription, Working
  <1>10. CASE Redescribe
    <2>1. UNCHANGED <<failed, faults, m_pClickDB, up, schema>> /\ pc = "redescribe"
      BY <1>10 DEF Redescribe, disk, shared, server
    <2>2. CASE Online /\ m_tblType' = schema /\ pc' = "insert" /\ UNCHANGED <<m_pQueue, file>>
      <3>1. ~ Owing'
        BY <2>1, <2>2 DEF Owing, Spoiled, Online
      <3> QED BY <1>0, <2>1, <2>2, <3>1, IdleMarks, FreeStep
    <2>3. CASE ~ Online /\ Retry
      BY <1>9, <2>1, <2>3, RetryPaid DEF Owing, Spoiled
    <2> QED BY <1>10, <2>2, <2>3 DEF Redescribe
  <1>11. CASE InsertUnanswered
    BY <1>11, RetryPaid DEF InsertUnanswered, Fault, disk
  <1>12. CASE InsertFails
    <2>1. pc = "insert" /\ Retry /\ failed' = failed
      BY <1>12 DEF InsertFails, disk
    <2>2. CASE faults' = faults + 1
      BY <2>1, <2>2, RetryPaid
    <2>3. CASE faults' = faults /\ ~ (Online /\ block # {} /\ block \subseteq schema)
      <3>1. ASSUME m_tblType = schema PROVE block # {} /\ block \subseteq schema
        <4>1. block = Fill(file.name, schema) /\ schema \in Schemas /\ file.name \in Files
          BY <1>0, <2>1, <3>1, InPlayFacts DEF SendInv, TypeOK, Working
        <4> QED BY <4>1 DEF AllFit, Fill
      <3>2. Owing
        BY <1>9, <2>1, <2>3, <3>1 DEF Owing, Spoiled
      <3> QED BY <2>1, <2>3, <3>2, RetryPaid
    <2> QED BY <1>12, <2>2, <2>3 DEF InsertFails, Fault
  <1>13. CASE moveFile
    <2>1. /\ UNCHANGED <<m_pQueue, faults>> /\ file' = Idle /\ pc' = "top"
          /\ UNCHANGED <<m_pClickDB, m_tblType, updateTblDesc, up, schema>>
      BY <1>13 DEF moveFile, Finish, shared, server
    <2>2. CASE Park
      BY <1>13, <2>2, ParkPaid
    <2>3. CASE Remove \/ Reject
      <3>1. failed' = failed
        BY <2>3 DEF Remove, Reject
      <3> QED BY <1>0, <2>1, <3>1, DropMarks, IdleOwing, FreeStep
    <2> QED BY <1>13, <2>2, <2>3 DEF moveFile
  <1>14. CASE MoveFails
    <2>1. /\ UNCHANGED <<m_pQueue, failed>> /\ file' = Idle /\ pc' = "top"
          /\ faults' = faults + 1
      BY <1>14 DEF MoveFails, Finish, Fault, disk
    <2> QED BY <1>0, <2>1, DropMarks, FreeStep
  <1>15. CASE ServerDown \/ AlterTable
    <2>1. UNCHANGED <<pc, file, m_pQueue, failed>> /\ faults' = faults + 1
      BY <1>15 DEF ServerDown, AlterTable, Fault, process, thread, disk
    <2>2. pc' = "park" => file'.tries = 2
      BY <2>1 DEF Paid
    <2> QED BY <1>0, <2>1, <2>2, IdleMarks, FreeStep
  <1>16. CASE ServerUp
    <2>1. /\ UNCHANGED <<pc, file, m_pQueue, failed, faults>>
          /\ UNCHANGED <<m_pClickDB, m_tblType, updateTblDesc, schema>> /\ up' = TRUE
      BY <1>16 DEF ServerUp, process, thread, disk
    <2>2. (Owing' => Owing) /\ (pc' = "park" => file'.tries = 2)
      BY <2>1 DEF Owing, Spoiled, NeedDescription, Online, Paid
    <2> QED BY <1>0, <2>1, <2>2, IdleMarks, FreeStep
  <1> QED
    BY <1>1, <1>2, <1>3, <1>4, <1>5, <1>6, <1>7, <1>8, <1>10, <1>11, <1>12, <1>13, <1>14, <1>15,
       <1>16 DEF Next, lifeProc, doProc, Exit, Crash

(***************************************************************************)
(* The retries of sendTable: if every table takes something of every file, *)
(* the first file in "failed" has cost three disturbances and each further *)
(* one two, whatever the order of faults, restarts, retries and offers.    *)
(***************************************************************************)
THEOREM RetriesAbsorb == Spec => []FewFaultsParkNothing
  <1>1. Init => (AllFit => Paid)
    <2> SUFFICES ASSUME Init PROVE Paid
      OBVIOUS
    <2>1. Marks = {}
      BY DEF Init, Marks, Holds, InQueue, EmptyQueue, Idle, Entry
    <2>2. ~ Owing /\ pc # "park" /\ failed = {} /\ faults = 0
      BY DEF Init, Owing, Spoiled, NeedDescription
    <2> QED BY <2>1, <2>2, FS_EmptySet DEF Paid
  <1>2. IInv /\ IInv' /\ SendInv /\ (AllFit => Paid) /\ [Next]_vars => (AllFit => Paid)'
    <2>1. AllFit' <=> AllFit
      BY DEF AllFit, Fill
    <2>2. ASSUME IInv, IInv', SendInv, AllFit, Paid, Next PROVE Paid'
      BY <2>2, PaidStep DEF IInv, Typed
    <2>3. ASSUME Paid, UNCHANGED vars PROVE Paid'
      BY <2>3 DEF vars, thread, disk, server, budget, Paid, Owing, Spoiled, NeedDescription,
                  Online, Marks, Holds, InQueue
    <2> QED BY <2>1, <2>2, <2>3
  <1>3. IInv /\ (AllFit => Paid) => FewFaultsParkNothing
    BY DEF Paid, AllFit, FewFaultsParkNothing
  <1> QED BY <1>1, <1>2, <1>3, Invariance, SendInvariance, PTL DEF Spec

=============================================================================
