---------------------------- MODULE BackupProofs ----------------------------
(***************************************************************************)
(* Proofs about Backup for any files, movers, ages and numbers of faults:  *)
(* Backuper removes no fresh backup, except in the cases FreshKept names,  *)
(* and a scan leaves nothing too old, except in those ScanClears names.    *)
(***************************************************************************)
EXTENDS Backup, TLAPS

\* A file whose time was set is at least as long in the directory as its
\* time says: moveFile sets it to now, and nobody sets it back.
Dated == \A n \in Present \ undated : backup[n] <= kept[n]

IInv == TypeOK /\ Dated /\ FreshKept

LEMMA Ages ==
    /\ m_cleanTime \in Nat /\ Limit \in Nat /\ m_cleanTime < Limit /\ None \notin Age
    /\ Age = {a \in Int : 0 <= a /\ a <= Limit}
  BY TimeAssumption DEF Limit, Age, None

(***************************************************************************)
(* An hour makes no file younger and none older than Limit.                *)
(***************************************************************************)
LEMMA OlderFacts ==
    /\ \A a \in Age \union {None} : Older(a) \in Age \union {None} /\ (Older(a) = None <=> a = None)
    /\ \A a, b \in Age : Older(a) \in Age /\ a <= Older(a) /\ (a <= b => Older(a) <= Older(b))
  BY Ages DEF Older, None, Limit

LEMMA InitInv == Init => IInv
  <1> SUFFICES ASSUME Init PROVE IInv
    OBVIOUS
  <1>1. TypeOK
    <2>1. 0 \in Age /\ 0 \in 0 .. 1 /\ 0 \in 0 .. MaxFiles /\ 0 \in 0 .. MaxFaults
      BY Ages, BoundAssumption
    <2>2. backup \in [Names -> Age \union {None}] /\ kept \in [Names -> Age]
      BY <2>1 DEF Init
    <2>3. at \in [Movers -> Names \union {NoName}]
      BY DEF Init
    <2> QED BY <2>1, <2>2, <2>3 DEF Init, TypeOK, FilesOK, CleanerOK, ScanOK
  <1>2. Present = {}
    BY DEF Init, Present
  <1> QED BY <1>1, <1>2 DEF IInv, Dated, FreshKept

LEMMA SameFiles ==
    ASSUME UNCHANGED <<backup, kept, undated>>
    PROVE  Present' = Present /\ (Dated => Dated')
  BY DEF Present, Dated

LEMMA FaultStep == ASSUME TypeOK, Fault PROVE faults' \in 0 .. MaxFaults
  BY BoundAssumption DEF TypeOK, FilesOK, CleanerOK, ScanOK, Fault

-----------------------------------------------------------------------------
(* One lemma for each group of actions. *)

LEMMA HourStep == ASSUME IInv, Hour PROVE IInv'
  <1> USE DEF IInv, Hour
  <1>1. TypeOK'
    BY OlderFacts DEF TypeOK, FilesOK, CleanerOK, ScanOK
  <1>2. \A n \in Names : kept[n] \in Age /\ backup[n] \in Age \union {None}
    BY DEF TypeOK, FilesOK, CleanerOK, ScanOK
  <1>3. Present' = Present
    BY OlderFacts, <1>2 DEF Present
  <1>4. Dated'
    <2> SUFFICES ASSUME NEW n \in Present \ undated PROVE backup'[n] <= kept'[n]
      BY <1>3 DEF Dated
    <2>1. n \in Names /\ backup[n] \in Age /\ kept[n] \in Age /\ backup[n] <= kept[n]
      BY <1>2 DEF Dated, Present
    <2>2. backup'[n] = Older(backup[n]) /\ kept'[n] = Older(kept[n])
      BY <2>1
    <2> QED BY <2>1, <2>2, OlderFacts
  <1>5. FreshKept'
    <2> SUFFICES ASSUME seen \in Present, ~ caught PROVE kept'[seen] > m_cleanTime
      BY <1>3 DEF FreshKept
    <2>1. seen \in Names /\ kept[seen] > m_cleanTime /\ kept[seen] \in Age
      BY <1>2 DEF FreshKept, Present
    <2>2. kept'[seen] = Older(kept[seen])
      BY <2>1
    <2>3. Older(kept[seen]) \in Age /\ kept[seen] <= Older(kept[seen])
      BY <2>1, OlderFacts
    <2> QED BY <2>1, <2>2, <2>3, Ages
  <1> QED BY <1>1, <1>4, <1>5

LEMMA EnvironmentStep ==
    ASSUME IInv,
           \/ \E m \in Movers, n \in Names : Arrive(m, n)
           \/ \E n \in Names : OperatorRemoves(n)
           \/ Start
    PROVE  IInv'
  <1>1. ASSUME NEW m \in Movers, NEW n \in Names, Arrive(m, n) PROVE IInv'
    BY <1>1, BoundAssumption
       DEF IInv, TypeOK, FilesOK, CleanerOK, ScanOK, Arrive, Dated, FreshKept, Present, cleaner, history
  <1>2. ASSUME NEW n \in Names, OperatorRemoves(n) PROVE IInv'
    <2>1. TypeOK'
      BY <1>2, FaultStep DEF IInv, TypeOK, FilesOK, CleanerOK, ScanOK, OperatorRemoves, cleaner, history
    <2>2. Present' \subseteq Present /\ \A k \in Present' : backup'[k] = backup[k]
      BY <1>2 DEF IInv, TypeOK, FilesOK, CleanerOK, ScanOK, OperatorRemoves, Present
    <2> QED BY <1>2, <2>1, <2>2
            DEF IInv, Dated, FreshKept, OperatorRemoves, cleaner, history
  <1>3. ASSUME Start PROVE IInv'
    BY <1>3 DEF IInv, TypeOK, FilesOK, CleanerOK, ScanOK, Start, Dated, FreshKept, Present, history
  <1> QED BY <1>1, <1>2, <1>3

LEMMA ScanOverOK == ASSUME ScanOver PROVE ScanOK'
  <1>1. behind' \in 0 .. 1
    BY DEF ScanOver
  <1> QED BY <1>1, Zenon DEF ScanOver, ScanOK

LEMMA EndStep == ASSUME IInv, EndProcess, faults' \in 0 .. MaxFaults PROVE IInv'
  <1>1. FilesOK'
    BY DEF IInv, TypeOK, FilesOK, EndProcess
  <1>2. CleanerOK'
    <2>1. sinceCheck' \in 0 .. 1
      BY DEF EndProcess
    <2> QED BY <2>1, Zenon DEF EndProcess, CleanerOK
  <1>4. ScanOK'
    BY ScanOverOK DEF EndProcess
  <1>3. Dated' /\ seen' \notin Present'
    BY SameFiles, NamesAssumption DEF IInv, EndProcess, ScanOver, Present
  <1> QED BY <1>1, <1>2, <1>3, <1>4 DEF IInv, TypeOK, FreshKept

(***************************************************************************)
(* Node::moveFile: the rename leaves the name undated and spoils what the  *)
(* cleaner has seen of it; the new time makes it dated.                    *)
(***************************************************************************)
LEMMA MoveStep == ASSUME IInv, NEW m \in Movers, moveFile(m) PROVE IInv'
  <1>1. ASSUME NEW n \in Names, Rename(m, n) PROVE IInv'
    <2>1. TypeOK'
      BY <1>1, Ages DEF IInv, TypeOK, FilesOK, CleanerOK, ScanOK, Rename, cleaner
    <2>2. \A k \in Names \ {n} : backup'[k] = backup[k] /\ kept'[k] = kept[k]
      BY <1>1 DEF IInv, TypeOK, FilesOK, CleanerOK, ScanOK, Rename
    <2>3. Present' \subseteq Present \union {n}
      BY <2>2 DEF Present
    <2>4. Dated'
      BY <1>1, <2>2, <2>3 DEF IInv, Dated, Rename, Present
    <2>5. FreshKept'
      BY <1>1, <2>2, <2>3 DEF IInv, FreshKept, Rename, Present, cleaner
    <2> QED BY <2>1, <2>4, <2>5 DEF IInv
  <1>2. ASSUME last_write_time(m), ~ UNCHANGED backup \/ ~ UNCHANGED undated PROVE IInv'
    <2> DEFINE x == at[m]
    <2>1. x \in Names
      BY <1>2 DEF IInv, TypeOK, FilesOK, CleanerOK, ScanOK, last_write_time
    <2>2. /\ \A k \in Names \ {x} : backup'[k] = backup[k]
          /\ backup'[x] = IF backup[x] = None THEN None ELSE 0
      BY <1>2, <2>1 DEF IInv, TypeOK, FilesOK, CleanerOK, ScanOK, last_write_time
    <2>3. TypeOK'
      BY <1>2, <2>1, Ages DEF IInv, TypeOK, FilesOK, CleanerOK, ScanOK, last_write_time, cleaner
    <2>4. Present' = Present
      BY <2>2 DEF Present, None
    <2>5. kept' = kept /\ kept[x] \in Age /\ undated' = undated \ {x}
      BY <1>2, <2>1 DEF IInv, TypeOK, FilesOK, CleanerOK, ScanOK, last_write_time
    <2>6. Dated'
      <3> SUFFICES ASSUME NEW n \in Present \ (undated \ {x}) PROVE backup'[n] <= kept[n]
        BY <2>4, <2>5 DEF Dated
      <3>1. CASE n = x
        BY <3>1, <2>2, <2>5, Ages DEF Present
      <3>2. CASE n # x
        BY <3>2, <2>2 DEF IInv, Dated, Present
      <3> QED BY <3>1, <3>2
    <2>7. FreshKept'
      BY <1>2, <2>4, <2>5 DEF IInv, FreshKept, last_write_time, cleaner
    <2> QED BY <2>3, <2>6, <2>7 DEF IInv
  <1>3. ASSUME last_write_time(m), UNCHANGED <<backup, undated>> PROVE IInv'
    <2>1. faults' \in 0 .. MaxFaults
      BY <1>3, FaultStep DEF last_write_time, IInv, TypeOK, FilesOK
    <2>2. TypeOK'
      BY <1>3, <2>1 DEF IInv, TypeOK, FilesOK, CleanerOK, ScanOK, last_write_time, cleaner
    <2>3. Present' = Present /\ Dated'
      BY <1>3, SameFiles DEF IInv, last_write_time
    <2> QED BY <1>3, <2>2, <2>3 DEF IInv, FreshKept, last_write_time, cleaner
  <1> QED BY <1>1, <1>2, <1>3 DEF moveFile

(***************************************************************************)
(* Backuper::lifeProc: a file that is dated and too old by its time has    *)
(* been here long enough.                                                  *)
(***************************************************************************)
LEMMA CleanerStep == ASSUME IInv, lifeProc PROVE IInv'
  <1>1. ASSUME Check PROVE IInv'
    <2>1. FilesOK'
      <3>1. faults' \in 0 .. MaxFaults
        BY <1>1, FaultStep DEF Check, IInv, TypeOK, FilesOK
      <3> QED BY <1>1, <3>1 DEF IInv, TypeOK, FilesOK, Check, history
    <2>2. m_backupDirs' \in BOOLEAN /\ scanning' \in BOOLEAN
      BY <1>1, Zenon DEF IInv, TypeOK, CleanerOK, ScanOK, Check
    <2>3. owed' \subseteq Names
      BY <1>1 DEF Check, Present, IInv, TypeOK, ScanOK
    <2>4. CleanerOK' /\ ScanOK'
      <3>1. sinceCheck' \in 0 .. 1
        BY <1>1 DEF Check
      <3> QED BY <1>1, <2>2, <2>3, <3>1, Zenon
              DEF IInv, TypeOK, CleanerOK, ScanOK, Check, history
    <2>5. Dated' /\ FreshKept'
      BY <1>1, SameFiles DEF IInv, Check, FreshKept, history
    <2> QED BY <2>1, <2>4, <2>5 DEF IInv, TypeOK
  <1>2. ASSUME Remove PROVE IInv'
    <2>1. TypeOK'
      BY <1>2 DEF IInv, TypeOK, FilesOK, CleanerOK, ScanOK, Remove
    <2>2. Present' \subseteq Present /\ \A k \in Present' : backup'[k] = backup[k]
      BY <1>2 DEF IInv, TypeOK, FilesOK, CleanerOK, ScanOK, Remove, Present
    <2>3. seen' \notin Present'
      BY <1>2, NamesAssumption DEF Remove, Present
    <2> QED BY <1>2, <2>1, <2>2, <2>3 DEF IInv, Dated, FreshKept, Remove
  <1>3. ASSUME ScanEnd PROVE IInv'
    <2>1. FilesOK' /\ CleanerOK'
      BY <1>3 DEF IInv, TypeOK, FilesOK, CleanerOK, ScanEnd
    <2>3. ScanOK'
      BY <1>3, ScanOverOK DEF ScanEnd
    <2>2. Dated' /\ seen' \notin Present'
      BY <1>3, SameFiles, NamesAssumption DEF IInv, ScanEnd, ScanOver, Present
    <2> QED BY <2>1, <2>2, <2>3 DEF IInv, TypeOK, FreshKept
  <1>4. ASSUME NEW n \in Names, Look(n) PROVE IInv'
    <2>1. TypeOK'
      <3>1. FilesOK'
        BY <1>4 DEF IInv, TypeOK, FilesOK, Look
      <3>2. caught' \in BOOLEAN
        <4>1. CASE n \in Matching /\ TooOld(n)
          BY <1>4, <4>1 DEF Look
        <4>2. CASE ~ (n \in Matching /\ TooOld(n))
          BY <1>4, <4>2 DEF IInv, TypeOK, CleanerOK, ScanOK, Look
        <4> QED BY <4>1, <4>2
      <3>3. seen' \in Names \union {NoName} /\ visited' \subseteq Names
        BY <1>4 DEF IInv, TypeOK, CleanerOK, ScanOK, Look
      <3> QED BY <1>4, <3>1, <3>2, <3>3 DEF IInv, TypeOK, CleanerOK, ScanOK, Look
    <2>2. Present' = Present /\ kept' = kept /\ Dated'
      BY <1>4, SameFiles DEF IInv, Look
    <2>3. CASE n \in Matching /\ TooOld(n)
      <3>1. seen' = n /\ caught' = (n \in undated) /\ n \in Present
        BY <1>4, <2>3 DEF Look
      <3>2. backup[n] \in Int /\ kept[n] \in Int /\ behind \in 0 .. 1
        BY Ages DEF IInv, TypeOK, FilesOK, CleanerOK, ScanOK, None
      <3>3. n \notin undated => kept[n] > m_cleanTime
        BY <2>3, <3>1, <3>2, Ages DEF IInv, Dated, TooOld
      <3> QED BY <2>1, <2>2, <3>1, <3>3 DEF IInv, FreshKept
    <2>4. CASE ~ (n \in Matching /\ TooOld(n))
      BY <1>4, <2>1, <2>2, <2>4 DEF IInv, Look, FreshKept
    <2> QED BY <2>3, <2>4
  <1>5. ASSUME NEW n \in Names, LookThrows(n) PROVE IInv'
    <2>1. EndProcess /\ faults' \in 0 .. MaxFaults
      BY <1>5 DEF IInv, TypeOK, FilesOK, CleanerOK, ScanOK, LookThrows
    <2> QED BY <2>1, EndStep
  <1>6. ASSUME RemoveFails PROVE IInv'
    <2>1. seen \in Names /\ faults' \in 0 .. MaxFaults
      BY <1>6, FaultStep DEF IInv, RemoveFails, Present
    <2>2. FilesOK' /\ CleanerOK'
      BY <1>6, <2>1 DEF IInv, TypeOK, FilesOK, CleanerOK, RemoveFails
    <2>3. ScanOK'
      <3>1. unremoved' \subseteq Names
        BY <1>6, <2>1 DEF IInv, TypeOK, ScanOK, RemoveFails
      <3> QED BY <1>6, <3>1, Zenon DEF IInv, TypeOK, ScanOK, RemoveFails
    <2>4. Present' = Present /\ Dated'
      BY <1>6, SameFiles DEF IInv, RemoveFails
    <2>5. seen' \notin Present'
      BY <1>6, NamesAssumption DEF RemoveFails, Present
    <2> QED BY <2>2, <2>3, <2>4, <2>5 DEF IInv, TypeOK, FreshKept
  <1> QED BY <1>1, <1>2, <1>3, <1>4, <1>5, <1>6 DEF lifeProc

LEMMA NextInv == IInv /\ [Next]_vars => IInv'
  <1> SUFFICES ASSUME IInv, [Next]_vars PROVE IInv'
    OBVIOUS
  <1>1. CASE Hour
    BY <1>1, HourStep
  <1>2. CASE \/ \E m \in Movers, n \in Names : Arrive(m, n)
             \/ \E n \in Names : OperatorRemoves(n)
             \/ Start
    BY <1>2, EnvironmentStep
  <1>3. CASE Crash
    BY <1>3, EndStep, FaultStep DEF Crash, IInv
  <1>4. CASE \E m \in Movers : moveFile(m)
    BY <1>4, MoveStep
  <1>5. CASE lifeProc
    BY <1>5, CleanerStep
  <1>6. CASE UNCHANGED vars
    BY <1>6 DEF IInv, TypeOK, FilesOK, CleanerOK, ScanOK, Dated, FreshKept, Present, vars, cleaner, history
  <1> QED BY <1>1, <1>2, <1>3, <1>4, <1>5, <1>6 DEF Next

LEMMA Invariance == Spec => []IInv
  BY InitInv, NextInv, PTL DEF Spec

-----------------------------------------------------------------------------

(***************************************************************************)
(* Every variable of the directory and of Backuper::lifeProc keeps its     *)
(* type.                                                                   *)
(***************************************************************************)
THEOREM TypeCorrect == Spec => []TypeOK
  <1>1. IInv => TypeOK
    BY DEF IInv
  <1> QED BY <1>1, Invariance, PTL

(***************************************************************************)
(* What Backuper::lifeProc is about to remove was here for more than       *)
(* m_cleanTime hours, unless it was seen with the time of its source,      *)
(* which the second step of Node::moveFile had not set or could not set,   *)
(* or was replaced since.                                                  *)
(***************************************************************************)
THEOREM FreshBackupsKept == Spec => []FreshKept
  <1>1. IInv => FreshKept
    BY DEF IInv
  <1> QED BY <1>1, Invariance, PTL

-----------------------------------------------------------------------------
(* The scan.                                                               *)

\* What a scan has passed was not too old, or is about to be removed, or could
\* not be, or has come since by a rename.
Passed ==
    \A n \in visited \intersect Matching \intersect Present :
        n = seen \/ ~ TooOld(n) \/ n \in undated \union unremoved

ScanInv == (~ scanning => visited = {}) /\ Passed

LEMMA BackupAges ==
    ASSUME TypeOK
    PROVE  /\ \A n \in Present : n \in Names /\ backup[n] \in Age
           /\ behind \in 0 .. 1 /\ NoName \notin Present
  BY NamesAssumption DEF TypeOK, FilesOK, ScanOK, Present

\* Steps after which no file is older than before, none is new, and the scan
\* is where it was.
LEMMA YoungerStep ==
    ASSUME ScanInv, UNCHANGED <<scanning, visited, behind, unremoved>>, seen' = seen \/ seen \notin Present',
           Present' \subseteq Present,
           \A n \in Present' : n \in undated' \/ (backup'[n] = backup[n] /\ undated' = undated)
    PROVE  ScanInv'
  BY DEF ScanInv, Passed, TooOld

LEMMA ScanStep ==
    ASSUME IInv, ScanInv, Next
    PROVE  ScanInv'
  <1> USE DEF IInv
  <1>1. CASE Hour
    <2>1. UNCHANGED <<scanning, visited, seen, undated, unremoved>>
      BY <1>1 DEF Hour
    <2>2. CASE ~ scanning
      BY <2>1, <2>2 DEF ScanInv, Passed
    <2>3. CASE scanning
      <3>1. behind = 0 /\ behind' = 1
        BY <1>1, <2>3 DEF Hour
      <3>2. \A n \in Names : backup'[n] = Older(backup[n])
        BY <1>1 DEF Hour
      <3>3. ASSUME NEW n \in Present', TooOld(n)' PROVE n \in Present /\ TooOld(n)
        <4>1. n \in Names /\ backup[n] \in Age \union {None}
          BY DEF Present, TypeOK, FilesOK
        <4>2. backup[n] \in Age
          BY <3>2, <3>3, <4>1 DEF Older, Present
        <4>3. backup'[n] <= backup[n] + 1
          BY <3>2, <4>1, <4>2, Ages DEF Older
        <4>4. backup'[n] \in Int /\ backup[n] \in Int
          BY <3>2, <4>1, <4>2, Ages, OlderFacts
        <4>5. n \in Present
          BY <4>1, <4>2, Ages DEF Present
        <4> QED BY <3>1, <3>3, <4>3, <4>4, <4>5, Ages DEF TooOld
      <3> QED BY <2>1, <2>3, <3>3 DEF ScanInv, Passed
    <2> QED BY <2>2, <2>3
  <1>2. ASSUME NEW m \in Movers, NEW n \in Names, Arrive(m, n) PROVE ScanInv'
    BY <1>2, YoungerStep DEF Arrive, cleaner, history, Present
  <1>3. ASSUME NEW x \in Names, OperatorRemoves(x) PROVE ScanInv'
    <2>1. Present' \subseteq Present /\ \A n \in Present' : backup'[n] = backup[n]
      BY <1>3 DEF OperatorRemoves, TypeOK, FilesOK, Present
    <2> QED BY <1>3, <2>1, YoungerStep DEF OperatorRemoves, cleaner, history
  <1>4. CASE Start
    BY <1>4, YoungerStep DEF Start, history, Present
  <1>5. CASE EndProcess
    BY <1>5 DEF EndProcess, ScanOver, ScanInv, Passed
  <1>6. ASSUME NEW m \in Movers, NEW x \in Names, Rename(m, x) PROVE ScanInv'
    <2>1. /\ UNCHANGED <<scanning, visited, behind, seen, unremoved>>
          /\ undated' = undated \union {x}
          /\ \A n \in Names : n # x => backup'[n] = backup[n]
      BY <1>6 DEF Rename, cleaner, TypeOK, FilesOK
    <2> QED BY <2>1 DEF ScanInv, Passed, Present, TooOld
  <1>7. ASSUME NEW m \in Movers, last_write_time(m), ~ UNCHANGED <<backup, undated>>
        PROVE  ScanInv'
    <2>1. PICK x \in Names :
             /\ UNCHANGED <<scanning, visited, behind, seen, unremoved>> /\ undated' = undated \ {x}
             /\ \A n \in Names : n # x => backup'[n] = backup[n]
             /\ backup'[x] = IF backup[x] = None THEN None ELSE 0
      BY <1>7 DEF last_write_time, cleaner, TypeOK, FilesOK
    <2>2. Present' = Present
      BY <2>1 DEF Present, None
    <2>3. x \in Present' => ~ TooOld(x)'
      BY <2>1, <2>2, BackupAges, Ages DEF TooOld, Present
    <2>4. ASSUME ScanInv, NEW n \in visited \intersect Matching \intersect Present
          PROVE  n = seen \/ ~ TooOld(n)' \/ n \in undated' \union unremoved
      <3>1. CASE n = x
        BY <2>2, <2>3, <2>4, <3>1
      <3>2. CASE n # x
        <4>1. backup'[n] = backup[n] /\ behind' = behind
          BY <2>1, <2>4, <3>2 DEF Present
        <4> QED BY <2>1, <2>4, <3>2, <4>1 DEF ScanInv, Passed, TooOld
      <3> QED BY <3>1, <3>2
    <2> QED BY <2>1, <2>2, <2>4 DEF ScanInv, Passed
  <1>8. CASE Check
    BY <1>8 DEF Check, ScanInv, Passed, history
  <1>9. CASE Remove
    <2>1. /\ UNCHANGED <<scanning, visited, behind, undated, unremoved>>
          /\ Present' = Present \ {seen} /\ \A n \in Present' : backup'[n] = backup[n]
      BY <1>9 DEF Remove, TypeOK, FilesOK, Present
    <2> QED BY <2>1, YoungerStep
  <1>10. CASE ScanEnd
    BY <1>10 DEF ScanEnd, ScanOver, ScanInv, Passed
  <1>11. ASSUME NEW x \in Names, Look(x) PROVE ScanInv'
    <2>1. /\ UNCHANGED <<backup, behind, undated, unremoved, scanning>> /\ seen = NoName /\ scanning
          /\ visited' = visited \union {x}
          /\ x \in Matching /\ TooOld(x) => seen' = x
      BY <1>11 DEF Look
    <2>2. NoName \notin Present
      BY BackupAges
    <2> QED BY <2>1, <2>2 DEF ScanInv, Passed, Present, TooOld
  <1>12. ASSUME NEW m \in Movers, last_write_time(m), UNCHANGED <<backup, undated>>
         PROVE  ScanInv'
    BY <1>12, YoungerStep DEF last_write_time, cleaner, Present
  <1>13. CASE RemoveFails
    BY <1>13 DEF RemoveFails, ScanInv, Passed, Present, TooOld
  <1> QED
    BY <1>1, <1>2, <1>3, <1>4, <1>5, <1>6, <1>7, <1>8, <1>9, <1>10, <1>11, <1>12, <1>13
       DEF Next, Crash, LookThrows, lifeProc, moveFile

(***************************************************************************)
(* A scan of Backuper::lifeProc that opened the directory and comes to its *)
(* end has removed what was there at its begin and is too old, whatever    *)
(* the movers did meanwhile, but for a file renamed and not dated and one  *)
(* whose removal failed.                                                   *)
(***************************************************************************)
THEOREM ScansClear == Spec => ScanClears
  <1>1. Init => ScanInv
    BY DEF Init, ScanInv, Passed
  <1>2. IInv /\ ScanInv /\ [Next]_vars => ScanInv'
    <2>1. ASSUME ScanInv, UNCHANGED vars PROVE ScanInv'
      BY <2>1, YoungerStep DEF vars, cleaner, history, Present
    <2> QED BY <2>1, ScanStep
  <1>3. ASSUME IInv, ScanInv, Next, scanning, ~ scanning', up',
               NEW n \in owed \intersect Matching \intersect Present, TooOld(n)
        PROVE  n \in undated \union unremoved
    <2>1. ~ EndProcess
      BY <1>3 DEF EndProcess
    <2>2. ScanEnd
      BY <1>3, <2>1 DEF Next, Hour, Start, Crash, lifeProc, Check, Remove, RemoveFails, Look,
                        LookThrows,                        moveFile, Rename, last_write_time, Arrive, OperatorRemoves, cleaner
    <2>3. seen = NoName /\ n \in visited
      BY <1>3, <2>2 DEF ScanEnd, Listed
    <2>4. n # NoName
      BY BackupAges, <1>3 DEF IInv
    <2> QED BY <1>3, <2>3, <2>4 DEF ScanInv, Passed
  <1>4. IInv /\ ScanInv /\ [Next]_vars =>
           [ scanning /\ ~ scanning' /\ up' =>
               \A n \in owed \intersect Matching \intersect Present :
                  TooOld(n) => n \in undated \union unremoved ]_vars
    BY <1>3
  <1> QED BY <1>1, <1>2, <1>4, Invariance, PTL DEF Spec, ScanClears

=============================================================================
