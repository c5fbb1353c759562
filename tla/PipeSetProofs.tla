---------------------------- MODULE PipeSetProofs ----------------------------
(***************************************************************************)
(* Proofs about PipeSet for any files, destinations, queue length and      *)
(* numbers of writes, starts and faults: no file is lost without a cause,  *)
(* the destinations are served in their order, and none is given a file a  *)
(* second time without a cause.                                            *)
(***************************************************************************)
EXTENDS PipeSet, TLAPS

\* A destination has the file, or there is a reason why it has not.
Served(d, f) ==
    \/ f \in delivered[d] \union hit \union cut \union met
    \/ \E e \in 1 .. d : f \in refused[e]

\* Where doProc is when a copy is under way.
CopyPlace ==
    Copying => cur # NoFile /\ next \in Dests /\ res /\ cur \in Present

\* doProc on its way: the destinations it has passed are served, and while
\* no copy has failed they have the file, or a part of it, unless a writer
\* took the name meanwhile.
Passed ==
    cur # NoFile =>
        /\ \A d \in Dests : d < next =>
              Served(d, cur) /\ (res => cur \in delivered[d] \union cut \union met)
        /\ ~ res => cur \in met \/ \E e \in 1 .. next - 1 : cur \in refused[e]

\* The source is removed only after the last destination.
GoneIsServed ==
    \A f \in Files :
        src[f] = "unlinked" \/ (src[f] = "none" /\ f \in written)
            => \A d \in Dests : Served(d, f)

\* A file that is still there was copied only by the call that is under way.
StillHere ==
    \A f \in Present \ again, d \in Dests :
        f \in delivered[d] => f = cur /\ d < next

Core == CopyPlace /\ Passed /\ GoneIsServed /\ ServedInOrder /\ StillHere

IInv == TypeOK /\ Core

LEMMA Sizes ==
    /\ N \in Nat /\ N >= 1 /\ Dests = 1 .. N /\ LastDest = N
    /\ QueueLimit \in Nat /\ QueueLimit >= 1
    /\ MaxWrites \in Nat /\ MaxStarts \in Nat /\ MaxFaults \in Nat
    /\ NoFile \notin Files
  BY SizeAssumption, NoFileAssumption DEF Dests, LastDest

LEMMA FaultStep == ASSUME TypeOK, Fault PROVE faults' \in 0 .. MaxFaults
  BY Sizes DEF TypeOK, BudgetOK, Fault

-----------------------------------------------------------------------------
(* Types. *)

LEMMA InitType == Init => TypeOK
  <1> SUFFICES ASSUME Init PROVE TypeOK
    OBVIOUS
  <1>1. MemoryOK
    BY Zenon DEF Init, MemoryOK
  <1>2. PositionOK
    BY Sizes DEF Init, PositionOK
  <1>3. DiskOK
    BY DEF Init, DiskOK
  <1>4. HistoryOK
    BY DEF Init, HistoryOK
  <1>5. BudgetOK
    BY Sizes DEF Init, BudgetOK
  <1> QED BY <1>1, <1>2, <1>3, <1>4, <1>5 DEF TypeOK

\* The writers, and a destination that disposes of a file.
LEMMA OutsideType ==
    ASSUME TypeOK,
           \/ \E f \in Files : WriteStart(f) \/ WriteEnd(f)
           \/ \E d \in Dests, f \in Files : DestTakes(d, f)
    PROVE  TypeOK'
  <1>1. ASSUME NEW f \in Files, WriteStart(f) PROVE TypeOK'
    <2>1. MemoryOK' /\ PositionOK'
      BY <1>1 DEF TypeOK, MemoryOK, PositionOK, WriteStart
    <2>2. DiskOK'
      BY <1>1 DEF TypeOK, DiskOK, WriteStart
    <2>3. HistoryOK'
      BY <1>1 DEF TypeOK, HistoryOK, WriteStart
    <2>4. BudgetOK'
      BY <1>1, Sizes DEF TypeOK, BudgetOK, WriteStart
    <2> QED BY <2>1, <2>2, <2>3, <2>4 DEF TypeOK
  <1>2. ASSUME NEW f \in Files, WriteEnd(f) PROVE TypeOK'
    <2>1. MemoryOK' /\ BudgetOK'
      BY <1>2 DEF TypeOK, MemoryOK, BudgetOK, WriteEnd, budget
    <2>2. DiskOK'
      BY <1>2 DEF TypeOK, DiskOK, WriteEnd
    <2>3. HistoryOK'
      BY <1>2 DEF TypeOK, HistoryOK, WriteEnd
    <2>4. PositionOK'
      BY <1>2, Sizes DEF TypeOK, PositionOK, WriteEnd, Fits
    <2> QED BY <2>1, <2>2, <2>3, <2>4 DEF TypeOK
  <1>3. ASSUME NEW d \in Dests, NEW f \in Files, DestTakes(d, f) PROVE TypeOK'
    <2>1. DiskOK'
      BY <1>3 DEF TypeOK, DiskOK, DestTakes
    <2> QED BY <1>3, <2>1
            DEF TypeOK, MemoryOK, PositionOK, HistoryOK, BudgetOK, DestTakes, memory, history, budget
  <1> QED BY <1>1, <1>2, <1>3

LEMMA EndType ==
    ASSUME TypeOK, EndProcess, hit' \subseteq Files, again' \subseteq Files
    PROVE  TypeOK'
  <1>1. MemoryOK'
    BY Zenon DEF EndProcess, MemoryOK
  <1>2. PositionOK'
    BY Sizes DEF EndProcess, PositionOK
  <1>3. DiskOK' /\ HistoryOK' /\ BudgetOK'
    BY DEF TypeOK, EndProcess, DiskOK, HistoryOK, BudgetOK, budget
  <1> QED BY <1>1, <1>2, <1>3 DEF TypeOK

\* The main thread and the watcher thread outside doProc.
LEMMA ThreadType ==
    ASSUME TypeOK,
           \/ Boot \/ Stop \/ Crash \/ AddWatch \/ WatcherStart \/ WatcherFails \/ OnEvent
           \/ \E f \in Files : ScanPick(f)
    PROVE  TypeOK'
  <1>1. CASE Boot
    <2>1. MemoryOK' /\ PositionOK'
      BY <1>1 DEF TypeOK, MemoryOK, PositionOK, Boot, Present
    <2>2. DiskOK' /\ HistoryOK'
      BY <1>1 DEF TypeOK, DiskOK, HistoryOK, Boot
    <2>3. BudgetOK'
      BY <1>1, Sizes DEF TypeOK, BudgetOK, Boot
    <2> QED BY <2>1, <2>2, <2>3 DEF TypeOK
  <1>2. CASE Stop
    BY <1>2, EndType DEF Stop, TypeOK, HistoryOK
  <1>3. CASE Crash
    <2>1. {cur} \ {NoFile} \subseteq Files
      BY DEF TypeOK, MemoryOK
    <2> QED BY <1>3, <2>1, EndType DEF Crash, TypeOK, HistoryOK
  <1>4. CASE AddWatch \/ WatcherStart
    <2>1. MemoryOK'
      BY <1>4 DEF TypeOK, MemoryOK, AddWatch, WatcherStart
    <2> QED BY <1>4, <2>1
            DEF TypeOK, PositionOK, DiskOK, HistoryOK, BudgetOK, AddWatch, WatcherStart,
                disk, history, budget
  <1>5. CASE OnEvent
    <2>1. /\ Head(events) \in Files /\ Tail(events) \in Seq(Files)
          /\ Len(Tail(events)) <= QueueLimit
      BY <1>5, Sizes DEF TypeOK, PositionOK, OnEvent
    <2>2. MemoryOK'
      BY <1>5, <2>1, Zenon DEF TypeOK, MemoryOK, OnEvent, Begin
    <2>3. PositionOK'
      BY <1>5, <2>1, Sizes DEF PositionOK, OnEvent, Begin
    <2> QED BY <1>5, <2>2, <2>3
            DEF TypeOK, DiskOK, HistoryOK, BudgetOK, OnEvent, disk, history, budget
  <1>6. ASSUME NEW f \in Files, ScanPick(f) PROVE TypeOK'
    <2>1. MemoryOK'
      <3>1. seen' \subseteq Files
        BY <1>6 DEF TypeOK, MemoryOK, ScanPick
      <3> QED BY <1>6, <3>1, Zenon DEF TypeOK, MemoryOK, ScanPick, Begin
    <2>2. PositionOK'
      BY <1>6, Sizes DEF TypeOK, PositionOK, ScanPick, Begin
    <2>3. HistoryOK'
      BY <1>6 DEF TypeOK, HistoryOK, ScanPick
    <2> QED BY <1>6, <2>1, <2>2, <2>3 DEF TypeOK, DiskOK, BudgetOK, ScanPick, disk, budget
  <1>7. CASE WatcherFails
    <2>1. MemoryOK'
      BY <1>7, Zenon DEF TypeOK, MemoryOK, WatcherFails
    <2>2. faults' \in 0 .. MaxFaults
      BY <1>7, FaultStep DEF WatcherFails
    <2> QED BY <1>7, <2>1, <2>2
            DEF TypeOK, PositionOK, DiskOK, HistoryOK, BudgetOK, WatcherFails, disk, history
  <1> QED BY <1>1, <1>2, <1>3, <1>4, <1>5, <1>6, <1>7

LEMMA NextDestType ==
    ASSUME TypeOK, next \in Dests, NextDest PROVE next' \in 1 .. N + 1
  BY Sizes DEF NextDest

LEMMA AtDestFacts == ASSUME TypeOK, AtDest PROVE cur \in Files /\ next \in Dests
  BY Sizes DEF TypeOK, MemoryOK, PositionOK, AtDest

LEMMA DoProcType == ASSUME TypeOK, CopyPlace, doProc PROVE TypeOK'
  <1>1. CASE Skip
    <2>1. next' \in 1 .. N + 1
      BY <1>1, AtDestFacts, NextDestType DEF Skip
    <2>2. MemoryOK'
      BY <1>1, Zenon DEF TypeOK, MemoryOK, Skip, NextDest
    <2> QED BY <1>1, <2>1, <2>2
            DEF TypeOK, PositionOK, DiskOK, HistoryOK, BudgetOK, Skip, disk, history, budget
  <1>2. CASE CopyStart
    <2>1. cur \in Files /\ next \in Dests
      BY <1>2, AtDestFacts DEF CopyStart
    <2>2. reading' \in {"nothing", "open", "closed"}
      BY <1>2, <2>1 DEF TypeOK, DiskOK, CopyStart, Present
    <2>3. DiskOK'
      BY <1>2, <2>1 DEF TypeOK, DiskOK, CopyStart
    <2>4. MemoryOK'
      BY <1>2, <2>2, Zenon DEF TypeOK, MemoryOK, CopyStart
    <2> QED BY <1>2, <2>3, <2>4
            DEF TypeOK, PositionOK, HistoryOK, BudgetOK, CopyStart, history, budget
  <1>3. CASE CopyEnd
    <2>1. cur \in Files /\ next \in Dests
      BY <1>3 DEF TypeOK, MemoryOK, CopyEnd, CopyPlace
    <2>2. next' \in 1 .. N + 1
      BY <1>3, <2>1, NextDestType DEF CopyEnd
    <2>3. MemoryOK'
      BY <1>3, Zenon DEF TypeOK, MemoryOK, CopyEnd, NextDest
    <2>4. DiskOK'
      <3>1. box' \in [Dests -> [Files -> {"none", "partial", "torn", "full"}]]
        <4>1. PICK v \in {"full", "torn"} : box' = [box EXCEPT ![next][cur] = v]
          BY <1>3 DEF CopyEnd
        <4> QED BY <2>1, <4>1 DEF TypeOK, DiskOK
      <3>2. queued' \in [Dests -> SUBSET Files]
        BY <1>3, <2>1 DEF TypeOK, DiskOK, CopyEnd
      <3> QED BY <1>3, <3>1, <3>2 DEF TypeOK, DiskOK, CopyEnd
    <2>5. HistoryOK'
      BY <1>3, <2>1 DEF TypeOK, HistoryOK, CopyEnd
    <2> QED BY <1>3, <2>2, <2>3, <2>4, <2>5
            DEF TypeOK, PositionOK, BudgetOK, CopyEnd, budget
  <1>4. CASE CopyFails
    <2>1. cur \in Files /\ next \in Dests /\ next' \in 1 .. N + 1
      BY <1>4, AtDestFacts, NextDestType DEF CopyFails
    <2>2. MemoryOK'
      BY <1>4, Zenon DEF TypeOK, MemoryOK, CopyFails, NextDest
    <2>3. HistoryOK'
      BY <1>4, <2>1 DEF TypeOK, HistoryOK, CopyFails
    <2>4. faults' \in 0 .. MaxFaults
      BY <1>4, FaultStep DEF TypeOK, BudgetOK, CopyFails
    <2> QED BY <1>4, <2>1, <2>2, <2>3, <2>4
            DEF TypeOK, PositionOK, DiskOK, BudgetOK, CopyFails, disk
  <1>5. CASE MoveFile
    <2>1. MemoryOK'
      BY <1>5, Zenon DEF TypeOK, MemoryOK, MoveFile, Finish
    <2>2. PositionOK'
      BY <1>5, Sizes DEF TypeOK, PositionOK, MoveFile, Finish
    <2>3. DiskOK'
      BY <1>5 DEF TypeOK, DiskOK, MoveFile, Unlink
    <2> QED BY <1>5, <2>1, <2>2, <2>3 DEF TypeOK, HistoryOK, BudgetOK, MoveFile, history, budget
  <1>6. CASE MoveFails
    <2>1. MemoryOK'
      BY <1>6, Zenon DEF TypeOK, MemoryOK, MoveFails, Finish
    <2>2. PositionOK'
      BY <1>6, Sizes DEF TypeOK, PositionOK, MoveFails, Finish
    <2>3. HistoryOK'
      BY <1>6 DEF TypeOK, HistoryOK, MoveFails, Present
    <2>4. faults' \in 0 .. MaxFaults
      BY <1>6, FaultStep DEF MoveFails
    <2> QED BY <1>6, <2>1, <2>2, <2>3, <2>4 DEF TypeOK, DiskOK, BudgetOK, MoveFails, disk
  <1> QED BY <1>1, <1>2, <1>3, <1>4, <1>5, <1>6 DEF doProc

LEMMA TypeStep == TypeOK /\ CopyPlace /\ [Next]_vars => TypeOK'
  <1> SUFFICES ASSUME TypeOK, CopyPlace, [Next]_vars PROVE TypeOK'
    OBVIOUS
  <1>1. CASE UNCHANGED vars
    BY <1>1 DEF TypeOK, MemoryOK, PositionOK, DiskOK, HistoryOK, BudgetOK,
                vars, memory, disk, history, budget
  <1> QED BY <1>1, OutsideType, ThreadType, DoProcType DEF Next, Thread

-----------------------------------------------------------------------------
(* The rest of the invariant. *)

(***************************************************************************)
(* Steps outside doProc that touch neither the file in hand nor a file of  *)
(* the watched directory.                                                  *)
(***************************************************************************)
LEMMA QuietStep ==
    ASSUME Core,
           UNCHANGED <<cur, next, res, reading, src, written, delivered, cut, met, refused, hit, again>>
    PROVE  Core'
  BY DEF Core, CopyPlace, Passed, GoneIsServed, ServedInOrder, StillHere, Served, Copying, Present

\* A file that does not change keeps what is said of it.
LEMMA SameServed ==
    ASSUME NEW f \in Files, NEW d \in Dests, Served(d, f),
           delivered[d] \ {f} \subseteq delivered'[d],
           f \in delivered[d] => f \in delivered'[d],
           f \in hit => f \in hit', f \in cut => f \in cut', f \in met => f \in met',
           \A e \in Dests : f \in refused[e] => f \in refused'[e]
    PROVE  Served(d, f)'
  BY Sizes DEF Served

LEMMA WriteStartStep == ASSUME IInv, NEW f \in Files, WriteStart(f) PROVE Core'
  <1>1. /\ src[f] \in {"none", "closed"} /\ src' = [src EXCEPT ![f] = "open"]
        /\ reading' = IF cur = f /\ reading = "closed" THEN "open" ELSE reading
        /\ UNCHANGED <<cur, next, res>>
        /\ met' = IF cur = f THEN met \union {f} ELSE met \ {f}
        /\ written' = written \ {f} /\ cut' = cut \ {f} /\ hit' = hit \ {f} /\ again' = again \ {f}
        /\ \A d \in Dests : /\ delivered'[d] = delivered[d] \ {f}
                            /\ refused'[d] = refused[d] \ {f}
    BY DEF WriteStart
  <1>2. src \in [Files -> {"none", "open", "closed", "unlinked"}]
    BY DEF IInv, TypeOK, DiskOK
  <1>3. \A g \in Files \ {f}, d \in Dests : Served(d, g) => Served(d, g)'
    BY <1>1, Sizes DEF Served
  <1>4. CopyPlace'
    BY <1>1, <1>2 DEF IInv, Core, CopyPlace, Copying, Present
  <1>5. Passed'
    <2>1. CASE cur = f
      BY <1>1, <2>1 DEF Passed, Served
    <2>2. CASE cur # f
      BY <1>1, <1>3, <2>2, Sizes DEF IInv, Core, TypeOK, MemoryOK, PositionOK, Passed
    <2> QED BY <2>1, <2>2
  <1>6. GoneIsServed'
    BY <1>1, <1>2, <1>3 DEF IInv, Core, GoneIsServed
  <1>7. ServedInOrder'
    <2> SUFFICES ASSUME NEW d \in Dests, NEW e \in Dests, d < e,
                        NEW g \in delivered'[e] \ delivered'[d]
                 PROVE  g \in cut' \union met'
      BY DEF ServedInOrder
    <2>1. g # f /\ g \in delivered[e] \ delivered[d]
      BY <1>1
    <2>2. g \in cut \union met
      BY <2>1 DEF IInv, Core, ServedInOrder
    <2> QED BY <1>1, <2>1, <2>2
  <1>8. StillHere'
    BY <1>1, <1>2 DEF IInv, Core, StillHere, Present
  <1> QED BY <1>4, <1>5, <1>6, <1>7, <1>8 DEF Core

LEMMA WriteEndStep == ASSUME IInv, NEW f \in Files, WriteEnd(f) PROVE Core'
  <1>1. /\ src[f] \in {"open", "unlinked"}
        /\ src' = [src EXCEPT ![f] = IF @ = "open" THEN "closed" ELSE "none"]
        /\ written' = written \union {f}
        /\ UNCHANGED <<cur, next, res, reading, delivered, cut, met, refused, hit, again>>
    BY DEF WriteEnd
  <1>2. src \in [Files -> {"none", "open", "closed", "unlinked"}]
    BY DEF IInv, TypeOK, DiskOK
  <1>3. Present' = Present
    BY <1>1, <1>2 DEF Present
  <1>4. \A g \in Files, d \in Dests : Served(d, g)' <=> Served(d, g)
    BY <1>1 DEF Served
  <1>5. CopyPlace' /\ ServedInOrder' /\ StillHere'
    BY <1>1, <1>3 DEF IInv, Core, CopyPlace, Copying, ServedInOrder, StillHere
  <1>6. Passed'
    BY <1>1 DEF IInv, Core, Passed, Served
  <1>7. GoneIsServed'
    BY <1>1, <1>2, <1>4 DEF IInv, Core, GoneIsServed
  <1> QED BY <1>5, <1>6, <1>7 DEF Core

LEMMA EndStep ==
    ASSUME IInv, EndProcess,
           \/ cur = NoFile /\ UNCHANGED <<hit, again>>
           \/ hit' = hit \union ({cur} \ {NoFile}) /\ again' = again \union ({cur} \ {NoFile})
    PROVE  Core'
  <1>1. /\ cur' = NoFile /\ reading' = "nothing"
        /\ UNCHANGED <<src, written, delivered, cut, met, refused>>
        /\ hit \subseteq hit' /\ again \subseteq again'
        /\ cur # NoFile => cur \in again'
    BY DEF EndProcess
  <1>2. CopyPlace' /\ Passed' /\ ServedInOrder'
    BY <1>1 DEF IInv, Core, CopyPlace, Copying, Passed, ServedInOrder
  <1>3. GoneIsServed'
    BY <1>1 DEF IInv, Core, GoneIsServed, Served
  <1>4. StillHere'
    BY <1>1, Sizes DEF IInv, Core, StillHere, Present
  <1> QED BY <1>2, <1>3, <1>4 DEF Core

\* doProc is called for a file, by the scan or by the watcher.
LEMMA BeginStep ==
    ASSUME IInv, NEW f \in Files, cur = NoFile, Begin(f),
           UNCHANGED <<reading, src, written, delivered, cut, met, refused, hit, again>>
    PROVE  Core'
  <1>1. reading = "nothing"
    BY DEF IInv, Core, CopyPlace, Copying
  <1>2. CopyPlace' /\ GoneIsServed' /\ ServedInOrder'
    BY <1>1 DEF IInv, Core, CopyPlace, Copying, GoneIsServed, ServedInOrder, Served
  <1>3. Passed'
    BY Sizes DEF Begin, Passed
  <1>4. StillHere'
    BY Sizes DEF IInv, Core, StillHere, Present
  <1> QED BY <1>2, <1>3, <1>4 DEF Core

-----------------------------------------------------------------------------
(* doProc. *)

LEMMA SkipStep == ASSUME IInv, Skip PROVE Core'
  <1>1. /\ cur \in Files /\ next \in Dests /\ ~ res
        /\ next' = next + 1 /\ reading' = "nothing"
        /\ UNCHANGED <<cur, res, src, written, delivered, cut, met, refused, hit, again>>
    BY AtDestFacts DEF IInv, Skip, Calls, NextDest, disk, history
  <1>2. CopyPlace' /\ GoneIsServed' /\ ServedInOrder'
    BY <1>1 DEF IInv, Core, CopyPlace, Copying, GoneIsServed, ServedInOrder, Served
  <1>3. cur \in met \/ \E e \in 1 .. next - 1 : cur \in refused[e]
    BY <1>1, Sizes DEF IInv, Core, Passed
  <1>4. Passed'
    <2>1. \A d \in Dests : d < next => Served(d, cur)
      BY <1>1, Sizes DEF IInv, Core, Passed
    <2>2. Served(next, cur)
      BY <1>1, <1>3, Sizes DEF Served
    <2>3. \A d \in Dests : d < next + 1 => Served(d, cur)
      BY <1>1, <2>1, <2>2, Sizes
    <2>4. \A d \in Dests : Served(d, cur)' <=> Served(d, cur)
      BY <1>1 DEF Served
    <2>5. cur' \in met' \/ \E e \in 1 .. next' - 1 : cur' \in refused'[e]
      BY <1>1, <1>3, Sizes
    <2> QED BY <1>1, <2>3, <2>4, <2>5 DEF Passed
  <1>5. StillHere'
    BY <1>1, Sizes DEF IInv, Core, StillHere, Present
  <1> QED BY <1>2, <1>4, <1>5 DEF Core

LEMMA CopyStartStep == ASSUME IInv, CopyStart PROVE Core'
  <1>1. /\ cur \in Files /\ next \in Dests /\ res /\ cur \in Present
        /\ UNCHANGED <<cur, next, res, src, written, delivered, cut, met, refused, hit, again>>
    BY AtDestFacts DEF IInv, CopyStart, Calls, history
  <1>2. CopyPlace'
    BY <1>1, Sizes DEF CopyPlace, Present
  <1> QED BY <1>1, <1>2 DEF IInv, Core, Passed, GoneIsServed, ServedInOrder, StillHere, Served, Present

\* The destinations passed keep what they have; the next one has the file
\* now, a part of it, what its name held before, or a copy that failed.
LEMMA CopyStep ==
    ASSUME IInv, cur \in Files, next \in Dests, res,
           NextDest, UNCHANGED <<cur, src, written, met, hit, again>>,
           \A d \in Dests \ {next} : delivered'[d] = delivered[d] /\ refused'[d] = refused[d],
           delivered[next] \subseteq delivered'[next],
           delivered'[next] \subseteq delivered[next] \union {cur},
           refused[next] \subseteq refused'[next],
           cut \subseteq cut',
           IF res' THEN cur \in delivered'[next] \union cut' \union met' ELSE cur \in refused'[next]
    PROVE  Core'
  <1>1. next' = next + 1 /\ reading' = "nothing"
    BY DEF NextDest
  <1>2. CopyPlace'
    BY <1>1 DEF CopyPlace, Copying
  <1>3. \A d \in Dests, f \in Files : Served(d, f) => Served(d, f)'
    BY Sizes DEF Served
  <1>4. \A d \in Dests : d < next => Served(d, cur) /\ cur \in delivered[d] \union cut \union met
    BY Sizes DEF IInv, Core, Passed
  <1>5. \A d \in Dests : d = next => Served(d, cur)'
    <2> SUFFICES ASSUME NEW d \in Dests, d = next PROVE Served(d, cur)'
      OBVIOUS
    <2>1. CASE res'
      BY <2>1 DEF Served
    <2>2. CASE ~ res'
      BY <2>2, Sizes DEF Served
    <2> QED BY <2>1, <2>2
  <1>6. Passed'
    <2>1. \A d \in Dests : d < next + 1 => d < next \/ d = next
      BY Sizes
    <2>2. \A d \in Dests : d < next' => Served(d, cur)'
      <3> SUFFICES ASSUME NEW d \in Dests, d < next + 1 PROVE Served(d, cur)'
        BY <1>1
      <3>1. CASE d < next
        BY <1>3, <1>4, <3>1
      <3>2. CASE d = next
        BY <1>5, <3>2
      <3> QED BY <2>1, <3>1, <3>2
    <2>3. res' => \A d \in Dests : d < next' => cur \in delivered'[d] \union cut' \union met'
      BY <1>1, <1>4, <2>1
    <2>4. ~ res' => \E e \in 1 .. next' - 1 : cur \in refused'[e]
      BY <1>1, Sizes
    <2> QED BY <2>2, <2>3, <2>4 DEF Passed
  <1>7. GoneIsServed'
    BY <1>3 DEF IInv, Core, GoneIsServed
  <1>8. ServedInOrder'
    <2> SUFFICES ASSUME NEW d \in Dests, NEW e \in Dests, d < e,
                        NEW f \in delivered'[e] \ delivered'[d]
                 PROVE  f \in cut' \union met'
      BY DEF ServedInOrder
    <2>1. CASE f \in delivered[e] \ delivered[d]
      BY <2>1 DEF IInv, Core, ServedInOrder
    <2>2. CASE f \notin delivered[e]
      BY <1>4, <2>2
    <2>3. f \notin delivered[d]
      OBVIOUS
    <2> QED BY <2>1, <2>2, <2>3
  <1>9. StillHere'
    <2> SUFFICES ASSUME NEW f \in Present \ again, NEW d \in Dests, f \in delivered'[d]
                 PROVE  f = cur /\ d < next + 1
      BY <1>1 DEF StillHere, Present
    <2>1. CASE f \in delivered[d]
      BY <2>1, Sizes DEF IInv, Core, StillHere
    <2>2. CASE f \notin delivered[d]
      BY <2>2, Sizes
    <2> QED BY <2>1, <2>2
  <1> QED BY <1>2, <1>6, <1>7, <1>8, <1>9 DEF Core

LEMMA CopyEndStep == ASSUME IInv, CopyEnd PROVE Core'
  <1>1. /\ cur \in Files /\ next \in Dests /\ res
        /\ NextDest /\ UNCHANGED <<cur, res, src, written, met, refused, hit, again>>
    BY DEF IInv, Core, TypeOK, MemoryOK, CopyPlace, CopyEnd
  <1>2. delivered \in [Dests -> SUBSET Files]
    BY DEF IInv, TypeOK, HistoryOK
  <1>3. \/ delivered' = [delivered EXCEPT ![next] = @ \union {cur}] /\ UNCHANGED cut
        \/ cut' = cut \union {cur} /\ UNCHANGED delivered
        \/ cur \in met /\ UNCHANGED <<delivered, cut>>
    BY DEF CopyEnd
  <1>4. /\ \A d \in Dests \ {next} : delivered'[d] = delivered[d]
        /\ delivered[next] \subseteq delivered'[next]
        /\ delivered'[next] \subseteq delivered[next] \union {cur}
        /\ cut \subseteq cut' /\ cur \in delivered'[next] \union cut' \union met'
    BY <1>1, <1>2, <1>3
  <1> QED BY <1>1, <1>4, CopyStep

LEMMA CopyFailsStep == ASSUME IInv, CopyFails PROVE Core'
  <1>1. /\ cur \in Files /\ next \in Dests /\ res /\ ~ res'
        /\ NextDest /\ UNCHANGED <<cur, src, written, delivered, cut, met, hit, again>>
        /\ refused' = [refused EXCEPT ![next] = @ \union {cur}]
    BY AtDestFacts DEF IInv, CopyFails, Calls, disk
  <1>2. refused \in [Dests -> SUBSET Files]
    BY DEF IInv, TypeOK, HistoryOK
  <1>3. /\ \A d \in Dests \ {next} : refused'[d] = refused[d]
        /\ refused[next] \subseteq refused'[next] /\ cur \in refused'[next]
    BY <1>1, <1>2
  <1> QED BY <1>1, <1>3, CopyStep

\* The removal of the source, or its failure, after the last destination.
LEMMA MoveStep == ASSUME IInv, MoveFile \/ MoveFails PROVE Core'
  <1>1. /\ cur \in Files /\ cur' = NoFile
        /\ UNCHANGED <<reading, written, delivered, cut, met, refused, hit>>
    BY DEF IInv, TypeOK, MemoryOK, MoveFile, MoveFails, AfterDests, Finish, history, disk
  <1>2. reading = "nothing" /\ \A d \in Dests : Served(d, cur)
    BY Sizes DEF IInv, Core, CopyPlace, Copying, Passed, MoveFile, MoveFails, AfterDests
  <1>3. src \in [Files -> {"none", "open", "closed", "unlinked"}]
    BY DEF IInv, TypeOK, DiskOK
  <1>4. CopyPlace' /\ Passed' /\ ServedInOrder'
    BY <1>1, <1>2 DEF IInv, Core, CopyPlace, Copying, Passed, ServedInOrder
  <1>5. \A d \in Dests, f \in Files : Served(d, f)' <=> Served(d, f)
    BY <1>1 DEF Served
  <1>6. \A f \in Files \ {cur} : src'[f] = src[f]
    BY <1>1, <1>3 DEF MoveFile, MoveFails, disk
  <1>7. GoneIsServed'
    BY <1>1, <1>2, <1>5, <1>6 DEF IInv, Core, GoneIsServed
  <1>8. cur \notin Present' \/ cur \in again'
    BY <1>1, <1>3 DEF MoveFile, MoveFails, Unlink, Present
  <1>9. again \subseteq again'
    BY DEF MoveFile, MoveFails, history
  <1>10. StillHere'
    BY <1>1, <1>6, <1>8, <1>9 DEF IInv, Core, StillHere, Present
  <1> QED BY <1>4, <1>7, <1>10 DEF Core

-----------------------------------------------------------------------------

LEMMA InitInv == Init => IInv
  <1> SUFFICES ASSUME Init PROVE IInv
    OBVIOUS
  <1>1. \A d \in Dests : delivered[d] = {}
    BY DEF Init
  <1>2. cur = NoFile /\ reading = "nothing" /\ written = {} /\ \A f \in Files : src[f] = "none"
    BY DEF Init
  <1> QED BY <1>1, <1>2, InitType
          DEF IInv, Core, CopyPlace, Copying, Passed, GoneIsServed, ServedInOrder, StillHere

LEMMA NextInv == IInv /\ [Next]_vars => IInv'
  <1> SUFFICES ASSUME IInv, [Next]_vars PROVE IInv'
    OBVIOUS
  <1>1. TypeOK'
    BY TypeStep DEF IInv, Core
  <1>2. CASE Boot \/ AddWatch \/ WatcherStart \/ WatcherFails \/ \E d \in Dests, f \in Files : DestTakes(d, f)
    BY <1>1, <1>2, QuietStep
       DEF IInv, Boot, AddWatch, WatcherStart, WatcherFails, DestTakes, memory, disk, history
  <1>3. CASE UNCHANGED vars
    BY <1>1, <1>3, QuietStep DEF IInv, vars, memory, disk, history
  <1>4. CASE \E f \in Files : WriteStart(f) \/ WriteEnd(f)
    BY <1>1, <1>4, WriteStartStep, WriteEndStep DEF IInv
  <1>5. CASE Stop \/ Crash
    BY <1>1, <1>5, EndStep DEF IInv, Stop, Crash
  <1>6. CASE \E f \in Files : ScanPick(f)
    BY <1>1, <1>6, BeginStep DEF IInv, ScanPick, disk
  <1>7. CASE OnEvent
    <2>1. Head(events) \in Files
      BY <1>7 DEF IInv, TypeOK, PositionOK, OnEvent
    <2> QED BY <1>1, <1>7, <2>1, BeginStep DEF IInv, OnEvent, disk, history
  <1>8. CASE doProc
    BY <1>1, <1>8, SkipStep, CopyStartStep, CopyEndStep, CopyFailsStep, MoveStep DEF IInv, doProc
  <1> QED BY <1>2, <1>3, <1>4, <1>5, <1>6, <1>7, <1>8 DEF Next, Thread

LEMMA Invariance == Spec => []IInv
  BY InitInv, NextInv, PTL DEF Spec

-----------------------------------------------------------------------------

(***************************************************************************)
(* Every variable of the process, the directories and the history keeps    *)
(* its type (PipeBase::start, PipeSet::doProc, Watcher::lifeProc).         *)
(***************************************************************************)
THEOREM TypeCorrect == Spec => []TypeOK
  <1>1. IInv => TypeOK
    BY DEF IInv
  <1> QED BY <1>1, Invariance, PTL

(***************************************************************************)
(* A file that left the watched directory reached the destination, or its  *)
(* handling met a crash or a writer, of the file itself or of its name, or *)
(* a copy failed there or before (PipeSet::doProc), for any number of      *)
(* destinations.                                                           *)
(***************************************************************************)
THEOREM LossHasCause == Spec => []LossExplained
  <1>1. IInv => LossExplained
    <2> SUFFICES ASSUME IInv, NEW d \in Dests, NEW f \in Files, Lost(d, f)
                 PROVE  f \in hit \union cut \union met \/ \E e \in 1 .. d : f \in refused[e]
      BY DEF LossExplained
    <2>1. Served(d, f)
      BY DEF IInv, Core, GoneIsServed, Lost
    <2> QED BY <2>1 DEF Lost, Served
  <1> QED BY <1>1, Invariance, PTL

(***************************************************************************)
(* What a destination was given whole, every earlier one was given, unless *)
(* the file was cut short by its writer or its name was taken while doProc *)
(* was at it (res && hundler->doProc).                                     *)
(***************************************************************************)
THEOREM DestinationsInOrder == Spec => []ServedInOrder
  <1>1. IInv => ServedInOrder
    BY DEF IInv, Core
  <1> QED BY <1>1, Invariance, PTL

(***************************************************************************)
(* A copy of a file the destination already had is under way only after a  *)
(* crash in doProc or a failed removal of the source.                      *)
(***************************************************************************)
THEOREM NoNeedlessCopy == Spec => []NoSecondCopy
  <1>1. IInv => NoSecondCopy
    <2> SUFFICES ASSUME IInv, Copying, cur \in delivered[next] PROVE cur \in again
      BY DEF NoSecondCopy
    <2>1. next \in Dests /\ cur \in Present
      BY DEF IInv, Core, CopyPlace
    <2> QED BY <2>1, Sizes DEF IInv, Core, StillHere
  <1> QED BY <1>1, Invariance, PTL

=============================================================================
