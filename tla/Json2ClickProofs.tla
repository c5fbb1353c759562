-------------------------- MODULE Json2ClickProofs --------------------------
(***************************************************************************)
(* Proofs about Json2Click for any names of files, contents written under  *)
(* them, delays, block sizes and numbers of starts and faults: every good  *)
(* row of a file that was moved away is accounted for, none is kept twice, *)
(* no block is too large, and no output file is overwritten, each with the *)
(* exceptions the property names.                                          *)
(***************************************************************************)
EXTENDS Json2Click, FiniteSetTheorems, TLAPS

Places == rows \union Written \union taken

Accounted == Places \union lost \union overwritten

\* The rows of f that ReadLine has come past, when f is at hand.
Read(f) == {r \in GoodRows(f) : r[3] <= line}

\* The g-th content of f, if it was written, was moved away.
Gone(f, g) == g < gen[f] \/ (g = gen[f] /\ src[f] = "absent")

Reading == pc \in {"lines", "dumpLine", "save", "move", "spin"}

\* What each label of lifeProc says of the file at hand and the mode.
AtLabel ==
    /\ pc = "open" \/ Reading <=> fileName # NoFile
    /\ pc = "open" => line = 0
    /\ Reading => src[fileName] # "absent"
    /\ pc = "dumpLine" => m_blockSize # 0
    /\ pc = "tail" => m_delay # 0
    /\ pc = "last" => Batched
    /\ pc = "save" => ~ Batched
    /\ pc = "off" => rows = {} /\ m_saveTime = 0 /\ own = {}
    /\ pc = "exited" => rows = {}

\* What RowsAccounted says, row by row.
GoneIsKept == \A r \in AllRows : Gone(r[1], r[2]) => r \in Accounted

\* No row is forgotten between the file and the output.
ReadIsKept ==
    /\ Reading => Read(fileName) \subseteq Accounted
    /\ pc \in {"save", "move"} => GoodRows(fileName) \subseteq Accounted

\* Without batches the table holds the rows of one file.
OneFileEach ==
    ~ Batched =>
        /\ rows # {} => pc \in {"lines", "save", "spin"}
        /\ pc \in {"lines", "save", "spin"} => rows \subseteq GoodRows(fileName)
        /\ pc = "lines" => Read(fileName) \subseteq rows
        /\ pc = "save" => GoodRows(fileName) \subseteq rows \union lost

\* An output file with the name of a file has rows of that file.
NamedAfter == \A f \in Files \intersect DOMAIN out : \A r \in out[f] : r[1] = f

\* With batches, stamp and counter of an output file are in the past.
Stamped ==
    /\ ~ setBack => m_saveTime <= now
    /\ Batched /\ ~ setBack => \A n \in own :
         /\ n \in Nat \X Nat
         /\ n[1] < m_saveTime \/ (n[1] = m_saveTime /\ n[2] <= m_saveCounter)

Once(r) ==
    /\ \A m, n \in DOMAIN out : r \in out[m] /\ r \in out[n] => m = n
    /\ r \in Written => r \notin rows \union taken
    /\ r \notin rows \intersect taken

\* ReadLine has come past the row.
Seen(r) ==
    \/ Gone(r[1], r[2])
    \/ r[1] = fileName /\ r[2] = gen[fileName] /\ Reading /\ r[3] <= line

\* A row is somewhere only once, and only when its line was read.
Single ==
    \A r \in AllRows : <<r[1], r[2]>> \notin again =>
        Once(r) /\ (r \in Places => Seen(r))

Largest == IF m_blockSize = 1 THEN 2 ELSE m_blockSize

\* dump sees the table after every line that may have added a row.
Bounded ==
    m_blockSize # 0 =>
        /\ IsFiniteSet(rows)
        /\ Cardinality(rows) <= IF pc = "dumpLine" THEN Largest ELSE Largest - 1
        /\ m_saveTime = 0 => Cardinality(rows) <= IF pc = "dumpLine" THEN 1 ELSE 0

Kept == GoneIsKept /\ ReadIsKept /\ OneFileEach /\ NamedAfter

Blocks == Stamped /\ Bounded /\ BlockBound

Data == AtLabel /\ Kept /\ Single /\ Blocks

IInv == TypeOK /\ Data

LEMMA Sizes ==
    /\ MaxTime \in Nat /\ MaxTime >= 1 /\ MaxStarts \in Nat /\ MaxFaults \in Nat
    /\ NoFile \notin Files /\ \A f \in Files : f \notin Nat \X Nat
    /\ \A f \in Files : Len(Good[f]) \in Nat /\ DOMAIN Good[f] = 1 .. Len(Good[f])
    /\ \A f \in Files : \A g \in 1 .. Len(Good[f]) :
          /\ Good[f][g] \in Seq(BOOLEAN) /\ Len(Good[f][g]) \in Nat
          /\ DOMAIN Good[f][g] = 1 .. Len(Good[f][g])
  <1>1. ASSUME NEW f \in Files
        PROVE  /\ Len(Good[f]) \in Nat /\ DOMAIN Good[f] = 1 .. Len(Good[f])
               /\ \A g \in 1 .. Len(Good[f]) : Good[f][g] \in Seq(BOOLEAN)
    <2>1. Good[f] \in Seq(Seq(BOOLEAN))
      BY LineAssumption
    <2> QED BY <2>1
  <1> QED BY <1>1, BoundAssumption, FilesAssumption

LEMMA RowFacts ==
    /\ \A f \in Files : \A g \in 1 .. Len(Good[f]) : RowsOf(f, g) \subseteq AllRows
    /\ \A r \in AllRows :
          /\ r[1] \in Files /\ r[2] \in 1 .. Len(Good[r[1]]) /\ r \in RowsOf(r[1], r[2])
          /\ r[3] \in 1 .. Len(Good[r[1]][r[2]]) /\ r[2] \in Nat /\ r[3] \in Nat
    /\ \A f, g : \A r \in RowsOf(f, g) : r = <<f, g, r[3]>> /\ r[1] = f /\ r[2] = g /\ Good[f][g][r[3]]
  <1>1. ASSUME NEW f, NEW g, NEW r, r \in RowsOf(f, g)
        PROVE  /\ r = <<f, g, r[3]>> /\ r[1] = f /\ r[2] = g /\ Good[f][g][r[3]]
               /\ r[3] \in DOMAIN Good[f][g]
    <2>1. PICK i \in {j \in DOMAIN Good[f][g] : Good[f][g][j]} : r = <<f, g, i>>
      BY <1>1 DEF RowsOf
    <2> QED BY <2>1
  <1>2. ASSUME NEW r \in AllRows
        PROVE  /\ r[1] \in Files /\ r[2] \in 1 .. Len(Good[r[1]]) /\ r \in RowsOf(r[1], r[2])
               /\ r[3] \in 1 .. Len(Good[r[1]][r[2]]) /\ r[2] \in Nat /\ r[3] \in Nat
    <2>1. PICK f \in Files : \E g \in DOMAIN Good[f] : r \in RowsOf(f, g)
      BY DEF AllRows
    <2>2. PICK g \in DOMAIN Good[f] : r \in RowsOf(f, g)
      BY <2>1
    <2>3. r[1] = f /\ r[2] = g /\ r[3] \in DOMAIN Good[f][g]
      BY <1>1, <2>2
    <2>4. g \in 1 .. Len(Good[f]) /\ Len(Good[f]) \in Nat
      BY <2>2, Sizes
    <2>5. r[3] \in 1 .. Len(Good[f][g]) /\ Len(Good[f][g]) \in Nat
      BY <2>3, <2>4, Sizes
    <2> QED BY <2>2, <2>3, <2>4, <2>5
  <1>3. \A f \in Files : \A g \in 1 .. Len(Good[f]) : RowsOf(f, g) \subseteq AllRows
    BY Sizes DEF AllRows
  <1> QED BY <1>1, <1>2, <1>3

\* Of the content that a file has.
LEMMA GoodRowFacts ==
    ASSUME FilesOK, NEW f \in Files, src[f] # "absent"
    PROVE  /\ gen[f] \in Nat /\ gen[f] \in 1 .. Len(Good[f])
           /\ Lines(f) \in Seq(BOOLEAN) /\ Len(Lines(f)) \in Nat
           /\ GoodRows(f) \subseteq AllRows
           /\ \A r \in AllRows : r \in GoodRows(f) <=> r[1] = f /\ r[2] = gen[f]
           /\ \A r \in GoodRows(f) : r[3] \in 1 .. Len(Lines(f)) /\ r[3] \in Nat
           /\ \A i \in 1 .. Len(Lines(f)) : Lines(f)[i] => <<f, gen[f], i>> \in GoodRows(f)
  <1>1. gen[f] \in Nat /\ gen[f] \in 1 .. Len(Good[f])
    <2>1. gen[f] \in Nat /\ gen[f] <= Len(Good[f]) /\ gen[f] # 0 /\ Len(Good[f]) \in Nat
      BY Sizes DEF FilesOK
    <2> QED BY <2>1
  <1>2. Lines(f) \in Seq(BOOLEAN) /\ Len(Lines(f)) \in Nat /\ DOMAIN Lines(f) = 1 .. Len(Lines(f))
    BY <1>1, Sizes DEF Lines
  <1>3. GoodRows(f) \subseteq AllRows
    BY <1>1, RowFacts DEF GoodRows
  <1>4. \A r \in AllRows : r \in GoodRows(f) <=> r[1] = f /\ r[2] = gen[f]
    BY RowFacts DEF GoodRows
  <1>5. \A r \in GoodRows(f) : r[3] \in 1 .. Len(Lines(f)) /\ r[3] \in Nat
    BY <1>3, <1>4, RowFacts DEF Lines
  <1>6. \A i \in 1 .. Len(Lines(f)) : Lines(f)[i] => <<f, gen[f], i>> \in GoodRows(f)
    BY <1>2 DEF GoodRows, RowsOf, Lines
  <1> QED BY <1>1, <1>2, <1>3, <1>4, <1>5, <1>6

\* The file at hand is there.
LEMMA AtHand ==
    ASSUME TypeOK, AtLabel, Reading
    PROVE  fileName \in Files /\ FilesOK /\ src[fileName] # "absent"
  BY DEF TypeOK, ControlOK, AtLabel

LEMMA FaultStep == ASSUME TypeOK, Fault PROVE faults' \in 0 .. MaxFaults
  BY Sizes DEF TypeOK, NumbersOK, Fault

-----------------------------------------------------------------------------
(* Types. *)

LEMMA InitType == Init => TypeOK
  <1> SUFFICES ASSUME Init PROVE TypeOK
    OBVIOUS
  <1>1. ControlOK
    BY Zenon DEF Init, ControlOK, Labels
  <1>2. QueueOK /\ FilesOK
    BY DEF Init, QueueOK, FilesOK
  <1>3. NumbersOK
    BY Sizes DEF Init, NumbersOK
  <1>4. RowsOK
    BY DEF Init, RowsOK
  <1> QED BY <1>1, <1>2, <1>3, <1>4 DEF TypeOK

LEMMA PushType ==
    ASSUME QueueOK, NEW p \in {"main", "watcher"}, NEW f \in Files, Push(p, f)
    PROVE  QueueOK'
  <1>1. Append(m_pQueue[p], f) \in Seq(Files)
    BY DEF QueueOK
  <1> QED BY <1>1 DEF QueueOK, Push

\* The clock, the writers and the pipe.
LEMMA OutsideType ==
    ASSUME TypeOK, AtLabel, UNCHANGED config,
           \/ Tick \/ SetBack
           \/ \E f \in Files : WriteStart(f) \/ WriteEnd(f)
           \/ \E n \in DOMAIN out : Take(n)
    PROVE  TypeOK'
  <1>1. CASE Tick \/ SetBack
    <2>1. NumbersOK'
      BY <1>1, Sizes, FaultStep DEF TypeOK, NumbersOK, Tick, SetBack, memory, config, disk, Lines
    <2>2. ControlOK'
      BY <1>1 DEF TypeOK, ControlOK, Tick, SetBack, memory
    <2> QED BY <1>1, <2>1, <2>2
            DEF TypeOK, QueueOK, FilesOK, RowsOK, Tick, SetBack, memory, disk, history
  <1>2. ASSUME NEW f \in Files, WriteStart(f) PROVE TypeOK'
    <2>1. gen[f] \in Nat /\ Len(Good[f]) \in Nat /\ gen[f] < Len(Good[f])
      BY <1>2, Sizes DEF TypeOK, FilesOK, WriteStart
    <2>2. FilesOK'
      BY <1>2, <2>1 DEF TypeOK, FilesOK, WriteStart, history
    <2>3. NumbersOK'
      <3>1. fileName # NoFile /\ line # 0 => Lines(fileName)' = Lines(fileName)
        <4>1. ASSUME fileName # NoFile, line # 0 PROVE fileName \in Files /\ fileName # f
          BY <1>2, <4>1 DEF AtLabel, TypeOK, ControlOK, WriteStart
        <4> QED BY <1>2, <4>1 DEF Lines, WriteStart, memory, TypeOK, FilesOK
      <3> QED BY <1>2, <3>1 DEF TypeOK, NumbersOK, WriteStart, memory, config
    <2> QED BY <1>2, <2>2, <2>3
            DEF TypeOK, ControlOK, QueueOK, RowsOK, WriteStart, memory, history
  <1>3. ASSUME NEW f \in Files, WriteEnd(f) PROVE TypeOK'
    <2>1. FilesOK'
      BY <1>3 DEF TypeOK, FilesOK, WriteEnd, history
    <2>2. QueueOK'
      <3>1. Push("watcher", f) \/ UNCHANGED m_pQueue
        BY <1>3 DEF WriteEnd
      <3> QED BY <1>3, <3>1, PushType DEF TypeOK, QueueOK
    <2> QED BY <1>3, <2>1, <2>2
            DEF TypeOK, ControlOK, NumbersOK, RowsOK, WriteEnd, history, config, Lines
  <1>4. ASSUME NEW n \in DOMAIN out, Take(n) PROVE TypeOK'
    <2>1. RowsOK'
      BY <1>4 DEF TypeOK, RowsOK, Take, memory
    <2> QED BY <1>4, <2>1
            DEF TypeOK, ControlOK, QueueOK, NumbersOK, FilesOK, Take, memory, config, Lines
  <1> QED BY <1>1, <1>2, <1>3, <1>4

LEMMA ListingType ==
    ASSUME NEW order \in Listings(Present) PROVE order \in Seq(Files)
  <1>1. Present \subseteq Files
    BY DEF Present
  <1>2. Cardinality(Present) \in Nat
    BY <1>1, FilesAssumption, FS_Subset, FS_CardinalityType
  <1>3. order \in [1 .. Cardinality(Present) -> Files]
    BY <1>1 DEF Listings
  <1> QED BY <1>2, <1>3

LEMMA EndType ==
    ASSUME TypeOK, EndProcess, lost' \subseteq AllRows, again' \subseteq Files \X Nat,
           faults' \in 0 .. MaxFaults
    PROVE  TypeOK'
  <1>1. ControlOK'
    BY Zenon DEF EndProcess, Goto, ControlOK, Labels
  <1>2. QueueOK'
    BY DEF EndProcess, QueueOK
  <1>3. NumbersOK'
    BY Sizes DEF TypeOK, EndProcess, NumbersOK, disk
  <1>4. FilesOK'
    BY DEF TypeOK, EndProcess, FilesOK, disk
  <1>5. RowsOK'
    BY DEF TypeOK, EndProcess, RowsOK, disk
  <1> QED BY <1>1, <1>2, <1>3, <1>4, <1>5 DEF TypeOK

LEMMA BootType == ASSUME TypeOK, Boot PROVE TypeOK'
  <1>1. ControlOK'
    BY Zenon DEF TypeOK, ControlOK, Labels, Boot, Goto, others
  <1>2. QueueOK'
    BY ListingType DEF TypeOK, QueueOK, Boot
  <1>3. NumbersOK'
    <2>1. m_delay' \in Nat /\ m_blockSize' \in Nat
      BY ConfigAssumption DEF Boot
    <2> QED BY <2>1, Sizes DEF TypeOK, NumbersOK, Boot, others, disk, Lines
  <1> QED BY <1>1, <1>2, <1>3 DEF TypeOK, FilesOK, RowsOK, Boot, others, disk, history

LEMMA CrashType == ASSUME TypeOK, Exit \/ Crash PROVE TypeOK'
  <1>1. lost' \subseteq AllRows /\ again' \subseteq Files \X Nat
    BY DEF TypeOK, ControlOK, RowsOK, FilesOK, Exit, Crash, Content
  <1>2. faults' \in 0 .. MaxFaults
    BY FaultStep DEF TypeOK, NumbersOK, Exit, Crash
  <1> QED BY <1>1, <1>2, EndType DEF Exit, Crash

\* Steps that leave the rows and the files alone.
Quiet ==
    /\ UNCHANGED <<rows, out, taken, lost, overwritten, own, src, gen, backup, failed, now, setBack,
                   m_saveTime, m_saveCounter, starts>>
    /\ again \subseteq again'

\* The steps between the labels: of main, of the destructor, of lifeProc.
Turn ==
    \/ AddWatch \/ start \/ Destructor \/ LeaveLoop \/ DequeueTimeout
    \/ Open \/ OpenFails \/ ReadFails
    \/ \E p \in DOMAIN m_pQueue : Dequeue(p)

LEMMA TurnIsQuiet == ASSUME Turn PROVE Quiet
  BY DEF Turn, Quiet, AddWatch, start, Destructor, LeaveLoop, DequeueTimeout, Open, OpenFails,
         ReadFails, Dequeue, others, disk, history

LEMMA TurnType == ASSUME TypeOK, UNCHANGED config, Turn PROVE TypeOK'
  <1>1. FilesOK' /\ RowsOK'
    <2>1. again' \subseteq Files \X Nat
      BY DEF TypeOK, ControlOK, FilesOK, Turn, AddWatch, start, Destructor, LeaveLoop, DequeueTimeout,
             Open, OpenFails, ReadFails, Dequeue, others, history, Present, Content
    <2> QED BY <2>1, TurnIsQuiet DEF Quiet, TypeOK, FilesOK, RowsOK
  <1>2. pc' \in Labels /\ m_run' \in BOOLEAN /\ bOk' \in BOOLEAN /\ setBack' \in BOOLEAN
    <2>1. pc' \in Labels
      BY DEF TypeOK, ControlOK, Labels, Turn, AddWatch, start, Destructor, LeaveLoop, DequeueTimeout,
             Open, OpenFails, ReadFails, Dequeue, Goto
    <2>2. m_run' \in BOOLEAN
      BY Zenon DEF TypeOK, ControlOK, Turn, AddWatch, start, Destructor, LeaveLoop, DequeueTimeout,
             Open, OpenFails, ReadFails, Dequeue
    <2>3. bOk' \in BOOLEAN
      BY Zenon DEF TypeOK, ControlOK, Turn, AddWatch, start, Destructor, LeaveLoop, DequeueTimeout,
             Open, OpenFails, ReadFails, Dequeue
    <2>4. setBack' \in BOOLEAN
      BY TurnIsQuiet DEF Quiet, TypeOK, ControlOK
    <2> QED BY <2>1, <2>2, <2>3, <2>4
  <1>3. faults' \in 0 .. MaxFaults
    <2>1. Fault \/ faults' = faults
      BY Zenon DEF Turn, AddWatch, start, Destructor, LeaveLoop, DequeueTimeout, Open, OpenFails,
             ReadFails, Dequeue, others
    <2> QED BY <2>1, FaultStep DEF TypeOK, NumbersOK
  <1>4. CASE \E p \in DOMAIN m_pQueue : Dequeue(p)
    <2>1. PICK p \in {"main", "watcher"} : Dequeue(p)
      BY <1>4 DEF TypeOK, QueueOK
    <2>2. Head(m_pQueue[p]) \in Files /\ Tail(m_pQueue[p]) \in Seq(Files)
      BY <2>1 DEF TypeOK, QueueOK, Dequeue
    <2>3. QueueOK' /\ fileName' \in Files
      BY <2>1, <2>2 DEF TypeOK, QueueOK, Dequeue
    <2>4. NumbersOK'
      BY <1>3, <2>1, <2>3, TurnIsQuiet DEF TypeOK, NumbersOK, Quiet, Dequeue, config
    <2> QED BY <1>1, <1>2, <2>3, <2>4 DEF TypeOK, ControlOK
  <1>5. CASE ~ \E p \in DOMAIN m_pQueue : Dequeue(p)
    <2>1. UNCHANGED <<m_pQueue, line>> /\ (fileName' = fileName \/ fileName' = NoFile)
      BY <1>5, Zenon DEF Turn, AddWatch, start, Destructor, LeaveLoop, DequeueTimeout, Open, OpenFails,
             ReadFails
    <2>2. NumbersOK'
      BY <1>3, <2>1, TurnIsQuiet DEF TypeOK, NumbersOK, Quiet, config, Lines
    <2>3. QueueOK' /\ fileName' \in Files \union {NoFile}
      BY <2>1 DEF TypeOK, QueueOK, ControlOK
    <2> QED BY <1>1, <1>2, <2>2, <2>3 DEF TypeOK, ControlOK
  <1> QED BY <1>4, <1>5

LEMMA ReadType == ASSUME TypeOK, AtLabel, UNCHANGED config, ReadLine PROVE TypeOK'
  <1> USE DEF ReadLine, others, disk
  <1>1. fileName \in Files /\ FilesOK /\ src[fileName] # "absent"
    BY AtHand DEF Reading
  <1>2. Len(Lines(fileName)) \in Nat /\ line \in Nat
    BY <1>1, GoodRowFacts DEF TypeOK, NumbersOK
  <1>3. ControlOK'
    <2>1. bOk' \in BOOLEAN /\ m_run' \in BOOLEAN /\ setBack' \in BOOLEAN
      BY Zenon DEF TypeOK, ControlOK
    <2>2. pc' \in Labels
      BY DEF Goto, Labels
    <2> QED BY <1>1, <2>1, <2>2 DEF ControlOK
  <1>4. NumbersOK'
    <2>1. Lines(fileName)' = Lines(fileName)
      BY DEF Lines
    <2> QED BY <1>2, <2>1 DEF TypeOK, NumbersOK, config
  <1>5. RowsOK'
    <2>1. Lines(fileName)[line + 1] => <<fileName, gen[fileName], line + 1>> \in AllRows
      <3>1. line + 1 \in 1 .. Len(Lines(fileName))
        BY <1>2
      <3> QED BY <1>1, <3>1, GoodRowFacts
    <2>2. rows' \subseteq AllRows
      BY <2>1 DEF TypeOK, RowsOK
    <2> QED BY <2>2 DEF TypeOK, RowsOK, history
  <1> QED BY <1>3, <1>4, <1>5 DEF TypeOK, QueueOK, FilesOK, history

LEMMA EndOfFileType == ASSUME TypeOK, AtLabel, UNCHANGED config, EndOfFile PROVE TypeOK'
  <1> USE DEF EndOfFile, disk
  <1>1. fileName \in Files /\ FilesOK /\ src[fileName] # "absent"
    BY AtHand DEF Reading
  <1>2. ControlOK'
    <2>1. bOk' \in BOOLEAN /\ m_run' \in BOOLEAN /\ setBack' \in BOOLEAN
      BY Zenon DEF TypeOK, ControlOK
    <2>2. pc' \in Labels /\ fileName' = fileName
      BY DEF Goto, Labels
    <2> QED BY <2>1, <2>2 DEF TypeOK, ControlOK
  <1>3. RowsOK'
    <2>1. lost' \subseteq AllRows
      BY <1>1, GoodRowFacts DEF TypeOK, RowsOK
    <2> QED BY <2>1 DEF TypeOK, RowsOK
  <1> QED BY <1>2, <1>3 DEF TypeOK, QueueOK, NumbersOK, FilesOK, config, Lines

\* What Save leaves, whatever the name.
LEMMA SaveType ==
    ASSUME TypeOK, NEW name \in OutNames, Save(name), UNCHANGED taken
    PROVE  /\ RowsOK'
           /\ bOk' \in BOOLEAN
           /\ faults' \in 0 .. MaxFaults
  <1> USE DEF Store
  <1>1. DOMAIN out' \subseteq OutNames /\ own' \subseteq OutNames
    BY DEF TypeOK, RowsOK, Save
  <1>2. \A n \in DOMAIN out' : out'[n] \subseteq AllRows
    BY DEF TypeOK, RowsOK, Save
  <1>3. rows' \subseteq AllRows /\ lost' \subseteq AllRows /\ overwritten' \subseteq AllRows
    <2>1. Under(name) \subseteq AllRows
      BY DEF TypeOK, RowsOK, Under
    <2> QED BY <2>1 DEF TypeOK, RowsOK, Save
  <1>4. bOk' \in BOOLEAN
    BY Zenon DEF TypeOK, ControlOK, Save
  <1>5. faults' \in 0 .. MaxFaults
    <2>1. Fault \/ faults' = faults
      BY Zenon DEF Save
    <2> QED BY <2>1, FaultStep DEF TypeOK, NumbersOK
  <1> QED BY <1>1, <1>2, <1>3, <1>4, <1>5 DEF TypeOK, RowsOK

LEMMA SaveFileType == ASSUME TypeOK, AtLabel, UNCHANGED config, SaveFile PROVE TypeOK'
  <1> USE DEF SaveFile
  <1>1. fileName \in OutNames
    BY DEF TypeOK, ControlOK, AtLabel, Reading, OutNames
  <1>2. RowsOK' /\ bOk' \in BOOLEAN /\ faults' \in 0 .. MaxFaults
    BY <1>1, SaveType
  <1>3. ControlOK'
    <2>1. pc' \in Labels
      BY DEF Goto, Labels
    <2> QED BY <1>2, <2>1 DEF TypeOK, ControlOK
  <1>4. NumbersOK'
    BY <1>2 DEF TypeOK, NumbersOK, config, Lines
  <1> QED BY <1>2, <1>3, <1>4 DEF TypeOK, QueueOK, FilesOK

LEMMA MoveType == ASSUME TypeOK, AtLabel, UNCHANGED config, moveFile \/ MoveFails PROVE TypeOK'
  <1>1. fileName \in Files
    BY DEF TypeOK, ControlOK, AtLabel, Reading, moveFile, MoveFails
  <1>2. Finish
    BY DEF moveFile, MoveFails
  <1>3. FilesOK'
    BY <1>1, <1>2 DEF TypeOK, FilesOK, moveFile, MoveFails, Finish, Content
  <1>4. ControlOK'
    <2>1. pc' \in Labels
      BY <1>2 DEF Finish, Goto, EndTurn, Labels
    <2> QED BY <1>2, <2>1 DEF TypeOK, ControlOK, Finish
  <1>5. NumbersOK'
    <2>1. faults' \in 0 .. MaxFaults
      <3>1. Fault \/ faults' = faults
        BY Zenon DEF moveFile, MoveFails
      <3> QED BY <3>1, FaultStep DEF TypeOK, NumbersOK
    <2> QED BY <1>2, <2>1 DEF TypeOK, NumbersOK, config, Finish
  <1> QED BY <1>2, <1>3, <1>4, <1>5 DEF TypeOK, QueueOK, RowsOK, Finish

LEMMA CounterType == TypeOK => Counter \in Nat /\ <<now, Counter>> \in OutNames
  BY DEF TypeOK, NumbersOK, Counter, OutNames

\* dump with one of its two outcomes.
Saved == Save(<<now, Counter>>) /\ m_saveTime' = now /\ m_saveCounter' = Counter

Unsaved ==
    /\ m_saveTime' = IF rows # {} /\ m_saveTime = 0 THEN now ELSE m_saveTime
    /\ UNCHANGED <<rows, bOk, m_saveCounter, out, own, lost, overwritten, faults>>

LEMMA DumpSplit ==
    ASSUME Dump
    PROVE  /\ pc \in {"dumpLine", "tail", "last"}
           /\ pc' \in {"lines", "top", "exited"}
           /\ pc' = IF pc = "dumpLine" THEN "lines" ELSE IF pc = "tail" THEN "top" ELSE "exited"
           /\ \/ Saved /\ (Saves(FALSE) \/ Saves(TRUE))
              \/ Unsaved /\ ~ Saves(pc = "last")
           /\ UNCHANGED <<m_run, m_pQueue, fileName, line, src, gen, backup, failed, now,
                          setBack, taken, again, starts>>
  <1>1. /\ \/ pc = "dumpLine" /\ dump(FALSE) /\ Goto("lines")
           \/ pc = "tail" /\ dump(FALSE) /\ Goto("top")
           \/ pc = "last" /\ dump(TRUE) /\ Goto("exited")
        /\ UNCHANGED <<m_run, m_pQueue, fileName, line, src, gen, backup, failed, now,
                       setBack, taken, again, starts>>
    BY Zenon DEF Dump
  <1>2. \A b \in BOOLEAN : dump(b) => (Saved /\ Saves(b)) \/ (Unsaved /\ ~ Saves(b))
    BY DEF dump, Saved, Unsaved
  <1> QED BY <1>1, <1>2 DEF Goto

LEMMA DumpType == ASSUME TypeOK, UNCHANGED config, Dump PROVE TypeOK'
  <1>1. RowsOK' /\ bOk' \in BOOLEAN /\ faults' \in 0 .. MaxFaults
    <2>1. CASE Saved
      BY <2>1, CounterType, SaveType, DumpSplit DEF Saved
    <2>2. CASE Unsaved
      BY <2>2, DumpSplit DEF Unsaved, TypeOK, RowsOK, ControlOK, NumbersOK
    <2> QED BY <2>1, <2>2, DumpSplit
  <1>2. ControlOK'
    <2>1. pc' \in Labels
      BY DumpSplit DEF Labels
    <2> QED BY <1>1, <2>1, DumpSplit DEF TypeOK, ControlOK
  <1>3. NumbersOK'
    <2>1. m_saveTime' \in 0 .. MaxTime /\ m_saveCounter' \in Nat
      <3>1. now \in 0 .. MaxTime /\ m_saveTime \in 0 .. MaxTime /\ m_saveCounter \in Nat
        BY DEF TypeOK, NumbersOK
      <3>2. CASE Saved
        BY <3>1, <3>2, CounterType DEF Saved
      <3>3. CASE Unsaved
        BY <3>1, <3>3 DEF Unsaved
      <3> QED BY <3>2, <3>3, DumpSplit
    <2> QED BY <1>1, <2>1, DumpSplit DEF TypeOK, NumbersOK, config, Lines
  <1> QED BY <1>1, <1>2, <1>3, DumpSplit DEF TypeOK, QueueOK, FilesOK

LEMMA TypeStep == ASSUME TypeOK, AtLabel, Next PROVE TypeOK'
  <1>1. CASE Boot \/ Exit \/ Crash
    BY <1>1, BootType, CrashType
  <1>2. CASE Around
    BY <1>2, OutsideType, TurnType DEF Around, Turn
  <1>3. CASE lifeProc
    BY <1>3, TurnType, ReadType, EndOfFileType, SaveFileType, MoveType, DumpType
       DEF lifeProc, Turn
  <1> QED BY <1>1, <1>2, <1>3 DEF Next

-----------------------------------------------------------------------------
(* Rows: steps that leave them where they are.                             *)

LEMMA InitData == Init => Data
  <1> SUFFICES ASSUME Init PROVE Data
    OBVIOUS
  <1>1. \A r \in AllRows : ~ Gone(r[1], r[2])
    <2> SUFFICES ASSUME NEW r \in AllRows PROVE ~ Gone(r[1], r[2])
      OBVIOUS
    <2>1. r[1] \in Files /\ r[2] \in Nat /\ r[2] \in 1 .. Len(Good[r[1]])
      BY RowFacts
    <2>2. r[2] >= 1
      BY <2>1, Sizes
    <2> QED BY <2>1, <2>2 DEF Gone, Init
  <1>2. AtLabel /\ GoneIsKept /\ ReadIsKept
    BY <1>1 DEF Init, AtLabel, Reading, GoneIsKept, ReadIsKept
  <1>3. OneFileEach /\ NamedAfter /\ Stamped /\ Bounded /\ BlockBound
    BY DEF Init, OneFileEach, NamedAfter, Stamped, Bounded, BlockBound
  <1>4. Places = {}
    BY DEF Init, Places, Written
  <1>5. Single
    <2>1. \A r : Once(r)
      BY <1>4 DEF Once, Places, Written, Init
    <2> QED BY <1>4, <2>1 DEF Single
  <1> QED BY <1>2, <1>3, <1>5 DEF Data, Kept, Blocks

LEMMA SameRows ==
    ASSUME UNCHANGED <<rows, out, taken>>
    PROVE  /\ Places' = Places /\ Written' = Written
           /\ \A r : Once(r) => Once(r)'
  BY DEF Places, Written, Once

\* A step that forgets no row, and moves no file away.
LEMMA KeepsGone ==
    ASSUME Accounted \subseteq Accounted', \A r \in AllRows : Gone(r[1], r[2])' => Gone(r[1], r[2])
    PROVE  GoneIsKept => GoneIsKept'
  BY DEF GoneIsKept

LEMMA SameFiles ==
    ASSUME UNCHANGED <<src, gen>>
    PROVE  /\ \A f, g : Gone(f, g)' <=> Gone(f, g)
           /\ \A f : GoodRows(f)' = GoodRows(f) /\ Lines(f)' = Lines(f)
           /\ line' = line => \A f : Read(f)' = Read(f)
  BY DEF Gone, GoodRows, Lines, Read

\* What was seen stays so while the reading goes on.
LEMMA KeepsSeen ==
    ASSUME UNCHANGED <<src, gen>>,
           Reading => Reading' /\ fileName' = fileName /\ line' = line
    PROVE  \A r : Seen(r) => Seen(r)'
  BY SameFiles DEF Seen

\* A step that puts no row anywhere it was not.
LEMMA KeepsSingle ==
    ASSUME Single, again \subseteq again', Places' \subseteq Places, \A r : Once(r) => Once(r)',
           \A r \in AllRows : <<r[1], r[2]>> \notin again' => (Seen(r) => Seen(r)')
    PROVE  Single'
  BY DEF Single

\* What a step between two labels does with the file at hand.
LEMMA TurnLabels ==
    ASSUME TypeOK, AtLabel, OneFileEach, UNCHANGED config, Turn
    PROVE  /\ AtLabel'
           /\ Reading => Reading' /\ fileName' = fileName /\ line' = line
           /\ Reading' => Reading \/ (pc' = "lines" /\ line' = 0)
           /\ pc = "dumpLine" <=> pc' = "dumpLine"
           /\ pc' \in {"save", "move"} => pc' = pc
           /\ pc' = "lines" => pc = "lines" \/ line' = 0
           /\ pc \in {"lines", "save", "spin"} => pc' \in {"lines", "save", "spin"}
           /\ pc' \in {"lines", "save", "spin"} => pc \in {"lines", "save", "spin", "open"}
  <1> USE DEF TypeOK, ControlOK, AtLabel, Reading, config, Goto, EndTurn, Batched
  <1>1. CASE AddWatch
    BY <1>1 DEF AddWatch, others, disk, history
  <1>2. CASE start
    BY <1>2 DEF start, others, disk, history
  <1>3. CASE Destructor
    BY <1>3 DEF Destructor, others, disk, history
  <1>4. CASE LeaveLoop
    BY <1>4 DEF LeaveLoop, others, disk, history, OneFileEach
  <1>5. CASE DequeueTimeout
    BY <1>5 DEF DequeueTimeout, others, disk, history
  <1>6. CASE Open
    BY <1>6 DEF Open, Present, others, disk, history
  <1>7. CASE OpenFails
    BY <1>7 DEF OpenFails, disk
  <1>8. CASE ReadFails
    BY <1>8 DEF ReadFails, disk, history
  <1>9. CASE \E p \in DOMAIN m_pQueue : Dequeue(p)
    <2>1. PICK p \in {"main", "watcher"} : Dequeue(p)
      BY <1>9 DEF QueueOK
    <2>2. Head(m_pQueue[p]) \in Files
      BY <2>1 DEF QueueOK, Dequeue
    <2>3. fileName' # NoFile
      BY <2>1, <2>2, Sizes DEF Dequeue
    <2> QED BY <2>1, <2>3 DEF Dequeue, others, disk, history
  <1> QED BY <1>1, <1>2, <1>3, <1>4, <1>5, <1>6, <1>7, <1>8, <1>9 DEF Turn

LEMMA TurnData == ASSUME IInv, UNCHANGED config, Turn PROVE Data'
  <1> USE DEF IInv, Data, Kept, Blocks
  <1>1. Quiet
    BY TurnIsQuiet
  <1>2. AtLabel'
    BY TurnLabels
  <1>3. Accounted' = Accounted /\ NamedAfter'
    BY <1>1, SameRows DEF Quiet, Accounted, NamedAfter
  <1>4. GoneIsKept'
    BY <1>1, <1>3, SameFiles, KeepsGone DEF Quiet
  <1>5. /\ \A f : GoodRows(f)' = GoodRows(f)
        /\ line' = line => \A f : Read(f)' = Read(f)
    BY <1>1, SameFiles DEF Quiet
  <1>6. Reading' /\ line' = 0 => Read(fileName)' = {}
    <2> SUFFICES ASSUME Reading', line' = 0, NEW r \in Read(fileName)' PROVE FALSE
      OBVIOUS
    <2>1. fileName' \in Files /\ FilesOK' /\ src'[fileName'] # "absent"
      BY <1>2, TurnType, Sizes DEF TypeOK, ControlOK, AtLabel
    <2>2. r \in GoodRows(fileName)' /\ r[3] <= 0
      BY DEF Read
    <2>3. r \in GoodRows(fileName') /\ FilesOK /\ src[fileName'] # "absent"
      BY <1>1, <1>5, <2>1, <2>2 DEF Quiet, TypeOK
    <2>4. r[3] \in Nat /\ r[3] \in 1 .. Len(Lines(fileName')) /\ Len(Lines(fileName')) \in Nat
      BY <2>1, <2>3, GoodRowFacts
    <2> QED BY <2>2, <2>4
  <1>7. ReadIsKept'
    <2>1. Reading => Read(fileName)' = Read(fileName) /\ GoodRows(fileName)' = GoodRows(fileName)
      BY <1>5, TurnLabels
    <2> QED BY <1>3, <1>6, <2>1, TurnLabels DEF ReadIsKept, Reading
  <1>8. OneFileEach'
    <2>1. CASE Batched
      BY <2>1 DEF OneFileEach, Batched, config
    <2>2. CASE ~ Batched
      <3>1. rows' = rows /\ lost' = lost /\ Batched' = Batched
        BY <1>1 DEF Quiet, Batched, config
      <3>2. pc \in {"lines", "save", "spin"} =>
              GoodRows(fileName)' = GoodRows(fileName) /\ Read(fileName)' = Read(fileName)
        BY <1>5, TurnLabels DEF Reading
      <3>3. pc = "open" => rows = {}
        BY <2>2 DEF OneFileEach
      <3>4. rows' # {} => pc' \in {"lines", "save", "spin"}
        BY <2>2, <3>1, TurnLabels DEF OneFileEach
      <3>5. pc' \in {"lines", "save", "spin"} => rows' \subseteq GoodRows(fileName)'
        BY <2>2, <3>1, <3>2, <3>3, TurnLabels DEF OneFileEach
      <3>6. pc' = "lines" => Read(fileName)' \subseteq rows'
        BY <1>6, <2>2, <3>1, <3>2, TurnLabels DEF OneFileEach, Reading
      <3>7. pc' = "save" => GoodRows(fileName)' \subseteq rows' \union lost'
        BY <2>2, <3>1, <3>2, TurnLabels DEF OneFileEach
      <3> QED BY <3>4, <3>5, <3>6, <3>7 DEF OneFileEach
    <2> QED BY <2>1, <2>2
  <1>9. Stamped' /\ Bounded' /\ BlockBound'
    <2>1. Stamped'
      BY <1>1 DEF Quiet, Stamped, Batched, config
    <2>2. Bounded'
      BY <1>1, TurnLabels DEF Quiet, Bounded, Largest, config
    <2>3. BlockBound'
      BY <1>1 DEF Quiet, BlockBound, config
    <2> QED BY <2>1, <2>2, <2>3
  <1>10. Single'
    <2>1. Places' = Places /\ \A r : Once(r) => Once(r)'
      BY <1>1, SameRows DEF Quiet
    <2>2. \A r : Seen(r) => Seen(r)'
      BY <1>1, KeepsSeen, TurnLabels DEF Quiet
    <2> QED BY <1>1, <2>1, <2>2, KeepsSingle DEF Quiet
  <1> QED BY <1>2, <1>3, <1>4, <1>7, <1>8, <1>9, <1>10

\* The clock and the writers leave the process alone.
LEMMA OutsideData ==
    ASSUME IInv, UNCHANGED config,
           Tick \/ SetBack \/ \E f \in Files : WriteStart(f) \/ WriteEnd(f)
    PROVE  Data'
  <1> USE DEF IInv, Data, Kept, Blocks
  <1>1. UNCHANGED <<pc, fileName, line, rows, m_saveTime, m_saveCounter, out, taken, lost,
                    overwritten, again, own>>
    BY DEF Tick, SetBack, WriteStart, WriteEnd, memory, disk, history
  <1>2. /\ \A f, g : f \in Files /\ g \in Nat => (Gone(f, g)' <=> Gone(f, g))
        /\ \A f \in Files : src[f] # "absent" => src'[f] # "absent" /\ gen'[f] = gen[f]
    <2>1. CASE Tick \/ SetBack
      BY <2>1 DEF Tick, SetBack, disk, Gone
    <2>2. ASSUME NEW e \in Files, WriteStart(e)
          PROVE  /\ \A f, g : f \in Files /\ g \in Nat => (Gone(f, g)' <=> Gone(f, g))
                 /\ \A f \in Files : src[f] # "absent" => src'[f] # "absent" /\ gen'[f] = gen[f]
      <3>1. /\ \A f \in Files : gen[f] \in Nat
            /\ src[e] = "absent" /\ src'[e] = "open" /\ gen'[e] = gen[e] + 1
            /\ \A f \in Files \ {e} : src'[f] = src[f] /\ gen'[f] = gen[f]
        BY <2>2 DEF WriteStart, TypeOK, FilesOK
      <3>2. ASSUME NEW g \in Nat PROVE Gone(e, g)' <=> Gone(e, g)
        BY <3>1 DEF Gone
      <3>3. ASSUME NEW f \in Files \ {e}, NEW g \in Nat PROVE Gone(f, g)' <=> Gone(f, g)
        BY <3>1 DEF Gone
      <3> QED BY <3>1, <3>2, <3>3
    <2>3. ASSUME NEW e \in Files, WriteEnd(e)
          PROVE  /\ \A f, g : f \in Files /\ g \in Nat => (Gone(f, g)' <=> Gone(f, g))
                 /\ \A f \in Files : src[f] # "absent" => src'[f] # "absent" /\ gen'[f] = gen[f]
      <3>1. /\ src[e] = "open" /\ src'[e] = "closed" /\ gen' = gen
            /\ \A f \in Files \ {e} : src'[f] = src[f]
        BY <2>3 DEF WriteEnd, TypeOK, FilesOK
      <3> QED BY <3>1 DEF Gone
    <2> QED BY <2>1, <2>2, <2>3
  <1>3. (setBack' = setBack \/ setBack') /\ (~ setBack' => now' >= now)
    <2>1. now \in Nat
      BY DEF TypeOK, NumbersOK
    <2> QED BY <2>1 DEF Tick, SetBack, WriteStart, WriteEnd
  <1>4. Reading' = Reading
    BY <1>1 DEF Reading
  <1>5. AtLabel'
    BY <1>1, <1>2, <1>4, AtHand DEF AtLabel, Batched, config
  <1>6. Accounted' = Accounted /\ Places' = Places /\ \A r : Once(r) => Once(r)'
    BY <1>1, SameRows DEF Accounted
  <1>7. Reading => /\ gen'[fileName] = gen[fileName]
                   /\ GoodRows(fileName)' = GoodRows(fileName)
                   /\ Read(fileName)' = Read(fileName)
    BY <1>1, <1>2, AtHand DEF GoodRows, Read
  <1>8. GoneIsKept' /\ ReadIsKept' /\ OneFileEach' /\ NamedAfter'
    <2>1. GoneIsKept'
      BY <1>2, <1>6, RowFacts, KeepsGone
    <2>2. ReadIsKept'
      BY <1>1, <1>4, <1>6, <1>7 DEF ReadIsKept, Reading
    <2>3. OneFileEach'
      BY <1>1, <1>4, <1>7 DEF OneFileEach, Batched, config, Reading
    <2>4. NamedAfter'
      BY <1>1 DEF NamedAfter
    <2> QED BY <2>1, <2>2, <2>3, <2>4
  <1>9. Stamped'
    <2>1. TypeOK'
      BY OutsideType
    <2>2. m_saveTime \in Nat /\ now \in Nat /\ now' \in Nat
      BY <2>1 DEF TypeOK, NumbersOK
    <2> QED BY <1>1, <1>3, <2>2 DEF Stamped, Batched, config
  <1>10. Bounded' /\ BlockBound'
    BY <1>1 DEF Bounded, BlockBound, Largest, config
  <1>11. Single'
    <2>1. \A r \in AllRows : Seen(r) => Seen(r)'
      BY <1>1, <1>2, <1>4, <1>7, RowFacts DEF Seen
    <2> QED BY <1>1, <1>6, <2>1, KeepsSingle
  <1> QED BY <1>5, <1>8, <1>9, <1>10, <1>11

\* The pipe moves the rows of one place to another.
LEMMA TakeData ==
    ASSUME IInv, UNCHANGED config, NEW n \in DOMAIN out, Take(n)
    PROVE  Data'
  <1> USE DEF IInv, Data, Kept, Blocks, Take
  <1>1. UNCHANGED <<pc, fileName, line, rows, m_saveTime, m_saveCounter>>
    BY DEF memory
  <1>2. Written \union taken = Written' \union taken'
    BY DEF Written
  <1>3. Places' = Places /\ Accounted' = Accounted
    BY <1>1, <1>2 DEF Places, Accounted
  <1>4. ASSUME NEW r, Once(r) PROVE Once(r)'
    <2>1. \A k, m \in DOMAIN out' : r \in out'[k] /\ r \in out'[m] => k = m
      BY <1>4 DEF Once
    <2>2. ASSUME r \in Written' PROVE r \notin rows' \union taken'
      <3>1. PICK m \in DOMAIN out \ {n} : r \in out[m]
        BY <2>2 DEF Written
      <3> QED BY <1>1, <1>4, <3>1 DEF Once, Written
    <2>3. r \notin rows' \intersect taken'
      BY <1>1, <1>4 DEF Once, Written
    <2> QED BY <2>1, <2>2, <2>3 DEF Once
  <1>5. UNCHANGED <<src, gen>> /\ (Reading => Reading') /\ (Reading' => Reading)
    BY <1>1 DEF Reading
  <1>6. AtLabel' /\ GoneIsKept' /\ ReadIsKept' /\ NamedAfter'
    <2>1. AtLabel'
      BY <1>1, <1>5 DEF AtLabel, Batched, config
    <2>2. GoneIsKept'
      BY <1>3, <1>5, SameFiles, KeepsGone
    <2>3. ReadIsKept'
      BY <1>1, <1>3, <1>5, SameFiles DEF ReadIsKept, Reading
    <2>4. NamedAfter'
      BY DEF NamedAfter
    <2> QED BY <2>1, <2>2, <2>3, <2>4
  <1>7. OneFileEach'
    BY <1>1, <1>5, SameFiles DEF OneFileEach, Batched, config
  <1>8. Single'
    BY <1>1, <1>3, <1>4, <1>5, KeepsSeen, KeepsSingle
  <1>9. Stamped' /\ Bounded' /\ BlockBound'
    BY <1>1 DEF Stamped, Bounded, BlockBound, Largest, Batched, config
  <1> QED BY <1>6, <1>7, <1>8, <1>9

LEMMA BootData == ASSUME IInv, Boot PROVE Data'
  <1> USE DEF IInv, Data, Kept, Blocks, Boot, others, disk, history
  <1>1. pc = "off" /\ pc' = "scanned" /\ rows = {} /\ m_saveTime = 0 /\ own = {} /\ fileName = NoFile
    BY DEF AtLabel, Reading, Goto
  <1>2. AtLabel' /\ ReadIsKept' /\ OneFileEach' /\ NamedAfter'
    BY <1>1 DEF AtLabel, Reading, ReadIsKept, OneFileEach, NamedAfter
  <1>3. Accounted' = Accounted
    BY SameRows DEF Accounted
  <1>4. GoneIsKept'
    BY <1>3, SameFiles, KeepsGone
  <1>5. Single'
    <2>1. ~ Reading
      BY <1>1 DEF Reading
    <2> QED BY <2>1, SameRows, KeepsSeen, KeepsSingle
  <1>6. Stamped' /\ BlockBound'
    <2>1. now \in Nat
      BY DEF TypeOK, NumbersOK
    <2> QED BY <1>1, <2>1 DEF Stamped, BlockBound
  <1>7. Bounded'
    <2>1. IsFiniteSet(rows') /\ Cardinality(rows') = 0
      BY <1>1, FS_EmptySet
    <2>2. m_blockSize' \in Nat
      BY ConfigAssumption
    <2> QED BY <1>1, <2>1, <2>2 DEF Bounded, Largest
  <1> QED BY <1>2, <1>4, <1>5, <1>6, <1>7

\* A crash loses what was in memory; at a graceful end nothing is there.
LEMMA EndData == ASSUME IInv, Exit \/ Crash PROVE Data'
  <1> USE DEF IInv, Data, Kept, Blocks
  <1>1. EndProcess /\ rows \subseteq lost' /\ lost \subseteq lost' /\ again \subseteq again'
    BY DEF Exit, Crash, AtLabel
  <1>2. UNCHANGED <<src, gen, out, taken, overwritten>> /\ rows' = {} /\ own' = {} /\ pc' = "off"
        /\ m_saveTime' = 0 /\ fileName' = NoFile /\ m_blockSize' = 0 /\ now' = now
    BY <1>1 DEF EndProcess, Goto, disk
  <1>3. Accounted \subseteq Accounted' /\ Places' \subseteq Places
    BY <1>1, <1>2 DEF Accounted, Places, Written
  <1>4. AtLabel' /\ ReadIsKept' /\ OneFileEach' /\ NamedAfter'
    BY <1>2 DEF AtLabel, Reading, ReadIsKept, OneFileEach, NamedAfter
  <1>5. GoneIsKept'
    BY <1>2, <1>3, SameFiles, KeepsGone
  <1>6. Single'
    <2>1. \A r : Once(r) => Once(r)'
      BY <1>2 DEF Once, Written
    <2>2. ASSUME NEW r \in AllRows, <<r[1], r[2]>> \notin again', Seen(r) PROVE Seen(r)'
      <3>1. CASE Gone(r[1], r[2])
        BY <1>2, <3>1, SameFiles DEF Seen
      <3>2. CASE r[1] = fileName /\ r[2] = gen[fileName] /\ Reading
        <4>1. pc # "exited" /\ fileName # NoFile
          BY <3>2, Sizes, RowFacts DEF Reading
        <4>2. <<r[1], r[2]>> \in again'
          BY <3>2, <4>1 DEF Exit, Crash, Content
        <4> QED BY <2>2, <4>2
      <3> QED BY <2>2, <3>1, <3>2 DEF Seen
    <2> QED BY <1>1, <1>3, <2>1, <2>2, KeepsSingle
  <1>7. Stamped' /\ Bounded' /\ BlockBound'
    <2>1. now \in Nat
      BY DEF TypeOK, NumbersOK
    <2> QED BY <1>2, <2>1 DEF Stamped, Bounded, BlockBound
  <1> QED BY <1>4, <1>5, <1>6, <1>7

-----------------------------------------------------------------------------
(* Rows: reading.                                                          *)

\* A line that parses adds one row, which was nowhere before.
LEMMA ReadData == ASSUME IInv, UNCHANGED config, ReadLine PROVE Data'
  <1> USE DEF IInv, Data, Kept, Blocks, ReadLine, others, disk, history
  <1> DEFINE x == <<fileName, gen[fileName], line + 1>>
             good == Lines(fileName)[line + 1]
             next == IF m_blockSize # 0 THEN "dumpLine" ELSE "lines"
  <1>0. fileName \in Files /\ FilesOK /\ src[fileName] # "absent" /\ Reading
    BY AtHand DEF Reading
  <1>1. /\ fileName' = fileName /\ pc' = next /\ Reading'
        /\ line \in Nat /\ line' = line + 1 /\ line + 1 \in 1 .. Len(Lines(fileName))
    BY <1>0, GoodRowFacts DEF NumbersOK, TypeOK, Reading, Goto
  <1>2. rows' = IF good THEN rows \union {x} ELSE rows
    OBVIOUS
  <1>3. /\ good => x \in GoodRows(fileName) /\ x \in AllRows
        /\ x[1] = fileName /\ x[2] = gen[fileName] /\ x[3] = line + 1
    BY <1>0, <1>1, GoodRowFacts
  <1>4. \A r \in GoodRows(fileName) : r[3] <= line + 1 => r[3] <= line \/ (good /\ r = x)
    <2> SUFFICES ASSUME NEW r \in GoodRows(fileName), r[3] <= line + 1, ~ (r[3] <= line)
                 PROVE  good /\ r = x
      OBVIOUS
    <2>1. r[3] \in Nat
      BY <1>0, GoodRowFacts
    <2>2. r[3] = line + 1
      BY <1>1, <2>1
    <2>3. r = <<fileName, gen[fileName], r[3]>> /\ Lines(fileName)[r[3]]
      BY RowFacts DEF GoodRows, Lines
    <2> QED BY <2>2, <2>3
  <1>5. Read(fileName)' \subseteq Read(fileName) \union (rows' \ rows) \union rows'
    <2>1. GoodRows(fileName)' = GoodRows(fileName)
      BY SameFiles
    <2> QED BY <1>1, <1>2, <1>4, <2>1 DEF Read
  <1>6. Accounted \subseteq Accounted' /\ rows \subseteq rows'
        /\ Places' = IF good THEN Places \union {x} ELSE Places
    BY <1>2 DEF Accounted, Places, Written
  <1>7. AtLabel' /\ NamedAfter'
    BY <1>0, <1>1 DEF AtLabel, Reading, Batched, config, NamedAfter
  <1>8. GoneIsKept'
    BY <1>6, SameFiles, KeepsGone
  <1>9. ReadIsKept'
    <2>1. Read(fileName) \subseteq Accounted
      BY <1>0 DEF ReadIsKept
    <2>2. rows' \subseteq Accounted'
      BY DEF Accounted, Places
    <2> QED BY <1>1, <1>5, <1>6, <2>1, <2>2 DEF ReadIsKept
  <1>10. OneFileEach'
    <2>1. CASE Batched
      BY <2>1 DEF OneFileEach, Batched, config
    <2>2. CASE ~ Batched
      <3>1. pc' = "lines" /\ rows \subseteq GoodRows(fileName) /\ Read(fileName) \subseteq rows
        BY <1>1, <2>2 DEF OneFileEach, Batched
      <3>2. rows' \subseteq GoodRows(fileName)' /\ Read(fileName)' \subseteq rows'
        <4>1. GoodRows(fileName)' = GoodRows(fileName)
          BY <1>1, SameFiles
        <4> QED BY <1>2, <1>3, <1>5, <1>6, <3>1, <4>1
      <3> QED BY <3>1, <3>2 DEF OneFileEach
    <2> QED BY <2>1, <2>2
  <1>11. Single'
    <2> SUFFICES ASSUME NEW r \in AllRows, <<r[1], r[2]>> \notin again
                 PROVE  Once(r)' /\ (r \in Places' => Seen(r)')
      BY DEF Single
    <2>1. Once(r) /\ (r \in Places => Seen(r)) /\ r[3] \in Nat /\ r[2] \in Nat
      BY RowFacts DEF Single
    <2>2. Seen(r) => Seen(r)'
      <3>1. Gone(r[1], r[2]) => Gone(r[1], r[2])'
        BY SameFiles
      <3>2. r[3] <= line => r[3] <= line'
        BY <1>1, <2>1
      <3> QED BY <1>1, <3>1, <3>2 DEF Seen
    <2>3. r = x => r \notin Places /\ Seen(r)'
      <3>1. gen[fileName] \in Nat
        BY <1>0, GoodRowFacts
      <3>2. r = x => ~ Gone(r[1], r[2]) /\ ~ (r[3] <= line)
        BY <1>0, <1>1, <1>3, <3>1 DEF Gone
      <3>3. r = x => r[1] = fileName' /\ r[2] = gen'[fileName'] /\ r[3] <= line'
        BY <1>1, <1>3
      <3> QED BY <1>1, <2>1, <3>2, <3>3 DEF Seen
    <2>4. Once(r)'
      BY <1>2, <2>1, <2>3 DEF Once, Places, Written
    <2> QED BY <1>6, <2>1, <2>2, <2>3, <2>4
  <1>12. Stamped' /\ BlockBound'
    BY DEF Stamped, BlockBound, Batched, config
  <1>13. Bounded'
    <2> SUFFICES ASSUME m_blockSize # 0
                 PROVE  /\ IsFiniteSet(rows')
                        /\ Cardinality(rows') <= Largest
                        /\ m_saveTime = 0 => Cardinality(rows') <= 1
      BY <1>1 DEF Bounded, Largest, config
    <2>1. /\ IsFiniteSet(rows) /\ Cardinality(rows) \in Nat
          /\ Cardinality(rows) <= Largest - 1
          /\ m_saveTime = 0 => Cardinality(rows) <= 0
      BY FS_CardinalityType DEF Bounded
    <2>2. Largest \in Nat
      BY DEF Largest, TypeOK, NumbersOK
    <2>3. /\ IsFiniteSet(rows \union {x})
          /\ Cardinality(rows \union {x}) <= Cardinality(rows) + 1
          /\ Cardinality(rows \union {x}) \in Nat
      <3> DEFINE S == rows \union {x}
      <3>1. IsFiniteSet(S)
        BY <2>1, FS_AddElement
      <3>2. Cardinality(S) = Cardinality(rows) \/ Cardinality(S) = Cardinality(rows) + 1
        BY <2>1, FS_AddElement
      <3> HIDE DEF S
      <3>3. Cardinality(S) \in Nat /\ Cardinality(S) <= Cardinality(rows) + 1
        BY <2>1, <3>2
      <3> QED BY <3>1, <3>3 DEF S
    <2> QED BY <1>2, <2>1, <2>2, <2>3
  <1> QED BY <1>7, <1>8, <1>9, <1>10, <1>11, <1>12, <1>13

LEMMA EndOfFileData == ASSUME IInv, UNCHANGED config, EndOfFile PROVE Data'
  <1> USE DEF IInv, Data, Kept, Blocks, EndOfFile
  <1>0. fileName \in Files /\ FilesOK /\ src[fileName] # "absent" /\ Reading
    BY AtHand DEF Reading
  <1>1. /\ fileName' = fileName /\ line' = line
        /\ pc = "lines" /\ pc' = (IF Batched THEN "move" ELSE "save") /\ Reading'
        /\ UNCHANGED <<rows, out, taken, overwritten, own, src, gen, again, now, setBack,
                       m_saveTime, m_saveCounter>>
        /\ lost \subseteq lost'
    BY DEF Reading, Goto, disk
  <1>2. GoodRows(fileName) \subseteq Read(fileName) \union lost'
    <2> SUFFICES ASSUME NEW r \in GoodRows(fileName), ~ (r[3] <= line) PROVE r \in lost'
      BY DEF Read
    <2>1. /\ r[3] \in Nat /\ line \in Nat /\ r[3] \in 1 .. Len(Lines(fileName))
          /\ Len(Lines(fileName)) \in Nat
      BY <1>0, GoodRowFacts DEF TypeOK, NumbersOK
    <2>2. CASE line = Len(Lines(fileName))
      BY <2>1, <2>2
    <2>3. CASE lost' = lost \union {x \in GoodRows(fileName) : x[3] > line}
      BY <2>1, <2>3
    <2> QED BY <2>2, <2>3
  <1>3. Accounted \subseteq Accounted' /\ Places' = Places /\ lost' \subseteq Accounted'
    BY <1>1, SameRows DEF Accounted
  <1>4. AtLabel' /\ GoneIsKept' /\ NamedAfter'
    <2>1. AtLabel'
      BY <1>0, <1>1 DEF AtLabel, Reading, Batched, config
    <2>2. NamedAfter'
      BY <1>1 DEF NamedAfter
    <2> QED BY <1>1, <1>3, <2>1, <2>2, SameFiles, KeepsGone
  <1>5. ReadIsKept'
    <2>1. Read(fileName) \subseteq Accounted
      BY <1>0 DEF ReadIsKept
    <2>2. Read(fileName)' = Read(fileName) /\ GoodRows(fileName)' = GoodRows(fileName)
      BY <1>1, SameFiles
    <2> QED BY <1>1, <1>2, <1>3, <2>1, <2>2 DEF ReadIsKept
  <1>6. OneFileEach'
    <2>1. CASE Batched
      BY <2>1 DEF OneFileEach, Batched, config
    <2>2. CASE ~ Batched
      BY <1>1, <1>2, <2>2, SameFiles DEF OneFileEach, Batched
    <2> QED BY <2>1, <2>2
  <1>7. Single'
    BY <1>1, <1>3, SameRows, KeepsSeen, KeepsSingle
  <1>8. Stamped' /\ Bounded' /\ BlockBound'
    BY <1>1 DEF Stamped, Bounded, BlockBound, Largest, Batched, config
  <1> QED BY <1>4, <1>5, <1>6, <1>7, <1>8

-----------------------------------------------------------------------------
(* Rows: saving and moving.                                                *)

(***************************************************************************)
(* save neither loses a row without a cause nor keeps one twice, provided  *)
(* that a row of the file it comes over is one it saves again, is lost, or *)
(* counts as overwritten.                                                  *)
(***************************************************************************)
LEMMA SaveKeeps ==
    ASSUME NEW name, Save(name), UNCHANGED taken,
           name \in DOMAIN out => out[name] \subseteq rows \union lost \union Under(name)
    PROVE  /\ Accounted \subseteq Accounted'
           /\ Places' \subseteq Places
           /\ \A r : Once(r) => Once(r)'
           /\ rows' = {} /\ lost \subseteq lost'
           /\ \/ own' = own /\ out' = out
              \/ /\ own' = own \union {name}
                 /\ \E S \in {rows, {}} :
                      out' = [n \in DOMAIN out \union {name} |-> IF n = name THEN S ELSE out[n]]
  <1>1. rows' = {} /\ lost \subseteq lost'
    BY DEF Save
  <1>2. CASE own' = own /\ out' = out /\ overwritten' = overwritten /\ lost' = lost \union rows
    BY <1>1, <1>2 DEF Accounted, Places, Written, Once
  <1>3. ASSUME NEW S \in {rows, {}}, Store(name, S), rows \subseteq S \union lost'
        PROVE  /\ Accounted \subseteq Accounted'
               /\ Places' \subseteq Places
               /\ \A r : Once(r) => Once(r)'
    <2>0. S \subseteq rows /\ overwritten' = overwritten \union Under(name)
      BY <1>3 DEF Store
    <2>1. /\ S = out'[name] /\ name \in DOMAIN out'
          /\ \A n : n # name => (n \in DOMAIN out' <=> n \in DOMAIN out)
          /\ \A n : n # name /\ n \in DOMAIN out => out'[n] = out[n]
      BY <1>3 DEF Store
    <2>2. S \subseteq Written' /\ Written' \subseteq rows \union Written
      <3>1. ASSUME NEW r \in S PROVE r \in Written'
        BY <2>1, <3>1 DEF Written
      <3>2. ASSUME NEW n \in DOMAIN out', NEW r \in out'[n] PROVE r \in rows \union Written
        <4>1. CASE n = name
          BY <2>0, <2>1, <4>1
        <4>2. CASE n # name
          BY <2>1, <4>2 DEF Written
        <4> QED BY <4>1, <4>2
      <3>3. ASSUME NEW r \in Written' PROVE r \in rows \union Written
        <4>1. \E n \in DOMAIN out' : r \in out'[n]
          BY DEF Written
        <4> QED BY <3>2, <4>1
      <3> QED BY <3>1, <3>3
    <2>3. Written \subseteq Written' \union lost' \union overwritten'
      <3> SUFFICES ASSUME NEW n \in DOMAIN out, NEW r \in out[n]
                   PROVE  r \in Written' \union lost' \union overwritten'
        BY DEF Written
      <3>1. CASE n # name
        BY <2>1, <3>1 DEF Written
      <3>2. CASE n = name
        BY <1>1, <1>3, <2>0, <2>2, <3>2
      <3> QED BY <3>1, <3>2
    <2>4. Accounted \subseteq Accounted' /\ Places' \subseteq Places
      BY <1>1, <1>3, <2>0, <2>2, <2>3 DEF Accounted, Places
    <2>5. ASSUME NEW r, Once(r) PROVE Once(r)'
      <3>1. ASSUME NEW k \in DOMAIN out', NEW m \in DOMAIN out', r \in out'[k], r \in out'[m]
            PROVE  k = m
        <4>1. CASE r \in rows
          <5>1. \A n \in DOMAIN out : r \notin out[n]
            BY <2>5, <4>1 DEF Once, Written
          <5>2. ASSUME NEW n \in DOMAIN out', r \in out'[n] PROVE n = name
            BY <2>1, <5>1, <5>2
          <5> QED BY <3>1, <5>2
        <4>2. CASE r \notin rows
          <5>1. k # name /\ m # name
            BY <2>0, <2>1, <3>1, <4>2
          <5>2. k \in DOMAIN out /\ m \in DOMAIN out /\ r \in out[k] /\ r \in out[m]
            BY <2>1, <3>1, <5>1
          <5> QED BY <2>5, <5>2 DEF Once
        <4> QED BY <4>1, <4>2
      <3>2. r \in Written' => r \notin rows' \union taken'
        BY <1>1, <2>2, <2>5 DEF Once
      <3> QED BY <1>1, <3>1, <3>2 DEF Once
    <2> QED BY <2>4, <2>5
  <1>4. \/ own' = own /\ out' = out /\ overwritten' = overwritten /\ lost' = lost \union rows
        \/ \E S \in {rows, {}} : Store(name, S) /\ rows \subseteq S \union lost'
    BY DEF Save
  <1>5. \A S : Store(name, S) =>
           /\ own' = own \union {name}
           /\ out' = [n \in DOMAIN out \union {name} |-> IF n = name THEN S ELSE out[n]]
    BY DEF Store
  <1> QED BY <1>1, <1>2, <1>3, <1>4, <1>5

LEMMA SaveFileData == ASSUME IInv, UNCHANGED config, SaveFile PROVE Data'
  <1> USE DEF IInv, Data, Kept, Blocks, SaveFile
  <1>0. fileName \in Files /\ FilesOK /\ src[fileName] # "absent" /\ Reading
    BY AtHand DEF Reading
  <1>1. /\ fileName' = fileName /\ line' = line
        /\ pc = "save" /\ pc' = "move" /\ ~ Batched /\ Batched' = Batched /\ Reading'
        /\ UNCHANGED <<src, gen, again, now, setBack, m_saveTime, m_saveCounter>>
    BY DEF AtLabel, Reading, Goto, Batched, config
  <1>2. fileName \in DOMAIN out => out[fileName] \subseteq rows \union lost \union Under(fileName)
    <2> SUFFICES ASSUME fileName \in DOMAIN out, NEW r \in out[fileName], r \notin Under(fileName)
                 PROVE  r \in rows \union lost
      OBVIOUS
    <2>1. r[1] = fileName /\ r[2] = gen[fileName]
      BY <1>0 DEF NamedAfter, Under
    <2>2. r \in AllRows
      BY DEF TypeOK, RowsOK
    <2>3. r \in GoodRows(fileName)
      BY <1>0, <2>1, <2>2, GoodRowFacts
    <2> QED BY <1>1, <2>3 DEF OneFileEach
  <1>3. /\ Accounted \subseteq Accounted' /\ Places' \subseteq Places
        /\ \A r : Once(r) => Once(r)'
        /\ rows' = {}
        /\ \/ own' = own /\ out' = out
           \/ /\ own' = own \union {fileName}
              /\ \E S \in {rows, {}} :
                   out' = [n \in DOMAIN out \union {fileName} |->
                             IF n = fileName THEN S ELSE out[n]]
    BY <1>2, SaveKeeps
  <1>4. AtLabel' /\ GoneIsKept' /\ ReadIsKept'
    <2>1. AtLabel'
      BY <1>0, <1>1, <1>3 DEF AtLabel, Reading
    <2>2. Read(fileName)' = Read(fileName) /\ GoodRows(fileName)' = GoodRows(fileName)
      BY <1>1, SameFiles
    <2>3. ReadIsKept'
      BY <1>1, <1>3, <2>2 DEF ReadIsKept, Reading
    <2>4. GoneIsKept'
      BY <1>1, <1>3, SameFiles, KeepsGone
    <2> QED BY <2>1, <2>3, <2>4
  <1>5. OneFileEach' /\ NamedAfter'
    <2>1. \A r \in rows : r[1] = fileName
      <3>1. rows \subseteq GoodRows(fileName)
        BY <1>1 DEF OneFileEach
      <3> QED BY <3>1, RowFacts DEF GoodRows
    <2>2. NamedAfter'
      BY <1>3, <2>1 DEF NamedAfter
    <2> QED BY <1>1, <1>3, <2>2 DEF OneFileEach
  <1>6. Single'
    BY <1>1, <1>3, KeepsSeen, KeepsSingle
  <1>7. Stamped' /\ Bounded' /\ BlockBound'
    <2>1. m_blockSize' = 0
      BY <1>1 DEF Batched, config
    <2> QED BY <1>1, <2>1 DEF Stamped, Bounded, BlockBound
  <1> QED BY <1>4, <1>5, <1>6, <1>7

LEMMA MoveData == ASSUME IInv, UNCHANGED config, moveFile \/ MoveFails PROVE Data'
  <1> USE DEF IInv, Data, Kept, Blocks
  <1>0. fileName \in Files /\ FilesOK /\ src[fileName] # "absent" /\ Reading
    BY AtHand DEF Reading, moveFile, MoveFails
  <1>1. /\ pc = "move" /\ fileName' = NoFile
        /\ pc' = (IF m_delay # 0 THEN "tail" ELSE "top")
        /\ UNCHANGED <<rows, gen, out, taken, lost, overwritten, own, now, setBack, m_saveTime,
                       m_saveCounter>>
        /\ again \subseteq again'
    BY DEF moveFile, MoveFails, Finish, Goto, EndTurn
  <1>2. \A f \in Files : f # fileName => src'[f] = src[f]
    BY DEF TypeOK, FilesOK, moveFile, MoveFails
  <1>3. \/ src'[fileName] = "absent"
        \/ src' = src /\ <<fileName, gen[fileName]>> \in again'
    BY <1>0 DEF TypeOK, FilesOK, moveFile, MoveFails, Content
  <1>4. Accounted' = Accounted /\ GoodRows(fileName) \subseteq Accounted /\ NamedAfter'
    BY <1>1, SameRows DEF Accounted, ReadIsKept, NamedAfter
  <1>5. AtLabel' /\ ReadIsKept' /\ OneFileEach'
    BY <1>1 DEF AtLabel, Reading, ReadIsKept, OneFileEach, Batched, config
  <1>6. GoneIsKept'
    <2> SUFFICES ASSUME NEW r \in AllRows, Gone(r[1], r[2])' PROVE r \in Accounted
      BY <1>4 DEF GoneIsKept
    <2>1. CASE Gone(r[1], r[2])
      BY <2>1 DEF GoneIsKept
    <2>2. CASE r[1] = fileName /\ r[2] = gen[fileName]
      BY <1>0, <1>4, <2>2, GoodRowFacts
    <2>3. Gone(r[1], r[2]) \/ (r[1] = fileName /\ r[2] = gen[fileName])
      BY <1>1, <1>2, RowFacts DEF Gone
    <2> QED BY <2>1, <2>2, <2>3
  <1>7. Single'
    <2>1. ASSUME NEW r \in AllRows, <<r[1], r[2]>> \notin again', Seen(r) PROVE Seen(r)'
      <3>1. r[1] \in Files
        BY RowFacts
      <3>2. CASE Gone(r[1], r[2])
        <4>1. Gone(r[1], r[2])'
          BY <1>0, <1>1, <1>2, <1>3, <3>1, <3>2 DEF Gone
        <4> QED BY <4>1 DEF Seen
      <3>3. CASE r[1] = fileName /\ r[2] = gen[fileName]
        <4>1. src'[fileName] = "absent"
          BY <1>3, <2>1, <3>3
        <4>2. Gone(r[1], r[2])'
          BY <1>1, <3>3, <4>1 DEF Gone
        <4> QED BY <4>2 DEF Seen
      <3> QED BY <2>1, <3>2, <3>3 DEF Seen
    <2> QED BY <1>1, <2>1, SameRows, KeepsSingle
  <1>8. Stamped' /\ Bounded' /\ BlockBound'
    BY <1>1 DEF Stamped, Bounded, BlockBound, Largest, Batched, config
  <1> QED BY <1>4, <1>5, <1>6, <1>7, <1>8

\* dump is called only where there are batches.
LEMMA DumpsBatched ==
    ASSUME AtLabel, pc \in {"dumpLine", "tail", "last"} PROVE Batched
  BY DEF AtLabel, Batched

(***************************************************************************)
(* The name of a save is a new one: a later second, or the same second and *)
(* a larger counter.                                                       *)
(***************************************************************************)
LEMMA NewName ==
    ASSUME TypeOK, Stamped, Batched, ~ setBack
    PROVE  <<now, Counter>> \notin own
  <1>1. now \in Nat /\ m_saveTime \in Nat /\ m_saveCounter \in Nat /\ m_saveTime <= now
    BY DEF TypeOK, NumbersOK, Stamped
  <1>2. now = m_saveTime => Counter = m_saveCounter + 1
    BY DEF Counter
  <1> SUFFICES ASSUME <<now, Counter>> \in own PROVE FALSE
    OBVIOUS
  <1>3. now < m_saveTime \/ (now = m_saveTime /\ Counter <= m_saveCounter)
    BY DEF Stamped
  <1> QED BY <1>1, <1>2, <1>3

LEMMA SavedData == ASSUME IInv, UNCHANGED config, Dump, Saved PROVE Data'
  <1> USE DEF IInv, Data, Kept, Blocks, Saved
  <1> DEFINE name == <<now, Counter>>
  <1>1. /\ pc \in {"dumpLine", "tail", "last"} /\ pc' \in {"lines", "top", "exited"}
        /\ pc' = "lines" <=> pc = "dumpLine"
        /\ UNCHANGED <<fileName, line, src, gen, now, setBack, taken, again>>
        /\ m_saveTime' = now /\ m_saveCounter' = Counter
        /\ Batched /\ Batched' = Batched /\ m_blockSize' = m_blockSize
    BY DumpSplit, DumpsBatched DEF Batched, config
  <1>2. name \notin Files /\ (~ setBack => name \notin own)
    <2>1. name \in Nat \X Nat
      BY CounterType DEF TypeOK, NumbersOK
    <2> QED BY <1>1, <2>1, NewName, Sizes
  <1>3. /\ Accounted \subseteq Accounted' /\ Places' \subseteq Places
        /\ \A r : Once(r) => Once(r)'
        /\ rows' = {}
        /\ \/ own' = own /\ out' = out
           \/ /\ own' = own \union {name}
              /\ \E S \in {rows, {}} :
                   out' = [n \in DOMAIN out \union {name} |-> IF n = name THEN S ELSE out[n]]
    <2>1. name \in DOMAIN out => out[name] \subseteq Under(name)
      BY <1>2 DEF Under
    <2> QED BY <1>1, <2>1, SaveKeeps
  <1> HIDE DEF name
  <1>4. AtLabel' /\ GoneIsKept' /\ ReadIsKept' /\ NamedAfter'
    <2>1. AtLabel'
      BY <1>1, <1>3 DEF AtLabel, Reading
    <2>2. Read(fileName)' = Read(fileName)
      BY <1>1, SameFiles
    <2>3. ReadIsKept'
      BY <1>1, <1>3, <2>2 DEF ReadIsKept, Reading
    <2>4. NamedAfter'
      BY <1>2, <1>3 DEF NamedAfter
    <2> QED BY <1>1, <1>3, <2>1, <2>3, <2>4, SameFiles, KeepsGone
  <1>5. OneFileEach'
    BY <1>1 DEF OneFileEach
  <1>6. Single'
    BY <1>1, <1>3, KeepsSeen, KeepsSingle DEF Reading
  <1>7. Stamped'
    <2>1. now \in Nat /\ m_saveTime \in Nat /\ m_saveCounter \in Nat /\ Counter \in Nat
      BY CounterType DEF TypeOK, NumbersOK
    <2> SUFFICES ASSUME ~ setBack, NEW n \in own'
                 PROVE  /\ n \in Nat \X Nat
                        /\ n[1] < now \/ (n[1] = now /\ n[2] <= Counter)
      BY <1>1, <2>1 DEF Stamped
    <2>2. CASE n = name
      BY <2>1, <2>2 DEF name
    <2>3. CASE n \in own
      <3>1. /\ n \in Nat \X Nat /\ m_saveTime <= now
            /\ n[1] < m_saveTime \/ (n[1] = m_saveTime /\ n[2] <= m_saveCounter)
        BY <1>1, <2>3 DEF Stamped
      <3>2. n[1] \in Nat /\ n[2] \in Nat
        BY <3>1
      <3>3. now = m_saveTime => Counter = m_saveCounter + 1
        BY DEF Counter
      <3> QED BY <2>1, <3>1, <3>2, <3>3
    <2> QED BY <1>3, <2>2, <2>3
  <1>8. Bounded'
    <2>1. m_blockSize \in Nat /\ now \in Nat /\ now # 0
      BY DEF TypeOK, NumbersOK
    <2>2. IsFiniteSet(rows') /\ Cardinality(rows') = 0
      BY <1>3, FS_EmptySet
    <2> QED BY <1>1, <2>1, <2>2 DEF Bounded, Largest
  <1>9. BlockBound'
    <2> SUFFICES ASSUME m_blockSize # 0, NEW n \in own' \intersect DOMAIN out'
                 PROVE  Cardinality(out'[n]) <= Largest
      BY <1>1 DEF BlockBound, Largest
    <2>0. Largest \in Nat
      BY DEF Largest, TypeOK, NumbersOK
    <2>1. CASE n \in own \intersect DOMAIN out /\ out'[n] = out[n]
      BY <2>1 DEF BlockBound, Largest
    <2>2. CASE out'[n] = rows
      <3>1. Cardinality(rows) \in Nat
        BY FS_CardinalityType DEF Bounded
      <3>2. Cardinality(rows) <= Largest \/ Cardinality(rows) <= Largest - 1
        BY DEF Bounded
      <3> QED BY <2>0, <2>2, <3>1, <3>2
    <2>3. CASE out'[n] = {}
      BY <2>0, <2>3, FS_EmptySet
    <2>4. \/ out'[n] \in {rows, {}}
          \/ n \in own \intersect DOMAIN out /\ out'[n] = out[n]
      BY <1>3
    <2> QED BY <2>1, <2>2, <2>3, <2>4
  <1> QED BY <1>4, <1>5, <1>6, <1>7, <1>8, <1>9

LEMMA UnsavedData ==
    ASSUME IInv, UNCHANGED config, Dump, Unsaved, ~ Saves(pc = "last")
    PROVE  Data'
  <1> USE DEF IInv, Data, Kept, Blocks, Unsaved
  <1>1. /\ pc \in {"dumpLine", "tail", "last"} /\ pc' \in {"lines", "top", "exited"}
        /\ pc' = "lines" <=> pc = "dumpLine"
        /\ pc' = "exited" <=> pc = "last"
        /\ UNCHANGED <<fileName, line, src, gen, now, setBack, taken, again, rows, out, own, lost,
                       overwritten>>
        /\ Batched /\ Batched' = Batched /\ m_blockSize' = m_blockSize
    BY DumpSplit, DumpsBatched DEF Batched, config
  <1>2. pc = "last" => rows = {}
    BY DEF Saves
  <1>3. Accounted' = Accounted
    BY <1>1, SameRows DEF Accounted
  <1>4. AtLabel' /\ GoneIsKept' /\ ReadIsKept' /\ OneFileEach' /\ NamedAfter'
    <2>1. AtLabel'
      BY <1>1, <1>2 DEF AtLabel, Reading
    <2>2. Read(fileName)' = Read(fileName)
      BY <1>1, SameFiles
    <2>3. ReadIsKept'
      BY <1>1, <1>3, <2>2 DEF ReadIsKept, Reading
    <2>4. OneFileEach' /\ NamedAfter'
      BY <1>1 DEF OneFileEach, NamedAfter
    <2> QED BY <1>1, <1>3, <2>1, <2>3, <2>4, SameFiles, KeepsGone
  <1>5. Single'
    BY <1>1, SameRows, KeepsSeen, KeepsSingle DEF Reading
  <1>6. now \in Nat /\ now # 0 /\ m_saveTime \in Nat /\ m_saveCounter \in Nat /\ m_blockSize \in Nat
    BY DEF TypeOK, NumbersOK
  <1>7. Stamped'
    <2>1. CASE m_saveTime' = m_saveTime
      BY <1>1, <2>1 DEF Stamped
    <2>2. CASE m_saveTime = 0 /\ m_saveTime' = now
      <3> SUFFICES ASSUME ~ setBack, NEW n \in own
                   PROVE  n \in Nat \X Nat /\ n[1] < now
        BY <1>1, <1>6, <2>2 DEF Stamped
      <3>1. n \in Nat \X Nat /\ (n[1] < 0 \/ n[1] = 0)
        BY <1>1, <2>2 DEF Stamped
      <3>2. n[1] \in Nat
        BY <3>1
      <3> QED BY <1>6, <3>1, <3>2
    <2> QED BY <2>1, <2>2
  <1>8. Bounded'
    <2> SUFFICES ASSUME m_blockSize # 0
                 PROVE  /\ IsFiniteSet(rows)
                        /\ Cardinality(rows) <= Largest - 1
                        /\ m_saveTime' = 0 => Cardinality(rows) <= 0
      BY <1>1 DEF Bounded, Largest
    <2>1. /\ IsFiniteSet(rows) /\ Cardinality(rows) \in Nat
          /\ rows = {} => Cardinality(rows) = 0
      BY FS_CardinalityType, FS_EmptySet DEF Bounded
    <2>2. Largest \in Nat /\ Largest >= 2 /\ Largest >= m_blockSize
      BY <1>6 DEF Largest
    <2>3. m_saveTime' = 0 => rows = {}
      BY <1>6
    <2>4. Cardinality(rows) <= Largest - 1
      <3>1. CASE pc # "dumpLine"
        BY <3>1 DEF Bounded
      <3>2. CASE rows = {}
        BY <2>1, <2>2, <3>2
      <3>3. CASE pc = "dumpLine" /\ m_saveTime = 0
        <4>1. Cardinality(rows) <= 1
          BY <3>3 DEF Bounded
        <4> QED BY <2>1, <2>2, <4>1
      <3>4. CASE pc = "dumpLine" /\ m_saveTime # 0 /\ rows # {}
        <4>1. ~ (Cardinality(rows) >= m_blockSize)
          BY <3>4 DEF Saves, RowCountOver
        <4> QED BY <1>6, <2>1, <2>2, <4>1
      <3> QED BY <3>1, <3>2, <3>3, <3>4
    <2> QED BY <2>1, <2>3, <2>4
  <1>9. BlockBound'
    BY <1>1 DEF BlockBound
  <1> QED BY <1>4, <1>5, <1>7, <1>8, <1>9

-----------------------------------------------------------------------------
(* All steps. *)

LEMMA NextInv == ASSUME IInv, [Next]_vars PROVE IInv'
  <1>1. CASE Next
    <2>1. TypeOK'
      BY <1>1, TypeStep DEF IInv, Data
    <2>2. CASE Boot \/ Exit \/ Crash
      BY <2>1, <2>2, BootData, EndData DEF IInv
    <2>3. CASE Around
      BY <2>1, <2>3, OutsideData, TakeData, TurnData DEF Around, Turn, IInv
    <2>4. CASE lifeProc
      BY <2>1, <2>4, TurnData, ReadData, EndOfFileData, SaveFileData, MoveData, DumpSplit,
         SavedData, UnsavedData DEF lifeProc, Turn, IInv
    <2> QED BY <1>1, <2>2, <2>3, <2>4 DEF Next
  <1>2. CASE UNCHANGED vars
    <2> USE <1>2 DEF vars, memory, config, disk, history
    <2>1. TypeOK'
      BY DEF IInv, TypeOK, ControlOK, QueueOK, NumbersOK, FilesOK, RowsOK, Lines
    <2>2. Accounted' = Accounted /\ Places' = Places /\ \A r : Once(r) => Once(r)'
      BY SameRows DEF Accounted
    <2>3. AtLabel' /\ Kept' /\ Single'
      <3>1. AtLabel'
        BY DEF IInv, Data, AtLabel, Reading, Batched
      <3>2. GoneIsKept' /\ NamedAfter'
        BY <2>2, SameFiles, KeepsGone DEF IInv, Data, Kept, NamedAfter
      <3>3. ReadIsKept'
        BY <2>2, SameFiles DEF IInv, Data, Kept, ReadIsKept, Reading
      <3>4. OneFileEach'
        BY SameFiles DEF IInv, Data, Kept, OneFileEach, Batched
      <3>5. Single'
        BY <2>2, KeepsSeen, KeepsSingle DEF IInv, Data, Reading
      <3> QED BY <3>1, <3>2, <3>3, <3>4, <3>5 DEF Kept
    <2>4. Blocks'
      BY DEF IInv, Data, Blocks, Stamped, Bounded, BlockBound, Largest, Batched
    <2> QED BY <2>1, <2>3, <2>4 DEF IInv, Data
  <1> QED BY <1>1, <1>2

LEMMA Invariance == Spec => []IInv
  <1>1. Init => IInv
    BY InitType, InitData DEF IInv
  <1> QED BY <1>1, NextInv, PTL DEF Spec

(***************************************************************************)
(* Every variable of the process, its directories and the history keeps    *)
(* its type (Json2Click::lifeProc, dump and the file at hand).             *)
(***************************************************************************)
THEOREM TypeCorrect == Spec => []TypeOK
  <1>1. IInv => TypeOK
    BY DEF IInv
  <1> QED BY <1>1, Invariance, PTL

(***************************************************************************)
(* lifeProc moves a file away only when each of its good rows is in        *)
(* memory, in an output file, taken, or lost to a named cause, and no      *)
(* later step forgets one but a save that comes over an output file: that  *)
(* of another content of the name, or one whose stamp comes again.  It     *)
(* holds for any names, contents, configurations and number of restarts.   *)
(***************************************************************************)
THEOREM RowsAreKept == Spec => []RowsAccounted
  <1>1. IInv => RowsAccounted
    <2> SUFFICES ASSUME IInv, NEW f \in Files, NEW g \in 1 .. gen[f],
                        g < gen[f] \/ src[f] = "absent", NEW r \in RowsOf(f, g)
                 PROVE  r \in Accounted
      BY DEF RowsAccounted, Accounted, Places
    <2>1. gen[f] \in Nat /\ gen[f] <= Len(Good[f]) /\ Len(Good[f]) \in Nat
      BY Sizes DEF IInv, TypeOK, FilesOK
    <2>2. g \in 1 .. Len(Good[f])
      BY <2>1
    <2>3. r \in AllRows /\ r[1] = f /\ r[2] = g
      BY <2>2, RowFacts
    <2>4. Gone(f, g)
      BY <2>1 DEF Gone
    <2> QED BY <2>3, <2>4 DEF IInv, Data, Kept, GoneIsKept
  <1> QED BY <1>1, Invariance, PTL

(***************************************************************************)
(* dump and flushTbl keep no row in two places, unless a crash or a failed *)
(* step made lifeProc read its file again.                                 *)
(***************************************************************************)
THEOREM RowsAreKeptOnce == Spec => []NoRowTwice
  <1>1. IInv => NoRowTwice
    <2> SUFFICES ASSUME IInv, NEW r \in AllRows, <<r[1], r[2]>> \notin again
                 PROVE  /\ Cardinality({n \in DOMAIN out : r \in out[n]}) <= 1
                        /\ ~ (r \in Written /\ r \in rows \union taken)
                        /\ ~ (r \in rows /\ r \in taken)
      BY Zenon DEF NoRowTwice
    <2>1. Once(r)
      BY DEF IInv, Data, Single
    <2>2. Cardinality({n \in DOMAIN out : r \in out[n]}) <= 1
      <3> DEFINE Names == {n \in DOMAIN out : r \in out[n]}
      <3>1. Names = {} \/ \E n : Names = {n}
        BY <2>1 DEF Once
      <3> HIDE DEF Names
      <3>2. Cardinality(Names) = 0 \/ Cardinality(Names) = 1
        BY <3>1, FS_EmptySet, FS_Singleton
      <3>3. Cardinality(Names) <= 1
        BY <3>2
      <3> QED BY <3>3 DEF Names
    <2> QED BY <2>1, <2>2 DEF Once
  <1> QED BY <1>1, Invariance, PTL

(***************************************************************************)
(* An output file of this process has at most blockSize rows, two if that  *)
(* is one (Json2Click::dump is called after every line).                   *)
(***************************************************************************)
THEOREM BlocksAreBounded == Spec => []BlockBound
  <1>1. IInv => BlockBound
    BY DEF IInv, Data, Blocks
  <1> QED BY <1>1, Invariance, PTL

(***************************************************************************)
(* No step of a process whose clock was not set back changes an output     *)
(* file that dump of this process has saved.                               *)
(***************************************************************************)
THEOREM OutputIsKept == Spec => OutputKept
  <1> DEFINE Same ==
        \A n \in own \intersect DOMAIN out \intersect DOMAIN out' :
            n \in Files \/ setBack \/ out'[n] = out[n]
  <1>1. ASSUME IInv, Next PROVE Same
    <2>1. CASE out' = out
      BY <2>1
    <2>2. ASSUME NEW m \in DOMAIN out, Take(m) PROVE Same
      BY <2>2 DEF Take
    <2>3. CASE lifeProc /\ SaveFile
      <3>1. fileName \in Files
        BY <1>1, <2>3 DEF IInv, TypeOK, ControlOK, Data, AtLabel, Reading, SaveFile
      <3> QED BY <2>3, <3>1 DEF SaveFile, Save, Store
    <2>4. CASE lifeProc /\ Dump
      <3>1. CASE Unsaved
        BY <3>1 DEF Unsaved
      <3>2. CASE Saved
        <4>1. ~ setBack => <<now, Counter>> \notin own
          BY <1>1, <2>4, NewName, DumpSplit, DumpsBatched DEF IInv, Data, Blocks
        <4> QED BY <3>2, <4>1 DEF Saved, Save, Store
      <3> QED BY <2>4, <3>1, <3>2, DumpSplit
    <2> QED BY <1>1, <2>1, <2>2, <2>3, <2>4
            DEF Next, Boot, Exit, Crash, EndProcess, Around, Tick, SetBack, AddWatch, start,
                Destructor, WriteStart, WriteEnd, lifeProc, LeaveLoop, Dequeue, DequeueTimeout,
                Open, OpenFails, ReadFails, ReadLine, EndOfFile, moveFile, MoveFails, Finish,
                others, disk
  <1>2. ASSUME IInv, [Next]_vars PROVE [Same]_vars
    BY <1>1, <1>2
  <1> QED BY <1>2, Invariance, PTL DEF Spec, OutputKept

=============================================================================
