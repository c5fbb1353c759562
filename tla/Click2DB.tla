------------------------------ MODULE Click2DB ------------------------------
(***************************************************************************)
(* One destination: class Click2DB with its queue, its life thread, the    *)
(* directory "tosend" it empties into one ClickHouse table, and the        *)
(* directories "failed" and "badfiles" it moves files to.  Files are       *)
(* offered to it (doProc) by the main thread while the node tree starts    *)
(* and by the watcher thread afterwards.  The process may crash, be shut   *)
(* down and be started again over the same directories; the server may go  *)
(* away, lose an answer, refuse an insert or have its table altered.       *)
(***************************************************************************)
EXTENDS Naturals, Sequences, FiniteSets

CONSTANTS
    Files,          \* the names a .cdb file can have
    NoFile,         \* "the thread holds no file"
    Columns, Types, \* names and types of the columns of the table
    FileCols,       \* the columns a file carries
    Convertible,    \* the <<column, type>> pairs the data converts to
    Schemas,        \* the descriptions the table can have
    KeepFailed, KeepBad,    \* are "failed" and "badfiles" configured
    CONNECT_TIMEOUT,        \* half the idle polls after which to ping
    MaxFaults, MaxStarts, MaxOffers     \* bounds of the exploration

ASSUME FilesAssumption == IsFiniteSet(Files) /\ NoFile \notin Files
ASSUME ColumnAssumption ==
    /\ FileCols \in [Files -> SUBSET Columns]
    /\ Convertible \subseteq Columns \X Types
    /\ Schemas # {}
    /\ \A s \in Schemas : s # {} /\ s \subseteq Columns \X Types
\* A table has one column of a name.
ASSUME NameAssumption == \A s \in Schemas : \A d, e \in s : d[1] = e[1] => d = e
ASSUME FlagAssumption == KeepFailed \in BOOLEAN /\ KeepBad \in BOOLEAN
ASSUME BoundAssumption ==
    /\ CONNECT_TIMEOUT \in Nat
    /\ MaxFaults \in Nat /\ MaxStarts \in Nat /\ MaxOffers \in Nat

VARIABLES
    pc,             \* where the life thread is; "off": no process at all
    m_run,
    m_pClickDB,     \* no client, a live connection, or a broken one
    m_tblType,      \* the last description read, {} when cleared
    updateTblDesc, emptyCounter,
    m_pQueue,       \* m_pQueue[p]: what producer p enqueued, in order
    file,           \* the dequeued pair: tries and name
    block,          \* the columns about to be inserted
    offer           \* the file doProc is copying or about to enqueue

thread == <<pc, m_pClickDB, m_tblType, updateTblDesc, emptyCounter, file, block>>

VARIABLES
    tosend,         \* tosend[f]: absent, partly written, complete
    failed, badfiles

disk == <<tosend, failed, badfiles>>

VARIABLES up, schema        \* the server: reachable, and its table
server == <<up, schema>>

VARIABLES
    sent,           \* files whose current copy the table has received
    excused,        \* files whose sender cannot know they were sent
    stranded,       \* files a failed copy or move left in tosend
    steady,         \* columns the table kept since the file was dequeued
    faults, starts, offers

history == <<sent, excused, stranded, steady>>
budget == <<faults, starts, offers>>

vars == <<thread, m_run, m_pQueue, offer, disk, server, history, budget>>

Producers == {"main", "watcher", "life"}
Entry == [tries : 0 .. 2, name : Files]
Idle == [tries |-> 0, name |-> NoFile]
Description == SUBSET (Columns \X Types)
Stage == {"none", "partial", "full"}
EmptyQueue == [p \in Producers |-> << >>]

\* The labels at which the thread holds a dequeued file.
Working == {"load", "redescribe", "insert", "remove", "park", "reject"}
Labels == {"off", "init", "top", "ping", "describe", "dequeue", "exited"} \union Working

\* Past every check: emptyCounter / 2 > CONNECT_TIMEOUT is tested each turn.
MaxIdle == 2 * CONNECT_TIMEOUT + 2

TypeOK ==
    /\ pc \in Labels
    /\ m_run \in BOOLEAN
    /\ m_pClickDB \in {"none", "ok", "stale"}
    /\ m_tblType \in Description
    /\ updateTblDesc \in BOOLEAN
    /\ emptyCounter \in 0 .. MaxIdle
    /\ m_pQueue \in [Producers -> Seq(Entry)]
    /\ file \in Entry \union {Idle}
    /\ block \in Description
    /\ offer \in Files \union {NoFile}
    /\ tosend \in [Files -> Stage]
    /\ failed \subseteq Files /\ badfiles \subseteq Files
    /\ up \in BOOLEAN
    /\ schema \in Schemas
    /\ sent \subseteq Files /\ excused \subseteq Files /\ stranded \subseteq Files
    /\ steady \in Description
    /\ faults \in 0 .. MaxFaults
    /\ starts \in 0 .. MaxStarts
    /\ offers \in 0 .. MaxOffers

-----------------------------------------------------------------------------
(* Helpers of the thread. *)

Goto(label) == pc' = label

Online == m_pClickDB = "ok" /\ up

\* A disturbance the environment is allowed MaxFaults times.
Fault == faults < MaxFaults /\ faults' = faults + 1

\* What fillTable puts into the block: known columns whose data converts.
Fill(f, desc) == {d \in desc : d[1] \in FileCols[f] /\ d \in Convertible}

HasUnknown(f, desc) == \E c \in FileCols[f] : \A d \in desc : d[1] # c

\* enqueue by producer p.
Push(p, entry) == m_pQueue' = [m_pQueue EXCEPT ![p] = Append(@, entry)]

\* Mutated form of GiveUp.
GiveUpEarly(t) == t + 1 >= 2

\* The third failure is the last.
GiveUp(t) == t + 1 >= 3

\* Mutated form of MayCopy.
MayCopyOver(f) == tosend[f] # "partial"

\* copy_file refuses to overwrite.
MayCopy(f) == tosend[f] = "none"

\* Mutated form of Leftovers.
LeftoversForgotten == {}

\* What the scan of init finds.
Leftovers == {f \in Files : tosend[f] # "none"}

\* Every way directory_iterator may list the set S.
Listings(S) ==
    {s \in [1 .. Cardinality(S) -> S] :
        /\ \A i, j \in DOMAIN s : s[i] = s[j] => i = j
        /\ \A f \in S : \E i \in DOMAIN s : s[i] = f}

-----------------------------------------------------------------------------
(* The process: init scans tosend, start launches the thread, the          *)
(* destructor stops it; a crash may come at any moment.                    *)

Boot ==
    /\ pc = "off"
    /\ starts < MaxStarts
    /\ starts' = starts + 1
    /\ Goto("init")
    /\ \E order \in Listings(Leftovers) :
          m_pQueue' = [EmptyQueue EXCEPT !["main"] =
                          [i \in DOMAIN order |-> [tries |-> 0, name |-> order[i]]]]
    /\ UNCHANGED <<m_run, m_pClickDB, m_tblType, updateTblDesc, emptyCounter, file, block,
                   offer, disk, server, history, faults, offers>>

start ==
    /\ pc = "init"
    /\ offer = NoFile
    /\ m_run' = TRUE
    /\ Goto("top")
    /\ UNCHANGED <<m_pClickDB, m_tblType, updateTblDesc, emptyCounter, file, block,
                   m_pQueue, offer, disk, server, history, budget>>

\* The watcher is joined before the nodes are destroyed: no offer is pending.
Destructor ==
    /\ m_run
    /\ offer = NoFile
    /\ m_run' = FALSE
    /\ UNCHANGED <<thread, m_pQueue, offer, disk, server, history, budget>>

\* The memory of the process is gone; a sent file still in tosend is in doubt.
EndProcess ==
    /\ Goto("off")
    /\ m_run' = FALSE
    /\ m_pClickDB' = "none"
    /\ m_tblType' = {}
    /\ updateTblDesc' = TRUE
    /\ emptyCounter' = 0
    /\ m_pQueue' = EmptyQueue
    /\ file' = Idle
    /\ block' = {}
    /\ offer' = NoFile
    /\ excused' = excused \union {f \in sent : tosend[f] # "none"}
    /\ stranded' = {}
    /\ UNCHANGED <<disk, server, sent, steady, budget>>

Exit == pc = "exited" /\ EndProcess

Crash == pc # "off" /\ EndProcess

-----------------------------------------------------------------------------
(* doProc, on the main or the watcher thread: copy_file without overwrite, *)
(* then enqueue.  A refused copy changes nothing here.                     *)

CopyStart(f) ==
    /\ pc = "init" \/ m_run
    /\ offer = NoFile
    /\ MayCopy(f)
    /\ offers < MaxOffers
    /\ offers' = offers + 1
    /\ offer' = f
    /\ tosend' = [tosend EXCEPT ![f] = "partial"]
    /\ sent' = sent \ {f}
    /\ excused' = excused \ {f}
    /\ UNCHANGED <<thread, m_run, m_pQueue, failed, badfiles, server, stranded, steady,
                   faults, starts>>

CopyEnd ==
    /\ offer # NoFile
    /\ tosend[offer] = "partial"
    /\ tosend' = [tosend EXCEPT ![offer] = "full"]
    /\ UNCHANGED <<thread, m_run, m_pQueue, offer, failed, badfiles, server, history, budget>>

\* The copy breaks off (disk full): what was written stays, unqueued.
CopyFails ==
    /\ offer # NoFile
    /\ tosend[offer] = "partial"
    /\ Fault
    /\ offer' = NoFile
    /\ stranded' = stranded \union {offer}
    /\ UNCHANGED <<thread, m_run, m_pQueue, disk, server, sent, excused, steady,
                   starts, offers>>

\* The scan of the pipe comes before start, the events of the watcher after.
EnqueueOffer ==
    /\ offer # NoFile
    /\ tosend[offer] = "full"
    /\ Push(IF pc = "init" THEN "main" ELSE "watcher", [tries |-> 0, name |-> offer])
    /\ offer' = NoFile
    /\ UNCHANGED <<thread, m_run, disk, server, history, budget>>

-----------------------------------------------------------------------------
(* The life thread. *)

shared == <<m_run, offer, server, starts, offers>>

\* Mutated form of LeaveLoop.
LeaveConnected ==
    /\ pc = "top"
    /\ ~m_run
    /\ m_pClickDB # "none"
    /\ Goto("exited")
    /\ UNCHANGED <<m_pClickDB, m_tblType, updateTblDesc, emptyCounter, file, block,
                   m_pQueue, disk, history, faults, shared>>

LeaveLoop ==
    /\ pc = "top"
    /\ ~m_run
    /\ Goto("exited")
    /\ UNCHANGED <<m_pClickDB, m_tblType, updateTblDesc, emptyCounter, file, block,
                   m_pQueue, disk, history, faults, shared>>

\* tryConnect; when it fails the loop starts over.
tryConnect ==
    /\ pc = "top"
    /\ m_run
    /\ m_pClickDB = "none"
    /\ \/ /\ up
          /\ m_pClickDB' = "ok"
          /\ Goto("ping")
          /\ UNCHANGED <<m_tblType, emptyCounter>>
       \/ /\ ~up
          /\ m_tblType' = {}
          /\ emptyCounter' = 0
          /\ UNCHANGED <<pc, m_pClickDB>>
    /\ UNCHANGED <<updateTblDesc, file, block, m_pQueue, disk, history, faults, shared>>

EnterLoop ==
    /\ pc = "top"
    /\ m_run
    /\ m_pClickDB # "none"
    /\ Goto("ping")
    /\ UNCHANGED <<m_pClickDB, m_tblType, updateTblDesc, emptyCounter, file, block,
                   m_pQueue, disk, history, faults, shared>>

\* A connection idle for too long is checked; a dead one is dropped.
Ping ==
    /\ pc = "ping"
    /\ Goto("describe")
    /\ \/ /\ emptyCounter \div 2 <= CONNECT_TIMEOUT
          /\ UNCHANGED <<m_pClickDB, m_tblType, emptyCounter>>
       \/ /\ emptyCounter \div 2 > CONNECT_TIMEOUT
          /\ emptyCounter' = 0
          /\ m_pClickDB' = IF Online THEN m_pClickDB ELSE "none"
          /\ m_tblType' = IF Online THEN m_tblType ELSE {}
    /\ UNCHANGED <<updateTblDesc, file, block, m_pQueue, disk, history, faults, shared>>

\* Mutated form of NeedDescription.
NeedWhenAsked == updateTblDesc

NeedDescription == updateTblDesc \/ m_tblType = {}

KeepDescription ==
    /\ pc = "describe"
    /\ ~NeedDescription
    /\ Goto("dequeue")
    /\ UNCHANGED <<m_pClickDB, m_tblType, updateTblDesc, emptyCounter, file, block,
                   m_pQueue, disk, history, faults, shared>>

\* Mutated form of AfterDescribeError.
KeptAfterDescribeError == m_pClickDB

\* What a describe that threw leaves of the connection.
AfterDescribeError == "none"

Describe ==
    /\ pc = "describe"
    /\ NeedDescription
    /\ emptyCounter' = 0
    /\ \/ /\ Online
          /\ m_tblType' = schema
          /\ updateTblDesc' = FALSE
          /\ Goto("dequeue")
          /\ UNCHANGED m_pClickDB
       \/ /\ ~Online
          /\ m_pClickDB' = AfterDescribeError
          /\ m_tblType' = {}
          /\ updateTblDesc' = TRUE
          /\ Goto("top")
    /\ UNCHANGED <<file, block, m_pQueue, disk, history, faults, shared>>

Dequeue(p) ==
    /\ pc = "dequeue"
    /\ m_pQueue[p] # << >>
    /\ file' = Head(m_pQueue[p])
    /\ m_pQueue' = [m_pQueue EXCEPT ![p] = Tail(@)]
    /\ emptyCounter' = 0
    /\ steady' = schema
    /\ Goto("load")
    /\ UNCHANGED <<m_pClickDB, m_tblType, updateTblDesc, block, disk, sent, excused,
                   stranded, faults, shared>>

DequeueTimeout ==
    /\ pc = "dequeue"
    /\ m_pQueue = EmptyQueue
    /\ emptyCounter' = emptyCounter + 1
    /\ Goto("top")
    /\ UNCHANGED <<m_pClickDB, m_tblType, updateTblDesc, file, block,
                   m_pQueue, disk, history, faults, shared>>

\* Load the file and fill the block from the description at hand.
Load ==
    /\ pc = "load"
    /\ tosend[file.name] = "full"
    /\ block' = Fill(file.name, m_tblType)
    /\ Goto(IF HasUnknown(file.name, m_tblType) THEN "redescribe" ELSE "insert")
    /\ UNCHANGED <<m_pClickDB, m_tblType, updateTblDesc, emptyCounter, file,
                   m_pQueue, disk, history, faults, shared>>

\* A torn file never loads; a sound one may fail to (an I/O error).
LoadFails ==
    /\ pc = "load"
    /\ IF tosend[file.name] = "full" THEN Fault ELSE UNCHANGED faults
    /\ Goto("reject")
    /\ UNCHANGED <<m_pClickDB, m_tblType, updateTblDesc, emptyCounter, file, block,
                   m_pQueue, disk, history, shared>>

\* The catch of sendTable: back into the queue, or given up at the third try.
Retry ==
    IF GiveUp(file.tries)
    THEN /\ Goto("park")
         /\ UNCHANGED <<m_pQueue, updateTblDesc, file, block>>
    ELSE /\ Push("life", [file EXCEPT !.tries = @ + 1])
         /\ updateTblDesc' = TRUE
         /\ file' = Idle
         /\ block' = {}
         /\ Goto("top")

\* Mutated form of Refill.
NeverRefill(f, old, new) == block

\* The block is refilled when the table turns out to have changed.
Refill(f, old, new) == IF new # old THEN Fill(f, new) ELSE block

Redescribe ==
    /\ pc = "redescribe"
    /\ \/ /\ Online
          /\ m_tblType' = schema
          /\ block' = Refill(file.name, m_tblType, schema)
          /\ Goto("insert")
          /\ UNCHANGED <<m_pQueue, updateTblDesc, file>>
       \/ /\ ~Online
          /\ Retry
          /\ UNCHANGED m_tblType
    /\ UNCHANGED <<m_pClickDB, emptyCounter, disk, history, faults, shared>>

Insert ==
    /\ pc = "insert"
    /\ Online
    /\ block # {}
    /\ block \subseteq schema
    /\ sent' = sent \union {file.name}
    /\ Goto("remove")
    /\ UNCHANGED <<m_pClickDB, m_tblType, updateTblDesc, emptyCounter, file, block,
                   m_pQueue, disk, excused, stranded, steady, faults, shared>>

\* The rows arrive, the answer does not: the client sees an exception.
InsertUnanswered ==
    /\ pc = "insert"
    /\ Online
    /\ block # {}
    /\ block \subseteq schema
    /\ Fault
    /\ sent' = sent \union {file.name}
    /\ excused' = excused \union {file.name}
    /\ m_pClickDB' = "stale"
    /\ Retry
    /\ UNCHANGED <<m_tblType, emptyCounter, disk, stranded, steady, shared>>

\* Nothing to insert, no server, a block the table rejects, or a refusal.
InsertFails ==
    /\ pc = "insert"
    /\ IF Online /\ block # {} /\ block \subseteq schema THEN Fault ELSE UNCHANGED faults
    /\ Retry
    /\ UNCHANGED <<m_pClickDB, m_tblType, emptyCounter, disk, history, shared>>

\* Node::moveFile out of tosend, in the three places the thread calls it.
Remove ==
    /\ pc = "remove"
    /\ tosend' = [tosend EXCEPT ![file.name] = "none"]
    /\ UNCHANGED <<failed, badfiles>>

\* Mutated form of Park.
ParkNowhere ==
    /\ pc = "park"
    /\ tosend' = [tosend EXCEPT ![file.name] = "none"]
    /\ UNCHANGED <<failed, badfiles>>

Park ==
    /\ pc = "park"
    /\ tosend' = [tosend EXCEPT ![file.name] = "none"]
    /\ failed' = IF KeepFailed THEN failed \union {file.name} ELSE failed
    /\ UNCHANGED badfiles

Reject ==
    /\ pc = "reject"
    /\ tosend' = [tosend EXCEPT ![file.name] = "none"]
    /\ badfiles' = IF KeepBad THEN badfiles \union {file.name} ELSE badfiles
    /\ UNCHANGED failed

Finish ==
    /\ file' = Idle
    /\ block' = {}
    /\ Goto("top")
    /\ UNCHANGED <<m_pClickDB, m_tblType, updateTblDesc, emptyCounter, sent, excused,
                   steady, shared>>

moveFile ==
    /\ Remove \/ Park \/ Reject
    /\ Finish
    /\ UNCHANGED <<m_pQueue, stranded, faults>>

\* Mutated form of MoveFails.
MoveFailsRetries ==
    /\ pc \in {"remove", "park", "reject"}
    /\ Fault
    /\ Push("life", file)
    /\ Finish
    /\ UNCHANGED <<stranded, disk>>

\* A failed move is only counted: the file stays in tosend, unqueued.
MoveFails ==
    /\ pc \in {"remove", "park", "reject"}
    /\ Fault
    /\ stranded' = stranded \union {file.name}
    /\ Finish
    /\ UNCHANGED <<m_pQueue, disk>>

lifeProc ==
    \/ LeaveLoop \/ tryConnect \/ EnterLoop \/ Ping \/ KeepDescription \/ Describe
    \/ (\E p \in Producers : Dequeue(p)) \/ DequeueTimeout
    \/ Load \/ LoadFails \/ Redescribe
    \/ Insert \/ InsertUnanswered \/ InsertFails
    \/ moveFile \/ MoveFails

-----------------------------------------------------------------------------
(* The server and its network. *)

process == <<thread, m_run, m_pQueue, offer, disk, starts, offers>>

ServerDown ==
    /\ up
    /\ Fault
    /\ up' = FALSE
    /\ m_pClickDB' = IF m_pClickDB = "ok" THEN "stale" ELSE m_pClickDB
    /\ UNCHANGED <<pc, m_tblType, updateTblDesc, emptyCounter, file, block, m_run, m_pQueue,
                   offer, disk, schema, history, starts, offers>>

ServerUp ==
    /\ ~up
    /\ up' = TRUE
    /\ UNCHANGED <<process, schema, history, faults>>

AlterTable ==
    /\ Fault
    /\ \E s \in Schemas \ {schema} :
          /\ schema' = s
          /\ steady' = steady \intersect s
    /\ UNCHANGED <<process, up, sent, excused, stranded>>

-----------------------------------------------------------------------------

Init ==
    /\ pc = "off"
    /\ m_run = FALSE
    /\ m_pClickDB = "none"
    /\ m_tblType = {}
    /\ updateTblDesc = TRUE
    /\ emptyCounter = 0
    /\ m_pQueue = EmptyQueue
    /\ file = Idle
    /\ block = {}
    /\ offer = NoFile
    /\ tosend = [f \in Files |-> "none"]
    /\ failed = {} /\ badfiles = {}
    /\ up = TRUE
    /\ schema \in Schemas
    /\ sent = {} /\ excused = {} /\ stranded = {} /\ steady = {}
    /\ faults = 0 /\ starts = 0 /\ offers = 0

doProc ==
    \/ \E f \in Files : CopyStart(f)
    \/ CopyEnd \/ CopyFails \/ EnqueueOffer

Next ==
    \/ Boot \/ start \/ Destructor \/ Exit \/ Crash
    \/ doProc \/ lifeProc
    \/ ServerDown \/ ServerUp \/ AlterTable

Spec == Init /\ [][Next]_vars

\* The scheduler runs the thread; nothing else is promised.
FairSpec == Spec /\ WF_vars(lifeProc)

-----------------------------------------------------------------------------
(* Properties. *)

Queued(f) == \E p \in Producers : \E i \in DOMAIN m_pQueue[p] : m_pQueue[p][i].name = f

InPlay(f) == Queued(f) \/ file.name = f

(***************************************************************************)
(* No null client and no empty description where the thread dereferences   *)
(* them: m_pClickDB->Insert in sendTable and the column lookups, with the  *)
(* server lost at any step between the checks and the use.                 *)
(***************************************************************************)
ConnectedAtWork ==
    pc \in {"dequeue"} \union Working => m_pClickDB # "none" /\ m_tblType # {}

(***************************************************************************)
(* A file is in play at most once: the queues of the three producers and   *)
(* the thread's hands never hold it twice, whatever is offered, retried,   *)
(* scanned at start, or offered again under an old name.                   *)
(***************************************************************************)
InPlayOnce ==
    /\ \A p, q \in Producers :
         \A i \in DOMAIN m_pQueue[p], j \in DOMAIN m_pQueue[q] :
            m_pQueue[p][i].name = m_pQueue[q][j].name => p = q /\ i = j
    /\ ~ Queued(file.name)
    /\ offer # NoFile => ~ InPlay(offer)

(***************************************************************************)
(* Every file in tosend is being copied, waits in the queue, is in the     *)
(* thread's hands, or was left there by a failed copy or move: lifeProc,   *)
(* doProc and the scan of init together forget none, over restarts too.    *)
(***************************************************************************)
NothingForgotten ==
    pc # "off"
       => \A f \in Files :
             tosend[f] # "none" => InPlay(f) \/ offer = f \/ f \in stranded

(***************************************************************************)
(* What is in play is on disk: the thread never dequeues the name of a     *)
(* file that lifeProc has already removed or moved away.                   *)
(***************************************************************************)
InPlayOnDisk == \A f \in Files : InPlay(f) => tosend[f] # "none"

(***************************************************************************)
(* The queues and the directory agree: what is in play is there once, and  *)
(* lies in tosend.                                                         *)
(***************************************************************************)
QueueIsSound == InPlayOnce /\ InPlayOnDisk

\* A send the server is going to accept.
Acceptable == pc = "insert" /\ block # {} /\ block \subseteq schema

(***************************************************************************)
(* A column the table had all through the send is left out of an accepted  *)
(* insert only when its data did not convert to the type on record, never  *)
(* because the description lacked it (sendTable: describe and refill).     *)
(***************************************************************************)
NoFreshColumnDropped ==
    Acceptable =>
        \A d \in Fill(file.name, steady) :
            d \in block \/ \E e \in m_tblType \ Convertible : e[1] = d[1]

(***************************************************************************)
(* README l.10 "Watching change tables structure in database": an accepted *)
(* insert carries every column the table had all through the send and the  *)
(* data converts to (sendTable describes anew only for an unknown name).   *)
(***************************************************************************)
WatchesTable == Acceptable => Fill(file.name, steady) \subseteq block

(***************************************************************************)
(* A file about to be inserted a second time has an excuse: a lost answer  *)
(* or a process that ended between the insert and the removal.             *)
(***************************************************************************)
DuplicatesExplained ==
    pc = "insert" /\ file.name \in sent => file.name \in excused

(***************************************************************************)
(* The retry counter absorbs single disturbances: a file that any table    *)
(* description can take reaches "failed" only after three of them, and     *)
(* each further such file costs two (the broken connection is kept when a  *)
(* file is given up, so the next one starts with a failure).               *)
(***************************************************************************)
FewFaultsParkNothing ==
    (\A f \in Files, s \in Schemas : Fill(f, s) # {})
       => failed = {} \/ 2 * Cardinality(failed) + 1 <= faults

\* The abstract promise of a destination.
Promise == INSTANCE Outbox WITH box <- tosend, parked <- failed, rejected <- badfiles

(***************************************************************************)
(* The destination keeps the promise of Outbox: in particular a complete   *)
(* file leaves tosend only inserted, or into "failed" or "badfiles".       *)
(***************************************************************************)
KeepsPromise == Promise!Spec

(***************************************************************************)
(* When the server stays reachable and the process stays up, every file in *)
(* play leaves tosend or is stranded by a failed move (lifeProc).          *)
(***************************************************************************)
Drains ==
    <>[](up /\ m_run)
       => \A f \in Files : [](InPlay(f) => <> ~ InPlay(f))

(***************************************************************************)
(* The destructor's join returns: once m_run is cleared the thread leaves  *)
(* its loop, server or no server.                                          *)
(***************************************************************************)
ShutdownCompletes == (pc # "init" /\ ~ m_run) ~> pc \in {"exited", "off"}

=============================================================================
