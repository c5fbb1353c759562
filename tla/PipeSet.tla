------------------------------- MODULE PipeSet -------------------------------
(***************************************************************************)
(* The fan-out: a directory watched for .cdb files, the kernel's queue of  *)
(* inotify events, the scan PipeBase::start makes before it adds the       *)
(* watch, and PipeSet::doProc, which copies a file to each destination in  *)
(* turn and then removes it.  Writers create files in the directory; each  *)
(* destination takes what was copied into its own directory in its own     *)
(* time (Click2DB models how).                                             *)
(***************************************************************************)
EXTENDS Naturals, Sequences, FiniteSets

CONSTANTS
    Files,          \* the names a .cdb file can have
    NoFile,         \* doProc is not running
    N,              \* number of destinations, in the order of the config
    QueueLimit,     \* events the kernel keeps before it drops them
    MaxWrites, MaxStarts, MaxFaults     \* bounds of the exploration

ASSUME NoFileAssumption == NoFile \notin Files
ASSUME SizeAssumption ==
    /\ N \in Nat \ {0} /\ QueueLimit \in Nat \ {0}
    /\ MaxWrites \in Nat /\ MaxStarts \in Nat /\ MaxFaults \in Nat

Dests == 1 .. N

VARIABLES
    proc,           \* off, scanning, watch added, watcher thread running,
                    \* or ended by an error while the process goes on
    seen,           \* files the start-up scan has listed
    owed,           \* files the start-up scan is bound to list
    events,         \* the inotify queue: names closed or moved in
    cur,            \* the file doProc is at
    next,           \* the destination doProc is at
    res,            \* doProc's res: no copy has failed yet
    reading         \* no copy under way, or what the source was meanwhile:
                    \* closed throughout, or open at some time

memory == <<proc, seen, owed, events, cur, next, res, reading>>

VARIABLES
    src,            \* src[f] in the watched directory: absent, open, closed, or
                    \* removed while its writer goes on
    box,            \* box[d][f]: in tosend of d, and how complete
    queued          \* queued[d]: files of tosend that d knows of

disk == <<src, box, queued>>

VARIABLES
    written,        \* files whose writer has closed them
    delivered,      \* delivered[d]: files copied whole to d
    unheard,        \* closed with no event queued and no scan to come
    cut,            \* files copied short because their writer was at it
    met,            \* files begun under a name that doProc was at
    refused,        \* refused[d]: files whose copy to d failed
    hit,            \* files whose handling met a crash
    again           \* files whose handling may have to be repeated

history == <<written, delivered, unheard, cut, met, refused, hit, again>>

VARIABLES writes, starts, faults
budget == <<writes, starts, faults>>

vars == <<memory, disk, history, budget>>

MemoryOK ==
    /\ proc \in {"off", "scan", "listen", "run", "deaf"}
    /\ seen \subseteq Files /\ owed \subseteq Files
    /\ cur \in Files \union {NoFile}
    /\ res \in BOOLEAN
    /\ reading \in {"nothing", "open", "closed"}

PositionOK ==
    /\ next \in 1 .. N + 1
    /\ events \in Seq(Files) /\ Len(events) <= QueueLimit

DiskOK ==
    /\ src \in [Files -> {"none", "open", "closed", "unlinked"}]
    /\ box \in [Dests -> [Files -> {"none", "partial", "torn", "full"}]]
    /\ queued \in [Dests -> SUBSET Files]

HistoryOK ==
    /\ written \subseteq Files /\ unheard \subseteq Files
    /\ delivered \in [Dests -> SUBSET Files]
    /\ refused \in [Dests -> SUBSET Files]
    /\ cut \subseteq Files /\ met \subseteq Files
    /\ hit \subseteq Files /\ again \subseteq Files

BudgetOK ==
    /\ writes \in 0 .. MaxWrites
    /\ starts \in 0 .. MaxStarts
    /\ faults \in 0 .. MaxFaults

TypeOK == MemoryOK /\ PositionOK /\ DiskOK /\ HistoryOK /\ BudgetOK

Present == {f \in Files : src[f] \in {"open", "closed"}}

Fault == faults < MaxFaults /\ faults' = faults + 1

-----------------------------------------------------------------------------
(* The writers of the watched directory, inside or outside the process.    *)

\* fopen with "wb": a new file, or a closed one cut to nothing, also while
\* doProc is at the name.  The history is that of the new contents.  A name
\* has one writer at a time.
WriteStart(f) ==
    /\ src[f] \in {"none", "closed"}
    /\ writes < MaxWrites
    /\ writes' = writes + 1
    /\ src' = [src EXCEPT ![f] = "open"]
    /\ reading' = IF cur = f /\ reading = "closed" THEN "open" ELSE reading
    /\ met' = IF cur = f THEN met \union {f} ELSE met \ {f}
    /\ written' = written \ {f}
    /\ delivered' = [d \in Dests |-> delivered[d] \ {f}]
    /\ unheard' = unheard \ {f}
    /\ cut' = cut \ {f}
    /\ refused' = [d \in Dests |-> refused[d] \ {f}]
    /\ hit' = hit \ {f}
    /\ again' = again \ {f}
    /\ UNCHANGED <<proc, seen, owed, events, cur, next, res, box, queued, starts, faults>>

\* The descriptor stays open when the watcher thread has ended.
Watched == proc \in {"listen", "run", "deaf"}

Fits == Len(events) < QueueLimit

\* IN_CLOSE_WRITE, also for a file removed meanwhile.  A full queue drops the
\* event: the overflow marker has no name, and the watcher skips such events.
WriteEnd(f) ==
    /\ src[f] \in {"open", "unlinked"}
    /\ src' = [src EXCEPT ![f] = IF @ = "open" THEN "closed" ELSE "none"]
    /\ written' = written \union {f}
    /\ IF Watched /\ Fits
       THEN events' = Append(events, f) /\ UNCHANGED unheard
       ELSE /\ unheard' = IF proc = "off" THEN unheard ELSE unheard \union {f}
            /\ UNCHANGED events
    /\ UNCHANGED <<proc, seen, owed, cur, next, res, reading, box, queued,
                   delivered, cut, met, refused, hit, again, budget>>

-----------------------------------------------------------------------------
(* Start and end of the process. *)

\* init of the destinations scans their tosend; then start opens the scan.
Boot ==
    /\ proc = "off"
    /\ starts < MaxStarts
    /\ starts' = starts + 1
    /\ proc' = "scan"
    /\ owed' = Present
    /\ queued' = [d \in Dests |-> {f \in Files : box[d][f] # "none"}]
    /\ unheard' = {}
    /\ UNCHANGED <<seen, events, cur, next, res, reading, src, box,
                   written, delivered, cut, met, refused, hit, again, writes, faults>>

\* doProc begins with the first destination.
Begin(f) ==
    /\ cur' = f
    /\ next' = 1
    /\ res' = TRUE

\* directory_iterator lists what was there, and maybe what came since.
ScanPick(f) ==
    /\ proc = "scan"
    /\ cur = NoFile
    /\ f \in Present \ seen
    /\ seen' = seen \union {f}
    /\ unheard' = unheard \ {f}
    /\ Begin(f)
    /\ UNCHANGED <<proc, owed, events, reading, disk, written, delivered, cut, met, refused,
                   hit, again, budget>>

\* Mutated form of ScanDone.
ScanCut == TRUE

ScanDone == owed \subseteq seen

\* Node::watch, once the scan is over.
AddWatch ==
    /\ proc = "scan"
    /\ cur = NoFile
    /\ ScanDone
    /\ proc' = "listen"
    /\ UNCHANGED <<seen, owed, events, cur, next, res, reading, disk, history, budget>>

\* FlexEtl::start launches the watcher thread when every node is started.
WatcherStart ==
    /\ proc = "listen"
    /\ proc' = "run"
    /\ UNCHANGED <<seen, owed, events, cur, next, res, reading, disk, history, budget>>

OnEvent ==
    /\ proc = "run"
    /\ cur = NoFile
    /\ events # << >>
    /\ events' = Tail(events)
    /\ Begin(Head(events))
    /\ UNCHANGED <<proc, seen, owed, reading, disk, history, budget>>

EndProcess ==
    /\ proc' = "off"
    /\ seen' = {} /\ owed' = {}
    /\ events' = << >>
    /\ cur' = NoFile
    /\ next' = 1 /\ res' = TRUE /\ reading' = "nothing"
    /\ queued' = [d \in Dests |-> {}]
    /\ UNCHANGED <<src, box, written, delivered, unheard, cut, met, refused, budget>>

\* The watcher thread ends between two files.
Stop ==
    /\ proc \in {"run", "deaf"}
    /\ cur = NoFile
    /\ EndProcess
    /\ UNCHANGED <<hit, again>>

\* poll or read fails: the thread leaves its loop, and nothing follows.
WatcherFails ==
    /\ proc = "run"
    /\ cur = NoFile
    /\ Fault
    /\ proc' = "deaf"
    /\ UNCHANGED <<seen, owed, events, cur, next, res, reading, disk, history, writes, starts>>

Crash ==
    /\ proc # "off"
    /\ EndProcess
    /\ hit' = hit \union ({cur} \ {NoFile})
    /\ again' = again \union ({cur} \ {NoFile})

-----------------------------------------------------------------------------
(* PipeSet::doProc. *)

\* Mutated form of LastDest.
LastDestOff == N - 1

LastDest == N

AtDest == cur # NoFile /\ next <= LastDest

Copying == reading # "nothing"

NextDest == next' = next + 1 /\ reading' = "nothing"

\* Mutated form of Calls.
CallsAll == TRUE

\* hundler->doProc is called only while every earlier copy succeeded.
Calls == res

Skip ==
    /\ AtDest
    /\ ~ Calls
    /\ NextDest
    /\ UNCHANGED <<proc, seen, owed, events, cur, res, disk, history, budget>>

CopyStart ==
    /\ AtDest
    /\ Calls /\ ~ Copying
    /\ cur \in Present
    /\ box[next][cur] = "none"
    /\ box' = [box EXCEPT ![next][cur] = "partial"]
    /\ reading' = src[cur]
    /\ UNCHANGED <<proc, seen, owed, events, cur, next, res, src, queued, history, budget>>

\* Whole; or cut short, when a writer was at it; or what the name held before
\* the writer came.
CopyEnd ==
    /\ Copying
    /\ \/ /\ src[cur] = "closed"
          /\ box' = [box EXCEPT ![next][cur] = "full"]
          /\ delivered' = [delivered EXCEPT ![next] = @ \union {cur}]
          /\ UNCHANGED cut
       \/ /\ reading = "open"
          /\ box' = [box EXCEPT ![next][cur] = "torn"]
          /\ cut' = cut \union {cur}
          /\ UNCHANGED delivered
       \/ /\ reading = "open" /\ cur \in met
          /\ box' = [box EXCEPT ![next][cur] = "full"]
          /\ UNCHANGED <<delivered, cut>>
    /\ queued' = [queued EXCEPT ![next] = @ \union {cur}]
    /\ NextDest
    /\ UNCHANGED <<proc, seen, owed, events, cur, res, src, written, unheard, met,
                   refused, hit, again, budget>>

\* No source, or the name is taken: refused.  Disk full: the rest stays.
CopyFails ==
    /\ AtDest
    /\ Calls
    /\ \/ ~ Copying /\ (cur \notin Present \/ box[next][cur] # "none") /\ UNCHANGED faults
       \/ Copying /\ Fault
    /\ res' = FALSE
    /\ NextDest
    /\ refused' = [refused EXCEPT ![next] = @ \union {cur}]
    /\ UNCHANGED <<proc, seen, owed, events, cur, disk, written, delivered,
                   unheard, cut, met, hit, again, writes, starts>>

AfterDests == cur # NoFile /\ next = LastDest + 1

Finish == cur' = NoFile /\ next' = 1

\* Mutated form of Unlink.
LeaveSource(s) == s

Unlink(s) == IF s \in {"open", "unlinked"} THEN "unlinked" ELSE "none"

\* m_pnode->moveFile("", fileName), whatever res says.
MoveFile ==
    /\ AfterDests
    /\ Finish
    /\ src' = [src EXCEPT ![cur] = Unlink(@)]
    /\ UNCHANGED <<proc, seen, owed, events, res, reading, box, queued, history, budget>>

MoveFails ==
    /\ AfterDests
    /\ cur \in Present
    /\ Finish
    /\ Fault
    /\ again' = again \union {cur}
    /\ UNCHANGED <<proc, seen, owed, events, res, reading, disk, written, delivered,
                   unheard, cut, met, refused, hit, writes, starts>>

doProc == Skip \/ CopyStart \/ CopyEnd \/ CopyFails \/ MoveFile \/ MoveFails

-----------------------------------------------------------------------------

\* A destination disposes of a file it knows of: sent, parked or rejected.
DestTakes(d, f) ==
    /\ proc # "off"
    /\ f \in queued[d]
    /\ queued' = [queued EXCEPT ![d] = @ \ {f}]
    /\ box' = [box EXCEPT ![d][f] = "none"]
    /\ UNCHANGED <<memory, src, history, budget>>

Init ==
    /\ proc = "off"
    /\ seen = {} /\ owed = {}
    /\ events = << >>
    /\ cur = NoFile /\ next = 1 /\ res = TRUE /\ reading = "nothing"
    /\ src = [f \in Files |-> "none"]
    /\ box = [d \in Dests |-> [f \in Files |-> "none"]]
    /\ queued = [d \in Dests |-> {}]
    /\ written = {} /\ unheard = {} /\ cut = {} /\ met = {} /\ hit = {} /\ again = {}
    /\ delivered = [d \in Dests |-> {}]
    /\ refused = [d \in Dests |-> {}]
    /\ writes = 0 /\ starts = 0 /\ faults = 0

Thread ==
    \/ \E f \in Files : ScanPick(f)
    \/ AddWatch \/ WatcherStart \/ OnEvent \/ doProc

Next ==
    \/ Boot \/ Stop \/ WatcherFails \/ Crash \/ Thread
    \/ \E f \in Files : WriteStart(f) \/ WriteEnd(f)
    \/ \E d \in Dests, f \in Files : DestTakes(d, f)

Spec == Init /\ [][Next]_vars

\* The scheduler runs the main thread and then the watcher thread.
FairSpec == Spec /\ WF_vars(Thread)

-----------------------------------------------------------------------------
(* Properties. *)

Lost(d, f) == f \in written /\ src[f] = "none" /\ f \notin delivered[d]

(***************************************************************************)
(* A complete file that left the watched directory without reaching d met  *)
(* a crash or an open writer, or was begun while doProc was at its name,   *)
(* on a former file or a stale event, and removed with that, or its copy   *)
(* failed at d or before d: the loops of doProc and of the scan lose       *)
(* nothing by themselves.  It speaks of the last contents of a name.       *)
(***************************************************************************)
LossExplained ==
    \A d \in Dests, f \in Files :
        Lost(d, f) => \/ f \in hit \union cut \union met
                      \/ \E e \in 1 .. d : f \in refused[e]

(***************************************************************************)
(* The destinations served are a prefix of the list: when a file was       *)
(* closed before doProc came to it and no writer took its name before      *)
(* doProc left it, no destination has it that an earlier one lacks (res && *)
(* hundler->doProc), over failures, crashes and restarts.                  *)
(***************************************************************************)
ServedInOrder ==
    \A d, e \in Dests : d < e =>
        \A f \in delivered[e] \ delivered[d] : f \in cut \union met

(***************************************************************************)
(* No destination is given the same file twice, by the scan and an event   *)
(* or by two events, unless a crash or a failed removal left it behind.    *)
(***************************************************************************)
NoSecondCopy == Copying /\ cur \in delivered[next] => cur \in again

(***************************************************************************)
(* A file whose closing was heard, or that the scan had to list, leaves    *)
(* the directory when the process stays up and its watcher thread met no   *)
(* error (Watcher::lifeProc).                                              *)
(***************************************************************************)
HeardIsHandled ==
    <>[](proc \notin {"off", "deaf"}) =>
        \A f \in Files :
           [](src[f] = "closed" /\ f \notin unheard \union again => <>(src[f] # "closed" \/ f \in again))

(***************************************************************************)
(* README l.110, watch is the "path for watching .cdb files": a file that  *)
(* lies closed in the directory of a running process is picked up.         *)
(***************************************************************************)
ClosedIsHandled ==
    <>[](proc # "off") => \A f \in Files : [](src[f] = "closed" => <>(src[f] # "closed"))

(***************************************************************************)
(* README l.11 "Supports many servers to send": without a crash or a       *)
(* writer at the file, only a destination whose own copy failed goes       *)
(* without it.                                                             *)
(***************************************************************************)
OthersServed ==
    \A d \in Dests, f \in Files :
        Lost(d, f) => f \in hit \union cut \union met \union refused[d]

=============================================================================
