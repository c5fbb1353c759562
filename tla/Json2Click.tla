----------------------------- MODULE Json2Click -----------------------------
(***************************************************************************)
(* One Json2Click node: its queue of .json files, the life thread that     *)
(* reads them line by line into the table in memory, and dump, which saves *)
(* the table as a .cdb file when enough rows or enough time have come      *)
(* together.  A row is the name, the content and the line it was read      *)
(* from: a name that was moved away may be written again, with another     *)
(* content.  MyHandler models what becomes of one line.                    *)
(***************************************************************************)
EXTENDS Naturals, Sequences, FiniteSets

CONSTANTS
    Files,          \* the names of the .json files
    NoFile,
    Good,           \* Good[f][g][i]: does line i of the g-th content of f parse
    Configs,        \* pairs of delay and blockSize to start with; 0: not configured
    KeepBackup,     \* is "succeeded" configured
    MaxTime, MaxStarts, MaxFaults   \* bounds of the exploration

\* The name of a file is no stamp.
ASSUME FilesAssumption ==
    IsFiniteSet(Files) /\ NoFile \notin Files /\ \A f \in Files : f \notin Nat \X Nat
ASSUME LineAssumption == Good \in [Files -> Seq(Seq(BOOLEAN))]
ASSUME ConfigAssumption ==
    Configs \subseteq Nat \X Nat /\ KeepBackup \in BOOLEAN
ASSUME BoundAssumption == MaxTime \in Nat \ {0} /\ MaxStarts \in Nat /\ MaxFaults \in Nat

VARIABLES
    pc,             \* where the life thread is; "off": no process
    m_run,
    m_pQueue,       \* what init and then the watcher enqueued
    fileName, line, bOk,    \* the file being read, the lines read of it
    rows,           \* the rows of m_table
    m_saveTime, m_saveCounter

VARIABLES m_delay, m_blockSize  \* what init read from the configuration

config == <<m_delay, m_blockSize>>

memory == <<pc, m_run, m_pQueue, fileName, line, bOk, rows, m_saveTime, m_saveCounter>>

VARIABLES
    src,            \* src[f] in the watched directory: absent, open, closed
    gen,            \* how often f was written, and so which content it has
    backup, failed, \* the directories "succeeded" and "failed"
    out             \* the .cdb files of the output directory, with their rows

disk == <<src, gen, backup, failed, out>>

VARIABLES
    now,            \* the clock, in seconds
    setBack         \* was it set back under this process

VARIABLES
    taken,          \* rows of files the pipe took from the output directory
    lost,           \* rows whose loss has a cause that is not in this code
    overwritten,    \* rows of output files that a save came over
    again,          \* contents a crash or a failed step left to be read later
    own             \* the output files there are that this process wrote

history == <<taken, lost, overwritten, again, own>>

VARIABLES starts, faults
vars == <<memory, config, disk, now, setBack, history, starts, faults>>

RowsOf(f, g) == {<<f, g, i>> : i \in {j \in DOMAIN Good[f][g] : Good[f][g][j]}}
AllRows == UNION {UNION {RowsOf(f, g) : g \in DOMAIN Good[f]} : f \in Files}

\* What f has in it now.
Content(f) == <<f, gen[f]>>
Lines(f) == Good[f][gen[f]]
GoodRows(f) == RowsOf(f, gen[f])

\* Stamp and counter of dump (0: no counter), or the name of the .json file.
OutNames == ((1 .. MaxTime) \X Nat) \union Files

Batched == m_delay # 0 \/ m_blockSize # 0

Labels == {"off", "scanned", "init", "top", "open", "lines", "dumpLine", "save", "move",
           "tail", "last", "spin", "exited"}

ControlOK ==
    /\ pc \in Labels
    /\ m_run \in BOOLEAN /\ bOk \in BOOLEAN /\ setBack \in BOOLEAN
    /\ fileName \in Files \union {NoFile}

QueueOK == m_pQueue \in [{"main", "watcher"} -> Seq(Files)]

NumbersOK ==
    /\ line \in Nat /\ (fileName # NoFile /\ line # 0 => line <= Len(Lines(fileName)))
    /\ m_saveTime \in 0 .. MaxTime /\ m_saveCounter \in Nat
    /\ m_delay \in Nat /\ m_blockSize \in Nat
    /\ now \in 1 .. MaxTime
    /\ starts \in 0 .. MaxStarts /\ faults \in 0 .. MaxFaults

FilesOK ==
    /\ src \in [Files -> {"absent", "open", "closed"}]
    /\ gen \in [Files -> Nat]
    /\ \A f \in Files : gen[f] <= Len(Good[f]) /\ (gen[f] = 0 => src[f] = "absent")
    /\ backup \subseteq Files /\ failed \subseteq Files /\ again \subseteq Files \X Nat

RowsOK ==
    /\ rows \subseteq AllRows /\ taken \subseteq AllRows
    /\ lost \subseteq AllRows /\ overwritten \subseteq AllRows
    /\ DOMAIN out \subseteq OutNames /\ own \subseteq OutNames
    /\ \A n \in DOMAIN out : out[n] \subseteq AllRows

TypeOK == ControlOK /\ QueueOK /\ NumbersOK /\ FilesOK /\ RowsOK

Goto(label) == pc' = label

Fault == faults < MaxFaults /\ faults' = faults + 1

Present == {f \in Files : src[f] \in {"open", "closed"}}

Push(p, f) == m_pQueue' = [m_pQueue EXCEPT ![p] = Append(@, f)]

-----------------------------------------------------------------------------
(* The environment: the clock, the writers, the pipe behind the output.    *)

Tick ==
    /\ now < MaxTime
    /\ now' = now + 1
    /\ UNCHANGED <<memory, disk, setBack, history, starts, faults>>

\* The stamp is local time, which can be set back.
SetBack ==
    /\ now > 1
    /\ Fault
    /\ now' = now - 1
    /\ setBack' = TRUE
    /\ UNCHANGED <<memory, disk, history, starts>>

\* A name that has gone may come again.
WriteStart(f) ==
    /\ src[f] = "absent"
    /\ gen[f] < Len(Good[f])
    /\ src' = [src EXCEPT ![f] = "open"]
    /\ gen' = [gen EXCEPT ![f] = @ + 1]
    /\ UNCHANGED <<memory, backup, failed, out, now, setBack, history, starts, faults>>

\* IN_CLOSE_WRITE, and Json2Click::doProc on the watcher thread.
WriteEnd(f) ==
    /\ src[f] = "open"
    /\ src' = [src EXCEPT ![f] = "closed"]
    /\ IF pc = "init" \/ m_run THEN Push("watcher", f) ELSE UNCHANGED m_pQueue
    /\ UNCHANGED <<pc, m_run, fileName, line, bOk, rows, m_saveTime, m_saveCounter,
                   gen, backup, failed, out, now, setBack, history, starts, faults>>

Take(n) ==
    /\ n \in DOMAIN out
    /\ taken' = taken \union out[n]
    /\ out' = [m \in DOMAIN out \ {n} |-> out[m]]
    /\ own' = own \ {n}
    /\ UNCHANGED <<memory, src, gen, backup, failed, now, setBack, lost, overwritten,
                   again, starts, faults>>

-----------------------------------------------------------------------------
(* Start and end of the process. *)

others == <<disk, now, setBack, history, faults>>

\* Every way directory_iterator may list the set S.
Listings(S) ==
    {s \in [1 .. Cardinality(S) -> S] :
        \A i, j \in DOMAIN s : s[i] = s[j] => i = j}

\* init: scan for .json files, then watch the directory.
Boot ==
    /\ pc = "off"
    /\ starts < MaxStarts
    /\ starts' = starts + 1
    /\ Goto("scanned")
    /\ \E c \in Configs : m_delay' = c[1] /\ m_blockSize' = c[2]
    /\ \E order \in Listings(Present) : m_pQueue' = [m_pQueue EXCEPT !["main"] = order]
    /\ UNCHANGED <<m_run, fileName, line, bOk, rows, m_saveTime, m_saveCounter, others>>

AddWatch ==
    /\ pc = "scanned"
    /\ Goto("init")
    /\ UNCHANGED <<m_run, m_pQueue, fileName, line, bOk, rows, m_saveTime, m_saveCounter,
                   others, starts>>

start ==
    /\ pc = "init"
    /\ m_run' = TRUE
    /\ Goto("top")
    /\ UNCHANGED <<m_pQueue, fileName, line, bOk, rows, m_saveTime, m_saveCounter,
                   others, starts>>

Destructor ==
    /\ m_run
    /\ m_run' = FALSE
    /\ UNCHANGED <<pc, m_pQueue, fileName, line, bOk, rows, m_saveTime, m_saveCounter,
                   others, starts>>

EndProcess ==
    /\ Goto("off")
    /\ m_run' = FALSE
    /\ m_pQueue' = [p \in {"main", "watcher"} |-> << >>]
    /\ fileName' = NoFile /\ line' = 0 /\ bOk' = TRUE
    /\ rows' = {}
    /\ m_saveTime' = 0 /\ m_saveCounter' = 0
    /\ m_delay' = 0 /\ m_blockSize' = 0
    /\ setBack' = FALSE
    /\ own' = {}
    /\ UNCHANGED <<disk, now, taken, overwritten, starts>>

Exit ==
    /\ pc = "exited"
    /\ EndProcess
    /\ UNCHANGED <<lost, again, faults>>

\* What was in memory is gone; the file at hand is going to be read again.
Crash ==
    /\ pc # "off"
    /\ Fault
    /\ EndProcess
    /\ lost' = lost \union rows
    /\ again' = again \union {Content(f) : f \in {fileName} \ {NoFile}}

-----------------------------------------------------------------------------
(* save, flushTbl and dump. *)

\* fopen for writing comes over a file of that name: another content of a
\* name that came again, before its output was taken; or a stamp of an earlier
\* process, or from before the clock was set back.
Under(name) ==
    {r \in UNION {out[n] : n \in {name} \intersect DOMAIN out} :
        IF name \in Files THEN r[2] # gen[name] ELSE name \notin own \/ setBack}

Store(name, S) ==
    /\ out' = [n \in DOMAIN out \union {name} |-> IF n = name THEN S ELSE out[n]]
    /\ own' = own \union {name}
    /\ overwritten' = overwritten \union Under(name)

\* Mutated form of Save.
SaveKeepingRows(name) == Store(name, rows) /\ UNCHANGED <<rows, lost, faults, bOk>>

\* save and flushTbl: fopen may fail, which save reports; or a full disk, which
\* it does not, leaves a file that load refuses.
Save(name) ==
    /\ rows' = {}
    /\ \/ Store(name, rows) /\ UNCHANGED <<lost, faults, bOk>>
       \/ /\ Fault
          /\ lost' = lost \union rows
          /\ \/ bOk' = (bOk /\ Batched) /\ UNCHANGED <<out, own, overwritten>>
             \/ Store(name, {}) /\ UNCHANGED bOk

\* Mutated form of RowCountOver.
RowCountPast == m_blockSize # 0 /\ Cardinality(rows) > m_blockSize

RowCountOver == m_blockSize # 0 /\ Cardinality(rows) >= m_blockSize

TimeOver == m_delay # 0 /\ now - m_saveTime >= m_delay

\* The first call with rows only starts the clock.
Saves(bForced) ==
    rows # {} /\ (bForced \/ (m_saveTime # 0 /\ (RowCountOver \/ TimeOver)))

\* Mutated form of Counter.
NoCounter == 0

Counter == IF now = m_saveTime THEN m_saveCounter + 1 ELSE 0

dump(bForced) ==
    \/ /\ Saves(bForced)
       /\ Save(<<now, Counter>>)
       /\ m_saveTime' = now
       /\ m_saveCounter' = Counter
    \/ /\ ~ Saves(bForced)
       /\ m_saveTime' = IF rows # {} /\ m_saveTime = 0 THEN now ELSE m_saveTime
       /\ UNCHANGED <<rows, bOk, m_saveCounter, out, own, lost, overwritten, faults>>

-----------------------------------------------------------------------------
(* The life thread. *)

\* Mutated form of LeaveLoop.
LeaveUnsaved ==
    /\ pc = "top"
    /\ ~ m_run
    /\ Goto("exited")
    /\ UNCHANGED <<m_run, m_pQueue, fileName, line, bOk, rows, m_saveTime, m_saveCounter,
                   others, starts>>

LeaveLoop ==
    /\ pc = "top"
    /\ ~ m_run
    /\ Goto(IF Batched THEN "last" ELSE "exited")
    /\ UNCHANGED <<m_run, m_pQueue, fileName, line, bOk, rows, m_saveTime, m_saveCounter,
                   others, starts>>

\* The dump at the end of a turn is for the delay.
EndTurn == IF m_delay # 0 THEN "tail" ELSE "top"

Dequeue(p) ==
    /\ pc = "top" /\ m_run
    /\ m_pQueue[p] # << >>
    /\ fileName' = Head(m_pQueue[p])
    /\ m_pQueue' = [m_pQueue EXCEPT ![p] = Tail(@)]
    /\ line' = 0 /\ bOk' = TRUE
    /\ Goto("open")
    /\ UNCHANGED <<m_run, rows, m_saveTime, m_saveCounter, others, starts>>

DequeueTimeout ==
    /\ pc = "top" /\ m_run
    /\ m_delay # 0
    /\ \A p \in DOMAIN m_pQueue : m_pQueue[p] = << >>
    /\ Goto("tail")
    /\ UNCHANGED <<m_run, m_pQueue, fileName, line, bOk, rows, m_saveTime, m_saveCounter,
                   others, starts>>

Open ==
    /\ pc = "open"
    /\ fileName \in Present
    /\ Goto("lines")
    /\ UNCHANGED <<m_run, m_pQueue, fileName, line, bOk, rows, m_saveTime, m_saveCounter,
                   others, starts>>

\* fopen failed: continue, whatever the loop still had to do.
OpenFails ==
    /\ pc = "open"
    /\ IF fileName \in Present THEN Fault /\ again' = again \union {Content(fileName)}
                               ELSE UNCHANGED <<faults, again>>
    /\ fileName' = NoFile
    /\ Goto("top")
    /\ UNCHANGED <<m_run, m_pQueue, line, bOk, rows, m_saveTime, m_saveCounter,
                   disk, now, setBack, taken, lost, overwritten, own, starts>>

\* fgets fails short of the end of the file: feof never becomes true.
ReadFails ==
    /\ pc = "lines"
    /\ Fault
    /\ Goto("spin")
    /\ UNCHANGED <<m_run, m_pQueue, fileName, line, bOk, rows, m_saveTime, m_saveCounter,
                   disk, now, setBack, history, starts>>

ReadLine ==
    /\ pc = "lines"
    /\ line < Len(Lines(fileName))
    /\ line' = line + 1
    /\ IF Lines(fileName)[line + 1]
       THEN rows' = rows \union {<<fileName, gen[fileName], line + 1>>} /\ UNCHANGED bOk
       ELSE bOk' = FALSE /\ UNCHANGED rows
    /\ Goto(IF m_blockSize # 0 THEN "dumpLine" ELSE "lines")
    /\ UNCHANGED <<m_run, m_pQueue, fileName, m_saveTime, m_saveCounter, others, starts>>

\* What the writer of an open file has yet to write is never read.
EndOfFile ==
    /\ pc = "lines"
    /\ \/ line = Len(Lines(fileName)) /\ UNCHANGED <<bOk, lost>>
       \/ /\ src[fileName] = "open"
          /\ line < Len(Lines(fileName))
          /\ bOk' \in {bOk, FALSE}
          /\ lost' = lost \union {r \in GoodRows(fileName) : r[3] > line}
    /\ Goto(IF Batched THEN "move" ELSE "save")
    /\ UNCHANGED <<m_run, m_pQueue, fileName, line, rows, m_saveTime, m_saveCounter,
                   disk, now, setBack, taken, overwritten, again, own, starts, faults>>

SaveFile ==
    /\ pc = "save"
    /\ Save(fileName)
    /\ Goto("move")
    /\ UNCHANGED <<m_run, m_pQueue, fileName, line, m_saveTime, m_saveCounter,
                   src, gen, backup, failed, now, setBack, taken, again, starts>>

Finish ==
    /\ fileName' = NoFile
    /\ Goto(EndTurn)
    /\ UNCHANGED <<m_run, m_pQueue, line, bOk, rows, m_saveTime, m_saveCounter,
                   gen, out, now, setBack, taken, lost, overwritten, own, starts>>

\* Mutated form of moveFile.
MoveGoodOnly ==
    /\ pc = "move"
    /\ src' = [src EXCEPT ![fileName] = IF bOk THEN "absent" ELSE @]
    /\ backup' = IF bOk /\ KeepBackup THEN backup \union {fileName} ELSE backup
    /\ UNCHANGED failed
    /\ Finish
    /\ UNCHANGED <<again, faults>>

moveFile ==
    /\ pc = "move"
    /\ src' = [src EXCEPT ![fileName] = "absent"]
    /\ backup' = IF bOk /\ KeepBackup THEN backup \union {fileName} ELSE backup
    /\ failed' = IF bOk THEN failed ELSE failed \union {fileName}
    /\ Finish
    /\ UNCHANGED <<again, faults>>

MoveFails ==
    /\ pc = "move"
    /\ Fault
    /\ again' = again \union {Content(fileName)}
    /\ Finish
    /\ UNCHANGED <<src, backup, failed>>

\* The three calls of dump: for each line, at the end of a turn, at the end.
Dump ==
    /\ \/ pc = "dumpLine" /\ dump(FALSE) /\ Goto("lines")
       \/ pc = "tail" /\ dump(FALSE) /\ Goto("top")
       \/ pc = "last" /\ dump(TRUE) /\ Goto("exited")
    /\ UNCHANGED <<m_run, m_pQueue, fileName, line, src, gen, backup, failed, now, setBack,
                   taken, again, starts>>

lifeProc ==
    /\ UNCHANGED config
    /\ \/ LeaveLoop \/ (\E p \in DOMAIN m_pQueue : Dequeue(p)) \/ DequeueTimeout
       \/ Open \/ OpenFails \/ ReadFails \/ ReadLine \/ EndOfFile
       \/ SaveFile \/ moveFile \/ MoveFails \/ Dump

Init ==
    /\ pc = "off"
    /\ m_run = FALSE
    /\ m_pQueue = [p \in {"main", "watcher"} |-> << >>]
    /\ fileName = NoFile /\ line = 0 /\ bOk = TRUE
    /\ rows = {}
    /\ m_saveTime = 0 /\ m_saveCounter = 0
    /\ src = [f \in Files |-> "absent"] /\ gen = [f \in Files |-> 0]
    /\ backup = {} /\ failed = {}
    /\ out = << >>
    /\ m_delay = 0 /\ m_blockSize = 0
    /\ now = 1 /\ setBack = FALSE
    /\ taken = {} /\ lost = {} /\ overwritten = {} /\ again = {} /\ own = {}
    /\ starts = 0 /\ faults = 0

Around ==
    /\ UNCHANGED config
    /\ \/ Tick \/ SetBack \/ AddWatch \/ start \/ Destructor
       \/ \E f \in Files : WriteStart(f) \/ WriteEnd(f)
       \/ \E n \in DOMAIN out : Take(n)

Next == Boot \/ Exit \/ Crash \/ Around \/ lifeProc

Spec == Init /\ [][Next]_vars

FairSpec == Spec /\ WF_vars(lifeProc)

-----------------------------------------------------------------------------
(* Properties. *)

Written == UNION {out[n] : n \in DOMAIN out}

(***************************************************************************)
(* Every good row of a file that was moved away, whether or not its name   *)
(* was written again since, is in memory, in an output file, or taken by   *)
(* the pipe; else a crash, a failed save or an open writer cost it (lost), *)
(* or a later save came over its output file (overwritten): that of        *)
(* another content of the name, or one with the same stamp of another      *)
(* process or after the clock was set back.  A graceful end of the process *)
(* is no such cause.                                                       *)
(***************************************************************************)
RowsAccounted ==
    \A f \in Files : \A g \in 1 .. gen[f] : g < gen[f] \/ src[f] = "absent" =>
        RowsOf(f, g) \subseteq rows \union Written \union taken \union lost \union overwritten

(***************************************************************************)
(* No row is in two places, in memory, in an output file or taken, unless  *)
(* a crash or a failed move made its file be read again.                   *)
(***************************************************************************)
NoRowTwice ==
    \A r \in AllRows : <<r[1], r[2]>> \in again
        \/ /\ Cardinality({n \in DOMAIN out : r \in out[n]}) <= 1
           /\ ~ (r \in Written /\ r \in rows \union taken)
           /\ ~ (r \in rows /\ r \in taken)

(***************************************************************************)
(* A process whose clock is not set back never overwrites an output file   *)
(* of its own: the stamp in seconds and the counter of dump name each save *)
(* differently.                                                            *)
(***************************************************************************)
OutputKept ==
    [][ \A n \in own \intersect DOMAIN out \intersect DOMAIN out' :
          n \in Files \/ setBack \/ out'[n] = out[n] ]_vars

(***************************************************************************)
(* A block of this process never holds more rows than blockSize, or two if *)
(* that is one (the first call of dump only sets m_saveTime).              *)
(***************************************************************************)
BlockBound ==
    m_blockSize # 0 =>
        \A n \in own \intersect DOMAIN out :
            Cardinality(out[n]) <= IF m_blockSize = 1 THEN 2 ELSE m_blockSize

(***************************************************************************)
(* While the process stays up, a file in the queue is read and moved away, *)
(* or a failed step left it in the directory; the exception is a thread    *)
(* caught by a read error.                                                 *)
(***************************************************************************)
QueuedIsRead ==
    <>[](m_run /\ pc # "spin") =>
        \A f \in Files :
           []((\E p \in DOMAIN m_pQueue : \E i \in DOMAIN m_pQueue[p] : m_pQueue[p][i] = f)
                 => <>(src[f] = "absent" \/ Content(f) \in again))

Stopping == pc \notin {"off", "scanned", "init"} /\ ~ m_run

(***************************************************************************)
(* When the destructor joins the thread, the rows in memory are saved, or  *)
(* lost to a failed save, before it ends (the last dump is forced), unless *)
(* a read error has caught the thread.                                     *)
(***************************************************************************)
ShutdownSaves ==
    Stopping ~> (pc \in {"exited", "off"} /\ rows = {}) \/ pc = "spin"

=============================================================================
