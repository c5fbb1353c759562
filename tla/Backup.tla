------------------------------- MODULE Backup -------------------------------
(***************************************************************************)
(* The directory of backups: life threads move files into it with          *)
(* Node::moveFile, which renames the file and then sets its time, and the  *)
(* thread of Backuper looks through it every hour and removes what is      *)
(* older than m_cleanTime hours.  Nothing keeps the two apart.  Times are  *)
(* ages in hours, counted up to Limit.                                     *)
(***************************************************************************)
EXTENDS Integers, FiniteSets

CONSTANTS
    Names,          \* names of files, the same in every directory
    NoName,
    Matching,       \* those with the extension that was registered
    Movers,         \* the threads that move files into this directory
    m_cleanTime,
    MaxFiles, MaxFaults     \* bounds of the exploration

ASSUME NamesAssumption == NoName \notin Names /\ Matching \subseteq Names
ASSUME TimeAssumption == m_cleanTime \in Nat
ASSUME BoundAssumption == MaxFiles \in Nat /\ MaxFaults \in Nat

\* A scan that lasts into the next hour sees ages one too small.
Limit == m_cleanTime + 2
Age == 0 .. Limit
None == -1

VARIABLES
    src,            \* pairs of mover and name: the files to be moved
    backup,         \* age of the file by its time of last write, or None
    at              \* at[m]: the name m has renamed and not yet dated

VARIABLES
    up,             \* is there a process
    m_registerQueue, m_backupDirs,  \* is the directory in the one, the other
    sinceCheck,     \* hours since lastTime, at most 1
    scanning, owed, visited,        \* the directory_iterator
    behind,         \* hours since curSysTime
    seen            \* the file whose time was read and is to be removed

cleaner == <<m_registerQueue, m_backupDirs, sinceCheck, scanning, owed, visited, behind, seen>>

VARIABLES
    kept,           \* hours since the file was put here
    undated,        \* names whose time is still that of the source
    caught,         \* the one seen was undated, or was replaced since
    unremoved       \* files of this scan whose removal failed

VARIABLES files, faults
history == <<kept, undated, caught, unremoved>>
vars == <<src, backup, at, up, cleaner, history, files, faults>>

Present == {n \in Names : backup[n] # None}

FilesOK ==
    /\ src \subseteq Movers \X Names
    /\ backup \in [Names -> Age \union {None}] /\ kept \in [Names -> Age]
    /\ at \in [Movers -> Names \union {NoName}]
    /\ undated \subseteq Names
    /\ files \in 0 .. MaxFiles /\ faults \in 0 .. MaxFaults

CleanerOK ==
    /\ up \in BOOLEAN /\ m_registerQueue \in BOOLEAN /\ m_backupDirs \in BOOLEAN
    /\ sinceCheck \in 0 .. 1

ScanOK ==
    /\ scanning \in BOOLEAN /\ caught \in BOOLEAN
    /\ behind \in 0 .. 1
    /\ owed \subseteq Names /\ visited \subseteq Names /\ unremoved \subseteq Names
    /\ seen \in Names \union {NoName}

TypeOK == FilesOK /\ CleanerOK /\ ScanOK

Fault == faults < MaxFaults /\ faults' = faults + 1

-----------------------------------------------------------------------------
(* Time, writers, an operator, start and end of the process.               *)

Older(age) == IF age = None \/ age = Limit THEN age ELSE age + 1

Hour ==
    /\ scanning => behind = 0
    /\ backup' = [n \in Names |-> Older(backup[n])]
    /\ kept' = [n \in Names |-> Older(kept[n])]
    /\ sinceCheck' = IF up THEN 1 ELSE sinceCheck
    /\ behind' = IF scanning THEN 1 ELSE 0
    /\ UNCHANGED <<src, at, up, m_registerQueue, m_backupDirs, scanning, owed, visited, seen,
                   undated, caught, unremoved, files, faults>>

Arrive(m, n) ==
    /\ files < MaxFiles
    /\ files' = files + 1
    /\ src' = src \union {<<m, n>>}
    /\ UNCHANGED <<backup, at, up, cleaner, history, faults>>

OperatorRemoves(n) ==
    /\ n \in Present
    /\ Fault
    /\ backup' = [backup EXCEPT ![n] = None]
    /\ UNCHANGED <<src, at, up, cleaner, history, files>>

\* The constructor starts the thread, with lastTime at the boot of the
\* machine; then Json2Click::init registers its directory.
Start ==
    /\ ~ up
    /\ up' = TRUE
    /\ m_registerQueue' = TRUE
    /\ sinceCheck' \in 0 .. 1
    /\ UNCHANGED <<src, backup, at, m_backupDirs, scanning, owed, visited, behind, seen,
                   history, files, faults>>

ScanOver ==
    /\ scanning' = FALSE
    /\ owed' = {} /\ visited' = {}
    /\ behind' = 0
    /\ seen' = NoName /\ caught' = FALSE
    /\ unremoved' = {}

EndProcess ==
    /\ up' = FALSE
    /\ at' = [m \in Movers |-> NoName]
    /\ m_registerQueue' = FALSE /\ m_backupDirs' = FALSE
    /\ sinceCheck' = 0
    /\ ScanOver
    /\ UNCHANGED <<src, backup, kept, undated, files>>

Crash == up /\ Fault /\ EndProcess

-----------------------------------------------------------------------------
(* Node::moveFile, on the thread of a node. *)

\* The name may be that of an older backup.
Rename(m, n) ==
    /\ up
    /\ at[m] = NoName
    /\ <<m, n>> \in src
    /\ src' = src \ {<<m, n>>}
    /\ \E age \in Age : backup' = [backup EXCEPT ![n] = age]
    /\ at' = [at EXCEPT ![m] = n]
    /\ kept' = [kept EXCEPT ![n] = 0]
    /\ undated' = undated \union {n}
    /\ caught' = (caught \/ seen = n)
    /\ UNCHANGED <<up, cleaner, unremoved, files, faults>>

\* Mutated form of last_write_time.
NoWriteTime(m) ==
    /\ at[m] # NoName
    /\ at' = [at EXCEPT ![m] = NoName]
    /\ undated' = undated \ {at[m]}
    /\ UNCHANGED <<src, backup, up, cleaner, kept, caught, unremoved, files, faults>>

\* Also of a file that has gone.  The file may be there and refuse the new
\* time; then it keeps that of the source, and moveFile returns false.
last_write_time(m) ==
    /\ at[m] # NoName
    /\ at' = [at EXCEPT ![m] = NoName]
    /\ \/ /\ backup' = [backup EXCEPT ![at[m]] = IF @ = None THEN None ELSE 0]
          /\ undated' = undated \ {at[m]}
          /\ UNCHANGED faults
       \/ /\ at[m] \in Present /\ Fault
          /\ UNCHANGED <<backup, undated>>
    /\ UNCHANGED <<src, up, cleaner, kept, caught, unremoved, files>>

-----------------------------------------------------------------------------
(* Backuper::lifeProc. *)

\* Mutated form of Due.
DueWhenAsked == m_registerQueue

\* A registration makes it look at once.
Due == m_registerQueue \/ sinceCheck = 1

Check ==
    /\ up /\ ~ scanning
    /\ Due
    /\ m_registerQueue' = FALSE
    /\ m_backupDirs' = (m_backupDirs \/ m_registerQueue)
    /\ sinceCheck' = 0
    /\ \/ /\ scanning' = m_backupDirs'
          /\ owed' = IF m_backupDirs' THEN Present ELSE {}
          /\ UNCHANGED faults
       \/ Fault /\ UNCHANGED <<scanning, owed>>     \* the directory does not open
    /\ UNCHANGED <<src, backup, at, up, visited, behind, seen, history, files>>

TooOld(n) == backup[n] - behind > m_cleanTime

Look(n) ==
    /\ scanning /\ seen = NoName
    /\ n \in Present \ visited
    /\ visited' = visited \union {n}
    /\ IF n \in Matching /\ TooOld(n)
       THEN seen' = n /\ caught' = (n \in undated)
       ELSE UNCHANGED <<seen, caught>>
    /\ UNCHANGED <<src, backup, at, up, m_registerQueue, m_backupDirs, sinceCheck, scanning,
                   owed, behind, kept, undated, unremoved, files, faults>>

\* last_write_time of a listed file that has gone throws, and nothing
\* catches it on this thread: the program ends.
LookThrows(n) ==
    /\ scanning /\ seen = NoName
    /\ n \in (owed \intersect Matching) \ (visited \union Present)
    /\ UNCHANGED faults
    /\ EndProcess

Remove ==
    /\ seen # NoName
    /\ backup' = [backup EXCEPT ![seen] = None]
    /\ seen' = NoName /\ caught' = FALSE
    /\ UNCHANGED <<src, at, up, m_registerQueue, m_backupDirs, sinceCheck, scanning, owed,
                   visited, behind, kept, undated, unremoved, files, faults>>

\* It is logged, and the loop goes on.
RemoveFails ==
    /\ seen \in Present
    /\ Fault
    /\ unremoved' = unremoved \union {seen}
    /\ seen' = NoName /\ caught' = FALSE
    /\ UNCHANGED <<src, backup, at, up, m_registerQueue, m_backupDirs, sinceCheck, scanning,
                   owed, visited, behind, kept, undated, files>>

\* Mutated form of Listed.
ListedOne == owed \intersect visited # {} \/ owed = {}

\* directory_iterator lists what is there all the time.
Listed == owed \intersect Present \subseteq visited

ScanEnd ==
    /\ scanning /\ seen = NoName
    /\ Listed
    /\ ScanOver
    /\ UNCHANGED <<src, backup, at, up, m_registerQueue, m_backupDirs, sinceCheck,
                   kept, undated, files, faults>>

lifeProc ==
    \/ Check \/ Remove \/ RemoveFails \/ ScanEnd
    \/ \E n \in Names : Look(n) \/ LookThrows(n)

moveFile(m) == last_write_time(m) \/ \E n \in Names : Rename(m, n)

Init ==
    /\ src = {}
    /\ backup = [n \in Names |-> None]
    /\ at = [m \in Movers |-> NoName]
    /\ up = FALSE
    /\ m_registerQueue = FALSE /\ m_backupDirs = FALSE
    /\ sinceCheck = 0
    /\ scanning = FALSE /\ owed = {} /\ visited = {} /\ behind = 0
    /\ seen = NoName /\ caught = FALSE
    /\ kept = [n \in Names |-> 0]
    /\ undated = {} /\ unremoved = {}
    /\ files = 0 /\ faults = 0

Next ==
    \/ Hour \/ Start \/ Crash \/ lifeProc
    \/ \E m \in Movers : moveFile(m)
    \/ \E m \in Movers, n \in Names : Arrive(m, n)
    \/ \E n \in Names : OperatorRemoves(n)

Spec == Init /\ [][Next]_vars

\* Hours pass and the threads run.
FairSpec ==
    /\ Spec
    /\ WF_vars(Hour) /\ WF_vars(lifeProc)
    /\ \A m \in Movers : WF_vars(moveFile(m))

-----------------------------------------------------------------------------
(* Properties. *)

(***************************************************************************)
(* Backuper removes a backup before it was here for m_cleanTime hours only *)
(* when the time of the source was still on it, because it looked between  *)
(* the two steps of moveFile, a crash came between them or the second one  *)
(* failed; or when the file it looked at was replaced before it removed    *)
(* the name.                                                               *)
(***************************************************************************)
FreshKept == seen \in Present /\ ~ caught => kept[seen] > m_cleanTime

(***************************************************************************)
(* A scan that opened the directory and comes to its end leaves no file of *)
(* the registered extension that was there when it began and is too old,   *)
(* unless the file came by a rename whose time was not set (yet), or its   *)
(* removal failed in this scan.                                            *)
(***************************************************************************)
ScanClears ==
    [][ scanning /\ ~ scanning' /\ up' =>
          \A n \in owed \intersect Matching \intersect Present :
             TooOld(n) => n \in undated \union unremoved ]_vars

(***************************************************************************)
(* While a process stays up and no more files arrive, every backup of the  *)
(* registered extension is removed in the end, also one that an earlier    *)
(* process left and one whose time was never set, when directories and     *)
(* removals fail only finitely often.                                      *)
(***************************************************************************)
Cleared == <>[]up => <>[](\A n \in Matching : backup[n] = None)

=============================================================================
