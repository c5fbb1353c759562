------------------------------ MODULE NodeTree ------------------------------
(***************************************************************************)
(* The process as a whole: main with the lock of its pid file, the tree of *)
(* nodes that FlexEtl::init creates, initialises and starts, the watcher   *)
(* thread, which is the last to start and the first to be joined, and the  *)
(* life threads, which the handlers' destructors join.  What a handler     *)
(* does with a file is left to the modules PipeSet, Click2DB, Json2Click.  *)
(***************************************************************************)
EXTENDS Naturals, Sequences, FiniteSets, SequencesExt

CONSTANTS
    Procs, NoProc,      \* starts of the program, also at the same time
    UseLock,            \* -pid_lock
    Nodes, Root, NoNode,
    Sub,                \* Sub[n]: m_subnodes
    Handler,            \* Handler[n]: the handler's name, or "none"
    Configs,            \* configurations: the parameters given to each node
    Dir, NoDir,         \* Dir[n]: "watch", or NoDir
    Files, FileDir,     \* the files and where they are written
    Json,               \* those with the extension .json
    MaxFaults

Pipes == {"pipeset", "pipeline"}
Threaded == {"json2click", "click2db"}

ASSUME ProcAssumption == NoProc \notin Procs /\ UseLock \in BOOLEAN
ASSUME NodeAssumption ==
    /\ Root \in Nodes /\ NoNode \notin Nodes
    /\ Sub \in [Nodes -> Seq(Nodes)]
    /\ Handler \in [Nodes -> Pipes \union Threaded \union {"none"}]
\* Node::create makes a node of every group it finds in the list of another.
ASSUME TreeAssumption ==
    /\ IsFiniteSet(Nodes)
    /\ \E height \in [Nodes -> 0 .. Cardinality(Nodes)] :
          \A n \in Nodes : \A i \in DOMAIN Sub[n] : height[Sub[n][i]] < height[n]
    /\ \A m, n \in Nodes : \A i \in DOMAIN Sub[m], j \in DOMAIN Sub[n] :
          Sub[m][i] = Sub[n][j] => m = n /\ i = j
ASSUME ConfigAssumption == Configs # {}
ASSUME FileAssumption == FileDir \in [Files -> {Dir[n] : n \in Nodes}] /\ Json \subseteq Files
ASSUME BoundAssumption == MaxFaults \in Nat

Dirs == {FileDir[f] : f \in Files} \union {Dir[n] : n \in Nodes}

VARIABLES
    lock,               \* the process that holds the lock of the pid file
    given,              \* the configuration a process was started with
    pc, step, at,       \* main: the phase, the node it is at, and where in it
    stage,              \* of each handler: created, inited, started, gone
    life,               \* nodes whose life thread runs
    stopping,           \* nodes whose destructor has cleared m_run
    spinning,           \* nodes whose life thread never leaves a loop
    watching, m_run,    \* the watcher: its thread, its flag
    m_watchMap,
    events, buffer,     \* what the kernel holds, what read has fetched
    hand,               \* the node and the file a thread is in doProc with
    scanned             \* files the scan of this node has handed on

place == <<given, step, at, scanned>>
tree == <<stage, life, stopping, spinning>>
inotify == <<watching, m_run, m_watchMap, events, buffer>>
mem == <<pc, place, tree, inotify, hand>>

VARIABLES
    file,               \* none, closed, or gone from its directory
    told,               \* pairs of file and node: doProc was called
    heard,              \* files whose closing a process was told of
    faults

world == <<file, told, heard>>
vars == <<lock, mem, world, faults>>

Threads == {"main", "watcher"}
Idle == <<NoNode, NoNode>>

Phases == {"off", "lock", "create", "init", "start", "listen", "wait", "stop", "join",
           "destroy", "ended", "failed"}

TypeOK ==
    /\ lock \in Procs \union {NoProc}
    /\ given \in [Procs -> Configs] /\ pc \in [Procs -> Phases]
    /\ step \in [Procs -> 1 .. Cardinality(Nodes)]
    /\ at \in [Procs -> {"call", "scan", "watch"}]
    /\ stage \in [Procs -> [Nodes -> {"created", "inited", "started", "gone"}]]
    /\ life \in [Procs -> SUBSET Nodes] /\ stopping \in [Procs -> SUBSET Nodes]
    /\ spinning \in [Procs -> SUBSET Nodes]
    /\ watching \in [Procs -> BOOLEAN] /\ m_run \in [Procs -> BOOLEAN]
    /\ m_watchMap \in [Procs -> [Dirs -> Nodes \union {NoNode}]]
    /\ events \in [Procs -> Seq(Files)] /\ buffer \in [Procs -> Seq(Files)]
    /\ \A p \in Procs, t \in Threads : hand[p][t] \in (Nodes \X Files) \union {Idle}
    /\ scanned \in [Procs -> SUBSET Files]
    /\ file \in [Files -> {"none", "closed", "gone"}]
    /\ told \subseteq Files \X Nodes /\ heard \subseteq Files
    /\ faults \in 0 .. MaxFaults

Fault == faults < MaxFaults /\ faults' = faults + 1

Goto(p, phase) == pc' = [pc EXCEPT ![p] = phase]

-----------------------------------------------------------------------------
(* The tree: Node::init and Node::start visit it in this order; ~Node      *)
(* destroys m_subnodes before m_pHandler, which is declared before it.     *)

Preorder[n \in Nodes] == <<n>> \o FlattenSeq([i \in DOMAIN Sub[n] |-> Preorder[Sub[n][i]]])

Postorder[n \in Nodes] == FlattenSeq([i \in DOMAIN Sub[n] |-> Postorder[Sub[n][i]]]) \o <<n>>

Order == Preorder[Root]
Teardown == Postorder[Root]

Node(p) == IF pc[p] = "destroy" THEN Teardown[step[p]] ELSE Order[step[p]]

\* Mutated form of HasNext.
HasOneMore(p) == step[p] <= Len(Order)

HasNext(p) == step[p] < Len(Order)

\* On to the next node, or from the last one to the next phase.
Advance(p, phase) ==
    /\ at' = [at EXCEPT ![p] = "call"]
    /\ scanned' = [scanned EXCEPT ![p] = {}]
    /\ IF HasNext(p)
       THEN step' = [step EXCEPT ![p] = @ + 1] /\ UNCHANGED pc
       ELSE step' = [step EXCEPT ![p] = 1] /\ Goto(p, phase)

Required(n) ==
    CASE Handler[n] = "json2click" -> {"watch", "output", "failed"}
      [] Handler[n] = "click2db" -> {"host", "user", "pass", "table", "tosend"}
      [] Handler[n] \in Pipes -> {"watch"}
      [] OTHER -> {}

\* The parameters that init and start insist on: a pipe asks at its start.
Asked(phase, n) == IF (phase = "start") = (Handler[n] \in Pipes) THEN Required(n) ELSE {}

\* A node, and one below it or itself.
Below == UNION {{<<n, m>> : m \in Range(Preorder[n])} : n \in Nodes}

\* A node, and one that a call of its doProc may come to: the nodes between
\* the two are pipes.
Calls ==
    LET below == Below IN
    {c \in below : \A a \in Nodes \ {c[2]} :
        <<c[1], a>> \in below /\ <<a, c[2]>> \in below => Handler[a] \in Pipes}

Callees(n) == {m \in Nodes : <<n, m>> \in Calls}

\* The calls go in the order of the walk, and the first that returns false
\* is the last: every pipe above it ends too.
CalledBy(n, k) == {Order[i] : i \in 1 .. k} \intersect Callees(n)

HasPipeset(S) == \E m \in S : Handler[m] = "pipeset"

\* A pipeset below n was called and has removed the file before the k-th
\* node is called.
PipesetBefore(n, k) == HasPipeset({m \in CalledBy(n, k) \ {n} : <<m, Order[k]>> \notin Below})

\* A pipeset passes over a sub-node without handler, a pipeline returns false.
DeadEnd(m) ==
    Handler[m] = "none" /\ \E a \in Nodes : Handler[a] = "pipeline" /\ m \in Range(Sub[a])

\* The call of the k-th node returns false whatever happens: no copy is made
\* of a file that has gone.
Refuses(n, k) ==
    DeadEnd(Order[k]) \/ (Handler[Order[k]] = "click2db" /\ PipesetBefore(n, k))

\* The extension given to addWatch.
Wanted(n, f) == Handler[n] = "json2click" => f \in Json

Lying(d) == {f \in Files : file[f] = "closed" /\ FileDir[f] = d}

-----------------------------------------------------------------------------
(* main and FlexEtl::init. *)

Launch(p) ==
    /\ pc[p] = "off"
    /\ Goto(p, "lock")
    /\ \E c \in Configs : given' = [given EXCEPT ![p] = c]
    /\ UNCHANGED <<lock, step, at, tree, inotify, hand, scanned, world, faults>>

\* Mutated form of LockFree.
LockUnseen(p) == TRUE

LockFree(p) == UseLock => lock = NoProc

PidLock(p) ==
    /\ pc[p] = "lock"
    /\ IF LockFree(p)
       THEN lock' = (IF UseLock THEN p ELSE lock) /\ Goto(p, "create")
       ELSE Goto(p, "failed") /\ UNCHANGED lock
    /\ UNCHANGED <<place, tree, inotify, hand, world, faults>>

\* FlexEtl::init up to create: the file is read, and the handlers are made
\* if their names are known.  Without metricsHost the port is cleared and
\* converted to a number all the same, which throws.
create(p) ==
    /\ pc[p] = "create"
    /\ \/ "metricsHost" \in given[p][Root] /\ Goto(p, "init") /\ UNCHANGED faults
       \/ "metricsHost" \notin given[p][Root] /\ Goto(p, "failed") /\ UNCHANGED faults
       \/ Fault /\ Goto(p, "failed")
    /\ UNCHANGED <<lock, place, tree, inotify, hand, world>>

\* Json2Click::init puts the .json files it finds into its queue.
init(p) ==
    /\ pc[p] = "init" /\ at[p] = "call"
    /\ LET n == Node(p) IN
       /\ Asked("init", n) \subseteq given[p][n]
       /\ stage' = [stage EXCEPT ![p][n] = "inited"]
       /\ IF Handler[n] = "json2click"
          THEN /\ at' = [at EXCEPT ![p] = "watch"]
               /\ told' = told \union {<<f, n>> : f \in Lying(Dir[n]) \intersect Json}
               /\ UNCHANGED <<pc, step, scanned>>
          ELSE Advance(p, "start") /\ UNCHANGED told
    /\ UNCHANGED <<lock, given, life, stopping, spinning, inotify, hand, file, heard, faults>>

start(p) ==
    /\ pc[p] = "start" /\ at[p] = "call"
    /\ LET n == Node(p) IN
       /\ Asked("start", n) \subseteq given[p][n]
       /\ stage' = [stage EXCEPT ![p][n] = "started"]
       /\ life' = [life EXCEPT ![p] = IF Handler[n] \in Threaded THEN @ \union {n} ELSE @]
       /\ IF Handler[n] \in Pipes
          THEN at' = [at EXCEPT ![p] = "scan"] /\ UNCHANGED <<pc, step, scanned>>
          ELSE Advance(p, "listen")
    /\ UNCHANGED <<lock, given, stopping, spinning, inotify, hand, world, faults>>

\* A parameter is missing, or a directory cannot be made or read.
Fails(p) ==
    /\ pc[p] \in {"init", "start"} /\ at[p] = "call"
    /\ LET n == Node(p) IN
       \/ ~ Asked(pc[p], n) \subseteq given[p][n] /\ UNCHANGED faults
       \/ (pc[p] = "init" \/ Handler[n] \in Pipes) /\ Fault
    /\ Goto(p, "failed")
    /\ UNCHANGED <<lock, place, tree, inotify, hand, world>>

ScanFile(p, f) ==
    /\ at[p] = "scan" /\ hand[p]["main"] = Idle
    /\ f \in Lying(Dir[Node(p)]) \ scanned[p]
    /\ scanned' = [scanned EXCEPT ![p] = @ \union {f}]
    /\ hand' = [hand EXCEPT ![p]["main"] = <<Node(p), f>>]
    /\ UNCHANGED <<lock, given, pc, step, at, tree, inotify, world, faults>>

ScanDone(p) ==
    /\ at[p] = "scan" /\ hand[p]["main"] = Idle
    /\ Lying(Dir[Node(p)]) \subseteq scanned[p]
    /\ at' = [at EXCEPT ![p] = "watch"]
    /\ UNCHANGED <<lock, given, pc, step, tree, inotify, hand, scanned, world, faults>>

\* inotify_add_watch gives the same descriptor for the same directory, and
\* the entry of the map is overwritten.
addWatch(map, n) == [map EXCEPT ![Dir[n]] = n]

watch(p) ==
    /\ at[p] = "watch"
    /\ m_watchMap' = [m_watchMap EXCEPT ![p] = addWatch(@, Node(p))]
    /\ Advance(p, IF pc[p] = "init" THEN "start" ELSE "listen")
    /\ UNCHANGED <<lock, given, tree, watching, m_run, events, buffer, hand, world, faults>>

\* FlexEtl::start, after the whole tree was started.
Listens(p) == pc[p] = "listen"

WatcherStart(p) ==
    /\ Listens(p)
    /\ watching' = [watching EXCEPT ![p] = TRUE]
    /\ m_run' = [m_run EXCEPT ![p] = TRUE]
    /\ Goto(p, "wait")
    /\ UNCHANGED <<lock, place, tree, m_watchMap, events, buffer, hand, world, faults>>

-----------------------------------------------------------------------------
(* The end: SIGTERM in sigwait, then ~FlexEtl, ~PidFile. *)

Sigterm(p) ==
    /\ pc[p] = "wait"
    /\ Goto(p, "stop")
    /\ UNCHANGED <<lock, place, tree, inotify, hand, world, faults>>

\* Mutated form of StopWatcher.
JoinUnasked(p) ==
    /\ pc[p] = "stop"
    /\ Goto(p, "join")
    /\ UNCHANGED <<lock, place, tree, inotify, hand, world, faults>>

\* m_watcher is declared after m_rootNode, so it is destroyed before it.
StopWatcher(p) ==
    /\ pc[p] = "stop"
    /\ m_run' = [m_run EXCEPT ![p] = FALSE]
    /\ Goto(p, "join")
    /\ UNCHANGED <<lock, place, tree, watching, m_watchMap, events, buffer, hand, world,
                   faults>>

\* Mutated form of Joined.
NotJoined(p) == TRUE

Joined(p) == ~ watching[p]

JoinWatcher(p) ==
    /\ pc[p] = "join"
    /\ Joined(p)
    /\ Goto(p, "destroy")
    /\ UNCHANGED <<lock, place, tree, inotify, hand, world, faults>>

\* The destructor of Json2Click and Click2DB clears m_run ...
StopLife(p) ==
    /\ pc[p] = "destroy"
    /\ Node(p) \in life[p] \ stopping[p]
    /\ stopping' = [stopping EXCEPT ![p] = @ \union {Node(p)}]
    /\ UNCHANGED <<lock, place, pc, stage, life, spinning, inotify, hand, world, faults>>

\* ... and joins the thread.
MayDestroy(p) == Node(p) \notin life[p]

Destroy(p) ==
    /\ pc[p] = "destroy"
    /\ MayDestroy(p)
    /\ stage' = [stage EXCEPT ![p][Node(p)] = "gone"]
    /\ Advance(p, "ended")
    /\ UNCHANGED <<lock, given, life, stopping, spinning, inotify, hand, world, faults>>

Reset(p) ==
    /\ Goto(p, "off")
    /\ lock' = IF lock = p THEN NoProc ELSE lock
    /\ step' = [step EXCEPT ![p] = 1] /\ at' = [at EXCEPT ![p] = "call"]
    /\ stage' = [stage EXCEPT ![p] = [n \in Nodes |-> "created"]]
    /\ life' = [life EXCEPT ![p] = {}] /\ stopping' = [stopping EXCEPT ![p] = {}]
    /\ spinning' = [spinning EXCEPT ![p] = {}]
    /\ watching' = [watching EXCEPT ![p] = FALSE] /\ m_run' = [m_run EXCEPT ![p] = FALSE]
    /\ m_watchMap' = [m_watchMap EXCEPT ![p] = [d \in Dirs |-> NoNode]]
    /\ events' = [events EXCEPT ![p] = << >>] /\ buffer' = [buffer EXCEPT ![p] = << >>]
    /\ hand' = [hand EXCEPT ![p] = [t \in Threads |-> Idle]]
    /\ scanned' = [scanned EXCEPT ![p] = {}]
    /\ heard' = heard \ (Range(events[p]) \union Range(buffer[p]))
    /\ UNCHANGED <<given, file, told>>

\* return from main, or exit(EXIT_FAILURE), which destroys nothing.
Exit(p) == pc[p] \in {"ended", "failed"} /\ Reset(p) /\ UNCHANGED faults

\* A crash; or a SIGTERM while main is not in sigwait: the other threads
\* were started before the mask was set and have the default action.
Killed(p) == pc[p] # "off" /\ Fault /\ Reset(p)

-----------------------------------------------------------------------------
(* Writers, the watcher thread, doProc and the life threads. *)

Close(f) ==
    /\ file[f] = "none"
    /\ file' = [file EXCEPT ![f] = "closed"]
    /\ LET listening == {p \in Procs : m_watchMap[p][FileDir[f]] # NoNode} IN
       /\ events' = [p \in Procs |-> IF p \in listening THEN Append(events[p], f) ELSE events[p]]
       /\ heard' = IF listening # {} THEN heard \union {f} ELSE heard
    /\ UNCHANGED <<lock, place, pc, tree, watching, m_run, m_watchMap, buffer, hand, told,
                   faults>>

\* The flag is looked at before each read, not for each event.
Read(p) ==
    /\ watching[p] /\ m_run[p]
    /\ buffer[p] = << >> /\ hand[p]["watcher"] = Idle
    /\ events[p] # << >>
    /\ buffer' = [buffer EXCEPT ![p] = events[p]]
    /\ events' = [events EXCEPT ![p] = << >>]
    /\ UNCHANGED <<lock, place, pc, tree, watching, m_run, m_watchMap, hand, world, faults>>

\* Mutated form of Rest.
RestDropped(b) == << >>

\* The loop over the buffer goes on behind this event.
Rest(b) == Tail(b)

OnEvent(p) ==
    /\ buffer[p] # << >> /\ hand[p]["watcher"] = Idle
    /\ buffer' = [buffer EXCEPT ![p] = Rest(@)]
    /\ LET f == Head(buffer[p])
           n == m_watchMap[p][FileDir[f]]
       IN  hand' = IF Wanted(n, f) THEN [hand EXCEPT ![p]["watcher"] = <<n, f>>] ELSE hand
    /\ UNCHANGED <<lock, place, pc, tree, watching, m_run, m_watchMap, events, world, faults>>

WatcherExit(p) ==
    /\ watching[p] /\ ~ m_run[p]
    /\ buffer[p] = << >> /\ hand[p]["watcher"] = Idle
    /\ watching' = [watching EXCEPT ![p] = FALSE]
    /\ UNCHANGED <<lock, place, pc, tree, m_run, m_watchMap, events, buffer, hand, world,
                   faults>>

\* poll or read fails: the thread leaves its loop with m_run as it is, and
\* the process goes on without it.
WatcherFails(p) ==
    /\ watching[p]
    /\ buffer[p] = << >> /\ hand[p]["watcher"] = Idle
    /\ Fault
    /\ watching' = [watching EXCEPT ![p] = FALSE]
    /\ UNCHANGED <<lock, place, pc, tree, m_run, m_watchMap, events, buffer, hand, world>>

\* The end of doProc of n, and of all those it has called, at any depth: all
\* there are, or as far as the first that returned false.  A pipeset removes
\* the file whatever its sub-nodes said.
Return(p, t) ==
    /\ hand[p][t] # Idle
    /\ LET n == hand[p][t][1]
           f == hand[p][t][2]
       IN  \E k \in {i \in DOMAIN Order : Order[i] \in Callees(n)} :
             LET called == CalledBy(n, k) IN
             /\ \A i \in 1 .. k - 1 : Order[i] \in Callees(n) => ~ Refuses(n, i)
             /\ \/ (Callees(n) \subseteq called \/ Refuses(n, k)) /\ UNCHANGED faults
                \/ /\ ~ Callees(n) \subseteq called /\ Handler[Order[k]] = "click2db"
                   /\ Fault \/ (file[f] = "gone" /\ UNCHANGED faults)
             /\ told' = told \union {<<f, m>> : m \in {m \in called : Handler[m] # "none"}}
             /\ file' = IF HasPipeset(called) THEN [file EXCEPT ![f] = "gone"] ELSE file
    /\ hand' = [hand EXCEPT ![p][t] = Idle]
    /\ UNCHANGED <<lock, place, pc, tree, inotify, heard>>

\* The life thread of a Json2Click moves a file of its queue away.
LifeTakes(p, n, f) ==
    /\ n \in life[p] \ spinning[p] /\ Handler[n] = "json2click"
    /\ <<f, n>> \in told /\ file[f] = "closed"
    /\ file' = [file EXCEPT ![f] = "gone"]
    /\ UNCHANGED <<lock, mem, told, heard, faults>>

\* A read error in a file: fgets returns 0 and feof stays false for ever.
LifeSpins(p, n, f) ==
    /\ n \in life[p] \ spinning[p] /\ Handler[n] = "json2click"
    /\ <<f, n>> \in told /\ file[f] = "closed"
    /\ Fault
    /\ spinning' = [spinning EXCEPT ![p] = @ \union {n}]
    /\ UNCHANGED <<lock, place, pc, stage, life, stopping, inotify, hand, world>>

LifeExit(p, n) ==
    /\ n \in (life[p] \intersect stopping[p]) \ spinning[p]
    /\ life' = [life EXCEPT ![p] = @ \ {n}]
    /\ UNCHANGED <<lock, place, pc, stage, stopping, spinning, inotify, hand, world, faults>>

Main(p) ==
    \/ PidLock(p) \/ create(p) \/ init(p) \/ start(p) \/ Fails(p)
    \/ (\E f \in Files : ScanFile(p, f)) \/ ScanDone(p) \/ watch(p) \/ WatcherStart(p)
    \/ StopWatcher(p) \/ JoinWatcher(p) \/ StopLife(p) \/ Destroy(p) \/ Exit(p)
    \/ Return(p, "main")

lifeProc(p) == Read(p) \/ OnEvent(p) \/ WatcherExit(p) \/ Return(p, "watcher")

Init ==
    /\ lock = NoProc
    /\ given = [p \in Procs |-> CHOOSE c \in Configs : TRUE]
    /\ pc = [p \in Procs |-> "off"]
    /\ step = [p \in Procs |-> 1] /\ at = [p \in Procs |-> "call"]
    /\ stage = [p \in Procs |-> [n \in Nodes |-> "created"]]
    /\ life = [p \in Procs |-> {}] /\ stopping = [p \in Procs |-> {}]
    /\ spinning = [p \in Procs |-> {}]
    /\ watching = [p \in Procs |-> FALSE] /\ m_run = [p \in Procs |-> FALSE]
    /\ m_watchMap = [p \in Procs |-> [d \in Dirs |-> NoNode]]
    /\ events = [p \in Procs |-> << >>] /\ buffer = [p \in Procs |-> << >>]
    /\ hand = [p \in Procs |-> [t \in Threads |-> Idle]]
    /\ scanned = [p \in Procs |-> {}]
    /\ file = [f \in Files |-> "none"]
    /\ told = {} /\ heard = {}
    /\ faults = 0

Next ==
    \/ \E p \in Procs :
         Launch(p) \/ Sigterm(p) \/ Killed(p) \/ Main(p) \/ lifeProc(p) \/ WatcherFails(p)
    \/ \E p \in Procs, n \in Nodes :
         LifeExit(p, n) \/ \E f \in Files : LifeTakes(p, n, f) \/ LifeSpins(p, n, f)
    \/ \E f \in Files : Close(f)

Spec == Init /\ [][Next]_vars

\* The scheduler runs every thread.
FairSpec ==
    /\ Spec
    /\ \A p \in Procs :
         /\ WF_vars(Main(p)) /\ WF_vars(lifeProc(p))
         /\ \A n \in Nodes : WF_vars(LifeExit(p, n))

-----------------------------------------------------------------------------
(* Properties. *)

Works(p) == watching[p] \/ life[p] # {} \/ \E t \in Threads : hand[p][t] # Idle

(***************************************************************************)
(* With -pid_lock two processes never work at the same time, also when one *)
(* starts while the other is going down: pidFile is destroyed after        *)
(* flexEtl, whose threads have ended by then.                              *)
(***************************************************************************)
OneProcess == UseLock => \A p, q \in Procs : Works(p) /\ Works(q) => p = q

(***************************************************************************)
(* doProc of a process's handlers is run by one thread at a time: the scan *)
(* of PipeBase::start by main, everything else by the watcher.  The        *)
(* handlers rely on it; none has a lock.                                   *)
(***************************************************************************)
OneCaller ==
    \A p \in Procs : hand[p]["main"] = Idle \/ hand[p]["watcher"] = Idle

(***************************************************************************)
(* A handler whose doProc runs, and the nodes below it that it may call,   *)
(* pipes of pipes included, were initialised and are not destroyed: a scan *)
(* may call a destination whose thread has not started, and the watcher is *)
(* joined before the tree goes.                                            *)
(***************************************************************************)
CalleesReady ==
    \A p \in Procs, t \in Threads : hand[p][t] # Idle =>
        \A m \in Callees(hand[p][t][1]) : stage[p][m] \in {"inited", "started"}

(***************************************************************************)
(* Handlers without locks are safe to call: one caller at a time, and only *)
(* while they and what they call are there.                                *)
(***************************************************************************)
CallsAreSafe == OneCaller /\ CalleesReady

Alone(n) == \A m \in Nodes \ {n} : Dir[m] # Dir[n] \/ Dir[m] = NoDir

(***************************************************************************)
(* A file whose closing was heard by a process that stays up, with its     *)
(* watcher thread, reaches the node that watches its directory, when no    *)
(* other node watches the same.                                            *)
(***************************************************************************)
HeardIsTold ==
    \A p \in Procs : <>[](pc[p] = "wait" /\ watching[p]) =>
        \A f \in Files, n \in Nodes :
            Dir[n] = FileDir[f] /\ Alone(n) /\ Wanted(n, f) =>
                (f \in heard ~> <<f, n>> \in told \/ f \notin heard)

(***************************************************************************)
(* README l.14, "Graceful shutdown": after the signal the process ends,    *)
(* unless the life thread of a Json2Click met a read error (json2click.cpp *)
(* l.288-292): it spins, and the destructor's join never returns.          *)
(***************************************************************************)
Ends == \A p \in Procs : pc[p] = "stop" ~> pc[p] = "off" \/ spinning[p] # {}

=============================================================================
