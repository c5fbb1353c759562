# FlexETL: TLA+ models, checks and proofs

FlexETL is a daemon that turns files of JSON lines into ClickHouse inserts. It is built from
nodes named in a configuration file: `json2click` reads `.json` files into a table in memory
and saves it as `.cdb` files; `pipeset` watches a directory of `.cdb` files and copies each to
all of its destinations; a `click2db` destination keeps its own directory of files to send and
inserts them into one table. Nothing but the file system connects the nodes, so what the
program promises is a promise about files: none is forgotten, none is inserted twice without
need, and what is inserted is what was read. Beside them run `Backuper`, which deletes old
backups, and `stem::metrics`, which reports counters to a Graphite server.

This directory holds the TLA+ modules of the program's core, the TLC configurations that check
them on small instances, and proofs for TLAPS. Paths below are relative to `src/src/flexetl/`
unless they begin with `src/`. `PROJECT.json` lists components, runs, mutants, hazards and
theorems, and maps every definition to its lines.

    tlc -config MCClick2DB.cfg MCClick2DB       # one run; each .cfg belongs to the MC module its name begins with
    tlapm Click2DBProofs.tla                    # the proofs

## 1. Inventory

| Component | State | Operations | Talks to |
|---|---|---|---|
| Click2DB (`click2db.cpp`) | `m_run`, `m_pClickDB`, `m_tblType`, the queue of (tries, name), directories `tosend`, `failed`, `badfiles` | `init` (scan of `tosend`), `start`, `doProc` (copy, enqueue), `lifeProc` (connect, ping, describe, dequeue, load, fill, insert, move), destructor | called by PipeSet; ClickHouse client; `Node::moveFile` |
| PipeSet, PipeBase (`pipeset.cpp`, `pipebase.cpp`) | the watched directory; no memory between two files | `start` (scan, then watch), `doProc` | called by Watcher; calls `doProc` of each destination |
| Watcher (`watcher.cpp`) | the inotify descriptor, a map from watch to callback, its thread | `addWatch`, `start`, `lifeProc` | calls `doProc` of the watching node |
| ClickTable (`clicktbl.h`, `clicktbl.cpp`) | `m_tbl`, `m_rowCount` | `append`, `finishAppend`, `flushTbl`, `save`, `load` | MyHandler, Json2Click, Click2DB |
| MyHandler (`json2click.cpp`) | `m_key`, `m_objectCounter`, `m_fillArray`, `m_arrayData`, for one line | the callbacks of rapidjson's SAX reader, `checkKey` | appends to ClickTable |
| Json2Click (`json2click.cpp`) | queue of `.json` files, the table, `m_saveTime`, `m_saveCounter` | `init` (scan, watch), `start`, `doProc`, `lifeProc`, `dump`, destructor | Watcher; writes the directory a PipeSet watches |
| Value conversions (`clicktbl.inl`, `click2db.cpp` 250-470) | none | value to column of a ClickHouse type | Click2DB |
| Node tree (`nodes.cpp`, `flexetl.cpp`) | tree of nodes and handlers | `create`, `init`, `start`, `watch`, `moveFile`; destruction | everything |
| PipeLine (`pipeline.cpp`) | none | `doProc`: each sub-node until one fails | undocumented variant of PipeSet |
| Backuper (`backuper.cpp`) | map of directories and extensions, queue of registrations | `addBackupDir`, hourly clean-up thread | deletes old files of backup directories |
| Metrics (`src/src/stem/metrics/metrics.cpp`) | counters, send queue, socket | counters, aggregation thread, sending thread | a Graphite server; nobody reads it back |
| Process (`main.cpp`, `src/src/stem/pid_file.h`) | pid file lock | start, wait for SIGTERM or SIGINT, orderly destruction | |

How they interact. The main thread creates the tree, calls `init` on all nodes and then `start`
on all nodes; `PipeBase::start` hands every file already in the directory to `doProc` before it
adds its watch. Only then does the watcher thread start. From there on `doProc` runs on the
watcher thread, one file at a time, while every Click2DB and Json2Click runs its own life
thread; a queue (`moodycamel::BlockingConcurrentQueue`) lies between the two. That queue is
FIFO for each producer only, so the main thread, the watcher and the life thread (which
enqueues retries) have queues of their own.

What is hard, and what makes each component correct:

* **Click2DB.** Five things can go wrong under the thread's feet: the server leaves, an answer
  is lost, the table is altered, a move or copy fails, the process ends. Correct means: each
  file in `tosend` is known to exactly one place of the process (queue, thread, copy under
  way) or was stranded by a failed step; the client and the description exist where they are
  dereferenced; a second insert has an excuse; a complete file leaves `tosend` only inserted or
  into `failed` or `badfiles`; the queue drains; the destructor's `join` returns.
* **PipeSet.** A sequential copy to many destinations, with a source that is removed at the end
  and may be written meanwhile, over restarts. Correct means: a destination goes without a
  file only for a recorded cause; no destination gets a file twice; a file that was announced
  is handled.
* **ClickTable and MyHandler.** A column-wise table filled by callbacks of a parser that may stop
  anywhere. Correct means: the table is rectangular between lines, a refused line leaves
  nothing, an accepted line is its row, earlier rows stay.
* **Json2Click.** Rows live in memory after their file was moved away. Correct means: rows are
  conserved over saves, moves and a graceful restart; no row is saved twice; output files are
  not overwritten; the last dump is made.
* **Value conversions.** Rows of one column may hold values of any type. Correct means: what
  `load` returns is what `save` was given or nothing, and what is sent is what was loaded.
* **Node tree, process, watcher.** Threads are started in the middle of the start of the tree and
  joined in its destruction. Correct means: a `doProc` runs only on handlers that were
  initialised and are not destroyed, by one thread at a time; two processes never work at once.
* **Backuper.** Its thread looks through a directory other threads move files into. Correct
  means: old backups go, fresh ones stay.
* **Metrics.** Counters are increased while they are taken and reset, reports are queued again
  when the socket breaks. Correct means: nothing counted is lost or reported twice, and a
  minute is reported once.

## 2. Modules

| Module | Models |
|---|---|
| `Outbox` | the abstract promise of a destination: begin and end of a copy, insert, remove, park, reject |
| `Click2DB` | one destination, its process, its server; `KeepsPromise` is the refinement of `Outbox` |
| `PipeSet` | watched directory, inotify queue, start-up scan, `PipeSet::doProc`, restarts |
| `ClickTable` | the table in memory, as operators and two variables |
| `MyHandler` | EXTENDS `ClickTable`: the parser (external), the handler and the end of each line |
| `Json2Click` | queue, reading loop, `dump`, `save`, move, restarts, the local clock |
| `Conversion` | getters of `Value`, `column2ClickColumn`, nullable and array columns, as operators |
| `CdbFile` | EXTENDS `Conversion`: `save`, a cut file, `load` item by item, `fillTable`, the checks of `sendTable` |
| `NodeTree` | processes over the pid lock; `create`, `init`, `start`, the scans, the watcher, PipeLine, the destructors |
| `Backup` | `Node::moveFile` of several threads against the thread of Backuper |
| `Metrics` | connecting and counting, `agregateProc`, `sendProc`, the socket and the server |
| `Click2DBProofs`, `PipeSetProofs`, `Json2ClickProofs`, `MyHandlerProofs`, `CdbFileProofs`, `NodeTreeProofs`, `BackupProofs`, `MetricsProofs` | theorems about the module of that name |
| `MC...` | the small instances for TLC |

`Click2DB`, `PipeSet`, `Json2Click` and `Backup` meet at directories only, and each models the other
side of its directory as an environment: DestTakes of `PipeSet` takes files as `Click2DB` does,
its WriteStart creates a name or comes over a closed one, as the `fopen` of `Json2Click`'s save
does, Take of `Json2Click` takes files as `PipeSet` does, Rename and last_write_time of `Backup`
are the moves of `Click2DB` and `Json2Click`. Two limits of these environments: a name has one
writer at a time, and a `.json` name is written again only when it has left the directory.
`NodeTree` keeps the handlers' work to a pair of steps and models who calls whom, when, and on
which thread.

### Click2DB

`pc` is the place in `lifeProc`: `top` is the head of the loop with `tryConnect`, then `ping`,
`describe`, `dequeue`, `load` (which also fills the block), `redescribe` (an unknown column
name), `insert`, and the three calls of `moveFile`: `remove`, `park`, `reject`. `off` is no
process, `init` lies between `init` and `start`. Each action is one step between two places at
which another thread, the server or a crash can interfere. Boot is `init`'s scan; `doProc` is
split into CopyStart, CopyEnd or CopyFails, and EnqueueOffer, because the file is visible in
`tosend` before it is in the queue. `m_pClickDB` is "stale" when the client object exists and
its connection is gone. `block` holds the columns about to be sent; the rows are one unit, since
a ClickHouse insert of one block is. The server is external: it can go and come back, be altered,
refuse an insert, or store the rows and lose its answer.

History variables: `sent` (the table has the current copy), `excused` (the answer was lost, or
the process ended with the file sent and not removed), `stranded` (left by a failed step of
the running process), `steady` (columns the table kept since the dequeue).

### PipeSet

`proc` goes off, scan, listen (watch added, thread not started), run, and maybe deaf: an error of
poll or read has ended the watcher thread and the process goes on without it. `src[f]` is the file in
the watched directory; "unlinked" is a file removed while its writer has it open. `events` is the
kernel's queue with its limit. `doProc` is one step for each call, copy start, copy end and the
removal. `box[d]` is the directory `tosend` of destination `d`, and DestTakes stands for all
that Click2DB may do to a file it knows of. A writer may take the name `doProc` is at, before the
copy, during it, or when the file is gone and the event was a stale one; the new file is then cut,
or removed by the unlink that was due to the old one. A name that is taken refuses the copy, as
`copy_file` without overwrite does. History: who got what (`delivered`), which copies failed
(`refused`), what met a crash (`hit`), an open writer (`cut`), `doProc` at its name (`met`), or a
failed step (`again`).

### ClickTable and MyHandler

The parser of rapidjson is a stack and what the grammar allows next; it may report an error
before any call, and it stops when `checkKey` throws. The state of the handler is the code's own
four members. `given` is what an independent reading of the line says its outermost object
holds, `plain` whether it is, so far, an object of scalars and flat arrays, `before` the table
at the beginning of the line. `Accept` is `finishAppend(true)`, `ParseError` and
`checkKeyThrows` are `finishAppend(false)`.

### Json2Click

A row is a name, a content and a line number: `gen` counts how often a name was written, since one
that was moved away may come again with other lines. `dumpLine`, `tail` and `last` are the three calls of
`dump`: after a line when `blockSize` is set, at the end of a turn when `delay` is set, and
forced after the loop. Without both, SaveFile writes one `.cdb` file for each `.json` file. Output
names are the second of the save and a counter, or the name of the input file. `Save` comes over
what lies under its name and empties the table also when it fails; what it came over, if it was the
output of an earlier content of the name, of an earlier process, or from before the clock was set
back, is in `overwritten`. It fails in two ways: `fopen` reports it, a full disk is not noticed and
leaves a file `load` refuses. The clock is local time, so SetBack may take it back.

### Conversion and CdbFile

A file is the sequence of the items `save` writes one by one; nothing looks at what `fwrite`
returns, so any prefix may be what lies on the disk. Each step of `load` is one read of the
reader, and an `assert` that fails throws and empties the table. Values are told apart by
identity, with what the getters make of them given as functions; `CutName` and `CutString` cut at
the first zero byte, as `load` does. `Outcome` tells whether a column is converted, throws (and is
left out), or reads through a null pointer. The types are one unsigned and one signed width,
String, Enum8, an unsupported type, and their nullable and array forms; the other widths, floats,
dates and UUID repeat these cases with other arithmetic.

### NodeTree

`Preorder` is the order in which `init` and `start` visit the tree, `Postorder` the order of the
destructors: a node's handler is declared before its sub-nodes and so destroyed after them.
`pc` is main's phase, `step` the node it is at, `at` where in that node's call it is, since a
pipe's `start` scans a directory and calls `doProc` of its sub-nodes on the main thread. The
map of watches holds one node for each directory. `hand` is the `doProc` each of the two calling
threads is in. `Callees` are the nodes such a call may come to: everything below the node that has
only pipes in between. Return is the end of the whole call: it went through the callees in the order
of the walk, as far as the first that returned false, and each pipeset it came to has removed the
file, so that a destination behind one refuses. WatcherFails is the end of the watcher thread on an
error, LifeSpins the life thread that a read error keeps for ever. The watcher looks at `m_run` before it reads, not for each event of its buffer.

### Backup

Ages in hours stand for the times of last write; an hour ages every file. A file is renamed into
the directory with whatever age it had and dated to 0 in a second step, which may fail with the
file there and leave the old time. Backuper's iteration
owes a visit to what was there when it began and may or may not meet what comes later. Files
vanish under it when an operator removes them, and then `last_write_time` throws on a thread where
nothing catches it: the process ends. A directory that does not open costs the scan, a removal that
fails leaves its file; both are logged and the thread goes on.

### Metrics

`agregateProc` takes one counter in each step while handlers go on counting; the mutex it holds
keeps only `connect` out. The queue is one queue for each thread that enqueues, and try_dequeue
picks the longer. A write to a connection the server has left succeeds once ("broken") and fails
from then on ("reset"). `got` is what was written to the socket.

## 3. Runs

| Run | Configuration | Bounds | Shows |
|---|---|---|---|
| click2db | MCClick2DB.cfg | 2 files, 2 columns, 3 table descriptions, 3 disturbances, 2 process lives, 2 offers (736,802 states) | ConnectedAtWork, QueueIsSound, NothingForgotten, NoFreshColumnDropped, FewFaultsParkNothing, DuplicatesExplained; refinement of `Outbox`; Drains, ShutdownCompletes |
| click2db_watches | MCClick2DBWatches.cfg | 1 disturbance, 1 life | violation: finding 1 |
| pipeset | MCPipeSet.cfg | 2 files, 2 destinations, kernel queue of 1, 2 writes, 2 lives, 1 failed step (1,663,287 states) | LossExplained, ServedInOrder, NoSecondCopy; HeardIsHandled |
| pipeset_gap | MCPipeSetGap.cfg | no failures | violation: finding 2 |
| pipeset_others | MCPipeSetOthers.cfg | 1 failed step | violation: finding 3 |
| handler | MCMyHandler.cfg | 3 names (one empty), 1 scalar and null, 2 lines of up to 8 calls | Rectangular, EarlierRowsKept, BadLineUndone, PlainLineIsRow |
| json2click | MCJson2Click.cfg | 2 names, one of which comes again; 4 lines, one bad; blocks of 2 with a delay of 1 s, blocks of 1, or one output per file; a clock of 2 s; 2 lives, 1 failed step (8,787,639 states) | RowsAccounted, NoRowTwice, BlockBound, OutputKept |
| json2click_live | MCJson2ClickLive.cfg | the same files and batches, 1 life, 1 failed step (1,309,097 states) | QueuedIsRead, ShutdownSaves |
| nodes | MCNodeTree.cfg | 2 processes, 7 nodes of all four handlers with a pipeset under a pipeline, 4 configurations, 2 files, 1 fault (214,644 states) | TypeOK, OneProcess, CallsAreSafe; HeardIsTold, Ends |
| backup | MCBackup.cfg | 2 names of which 1 registered, 2 movers, 3 files, cleaning after 1 hour, 1 fault (532,991 states) | FreshKept, ScanClears; Cleared |
| metrics | MCMetrics.cfg | 3 counters of 2 names, each counted once, 3 minutes, 1 fault (522,814 states) | TypeOK, CountedOnce, MinutesInOrder; Reported, JoinReturns |
| values | MCCdbFile.cfg | tables of up to 3 columns and 2 rows from 12 values, two of the names equal up to a zero byte; 12 combinations of types, cut at every item (450,708 states) | WholeOrNothing, LoadedIsSaved, RowsArrive, FailuresExplained |

Why the bounds are enough for the interesting cases. Two files are needed for one to overtake or
collide with another; two offers or writes of one name take it a second time, after its first copy
has left. Two lives give a crash or shutdown, and the recovery after it. Three disturbances are
as many as park a file. Two destinations tell the first from a later one; the kernel queue of one
drops an event as soon as two files are closed together. Eight parser calls make a line with two
members, an array and a duplicate or nested member; a second line meets the columns the first has
left. Three good lines fill a block of two and leave a rest, and two seconds let two saves fall into one second
or into two. Two counters of one name share a cell; three minutes let one report wait while two
others pass it. An age of one hour beyond the limit, with a scan that lasts into the next hour,
is all Backuper's comparison tells apart. TLC evaluates the same assumptions about the constants
(`FilesAssumption`, `ColumnAssumption`, ...) the proofs use.

All runs switch the deadlock check off: with every budget spent and the process down, nothing is
left to do, which is what the program does when it is not started again.

The type invariant of every state machine is a theorem (section 6); the runs `nodes` and `metrics`
check it as well. `CdbFile` and `Conversion` have none of their own, since what a wrong type would be
there is what WholeOrNothing and LoadedIsSaved exclude.

Every property has a mutant in `PROJECT.json`: a definition changed as a plausible mistake would
(a retry that moves the file as well, a scan that forgets, a counter off by one, a key that is
not reset, a number taken and not cleared, an offset that does not add up), under which the run
finds the property violated.

## 4. Fairness

The runs with liveness (`click2db`, `pipeset`, `pipeset_gap`, `json2click_live`, `nodes`, `backup`,
`metrics`) assume weak fairness of the component's own threads, each as a whole (`lifeProc`,
`Thread`, `Main`, `agregateProc`, `sendProc`, `moveFile`): the scheduler runs a thread that can
run. The threads' waits are bounded in the code: dequeues time out, the reconnection sleeps in
short pieces, the watcher polls with a timeout; and calls of the client are assumed to return
or throw. `backup` and `metrics` also let time pass (`Hour`, `Minute`), as clocks do. No fairness
is assumed of the server, the writers, the counting handlers, the shutdown or the crash:
`Drains` and `Reported` are about executions in which the server stays up from some time on,
`ShutdownCompletes` and `JoinReturns` hold whether it does or not, but for a Graphite server that
keeps the connection and stops reading, which blocks `send` and with it the destructor. Weak
fairness of a whole thread does not favour one of its outcomes; that failures end is a consequence
of the disturbances being bounded by `MaxFaults`, so a server that refuses every insert for ever
is not covered by `Drains`, and need not be: such a file is parked after three tries.

## 5. Findings

1. `click2db_watches` (divergence). The description of the table is read anew only for an
   unknown column name or after a failed send. When a column's type is altered, data that does
   not convert to the type on record is left out of the block and the insert succeeds without
   it, for this and later files (`click2db.cpp:498`). src/README.md:10 says "Watching change
   tables structure in database".
2. `pipeset_gap` (bug). The watch is added after the start-up scan (`pipebase.cpp:33`): a file
   closed in between is neither listed nor announced and stays until the next start.
   src/README.md:110 says of `watch`: "path for watching .cdb files".
3. `pipeset_others` (bug). `res && hundler->doProc(fileName)` (`pipeset.cpp:10`) calls no
   destination after one whose copy failed, and the source is removed all the same, so a full
   disk at one destination costs the later ones the file. src/README.md:11 says "Supports many
   servers to send".

Further observations the models show and no run is kept for:

* A file whose rows arrived and whose answer was lost may end up in `failed`
  (`click2db.cpp:237`), which src/README.md:117 calls the "path for files not sended to CH".
* With `failed` or `badfiles` not configured, `moveFile` gets an empty path and deletes the file.
* The start-up scan of PipeSet takes files that are still being written (`pipebase.cpp:29`).
* The first call of `dump` with rows only starts the clock, so with `blockSize` 1 the first file
  has two rows (`json2click.cpp:219`); hence the exception in `BlockBound`.
* Two full blocks within a second are two files of that second, with a counter
  (`json2click.cpp:229`), so the save is not limited to once a second by this code.
* A member whose value is an object leaves null in an accepted row (`json2click.cpp:43`).
* A read error in the middle of a `.json` file is taken for an empty read and tried for ever
  (`json2click.cpp:291`): the thread never ends, nor does the destructor that joins it, although
  src/README.md:14 promises "Graceful shutdown"; hence `spin` in QueuedIsRead and ShutdownSaves and
  `spinning` in Ends.
* A clock set back, or the end of daylight saving time, lets a save overwrite an output file, and
  gives two reports of one minute, of which Graphite keeps the later.
* Without `metricsHost` the port is cleared and converted to a number all the same, which throws:
  the program does not start (`flexetl.cpp:134`). `metricsInterval` (src/README.md:95) is read and
  never used. `failed` of json2click is optional by src/README.md:102 and required by `init`
  (`json2click.cpp:141`).
* A pipe asks for its parameter `watch` in `start`, when nodes before it run their threads already
  (`pipebase.cpp:12`); the exit that follows is one without destructors.
* Two nodes that watch one directory share one descriptor, and only the later one hears of files.
* PipeLine never removes its source, so every restart hands on everything again.
* A file that vanishes under Backuper's iterator ends the process. A file is dated after its rename,
  so Backuper may take a backup that has just arrived by its old time.
* A column of arrays in which one row has no array is read through a null pointer
  (`click2db.cpp:250`); the file stays in `tosend`, so the next start meets it again. A null in a
  Nullable(Enum8) makes the whole column stay behind.
* Names equal up to a zero byte become one column of twice the rows. Beside another column it refuses
  the block; when it is the only one, the block is sent with twice the rows.
* A file written under a name `doProc` is at, on a stale event or a former file of that name, is
  removed unread (`pipeset.cpp:12`); without batches a `.json` name that comes again overwrites the
  `.cdb` file its former content left, if the pipe has not taken it (`json2click.cpp:347`).
* An error of poll or read ends the watcher thread for good while the process stays up
  (`watcher.cpp:43`, 51): no file is handled until it is started again, and nothing is logged as an
  error. The same silence follows events the kernel drops (`watcher.cpp:58`).
* `fgets` has room for 65535 bytes (`json2click.cpp:290`): a longer line comes in pieces, each of which is
  a line of its own to the parser, and to `Json2Click`.
* A report that was written in part before the connection broke is written again under its stamp.

## 6. What is proved

For every value of the constants that satisfies the assumptions named in the modules, without
bounds on files, columns, members, elements, disturbances, restarts or offers (the budgets are
arbitrary numbers).

**Click2DBProofs.** `Spec => []TypeOK`, `[]ConnectedAtWork`, `[]QueueIsSound`, `[]NothingForgotten`,
`[]DuplicatesExplained`; `Spec => KeepsPromise` (every step is a step of
`Outbox` or a stutter); and from the last, `CompleteFilesKept`: with both directories configured
a complete file that leaves `tosend` was inserted or lies in one of them. Assumed: there are
finitely many file names, `NoFile` is none of them, `FileCols`, `Convertible` and `Schemas` have
their types, and no description is empty.

None of these is inductive. The inductive invariant is `IInv == Typed /\ Connected /\ InPlayInv`.
`Connected` extends ConnectedAtWork by the labels on the way: the client exists from the moment
the loop is entered, except where the ping may have dropped it, and then the description is
empty, so the describe cannot be skipped. `InPlayInv` joins uniqueness, presence on disk and
completeness of the account, because each needs the others: that an offered file is not in play
follows from `copy_file` refusing names on disk and from what is in play being on disk; that a
dequeued file is not queued again, from uniqueness; that nothing is forgotten, from the scan
listing every file exactly once. It also says that a file at hand beyond `load` is complete, that
a file at `remove` was sent, and that a sent file still in `tosend` is being removed, is excused,
or was stranded; the refinement and DuplicatesExplained rest on these.

The second half of the module proves `Spec => []NoFreshColumnDropped` and
`Spec => []FewFaultsParkNothing`, both over the invariant above. Assumed besides: a table has one column of a name. For the first,
`SendInv` follows the description through a send: it was read from the table, the block is what
it lets through, and every name the table had all along is in it, whenever the table was altered
since. For the second, every counted try of a file is a mark `<<file, n>>`; `Paid` says that the
marks, twice the connections that could not be made, and one for a disturbance that is about to
cost a try (`Owing`) are together no more than the disturbances that happened. A file is given up
with a mark for each of its tries, so that many disturbances it took. No mark is paid for twice
because a broken connection or an old description stays one until a try has met it.

**PipeSetProofs.** `Spec => []TypeOK`, `[]LossExplained`, `[]ServedInOrder`, `[]NoSecondCopy`, for any
number of destinations. The invariant follows `doProc` along the list: the destinations it has
passed are served or there is a cause that they are not, and as long as no copy has failed they
have the file (`Passed`); a source is gone only when that holds of all of them (`GoneIsServed`);
and a file that is still there was copied only by the call under way, unless a crash or a failed
removal left it (`StillHere`). A writer that takes the name `doProc` is at begins a file of which
nothing of this is known; it is in `met` until it is written again with `doProc` elsewhere. ServedInOrder needs the first, LossExplained the second and
NoSecondCopy the third.

**MyHandlerProofs.** `Spec => []TypeOK`, `[]Rectangular`, and the action properties
EarlierRowsKept, BadLineUndone and PlainLineIsRow. Assumed: the empty key is a possible
key, and null is no scalar. `TableInv` says that a column is as long as the finished rows, or
one longer while a line is being read, and that the finished rows and the columns known before
the line are those of `before`. `LineInv` is about plain lines: the parser's stack is one of
four, and with the handler's key, counter and array flag and with `given` it makes five states
(before the object, expecting a key, expecting a value, inside an array, after the object), in
each of which the values appended for this row are those of `given`.

**Json2ClickProofs.** `Spec => []TypeOK`, `[]RowsAccounted`, `[]NoRowTwice`, `[]BlockBound`, and the action
property OutputKept, for any files, lines, delays and block sizes. Assumed: there are finitely
many files and `NoFile` is none of them. The invariant says at each label what was read of the
file at hand is accounted for (`ReadIsKept`) and, once it is read to its end, all of it, so that the
move forgets nothing, also of the contents a name had before (`GoneIsKept`); without batches, that
the table holds the rows of that file only (`OneFileEach`) and that an output file with its name
holds rows of that name only (`NamedAfter`), so that a save over it costs either nothing or an
earlier content, which is recorded; that every row is in one place, and in any place only when its
line was read or its content was moved away (`Single`, `Seen`), which makes the row of the next line
a new one; that the names of this process's
files lie before the stamp and counter at hand (`Stamped`), so that no save meets one of its own;
and that the table is a row short of a block except between a line and its `dump` (`Bounded`).
All saves go through one lemma, `SaveKeeps`.

**NodeTreeProofs.** `Spec => []TypeOK`, `Spec => []OneProcess` and `Spec => []CallsAreSafe`, for any tree
of nodes, any directories, configurations and number of processes. The invariant says that a process
at work holds the lock when the lock is used (`LockHeld`); which thread may be inside a `doProc` in
which phase of main (`Callers`: the scans are over before the watcher starts, and the destructors
wait until it is joined); which nodes have been through `init` (`Visited`); and that only nodes of
the tree are ever called (`Called`). A call may go down through pipes to any depth; what it comes to
lies below the node it began with (`CalleesBelow`), so it is in the tree as well. TypeOK bounds main's `step` by the number of nodes, which is so
only if the walk comes to each node once. That is `OrderFacts`: `Preorder` is a recursive function, and
what it computes is proved by induction over the height of a node, `FlattenSeq` by induction over
the length of a sequence (`Induction`, from the least element of a set of numbers). `TreeAssumption` is
about the shape only: there are finitely many nodes, a sub-node is lower than its node, and no
node stands at two places, which is so because `Node::create` makes a node of its own of every group
it finds. `ConfigAssumption`: there is a configuration to start with.

**BackupProofs.** `Spec => []TypeOK`, `[]FreshKept`, and the action property ScanClears, for any number
of movers, files and hours. The invariant adds `Dated`: a file whose time was set is not older by
its time than it has been in the directory; one whose time could not be set stays undated. An hour keeps it because both grow alike up to the
same limit. For ScanClears, `Passed` says of each file the scan has been at that it was not too
old, is the one at hand, or was renamed and not dated, or could not be removed; an hour that ends during the scan
changes none of this, since the scan compares with the time at its begin (`behind`).

**MetricsProofs.** `Spec => []TypeOK`, `Spec => []CountedOnce` and `Spec => []MinutesInOrder`, for any
counters and names. For CountedOnce, `Linked` says that counters of one name count in the one cell the
map has for it and that the cells of counters not yet connected are 0, and that the report being made
holds nothing of the names still to come; the step that takes a number moves it from its cell to the
report and no other step meets it. `Total`, the sum over a queue, is a recursive function; that it
grows by what is appended and shrinks by what is taken is proved by induction over the length of the
queue, and so is that a part of the sum is no more than the whole, which gives TypeOK its bound on
every number. For MinutesInOrder the invariant splits the reports by where they are: the queue of the
aggregating thread rises by minutes and lies above everything the sender has taken (`Chronological`);
what the sender has taken is written, at hand, or in its own queue, each once (`Distinct`); and its own
queue holds only what was refused, so that what it takes from there may be late and anything else is
later than all that was written (`Excused`). Assumed: `NoReport` is no report.

**CdbFileProofs.** `Spec => []WholeOrNothing`, `[]LoadedIsSaved`, `[]RowsArrive` and `[]FailuresExplained`, for
any tables, any types of their columns, and files cut at any item. The first half is about what `save`
writes: `Items` puts sequences together, and the lemmas `ItemsFacts`, `ColumnPlaces`, `ValuePlaces` and
`CellPlaces` say behind how many items a column, a value of it and a cell of an array begin. The
invariant then says of the reader that `pos` is that number for the columns, rows and cells still to
come (`Position`) and that `m_tbl` holds the table up to there (`Contents`), so that a reader that has
read all columns has read all items: there is no shorter file it could take. Names
need not differ up to a zero byte: the columns that become one are a sequence of their own
(`Together`), put together from its pieces with the same lemmas as the file, and `Contents` says how
much of each is read (`RowsOf`). `Origin` names for a loaded value the one of the table it is. `Filled`
says that a column in the block is `Column` of what was loaded and that one left out does not convert;
from it and `PlainColumn` and `ArrayColumn`, which say where the rows of an array column lie behind its
offsets, follow the other two theorems: what arrives, and that columns of different size are of different
numbers of columns of the table (`UnsentIsExplained`).

Assumed: the columns of a table to be saved are of one length, which is Rectangular of `MyHandler`, and
there are finitely many (`TableAssumption`); only strings are cut at a zero byte, they remain strings, and
a number read from one is the same, since `sscanf` reads no further either (`CutAssumption`); a scalar is
no sequence of scalars (`ScalarAssumption`), as the tag of a `Value` tells them apart; the server's types
are among those modelled (`TypeAssumption`).

## 7. What is only model-checked, and what is not modelled

Only checked: all liveness (`Drains`, `ShutdownCompletes`, `HeardIsHandled`, `QueuedIsRead`, `ShutdownSaves`,
`HeardIsTold`, `Ends`, `Cleared`, `Reported`, `JoinReturns`), since fairness and ENABLED are beyond TLAPS. Every
invariant and every action property of a passing run is a theorem. The library's induction theorems,
which take an operator as a parameter, cannot be used with the installed provers; the inductions of
section 6 are over sets of numbers instead, with `WFMin` of the library giving the least one.

Not modelled:

* the vendored libraries as such (`src/contrib`, most of the repository's lines): where a component
  depends on one, what it does there is translated and mapped: the client that throws on a lost
  connection, the choice between the producers of a queue, the grammar of the JSON parser, the
  nullable, array and enum columns. A model of the rest would say nothing about this program;
* columns of numbers beyond two widths, of floats, dates and UUID among the conversions; they branch as the
  modelled ones do;
* parsing of the configuration by libconfig, flags and logging: no state a property is about;
* the wrappers of sockets, beyond what `Metrics` uses; `jsontest`, which generates sample input;
* collectors, `counter_d`, `m_active`, `flushData`: nothing uses them;
* a second writer of a name while the first has it open, and a `.json` file written over while it
  still lies in its directory: in `PipeSet` a closed file may be written over, in `Json2Click` a name
  comes again only when it has gone;
* a short `fwrite` in the middle of a file followed by later ones that succeed: in `CdbFile` what a
  full disk leaves is a prefix;
* durability: files a process has written are taken to survive a crash of the process, not of the
  machine. A `rename` that fails, for instance to another file system, is a failed move.

What the properties leave open, on purpose and by name:

* Events the kernel drops, and all events after an error of poll or read has ended the watcher
  thread, are steps of the models, but HeardIsHandled and HeardIsTold only speak of what was queued
  while the thread runs (and of what the next start's scan finds): the code has no answer to either.
* Two nodes over one directory: HeardIsTold is about directories with one node.
* A read error in a `.json` file keeps the life thread for ever; QueuedIsRead, ShutdownSaves and Ends
  exempt it.
* PlainLineIsRow compares lines of scalars and flat arrays with their rows; what a nested object or
  array leaves in its row is not compared with anything.
* MinutesInOrder exempts a clock set back, after which Graphite keeps the later of two reports.
* Cleared is about finitely many failed scans, removals and crashes, `MaxFaults` being a number: a
  file that can never be removed stays.
* RowsAccounted excuses rows a later save came over: nothing in the code prevents that for an output
  name used before and not yet taken.
* LossExplained excuses a file begun while `doProc` was at its name: nothing locks the two apart.

## 8. Plan

1. Done: all modules of section 2, with the proofs listed there.
2. Left: a composition of Json2Click, PipeSet and Click2DB over one file system: a row read is
   inserted at each destination or lies in a directory an operator can look into. The modules now
   cover each directory from both sides; the composition would replace the environments by each
   other, and needs each of them reduced first to what its neighbours see, as `Outbox` does for
   `Click2DB`.
3. Left: the remaining widths of `Conversion`.
