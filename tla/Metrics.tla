------------------------------- MODULE Metrics -------------------------------
(***************************************************************************)
(* Counters on their way to Graphite.  Handlers connect their counters,    *)
(* by name, while both threads of stem::metrics already run, and count on  *)
(* threads of their own; agregateProc takes every counter's value once a   *)
(* minute and queues one report; sendProc writes the reports to a socket,  *)
(* which it opens again when it breaks, and queues again what could not be *)
(* written.  Nothing of this outlives the process.                         *)
(***************************************************************************)
EXTENDS Naturals, Sequences, SequencesExt

CONSTANTS
    Names, Name,        \* Name[c]: root and name, as getName joins them
    NoReport,           \* nothing in hand
    MaxCount, MaxMinutes, MaxFaults     \* bounds of the exploration

ASSUME CounterAssumption == Name \in Seq(Names)
ASSUME BoundAssumption ==
    MaxCount \in Nat /\ MaxMinutes \in Nat \ {0} /\ MaxFaults \in Nat

\* The counters of all handlers, in the order of their init.
Counters == DOMAIN Name
NoCounter == 0

VARIABLES
    m_run,
    m_counterMap,       \* the counter kept under a name
    connected, m_val,   \* how many are connected, and whose cell they count in
    cell,               \* the atomic numbers
    agregate, lastTime, \* agregateProc: idle, flush (m_mutex is held), done
    draft, left,        \* the report being made, the names still to come
    sender, hand,       \* sendProc: check, turn, write, done; what it is to write
    due,                \* connectCounter is at its limit
    socket_,            \* closed, open, broken by the server, reset
    m_sendQueue         \* one queue for each thread that enqueues

counting == <<m_counterMap, connected, m_val>>
agregating == <<agregate, lastTime, draft, left>>
sending == <<sender, hand, due, socket_>>

VARIABLES
    clock,              \* the minute
    server,             \* up, down, or stalled: it does not read

    counted,            \* by name: all that was ever counted
    sent, got,          \* the minutes of the reports written, and what they held
    refused,            \* minutes of reports whose write failed
    setBack             \* the clock was set back

env == <<clock, server, setBack>>
history == <<counted, sent, got, refused>>

VARIABLE faults
vars == <<m_run, counting, cell, agregating, sending, m_sendQueue, env, history, faults>>

Producers == {"agregate", "send"}
Minutes == 0 .. MaxMinutes
Counts == 0 .. MaxCount
Reports == [minute : Minutes, val : UNION {[S -> Counts] : S \in (SUBSET Names) \ {{}}}]

ASSUME ReportAssumption == NoReport \notin Reports

TypeOK ==
    /\ m_run \in BOOLEAN
    /\ m_counterMap \in [Names -> Counters \union {NoCounter}]
    /\ connected \in 0 .. Len(Name)
    /\ m_val \in [Counters -> Counters] /\ cell \in [Counters -> Counts]
    /\ agregate \in {"idle", "flush", "done"} /\ lastTime \in Minutes
    /\ draft \in [Names -> Counts] /\ left \subseteq Names
    /\ sender \in {"check", "turn", "write", "done"}
    /\ hand = NoReport \/ hand \in Reports
    /\ due \in BOOLEAN
    /\ socket_ \in {"closed", "open", "broken", "reset"}
    /\ m_sendQueue \in [Producers -> Seq(Reports)]
    /\ clock \in Minutes /\ server \in {"up", "down", "stalled"} /\ setBack \in BOOLEAN
    /\ counted \in [Names -> Counts] /\ got \in [Names -> Counts]
    /\ sent \in Seq(Minutes) /\ refused \subseteq Minutes
    /\ faults \in 0 .. MaxFaults

Fault == faults < MaxFaults /\ faults' = faults + 1

Registered == {n \in Names : m_counterMap[n] # NoCounter}

-----------------------------------------------------------------------------
(* The clock and the server. *)

Minute ==
    /\ clock < MaxMinutes
    /\ clock' = clock + 1
    /\ UNCHANGED <<m_run, counting, cell, agregating, sending, m_sendQueue, server, setBack,
                   history, faults>>

SetBack ==
    /\ clock \in 1 .. MaxMinutes - 1
    /\ Fault
    /\ clock' = clock - 1
    /\ setBack' = TRUE
    /\ UNCHANGED <<m_run, counting, cell, agregating, sending, m_sendQueue, server, history>>

\* A server that goes away breaks the connection; one that comes back does
\* not know it.
ServerTurns(to) ==
    /\ to # server
    /\ IF to = "up" THEN UNCHANGED faults ELSE Fault
    /\ server' = to
    /\ socket_' = IF to = "down" /\ socket_ = "open" THEN "broken" ELSE socket_
    /\ UNCHANGED <<m_run, counting, cell, agregating, sender, hand, due, m_sendQueue, clock,
                   setBack, history>>

-----------------------------------------------------------------------------
(* The handlers: connect, on the main thread, and ++ on any other.         *)

\* A second counter of the name counts in the cell of the first.
SharedCell(c) == IF Name[c] \in Registered THEN m_counterMap[Name[c]] ELSE c

connect(c) ==
    /\ m_run /\ c = connected + 1
    /\ agregate # "flush"
    /\ connected' = c
    /\ m_val' = [m_val EXCEPT ![c] = SharedCell(c)]
    /\ m_counterMap' = [m_counterMap EXCEPT ![Name[c]] = IF @ = NoCounter THEN c ELSE @]
    /\ UNCHANGED <<m_run, cell, agregating, sending, m_sendQueue, env, history, faults>>

\* No life thread runs before every handler has been through init.
Count(c) ==
    /\ m_run /\ connected = Len(Name)
    /\ counted[Name[c]] < MaxCount /\ clock < MaxMinutes
    /\ cell' = [cell EXCEPT ![m_val[c]] = @ + 1]
    /\ counted' = [counted EXCEPT ![Name[c]] = @ + 1]
    /\ UNCHANGED <<m_run, counting, agregating, sending, m_sendQueue, env, sent, got, refused,
                   faults>>

-----------------------------------------------------------------------------
(* agregateProc. *)

\* Mutated form of NewMinute.
AnyMinute == TRUE

NewMinute == clock # lastTime

Agregate ==
    /\ agregate = "idle" /\ m_run
    /\ NewMinute
    /\ agregate' = "flush"
    /\ lastTime' = clock
    /\ draft' = [n \in Names |-> 0]
    /\ left' = Registered
    /\ UNCHANGED <<m_run, counting, cell, sending, m_sendQueue, env, history, faults>>

\* Mutated form of Exchange.
Peek(v) == v

\* exchange(0): what the number is after its value was taken.
Exchange(v) == 0

Flush(n) ==
    /\ agregate = "flush" /\ n \in left
    /\ draft' = [draft EXCEPT ![n] = cell[m_counterMap[n]]]
    /\ cell' = [cell EXCEPT ![m_counterMap[n]] = Exchange(@)]
    /\ left' = left \ {n}
    /\ UNCHANGED <<m_run, counting, agregate, lastTime, sending, m_sendQueue, env, history,
                   faults>>

\* Mutated form of WorthSending.
Always == TRUE

WorthSending == Registered # {}

\* enqueue, into the queue of the thread that calls it.
Behind(q, r) == Append(q, r)

Enqueue ==
    /\ agregate = "flush" /\ left = {}
    /\ agregate' = "idle"
    /\ m_sendQueue' =
         IF WorthSending
         THEN [m_sendQueue EXCEPT !["agregate"] =
                 Behind(@, [minute |-> lastTime, val |-> [n \in Registered |-> draft[n]]])]
         ELSE m_sendQueue
    /\ draft' = [n \in Names |-> 0]
    /\ UNCHANGED <<m_run, counting, cell, lastTime, left, sending, env, history, faults>>

AgregateExit ==
    /\ agregate = "idle" /\ ~ m_run
    /\ agregate' = "done"
    /\ UNCHANGED <<m_run, counting, cell, lastTime, draft, left, sending, m_sendQueue, env,
                   history, faults>>

agregateProc == Agregate \/ (\E n \in Names : Flush(n)) \/ Enqueue \/ AgregateExit

-----------------------------------------------------------------------------
(* sendProc. *)

SendTo(label) == sender' = label

\* Mutated form of MayLeave.
LeaveConnected == ~ m_run /\ socket_ # "closed"

MayLeave == ~ m_run

\* The end of the loop closes the socket.
While ==
    /\ sender = "check"
    /\ IF MayLeave
       THEN SendTo("done") /\ socket_' = "closed"
       ELSE SendTo("turn") /\ UNCHANGED socket_
    /\ UNCHANGED <<m_run, counting, cell, agregating, hand, due, m_sendQueue, env, history,
                   faults>>

ResetConnection ==
    /\ sender = "turn" /\ socket_ = "closed" /\ due
    /\ due' = FALSE
    /\ \/ server # "down" /\ socket_' = "open" /\ UNCHANGED <<sender, faults>>
       \/ server = "down" /\ SendTo("check") /\ UNCHANGED <<socket_, faults>>
       \/ Fault /\ SendTo("check") /\ UNCHANGED socket_
    /\ UNCHANGED <<m_run, counting, cell, agregating, hand, m_sendQueue, env, history>>

\* One of the turns of half a second until the next try; the last of them
\* brings connectCounter to its limit.
Wait ==
    /\ sender = "turn" /\ socket_ = "closed" /\ ~ due
    /\ due' = TRUE
    /\ SendTo("check")
    /\ UNCHANGED <<m_run, counting, cell, agregating, hand, socket_, m_sendQueue, env, history,
                   faults>>

\* try_dequeue: of the two queues the longer, and of equal ones that of the
\* thread that came later, which is the sender.
Best == IF Len(m_sendQueue["send"]) >= Len(m_sendQueue["agregate"]) THEN "send" ELSE "agregate"

Dequeue ==
    /\ sender = "turn" /\ socket_ # "closed"
    /\ IF m_sendQueue[Best] # << >>
       THEN /\ hand' = Head(m_sendQueue[Best])
            /\ m_sendQueue' = [m_sendQueue EXCEPT ![Best] = Tail(@)]
            /\ SendTo("write")
       ELSE SendTo("check") /\ UNCHANGED <<hand, m_sendQueue>>
    /\ UNCHANGED <<m_run, counting, cell, agregating, due, socket_, env, history, faults>>

Held(r, n) == IF r # NoReport /\ n \in DOMAIN r.val THEN r.val[n] ELSE 0

\* send to a server that is there, or to one that has gone, which the
\* kernel learns by the answer to this packet.
Write ==
    /\ sender = "write"
    /\ \/ socket_ = "open" /\ server = "up" /\ UNCHANGED socket_
       \/ socket_ = "broken" /\ socket_' = "reset"
    /\ sent' = Append(sent, hand.minute)
    /\ got' = [n \in Names |-> got[n] + Held(hand, n)]
    /\ hand' = NoReport
    /\ SendTo("check")
    /\ UNCHANGED <<m_run, counting, cell, agregating, due, m_sendQueue, env, counted, refused,
                   faults>>

\* Mutated form of CloseBroken.
KeepBroken == socket_

CloseBroken == "closed"

\* What was sent of the report before comes again, under the same minute.
WriteFails ==
    /\ sender = "write"
    /\ \/ socket_ \in {"broken", "reset"} /\ UNCHANGED faults
       \/ socket_ = "open" /\ Fault
    /\ m_sendQueue' = [m_sendQueue EXCEPT !["send"] = Behind(@, hand)]
    /\ refused' = refused \union {hand.minute}
    /\ socket_' = CloseBroken
    /\ due' = TRUE
    /\ hand' = NoReport
    /\ SendTo("check")
    /\ UNCHANGED <<m_run, counting, cell, agregating, env, counted, sent, got>>

sendProc == While \/ ResetConnection \/ Wait \/ Dequeue \/ Write \/ WriteFails

\* ~metrics, after the nodes are gone: it joins both threads.
Destructor ==
    /\ m_run
    /\ m_run' = FALSE
    /\ UNCHANGED <<counting, cell, agregating, sending, m_sendQueue, env, history, faults>>

Init ==
    /\ m_run = TRUE
    /\ m_counterMap = [n \in Names |-> NoCounter]
    /\ connected = 0
    /\ m_val = [c \in Counters |-> c] /\ cell = [c \in Counters |-> 0]
    /\ agregate = "idle" /\ lastTime = 0
    /\ draft = [n \in Names |-> 0] /\ left = {}
    /\ sender = "check" /\ hand = NoReport /\ due = TRUE /\ socket_ = "closed"
    /\ m_sendQueue = [p \in Producers |-> << >>]
    /\ clock = 0 /\ server = "down" /\ setBack = FALSE
    /\ counted = [n \in Names |-> 0] /\ got = [n \in Names |-> 0]
    /\ sent = << >> /\ refused = {}
    /\ faults = 0

Next ==
    \/ Minute \/ SetBack \/ \E to \in {"up", "down", "stalled"} : ServerTurns(to)
    \/ \E c \in Counters : connect(c) \/ Count(c)
    \/ agregateProc \/ sendProc \/ Destructor

Spec == Init /\ [][Next]_vars

\* Minutes pass, and both threads run.
FairSpec == Spec /\ WF_vars(Minute) /\ WF_vars(agregateProc) /\ WF_vars(sendProc)

-----------------------------------------------------------------------------
(* Properties. *)

Total(h) ==
    LET sum[i \in 0 .. Len(h)] == IF i = 0 THEN 0 ELSE sum[i - 1] + h[i] IN sum[Len(h)]

InQueue(p, n) == Total([i \in DOMAIN m_sendQueue[p] |-> Held(m_sendQueue[p][i], n)])

Cell(n) == IF n \in Registered THEN cell[m_counterMap[n]] ELSE 0

(***************************************************************************)
(* Whatever is counted under a name, by any number of counters, is at      *)
(* every moment in exactly one place: the shared number, the report being  *)
(* made, a queue, the sender's hand, or written.  exchange(0) loses no     *)
(* count that comes while the report is made, and a failed write neither   *)
(* loses nor doubles a report.                                             *)
(***************************************************************************)
CountedOnce ==
    \A n \in Names :
        counted[n] = Cell(n) + draft[n] + InQueue("agregate", n) + InQueue("send", n)
                     + Held(hand, n) + got[n]

Made ==
    sent \o (IF hand = NoReport THEN << >> ELSE <<hand.minute>>)
         \o [i \in DOMAIN m_sendQueue["send"] |-> m_sendQueue["send"][i].minute]
         \o [i \in DOMAIN m_sendQueue["agregate"] |-> m_sendQueue["agregate"][i].minute]

(***************************************************************************)
(* Graphite keeps one value for a name and a time, so two reports with the *)
(* same minute would overwrite each other: there are none, queued, in hand *)
(* or written, unless the clock was set back.                              *)
(***************************************************************************)
OnePerMinute == ~ setBack => \A i, j \in DOMAIN Made : Made[i] = Made[j] => i = j

(***************************************************************************)
(* Reports are written in the order of their minutes, except one that was  *)
(* refused by a broken connection: it waits in the sender's own queue      *)
(* until at most one report of the aggregating thread is left.             *)
(***************************************************************************)
LateWasRefused ==
    ~ setBack => \A i, j \in DOMAIN Made :
        i < j /\ j <= Len(sent) /\ Made[j] < Made[i] => Made[j] \in refused

(***************************************************************************)
(* The minutes of the reports are all different, and those written come in *)
(* their order but for what a broken connection refused.                   *)
(***************************************************************************)
MinutesInOrder == OnePerMinute /\ LateWasRefused

(***************************************************************************)
(* While the process runs and the server stays up, everything counted is   *)
(* written in the end, also over a connection that broke unnoticed and     *)
(* when the server came up late.                                           *)
(***************************************************************************)
Reported == <>[](m_run /\ server = "up") => <>[](got = counted)

(***************************************************************************)
(* ~metrics returns: both threads see m_run, connected or not, unless the  *)
(* server has stopped reading and the sender is blocked in send.           *)
(***************************************************************************)
JoinReturns ==
    <>(~ m_run) /\ []<>(server # "stalled") => <>(agregate = "done" /\ sender = "done")

=============================================================================
