---------------------------- MODULE DeliverySignal ----------------------------
(***************************************************************************)
(* runtime/delivery.js on one node: Harper's threads answering             *)
(* GET /DatadogStatus/ by reading the trace-agent's counters, its log and  *)
(* the stats mark they share on disk, while the agent resets its counters  *)
(* every minute, restarts, and has payloads accepted and refused.          *)
(*                                                                         *)
(* A thread's readSignal() is split where another thread or the agent can  *)
(* run: the call (which fixes markDir and traceLog), the agent serving the *)
(* document, the clock read, store.get, and store.set with the verdict.    *)
(***************************************************************************)
EXTENDS DeliveryVerdict

CONSTANTS
    Threads,     \* Harper's threads on this node
    Window,      \* the agent's counter window, in clock units
    LogWindow,   \* readTraceHop's windowMs
    ReadTime,    \* longest time one readSignal() takes, poll timeout included
    Occurs,      \* the events of EventKinds a run lets happen (all of them,
                 \* unless a run narrows its question)
    MaxTime      \* bound on the clock, for model checking

EventKinds ==
    {"client-stats", "stats-accepted", "stats-refused", "trace-accepted", "trace-refused",
     "log-opens", "log-scrolls", "log-lost", "agent-dies", "harper-restarts"}

ASSUME SignalAssumption ==
    /\ Window \in Nat \ {0}
    /\ LogWindow \in Nat
    /\ ReadTime \in Nat
    /\ Occurs \subseteq EventKinds
    /\ MaxTime \in Nat

VARIABLES
    now,           \* Date.now()
    port,          \* the debug port this node resolved: 0 disables it
    agent,         \* the trace-agent: up, last counter reset, counters
    log,           \* its log: exists, newest refusal line in the tail
    mark,          \* the "stats-accepted" mark on disk
    started,       \* has createStart set state.pidDir on this thread
    reader,        \* each thread's readSignal() in progress, or its answer
    lastArrived,   \* history: when traffic last reached the agent
    lastAccepted,  \* history: when the intake last took a stats payload
    lastRefused,   \* history: when a trace payload was last refused
    lastRecorded,  \* history: newest mark any thread stored
    held           \* history: the marks on disk while each read in progress ran

history == <<lastArrived, lastAccepted, lastRefused, lastRecorded, held>>
vars == <<now, port, agent, log, mark, started, reader, history>>

-----------------------------------------------------------------------------

Times == Nat \cup {Never}

NoWork ==
    [received |-> 0, work |-> 0, statsPayloads |-> 0, statsFailures |-> 0,
     tracePayloads |-> 0, traceFailures |-> 0]

Agents == [up : BOOLEAN, reset : Nat, counters : Counters]
Logs == [exists : BOOLEAN, refusal : Times]

Phases == {"idle", "polling", "served", "stamped", "recalled", "answered"}

(* began: when readSignal was called.  shared: were markDir and traceLog   *)
(* known at that moment.  body, at, seen: the counters, the clock and the  *)
(* mark as this read saw them.                                             *)
Readers ==
    [phase : Phases, began : Nat, shared : BOOLEAN, body : Counters,
     at : Nat, seen : Times, signal : Signals]

Idle ==
    [phase |-> "idle", began |-> 0, shared |-> FALSE, body |-> NoWork,
     at |-> 0, seen |-> Never, signal |-> Unavailable]

InProgress(t) == reader[t].phase \notin {"idle", "answered"}

(* readSignal just called.                                                 *)
Polling(isStarted) ==
    [Idle EXCEPT !.phase = "polling", !.began = now, !.shared = isStarted]

(* The answer of a finished read; what it no longer needs is forgotten.    *)
Answered(signal) == [Idle EXCEPT !.phase = "answered", !.signal = signal]

Init ==
    /\ now = 0
    /\ port \in {0, 5012}
    /\ agent = [up |-> FALSE, reset |-> 0, counters |-> NoWork]
    /\ log = [exists |-> FALSE, refusal |-> Never]
    /\ mark = Never
    /\ started = [t \in Threads |-> FALSE]
    /\ reader = [t \in Threads |-> Idle]
    /\ lastArrived = Never
    /\ lastAccepted = Never
    /\ lastRefused = Never
    /\ lastRecorded = Never
    /\ held = [t \in Threads |-> {}]

-----------------------------------------------------------------------------
(* Time.  The agent's window closes on time, and a read ends within        *)
(* ReadTime of its call.                                                   *)

Tick ==
    /\ now < MaxTime
    /\ agent.up => now < agent.reset + Window
    /\ \A t \in Threads : InProgress(t) => now < reader[t].began + ReadTime
    /\ now' = now + 1
    /\ UNCHANGED <<port, agent, log, mark, started, reader, history>>

-----------------------------------------------------------------------------
(* The trace-agent and the intake, as delivery.js describes them.          *)

AgentStarts ==
    /\ ~agent.up
    /\ agent' = [up |-> TRUE, reset |-> now, counters |-> NoWork]
    /\ UNCHANGED <<now, port, log, mark, started, reader, history>>

(* The running agent's first line creates its log.                         *)
LogOpens ==
    /\ "log-opens" \in Occurs
    /\ agent.up
    /\ ~log.exists
    /\ log' = [exists |-> TRUE, refusal |-> Never]
    /\ UNCHANGED <<now, port, agent, mark, started, reader, history>>

(* Removed, rotated away or made unreadable, with all it said.             *)
LogLost ==
    /\ "log-lost" \in Occurs
    /\ log.exists
    /\ log' = [exists |-> FALSE, refusal |-> Never]
    /\ UNCHANGED <<now, port, agent, mark, started, reader, history>>

AgentDies ==
    /\ "agent-dies" \in Occurs
    /\ agent.up
    /\ agent' = [up |-> FALSE, reset |-> 0, counters |-> NoWork]
    /\ UNCHANGED <<now, port, log, mark, started, reader, history>>

Count(counters) == agent' = [agent EXCEPT !.counters = counters]

(* Every counter but the receiver's snapshot, which is refreshed only when *)
(* a payload arrives.                                                      *)
WindowResets ==
    /\ agent.up
    /\ now = agent.reset + Window
    /\ agent' = [up |-> TRUE, reset |-> now, counters |->
                  [NoWork EXCEPT !.received = agent.counters.received]]
    /\ UNCHANGED <<now, port, log, mark, started, reader, history>>

SpansArrive ==
    /\ agent.up
    /\ Count([agent.counters EXCEPT !.received = 1, !.work = 1])
    /\ lastArrived' = now
    /\ UNCHANGED <<now, port, log, mark, started, reader,
                   lastAccepted, lastRefused, lastRecorded, held>>

(* Stats a tracer computed itself, counted as ClientPayloads: no span need *)
(* come with them.                                                         *)
ClientStatsArrive ==
    /\ "client-stats" \in Occurs
    /\ agent.up
    /\ Count([agent.counters EXCEPT !.work = 1])
    /\ lastArrived' = now
    /\ UNCHANGED <<now, port, log, mark, started, reader,
                   lastAccepted, lastRefused, lastRecorded, held>>

(* The agent holds statistics to flush, of this window or the last.        *)
HasStats == agent.up /\ lastArrived # Never

StatsAccepted ==
    /\ "stats-accepted" \in Occurs
    /\ HasStats
    /\ Count([agent.counters EXCEPT !.statsPayloads = 1, !.work = 1])
    /\ lastAccepted' = now
    /\ UNCHANGED <<now, port, log, mark, started, reader,
                   lastArrived, lastRefused, lastRecorded, held>>

StatsTurnedAway ==
    /\ "stats-refused" \in Occurs
    /\ HasStats
    /\ Count([agent.counters EXCEPT !.statsFailures = 1, !.work = 1])
    /\ UNCHANGED <<now, port, log, mark, started, reader, history>>

(* Two writers share the trace_writer slot and the last one wins, so an    *)
(* accepted or refused trace payload may or may not be counted.            *)
TraceAccepted ==
    /\ "trace-accepted" \in Occurs
    /\ agent.up
    /\ agent.counters.received > 0
    /\ Count([agent.counters EXCEPT !.tracePayloads = 1])
    /\ UNCHANGED <<now, port, log, mark, started, reader, history>>

TraceTurnedAway ==
    /\ "trace-refused" \in Occurs
    /\ agent.up
    /\ agent.counters.received > 0
    /\ \E counted \in {agent.counters.traceFailures, 1} :
          Count([agent.counters EXCEPT !.traceFailures = counted])
    /\ log' = [log EXCEPT !.refusal = IF log.exists THEN now ELSE Never]
    /\ lastRefused' = now
    /\ UNCHANGED <<now, port, mark, started, reader,
                   lastArrived, lastAccepted, lastRecorded, held>>

(* Enough other lines push the refusal out of the 64 KiB tail.             *)
LogScrolls ==
    /\ "log-scrolls" \in Occurs
    /\ log.refusal # Never
    /\ log' = [log EXCEPT !.refusal = Never]
    /\ UNCHANGED <<now, port, agent, mark, started, reader, history>>

-----------------------------------------------------------------------------
(* Harper's threads.                                                       *)

ThreadStarts(t) ==
    /\ ~started[t]
    /\ started' = [started EXCEPT ![t] = TRUE]
    /\ UNCHANGED <<now, port, agent, log, mark, reader, history>>

(* The marks are files, so they outlive the process.                       *)
HarperRestarts ==
    /\ "harper-restarts" \in Occurs
    /\ started' = [t \in Threads |-> FALSE]
    /\ reader' = [t \in Threads |-> Idle]
    /\ held' = [t \in Threads |-> {}]
    /\ UNCHANGED <<now, port, agent, log, mark,
                   lastArrived, lastAccepted, lastRefused, lastRecorded>>

ReadBegins(t) ==
    /\ ~InProgress(t)
    /\ reader' = [reader EXCEPT ![t] =
           IF port = 0
           THEN Answered(Unavailable)
           ELSE Polling(started[t])]
    /\ held' = [held EXCEPT ![t] = IF port = 0 THEN {} ELSE {mark}]
    /\ UNCHANGED <<now, port, agent, log, mark, started,
                   lastArrived, lastAccepted, lastRefused, lastRecorded>>

(* Nothing listening, no answer in a second, or not expvar JSON.           *)
PollFails(t) ==
    /\ reader[t].phase = "polling"
    /\ reader' = [reader EXCEPT ![t] = Answered(Unavailable)]
    /\ held' = [held EXCEPT ![t] = {}]
    /\ UNCHANGED <<now, port, agent, log, mark, started,
                   lastArrived, lastAccepted, lastRefused, lastRecorded>>

AgentServes(t) ==
    /\ reader[t].phase = "polling"
    /\ agent.up
    /\ reader' = [reader EXCEPT ![t] =
           [@ EXCEPT !.phase = "served", !.body = agent.counters]]
    /\ UNCHANGED <<now, port, agent, log, mark, started, history>>

(* now(), evaluated as an argument before the store is touched.            *)
ClockRead(t) ==
    /\ reader[t].phase = "served"
    /\ reader' = [reader EXCEPT ![t] =
           [@ EXCEPT !.phase = "stamped", !.at = now]]
    /\ UNCHANGED <<now, port, agent, log, mark, started, history>>

MarkReadAfterRecording(t) ==
    /\ reader[t].phase = "stamped"
    /\ reader' = [reader EXCEPT ![t] =
           [@ EXCEPT !.phase = "recalled", !.seen =
               IF ~reader[t].shared THEN Never
               ELSE IF reader[t].body.statsPayloads > 0
               THEN reader[t].at ELSE mark]]
    /\ UNCHANGED <<now, port, agent, log, mark, started, history>>

MarkReadFromOwnMemory(t) ==
    /\ reader[t].phase = "stamped"
    /\ reader' = [reader EXCEPT ![t] =
           [@ EXCEPT !.phase = "recalled", !.seen = Never]]
    /\ UNCHANGED <<now, port, agent, log, mark, started, history>>

(* store.get.  A thread without markDir asks a fresh in-memory store.      *)
MarkRead(t) ==
    /\ reader[t].phase = "stamped"
    /\ reader' = [reader EXCEPT ![t] =
           [@ EXCEPT !.phase = "recalled",
                     !.seen = IF reader[t].shared THEN mark ELSE Never]]
    /\ UNCHANGED <<now, port, agent, log, mark, started, history>>

(* recallStatsWindow's answer.                                             *)
Recalled(r) == IF r.seen = Never THEN Never ELSE r.at - r.seen

(* readTraceHop, at the moment it runs.                                    *)
TraceHop(r) ==
    IF ~r.shared \/ ~log.exists THEN "none"
    ELSE IF log.refusal # Never /\ log.refusal >= now - LogWindow
         THEN "refused" ELSE "clear"

Remember(time) ==
    /\ mark' = time
    /\ lastRecorded' = IF lastRecorded # Never /\ lastRecorded > time
                       THEN lastRecorded ELSE time

RecordsEmptyWindows(r) ==
    IF r.shared THEN Remember(r.at) ELSE UNCHANGED <<mark, lastRecorded>>

RecordsFirstOnly(r) ==
    IF r.shared /\ r.body.statsPayloads > 0
    THEN /\ mark' = IF r.seen # Never THEN r.seen ELSE r.at
         /\ lastRecorded' = r.at
    ELSE UNCHANGED <<mark, lastRecorded>>

(* store.set when the window holds a payload; a directory that cannot be   *)
(* written keeps no memory.                                                *)
Records(r) ==
    IF r.shared /\ r.body.statsPayloads > 0
    THEN \/ Remember(r.at)
         \/ UNCHANGED <<mark, lastRecorded>>
    ELSE UNCHANGED <<mark, lastRecorded>>

ReadConcludes(t) ==
    /\ reader[t].phase = "recalled"
    /\ Records(reader[t])
    /\ reader' = [reader EXCEPT ![t] =
           Answered(Signal(reader[t].body, TraceHop(reader[t]),
                           Recalled(reader[t])))]
    /\ held' = [u \in Threads |->
           IF u # t /\ InProgress(u) THEN held[u] \cup {mark'} ELSE {}]
    /\ UNCHANGED <<now, port, agent, log, started,
                   lastArrived, lastAccepted, lastRefused>>

-----------------------------------------------------------------------------

Agent ==
    \/ AgentStarts \/ LogOpens \/ LogLost \/ AgentDies
    \/ WindowResets \/ SpansArrive
    \/ ClientStatsArrive \/ StatsAccepted \/ StatsTurnedAway
    \/ TraceAccepted \/ TraceTurnedAway \/ LogScrolls

Read(t) ==
    \/ ReadBegins(t) \/ PollFails(t) \/ AgentServes(t)
    \/ ClockRead(t) \/ MarkRead(t) \/ ReadConcludes(t)

Next ==
    \/ Tick
    \/ Agent
    \/ HarperRestarts
    \/ \E t \in Threads : ThreadStarts(t) \/ Read(t)

Spec == Init /\ [][Next]_vars

-----------------------------------------------------------------------------

(* The mark, the reads in flight and the answers are of their types: an    *)
(* answer's statsAcceptedMsAgo in particular is never a negative age.      *)
TypeOK ==
    /\ now \in Nat
    /\ port \in {0, 5012}
    /\ agent \in Agents
    /\ log \in Logs
    /\ mark \in Times
    /\ started \in [Threads -> BOOLEAN]
    /\ reader \in [Threads -> Readers]
    /\ lastArrived \in Times
    /\ lastAccepted \in Times
    /\ lastRefused \in Times
    /\ lastRecorded \in Times
    /\ held \in [Threads -> SUBSET Times]

(* t's read ends in this step with an answer taken from the agent.         *)
Concludes(t) == reader[t].phase = "recalled" /\ reader'[t].phase = "answered"

Within(time, span) == time # Never /\ now <= time + span

(* The mark is evidence: whoever stored it, and however the threads' reads *)
(* overlapped, the intake took a stats payload no longer than one window   *)
(* and one read before the time it carries.                                *)
MarkIsBacked ==
    mark # Never =>
        /\ mark <= now
        /\ lastAccepted # Never
        /\ mark <= lastAccepted + Window + ReadTime

(* Two reads that record at once can leave the older time in the mark, but *)
(* never one older than a read takes (recallStatsWindow is not atomic).    *)
MarkIsFresh ==
    lastRecorded # Never =>
        /\ mark # Never
        /\ lastRecorded <= mark + ReadTime

(* What one answer says of the stats hop is backed by an acceptance: a     *)
(* counted payload by one of this window, a verdict that calls the route   *)
(* out good by one within Recall, and a dated acceptance by one no older   *)
(* than the date, give or take the window and the reads it passed through. *)
ClaimBacked(t) ==
    LET answer == reader'[t].signal
    IN  Concludes(t) =>
        /\ answer.stats = "yes" => Within(lastAccepted, Window + ReadTime)
        /\ answer.verdict \in {"traces-unrefuted", "traces-unconfirmed"} =>
              Within(lastAccepted, Recall + Window + 2 * ReadTime)
        /\ answer.ago # Never =>
              Within(lastAccepted, answer.ago + Window + 2 * ReadTime)

(* ClaimBacked of every status read that concludes, with the agent's log   *)
(* there or not: proven.statsAtDatadog, the two verdicts that rest on the  *)
(* stats hop, and statsAcceptedMsAgo never outlive their evidence.         *)
StatsClaimsAreBacked == [][\A t \in Threads : ClaimBacked(t)]_vars

(* "answer from the previous read, then record, so a window is never its   *)
(* own corroboration": the acceptance an answer dates is one that stood on *)
(* disk while the read ran, before the read stored a mark of its own.      *)
DatedByAnother(t) ==
    LET ago == reader'[t].signal.ago
    IN  Concludes(t) /\ ago # Never => reader[t].at - ago \in held[t]

(* DatedByAnother of every status read: recallStatsWindow's order, while   *)
(* other threads' reads store marks in between.                            *)
NeverItsOwnCorroboration == [][\A t \in Threads : DatedByAnother(t)]_vars

(* No started thread calls the hop down while a mark recorded before its   *)
(* read still vouches for it, whichever thread recorded it.                *)
RecallReaches(t) ==
    ( /\ Concludes(t)
      /\ reader[t].shared
      /\ lastRecorded # Never
      /\ lastRecorded + ReadTime < reader[t].began
      /\ reader[t].at <= lastRecorded + Recall - ReadTime )
    => reader'[t].signal.verdict # "not-delivering"

(* RecallReaches of every status read: the mark is the node's.             *)
RecallReachesEveryThread == [][\A t \in Threads : RecallReaches(t)]_vars

(* A quiet node is never accused: the receiver's snapshot is the last busy *)
(* minute's, so "not-delivering" needs traffic inside the current window.    *)
AccusedOnTraffic(t) ==
    Concludes(t) /\ reader'[t].signal.verdict = "not-delivering"
        => Within(lastArrived, Window + ReadTime)

(* AccusedOnTraffic of every status read: the thisMinute test.             *)
QuietNodeIsNotAccused == [][\A t \in Threads : AccusedOnTraffic(t)]_vars

(* "Unrefuted" is never said without a log to read, nor while a refusal    *)
(* inside the window is still in the tail readTraceHop reads.              *)
UnrefutedInTail(t) ==
    Concludes(t) /\ reader'[t].signal.verdict = "traces-unrefuted" =>
        /\ log.exists
        /\ log.refusal = lastRefused => ~Within(lastRefused, LogWindow)

(* UnrefutedInTail of every status read: the order of deliveryVerdict.     *)
RefusalOutranksMemory == [][\A t \in Threads : UnrefutedInTail(t)]_vars

-----------------------------------------------------------------------------
(* What the source says of itself and the code does not do.                *)

(* delivery.js:85: in "proven", "true is evidence the hop works, false     *)
(* evidence it does not".  A verdict of "delivering" names a trace payload *)
(* the intake took, so tracesAtDatadog should not be false beside it.      *)
DeliveringIsNotDisproven ==
    \A t \in Threads :
        reader[t].signal.verdict = "delivering" => reader[t].signal.traces # "no"

=============================================================================
