---------------------------- MODULE DeliveryProofs ----------------------------
(***************************************************************************)
(* What holds of DeliverySignal for any number of threads and any clock,   *)
(* window and recall: its types, the soundness of the shared mark, and     *)
(* that no answer rests on expired evidence.                               *)
(***************************************************************************)
EXTENDS DeliverySignal, TLAPS

-----------------------------------------------------------------------------
(* The inductive invariant.                                                *)

(* Nothing recorded in the history lies in the future.                     *)
HistoryIsPast ==
    /\ lastAccepted # Never => lastAccepted <= now
    /\ lastRecorded # Never => lastRecorded <= now
    /\ lastArrived # Never => lastArrived <= now

(* What the agent publishes belongs to its current window.                 *)
AgentInv ==
    /\ agent.up =>
        /\ agent.reset <= now
        /\ now <= agent.reset + Window
    /\ agent.counters.statsPayloads > 0 =>
        /\ agent.up
        /\ lastAccepted # Never
        /\ agent.reset <= lastAccepted
    /\ agent.counters.work > 0 =>
        /\ agent.up
        /\ lastArrived # Never
        /\ \/ agent.counters.statsPayloads > 0
           \/ agent.counters.statsFailures > 0
           \/ agent.reset <= lastArrived

MarkInv ==
    /\ MarkIsBacked
    /\ MarkIsFresh
    /\ mark # Never => lastRecorded # Never /\ mark <= lastRecorded

HasBody(r)  == r.phase \in {"served", "stamped", "recalled"}
HasStamp(r) == r.phase \in {"stamped", "recalled"}

(* A read is bounded in time, so what it saw is at most that much older.   *)
BodyInv(r) ==
    /\ r.body.statsPayloads > 0 =>
        /\ lastAccepted # Never
        /\ r.began <= lastAccepted + Window
    /\ r.body.work > 0 =>
        /\ lastArrived # Never
        /\ \/ r.body.statsPayloads > 0
           \/ r.body.statsFailures > 0
           \/ r.began <= lastArrived + Window

SeenInv(r) ==
    /\ r.seen # Never =>
        /\ lastRecorded # Never
        /\ lastAccepted # Never
        /\ r.seen <= lastAccepted + Window + ReadTime
    /\ ( /\ r.shared
         /\ lastRecorded # Never
         /\ lastRecorded + ReadTime < r.began )
       => /\ r.seen # Never
          /\ r.seen <= r.at
          /\ lastRecorded <= r.seen + ReadTime

ReaderInv(r) ==
    /\ r.phase \notin {"idle", "answered"} =>
        /\ r.began <= now
        /\ now <= r.began + ReadTime
    /\ HasBody(r) => BodyInv(r)
    /\ HasStamp(r) => r.began <= r.at /\ r.at <= now
    /\ r.phase = "recalled" => SeenInv(r)

ReadersInv == \A t \in Threads : ReaderInv(reader[t])

IInv == TypeOK /\ HistoryIsPast /\ AgentInv /\ MarkInv /\ ReadersInv

-----------------------------------------------------------------------------
(* The verdict.                                                            *)

(* Every answer is a well-formed signal, and the age it reports is a       *)
(* natural number or absent (deliveryVerdict's guard on the recalled age). *)
LEMMA SignalType ==
    ASSUME NEW c \in Counters, NEW hop \in Hops, NEW recalled \in Int \cup {Never}
    PROVE  Signal(c, hop, recalled) \in Signals
<1>1. AcceptedAgo(recalled) \in Nat \cup {Never}
  BY DEF AcceptedAgo
<1>2. EmptyWindowVerdict(c, hop, recalled) \in Verdicts
  BY DEF EmptyWindowVerdict, RouteGood, Verdicts
<1>3. VerdictOf(c, hop, recalled) \in Verdicts
  BY <1>2 DEF VerdictOf, RouteGood, Verdicts
<1>4. ProvenStats(c) \in Evidence /\ ProvenTraces(c, hop) \in Evidence
  BY DEF ProvenStats, ProvenTraces, Evidence
<1>5. QED
  BY <1>1, <1>3, <1>4 DEF Signal, Signals

LEMMA UnavailableType == Unavailable \in Signals
  BY DEF Unavailable, Signals, Verdicts, Evidence

LEMMA ReaderTypes ==
    /\ NoWork \in Counters
    /\ Idle \in Readers
    /\ \A signal \in Signals : Answered(signal) \in Readers
<1>1. NoWork \in Counters
  BY DEF NoWork, Counters
<1>2. QED
  BY <1>1, UnavailableType DEF Idle, Answered, Readers, Phases, Times

(* Memory only ever excuses an empty window: what a recalled acceptance    *)
(* changes is a verdict about a window with nothing accepted and nothing   *)
(* refused, and it changes it to one that says the route out is good.      *)
THEOREM MemoryOnlyExcusesEmptyWindows ==
    ASSUME NEW c \in Counters, NEW hop \in Hops,
           NEW recalled \in Int \cup {Never},
           VerdictOf(c, hop, recalled) # VerdictOf(c, hop, Never)
    PROVE  /\ c.statsPayloads = 0 /\ c.statsFailures = 0
           /\ c.tracePayloads = 0 /\ c.traceFailures = 0
           /\ hop # "refused"
           /\ VerdictOf(c, hop, Never) \in {"idle", "not-delivering"}
           /\ VerdictOf(c, hop, recalled) = RouteGood(hop)
           /\ recalled \in 0 .. Recall
<1>1. ~Vouched(Never)
  BY VerdictAssumption DEF Vouched, AcceptedAgo
<1>2. Vouched(recalled) => recalled \in 0 .. Recall
  BY VerdictAssumption DEF Vouched, AcceptedAgo
<1>3. QED
  BY <1>1, <1>2 DEF VerdictOf, EmptyWindowVerdict, Counters, TracesRefused,
                    StatsRefused

(* The trace-agent's log decides the trace hop and nothing else: reading   *)
(* it turns "unconfirmed" into "unrefuted" or anything into "rejected",    *)
(* and it never turns an accusation into an all-clear.                     *)
THEOREM LogDecidesOnlyTheTraceHop ==
    ASSUME NEW c \in Counters, NEW hop \in Hops,
           NEW recalled \in Int \cup {Never},
           VerdictOf(c, hop, recalled) # VerdictOf(c, "none", recalled)
    PROVE  \/ /\ hop = "refused"
              /\ VerdictOf(c, hop, recalled) = "rejected"
           \/ /\ hop = "clear"
              /\ VerdictOf(c, "none", recalled) = "traces-unconfirmed"
              /\ VerdictOf(c, hop, recalled) = "traces-unrefuted"
  BY DEF VerdictOf, EmptyWindowVerdict, RouteGood, Hops

-----------------------------------------------------------------------------
(* Types.                                                                  *)

LEMMA RecalledType ==
    ASSUME NEW r \in Readers
    PROVE  Recalled(r) \in Int \cup {Never}
  BY DEF Recalled, Readers, Times

LEMMA TraceHopType ==
    ASSUME NEW r PROVE TraceHop(r) \in Hops
  BY DEF TraceHop, Hops

LEMMA ConclusionType ==
    ASSUME NEW r \in Readers
    PROVE  Answered(Signal(r.body, TraceHop(r), Recalled(r))) \in Readers
<1>1. r.body \in Counters
  BY DEF Readers
<1>2. Signal(r.body, TraceHop(r), Recalled(r)) \in Signals
  BY <1>1, RecalledType, TraceHopType, SignalType
<1>3. QED
  BY <1>2, ReaderTypes

LEMMA AgentFields ==
    ASSUME NEW a \in Agents
    PROVE  /\ a.counters \in Counters
           /\ a.counters.received \in Nat
           /\ a.counters.traceFailures \in Nat
  BY DEF Agents, Counters

LEMMA TimesFacts == Nat \subseteq Times /\ Never \in Times
  BY DEF Times

LEMMA PollingType ==
    ASSUME now \in Nat, NEW isStarted \in BOOLEAN
    PROVE  Polling(isStarted) \in Readers
  BY ReaderTypes DEF Polling, Readers, Phases

LEMMA TypeInit == Init => TypeOK
<1>1. NoWork \in Counters /\ Idle \in Readers
  BY ReaderTypes
<1>2. [up |-> FALSE, reset |-> 0, counters |-> NoWork] \in Agents
  BY <1>1 DEF Agents
<1>3. [exists |-> FALSE, refusal |-> Never] \in Logs
  BY DEF Logs, Times
<1>4. QED
  BY <1>1, <1>2, <1>3 DEF Init, TypeOK, Times

LEMMA TypeStep == TypeOK /\ [Next]_vars => TypeOK'
<1> SUFFICES ASSUME TypeOK, [Next]_vars PROVE TypeOK'
  OBVIOUS
<1>1. CASE UNCHANGED vars
  BY <1>1 DEF vars, history, TypeOK
<1>2. CASE Tick
  BY <1>2 DEF Tick, history, TypeOK
<1>3. CASE AgentStarts
  <2>1. agent' \in Agents
    BY <1>3, ReaderTypes DEF AgentStarts, TypeOK, Agents
  <2>2. QED
    BY <1>3, <2>1 DEF AgentStarts, history, TypeOK
<1>4. CASE AgentDies
  <2>1. agent' \in Agents
    BY <1>4, ReaderTypes DEF AgentDies, Agents
  <2>2. QED
    BY <1>4, <2>1 DEF AgentDies, history, TypeOK
<1>5. CASE WindowResets
  <2>1. agent.counters.received \in Nat
    BY AgentFields DEF TypeOK
  <2>2. [NoWork EXCEPT !.received = agent.counters.received] \in Counters
    BY <2>1 DEF NoWork, Counters
  <2>3. agent' \in Agents
    BY <1>5, <2>2 DEF WindowResets, TypeOK, Agents
  <2>4. QED
    BY <1>5, <2>3 DEF WindowResets, history, TypeOK
<1>6. CASE SpansArrive
  <2>1. agent \in Agents /\ agent.counters \in Counters
    BY AgentFields DEF TypeOK
  <2>2. [agent.counters EXCEPT !.received = 1, !.work = 1] \in Counters
    BY <2>1 DEF Counters
  <2>3. agent' \in Agents
    BY <1>6, <2>1, <2>2 DEF SpansArrive, Count, Agents
  <2>4. QED
    BY <1>6, <2>3 DEF SpansArrive, TypeOK, Times
<1>7. CASE ClientStatsArrive
  <2>1. agent \in Agents /\ agent.counters \in Counters
    BY AgentFields DEF TypeOK
  <2>2. [agent.counters EXCEPT !.work = 1] \in Counters
    BY <2>1 DEF Counters
  <2>3. agent' \in Agents
    BY <1>7, <2>1, <2>2 DEF ClientStatsArrive, Count, Agents
  <2>4. QED
    BY <1>7, <2>3 DEF ClientStatsArrive, TypeOK, Times
<1>8. CASE StatsAccepted
  <2>1. agent \in Agents /\ agent.counters \in Counters
    BY AgentFields DEF TypeOK
  <2>2. [agent.counters EXCEPT !.statsPayloads = 1, !.work = 1] \in Counters
    BY <2>1 DEF Counters
  <2>3. agent' \in Agents
    BY <1>8, <2>1, <2>2 DEF StatsAccepted, Count, Agents
  <2>4. QED
    BY <1>8, <2>3 DEF StatsAccepted, TypeOK, Times
<1>9. CASE StatsTurnedAway
  <2>1. agent \in Agents /\ agent.counters \in Counters
    BY AgentFields DEF TypeOK
  <2>2. [agent.counters EXCEPT !.statsFailures = 1, !.work = 1] \in Counters
    BY <2>1 DEF Counters
  <2>3. agent' \in Agents
    BY <1>9, <2>1, <2>2 DEF StatsTurnedAway, Count, Agents
  <2>4. QED
    BY <1>9, <2>3 DEF StatsTurnedAway, TypeOK, Times, history
<1>10. CASE TraceAccepted
  <2>1. agent \in Agents /\ agent.counters \in Counters
    BY AgentFields DEF TypeOK
  <2>2. [agent.counters EXCEPT !.tracePayloads = 1] \in Counters
    BY <2>1 DEF Counters
  <2>3. agent' \in Agents
    BY <1>10, <2>1, <2>2 DEF TraceAccepted, Count, Agents
  <2>4. QED
    BY <1>10, <2>3 DEF TraceAccepted, TypeOK, Times, history
<1>11. CASE TraceTurnedAway
  <2>1. agent \in Agents /\ agent.counters \in Counters /\ log \in Logs
    BY AgentFields DEF TypeOK
  <2>2. PICK counted \in {agent.counters.traceFailures, 1} :
            Count([agent.counters EXCEPT !.traceFailures = counted])
    BY <1>11 DEF TraceTurnedAway
  <2>3. counted \in Nat
    BY <2>1, AgentFields
  <2>4. [agent.counters EXCEPT !.traceFailures = counted] \in Counters
    BY <2>1, <2>3 DEF Counters
  <2>5. agent' \in Agents
    BY <2>1, <2>2, <2>4 DEF Count, Agents
  <2>6. now \in Times
    BY DEF TypeOK, Times
  <2>7. log' \in Logs
    BY <1>11, <2>1, <2>6, TimesFacts DEF TraceTurnedAway, Logs
  <2>8. QED
    BY <1>11, <2>5, <2>6, <2>7 DEF TraceTurnedAway, TypeOK
<1>12. CASE LogScrolls
  <2>1. log \in Logs
    BY DEF TypeOK
  <2>2. log' \in Logs
    BY <1>12, <2>1, TimesFacts DEF LogScrolls, Logs
  <2>3. QED
    BY <1>12, <2>2 DEF LogScrolls, TypeOK, history
<1>13. CASE HarperRestarts
  BY <1>13, ReaderTypes DEF HarperRestarts, TypeOK
<1>14. ASSUME NEW t \in Threads, ThreadStarts(t) PROVE TypeOK'
  BY <1>14 DEF ThreadStarts, history, TypeOK
<1>15. ASSUME NEW t \in Threads, ReadBegins(t) PROVE TypeOK'
  <2>1. Polling(started[t]) \in Readers
    BY PollingType DEF TypeOK
  <2>2. Answered(Unavailable) \in Readers
    BY ReaderTypes, UnavailableType
  <2>3. reader' \in [Threads -> Readers]
    BY <1>15, <2>1, <2>2 DEF ReadBegins, TypeOK
  <2>4. held' \in [Threads -> SUBSET Times]
    BY <1>15 DEF ReadBegins, TypeOK
  <2>5. QED
    BY <1>15, <2>3, <2>4 DEF ReadBegins, TypeOK
<1>16. ASSUME NEW t \in Threads, PollFails(t) PROVE TypeOK'
  BY <1>16, ReaderTypes, UnavailableType DEF PollFails, TypeOK
<1>17. ASSUME NEW t \in Threads, AgentServes(t) PROVE TypeOK'
  <2>1. reader[t] \in Readers /\ agent.counters \in Counters
    BY AgentFields DEF TypeOK
  <2>2. [reader[t] EXCEPT !.phase = "served", !.body = agent.counters]
            \in Readers
    BY <2>1 DEF Readers, Phases
  <2>3. reader' \in [Threads -> Readers]
    BY <1>17, <2>2 DEF AgentServes, TypeOK
  <2>4. QED
    BY <1>17, <2>3 DEF AgentServes, history, TypeOK
<1>18. ASSUME NEW t \in Threads, ClockRead(t) PROVE TypeOK'
  <2>1. reader[t] \in Readers /\ now \in Nat
    BY DEF TypeOK
  <2>2. [reader[t] EXCEPT !.phase = "stamped", !.at = now]
            \in Readers
    BY <2>1 DEF Readers, Phases
  <2>3. reader' \in [Threads -> Readers]
    BY <1>18, <2>2 DEF ClockRead, TypeOK
  <2>4. QED
    BY <1>18, <2>3 DEF ClockRead, history, TypeOK
<1>19. ASSUME NEW t \in Threads, MarkRead(t) PROVE TypeOK'
  <2>1. reader[t] \in Readers /\ mark \in Times /\ Never \in Times
    BY TimesFacts DEF TypeOK
  <2>2. [reader[t] EXCEPT !.phase = "recalled",
                        !.seen = IF reader[t].shared THEN mark ELSE Never]
            \in Readers
    BY <2>1 DEF Readers, Phases
  <2>3. reader' \in [Threads -> Readers]
    BY <1>19, <2>2 DEF MarkRead, TypeOK
  <2>4. QED
    BY <1>19, <2>3 DEF MarkRead, history, TypeOK
<1>20. ASSUME NEW t \in Threads, ReadConcludes(t) PROVE TypeOK'
  <2>1. reader[t] \in Readers
    BY DEF TypeOK
  <2>2. reader' \in [Threads -> Readers]
    BY <1>20, <2>1, ConclusionType DEF ReadConcludes, TypeOK
  <2>3. mark' \in Times /\ lastRecorded' \in Times
    BY <1>20, <2>1 DEF ReadConcludes, Records, Remember, Readers, Times, TypeOK
  <2>4. held' \in [Threads -> SUBSET Times]
    BY <1>20, <2>3 DEF ReadConcludes, TypeOK
  <2>5. QED
    BY <1>20, <2>2, <2>3, <2>4 DEF ReadConcludes, TypeOK
<1>21. CASE LogOpens \/ LogLost
  <2>1. \A exists \in BOOLEAN : [exists |-> exists, refusal |-> Never] \in Logs
    BY TimesFacts DEF Logs
  <2>2. log' \in Logs
    BY <1>21, <2>1 DEF LogOpens, LogLost
  <2>3. QED
    BY <1>21, <2>2 DEF LogOpens, LogLost, TypeOK, history
<1>22. ASSUME Agent PROVE TypeOK'
  BY <1>3, <1>4, <1>5, <1>6, <1>7, <1>8, <1>9, <1>10, <1>11, <1>12, <1>21,
     <1>22 DEF Agent
<1>23. ASSUME NEW t \in Threads, Read(t) PROVE TypeOK'
  BY <1>15, <1>16, <1>17, <1>18, <1>19, <1>20, <1>23 DEF Read
<1>24. QED
  BY <1>1, <1>2, <1>13, <1>14, <1>22, <1>23 DEF Next

(* Every reachable state is well typed: in particular every published      *)
(* statsAcceptedMsAgo is a natural number or absent.                       *)
THEOREM TypeCorrect == Spec => []TypeOK
<1>1. QED
  BY TypeInit, TypeStep, PTL DEF Spec

-----------------------------------------------------------------------------
(* The inductive invariant is preserved.                                   *)

LEMMA Numbers ==
    ASSUME TypeOK
    PROVE  /\ now \in Nat
           /\ Window \in Nat /\ Window > 0 /\ ReadTime \in Nat
           /\ lastArrived # Never => lastArrived \in Nat
           /\ lastAccepted # Never => lastAccepted \in Nat
           /\ lastRecorded # Never => lastRecorded \in Nat
           /\ mark # Never => mark \in Nat
           /\ Never \notin Nat
  BY SignalAssumption, VerdictAssumption DEF TypeOK, Times

LEMMA ReaderNumbers ==
    ASSUME NEW r \in Readers
    PROVE  /\ r.began \in Nat
           /\ r.at \in Nat
           /\ r.seen # Never => r.seen \in Nat
           /\ r.body \in Counters
  BY DEF Readers, Times

(* A read's invariant survives anything the agent or another thread does   *)
(* to the history: acceptances and arrivals only get more recent.          *)
LEMMA ReadersStable ==
    ASSUME TypeOK, ReadersInv, HistoryIsPast,
           UNCHANGED <<now, reader, lastRecorded>>,
           lastAccepted' = lastAccepted \/ lastAccepted' = now,
           lastArrived' = lastArrived \/ lastArrived' = now
    PROVE  ReadersInv'
<1> SUFFICES ASSUME NEW t \in Threads PROVE ReaderInv(reader[t])'
  BY DEF ReadersInv
<1> DEFINE r == reader[t]
<1>1. r \in Readers /\ ReaderInv(r) /\ r' = r
  BY DEF TypeOK, ReadersInv
<1>2. CASE r.phase \in {"idle", "answered"}
  BY <1>1, <1>2 DEF ReaderInv, HasBody, HasStamp
<1>3. CASE r.phase \notin {"idle", "answered"}
  <2>1. r.began <= now /\ now <= r.began + ReadTime
    BY <1>1, <1>3 DEF ReaderInv
  <2>2. BodyInv(r) => BodyInv(r)'
    BY <1>1, <2>1, Numbers, ReaderNumbers DEF BodyInv
  <2>3. HasStamp(r) /\ SeenInv(r) => SeenInv(r)'
    <3> SUFFICES ASSUME HasStamp(r), SeenInv(r) PROVE SeenInv(r)'
      OBVIOUS
    <3>1. r.at <= now
      BY <1>1 DEF ReaderInv
    <3>2. CASE lastAccepted' = lastAccepted
      BY <1>1, <3>2 DEF SeenInv
    <3>3. CASE lastAccepted' = now
      <4>1. r.seen # Never => r.seen <= now + Window + ReadTime
        BY <1>1, Numbers, ReaderNumbers DEF SeenInv, HistoryIsPast
      <4>2. QED
        BY <1>1, <3>3, <4>1, Numbers DEF SeenInv
    <3>4. QED
      BY <3>2, <3>3
  <2>4. QED
    BY <1>1, <2>1, <2>2, <2>3 DEF ReaderInv, HasBody, HasStamp
<1>4. QED
  BY <1>2, <1>3

LEMMA InvInit == Init => IInv
<1> SUFFICES ASSUME Init PROVE IInv
  OBVIOUS
<1>1. TypeOK
  BY TypeInit
<1>2. HistoryIsPast /\ MarkInv
  BY DEF Init, HistoryIsPast, MarkInv, MarkIsBacked, MarkIsFresh
<1>3. AgentInv
  BY DEF Init, AgentInv, NoWork
<1>4. ReadersInv
  BY DEF Init, ReadersInv, ReaderInv, Idle, HasBody, HasStamp
<1>5. QED
  BY <1>1, <1>2, <1>3, <1>4 DEF IInv

(* One thread's read moves on; the others are as they were.                *)
LEMMA ReaderMoves ==
    ASSUME TypeOK, ReadersInv, NEW t \in Threads, NEW r,
           reader' = [reader EXCEPT ![t] = r],
           ReaderInv(r)',
           UNCHANGED <<now, lastAccepted, lastArrived, lastRecorded>>
    PROVE  ReadersInv'
<1> SUFFICES ASSUME NEW u \in Threads PROVE ReaderInv(reader[u])'
  BY DEF ReadersInv
<1>1. CASE u = t
  BY <1>1 DEF TypeOK
<1>2. CASE u # t
  <2>1. reader'[u] = reader[u]
    BY <1>2 DEF TypeOK
  <2>2. ReaderInv(reader[u])
    BY DEF ReadersInv
  <2>3. QED
    BY <2>1, <2>2
       DEF ReaderInv, HasBody, HasStamp, BodyInv, SeenInv
<1>3. QED
  BY <1>1, <1>2

LEMMA TickStep == IInv /\ Tick => IInv'
<1> SUFFICES ASSUME IInv, Tick PROVE IInv'
  OBVIOUS
<1>1. TypeOK /\ TypeOK'
  BY TypeStep DEF IInv, Next
<1>2. HistoryIsPast' /\ AgentInv' /\ MarkInv'
  BY <1>1, Numbers
     DEF IInv, Tick, history, HistoryIsPast, AgentInv, MarkInv, MarkIsBacked,
         MarkIsFresh, TypeOK, Agents
<1>3. ASSUME NEW t \in Threads PROVE ReaderInv(reader[t])'
  <2>1. reader[t] \in Readers /\ ReaderInv(reader[t])
    BY <1>1 DEF TypeOK, IInv, ReadersInv
  <2>2. CASE InProgress(t)
    <3>1. now < reader[t].began + ReadTime /\ now' = now + 1
      BY <2>2 DEF Tick
    <3>2. QED
      BY <1>1, <2>1, <2>2, <3>1, Numbers, ReaderNumbers
         DEF Tick, history, ReaderInv, HasBody, HasStamp, BodyInv, SeenInv,
             InProgress
  <2>3. CASE ~InProgress(t)
    BY <2>1, <2>3 DEF Tick, ReaderInv, InProgress, HasBody, HasStamp
  <2>4. QED
    BY <2>2, <2>3
<1>4. QED
  BY <1>1, <1>2, <1>3 DEF IInv, ReadersInv

LEMMA AgentStep == IInv /\ Agent => IInv'
<1> SUFFICES ASSUME IInv, Agent PROVE IInv'
  OBVIOUS
<1>1. TypeOK /\ TypeOK' /\ agent \in Agents /\ agent.counters \in Counters
  BY TypeStep, AgentFields DEF IInv, Next, TypeOK
<1>2. UNCHANGED <<now, reader, mark, lastRecorded>>
  BY DEF Agent, AgentStarts, LogOpens, LogLost, AgentDies, WindowResets, SpansArrive,
         ClientStatsArrive, StatsAccepted, StatsTurnedAway, TraceAccepted,
         TraceTurnedAway, LogScrolls, history
<1>3. /\ lastAccepted' = lastAccepted \/ lastAccepted' = now
      /\ lastArrived' = lastArrived \/ lastArrived' = now
  BY DEF Agent, AgentStarts, LogOpens, LogLost, AgentDies, WindowResets, SpansArrive,
         ClientStatsArrive, StatsAccepted, StatsTurnedAway, TraceAccepted,
         TraceTurnedAway, LogScrolls, history
<1>4. ReadersInv'
  BY <1>1, <1>2, <1>3, ReadersStable DEF IInv
<1>5. HistoryIsPast' /\ MarkInv'
  BY <1>1, <1>2, <1>3, Numbers
     DEF IInv, HistoryIsPast, MarkInv, MarkIsBacked, MarkIsFresh
<1>6. AgentInv'
  <2> USE DEF AgentInv, IInv
  <2>1. CASE AgentStarts
    BY <1>1, <2>1, Numbers DEF AgentStarts, NoWork
  <2>2. CASE AgentDies
    BY <1>1, <2>2 DEF AgentDies, NoWork
  <2>3. CASE WindowResets
    BY <1>1, <2>3, Numbers DEF WindowResets, NoWork
  <2>4. CASE SpansArrive
    BY <1>1, <2>4, Numbers DEF SpansArrive, Count, Agents, Counters
  <2>5. CASE ClientStatsArrive
    BY <1>1, <2>5, Numbers DEF ClientStatsArrive, Count, Agents, Counters
  <2>6. CASE StatsAccepted
    BY <1>1, <2>6, Numbers
       DEF StatsAccepted, HasStats, Count, Agents, Counters
  <2>7. CASE StatsTurnedAway
    BY <1>1, <2>7, Numbers
       DEF StatsTurnedAway, HasStats, Count, Agents, Counters, history
  <2>8. CASE TraceAccepted
    BY <1>1, <2>8 DEF TraceAccepted, Count, Agents, Counters, history
  <2>9. CASE TraceTurnedAway
    BY <1>1, <2>9 DEF TraceTurnedAway, Count, Agents, Counters
  <2>10. CASE LogScrolls \/ LogOpens \/ LogLost
    BY <2>10 DEF LogScrolls, LogOpens, LogLost, history
  <2>11. QED
    BY <2>1, <2>2, <2>3, <2>4, <2>5, <2>6, <2>7, <2>8, <2>9, <2>10 DEF Agent
<1>7. QED
  BY <1>1, <1>4, <1>5, <1>6 DEF IInv

LEMMA ReadStep == ASSUME NEW t \in Threads PROVE IInv /\ Read(t) => IInv'
<1> SUFFICES ASSUME IInv, Read(t) PROVE IInv'
  OBVIOUS
<1> DEFINE r == reader[t]
<1>1. TypeOK /\ TypeOK' /\ r \in Readers /\ ReaderInv(r)
  BY TypeStep DEF IInv, Next, TypeOK, ReadersInv
<1>2. UNCHANGED <<now, agent, lastAccepted, lastArrived>>
  BY DEF Read, ReadBegins, PollFails, AgentServes, ClockRead, MarkRead,
         ReadConcludes, history
<1>3. AgentInv'
  BY <1>2 DEF IInv, AgentInv
<1>4. ASSUME UNCHANGED <<mark, lastRecorded>> PROVE HistoryIsPast' /\ MarkInv'
  BY <1>2, <1>4 DEF IInv, HistoryIsPast, MarkInv, MarkIsBacked, MarkIsFresh
<1>5. \A signal : ReaderInv(Answered(signal))'
  BY DEF Answered, Idle, ReaderInv, HasBody, HasStamp
<1>6. CASE ReadBegins(t)
  <2> PICK q : q = IF port = 0 THEN Answered(Unavailable)
                   ELSE Polling(started[t])
    OBVIOUS
  <2>1. ReaderInv(q)'
    BY <1>1, <1>2, <1>5, Numbers DEF Polling, Idle, ReaderInv, HasBody, HasStamp
  <2>2. ReadersInv'
    BY <1>1, <1>2, <1>6, <2>1, ReaderMoves DEF ReadBegins, history, IInv
  <2>3. QED
    BY <1>1, <1>3, <1>4, <1>6, <2>2 DEF ReadBegins, history, IInv
<1>7. CASE PollFails(t)
  <2>1. ReadersInv'
    BY <1>1, <1>2, <1>5, <1>7, ReaderMoves DEF PollFails, history, IInv
  <2>2. QED
    BY <1>1, <1>3, <1>4, <1>7, <2>1 DEF PollFails, history, IInv
<1>8. CASE AgentServes(t)
  <2> PICK q : q = [r EXCEPT !.phase = "served", !.body = agent.counters]
    OBVIOUS
  <2>1. /\ q.phase = "served" /\ q.began = r.began /\ q.body = agent.counters
        /\ q.at = r.at /\ q.seen = r.seen /\ q.shared = r.shared
    BY <1>1 DEF Readers
  <2>2. r.began <= now /\ now <= r.began + ReadTime
    BY <1>1, <1>8 DEF AgentServes, ReaderInv
  <2>3. BodyInv(q)
    BY <1>1, <2>1, <2>2, Numbers, ReaderNumbers
       DEF BodyInv, IInv, AgentInv, HistoryIsPast, TypeOK, Agents
  <2>4. ReaderInv(q)'
    BY <1>2, <2>1, <2>2, <2>3 DEF ReaderInv, BodyInv, HasBody, HasStamp
  <2>5. ReadersInv'
    BY <1>1, <1>2, <1>8, <2>4, ReaderMoves DEF AgentServes, history, IInv
  <2>6. QED
    BY <1>1, <1>3, <1>4, <1>8, <2>5 DEF AgentServes, history, IInv
<1>9. CASE ClockRead(t)
  <2> PICK q : q = [r EXCEPT !.phase = "stamped", !.at = now]
    OBVIOUS
  <2>1. /\ q.phase = "stamped" /\ q.began = r.began /\ q.body = r.body
        /\ q.at = now /\ q.seen = r.seen /\ q.shared = r.shared
    BY <1>1 DEF Readers
  <2>2. /\ r.began <= now /\ now <= r.began + ReadTime
        /\ BodyInv(r)
    BY <1>1, <1>9 DEF ClockRead, ReaderInv, HasBody
  <2>3. ReaderInv(q)'
    BY <1>1, <1>2, <2>1, <2>2, Numbers DEF ReaderInv, BodyInv, HasBody, HasStamp
  <2>4. ReadersInv'
    BY <1>1, <1>2, <1>9, <2>3, ReaderMoves DEF ClockRead, history, IInv
  <2>5. QED
    BY <1>1, <1>3, <1>4, <1>9, <2>4 DEF ClockRead, history, IInv
<1>10. CASE MarkRead(t)
  <2> PICK q : q = [r EXCEPT !.phase = "recalled",
                             !.seen = IF r.shared THEN mark ELSE Never]
    OBVIOUS
  <2>1. /\ q.phase = "recalled" /\ q.began = r.began /\ q.body = r.body
        /\ q.at = r.at /\ q.shared = r.shared
        /\ q.seen = IF r.shared THEN mark ELSE Never
    BY <1>1 DEF Readers
  <2>2. /\ r.began <= now /\ now <= r.began + ReadTime
        /\ BodyInv(r) /\ r.began <= r.at /\ r.at <= now
    BY <1>1, <1>10 DEF MarkRead, ReaderInv, HasBody, HasStamp
  <2>3. SeenInv(q)
    BY <1>1, <2>1, <2>2, Numbers, ReaderNumbers
       DEF SeenInv, IInv, MarkInv, MarkIsBacked, MarkIsFresh
  <2>4. /\ UNCHANGED <<mark, lastRecorded>>
        /\ reader' = [reader EXCEPT ![t] = q]
    BY <1>10 DEF MarkRead, history
  <2>5. ReaderInv(q)'
    BY <1>1, <1>2, <2>1, <2>2, <2>3, <2>4
       DEF ReaderInv, BodyInv, SeenInv, HasBody, HasStamp
  <2>6. ReadersInv'
    BY <1>1, <1>2, <2>4, <2>5, ReaderMoves DEF IInv
  <2>7. QED
    BY <1>1, <1>3, <1>4, <2>4, <2>6 DEF IInv
<1>11. CASE ReadConcludes(t)
  <2>1. /\ r.began <= now /\ now <= r.began + ReadTime
        /\ BodyInv(r) /\ r.began <= r.at /\ r.at <= now
    BY <1>1, <1>11 DEF ReadConcludes, ReaderInv, HasBody, HasStamp
  <2>2. CASE UNCHANGED <<mark, lastRecorded>>
    <3>1. ReadersInv'
      BY <1>1, <1>2, <1>5, <1>11, <2>2, ReaderMoves DEF ReadConcludes, IInv
    <3>2. QED
      BY <1>1, <1>3, <1>4, <2>2, <3>1 DEF IInv
  <2>3. CASE r.shared /\ r.body.statsPayloads > 0 /\ Remember(r.at)
    <3>1. lastRecorded' # Never /\ lastRecorded' \in Nat /\ mark' = r.at
      BY <1>1, <2>3, Numbers, ReaderNumbers DEF Remember
    <3>2. /\ lastRecorded' <= now
          /\ r.at <= lastRecorded'
          /\ lastRecorded' = lastRecorded \/ lastRecorded' = r.at
      BY <1>1, <2>1, <2>3, Numbers, ReaderNumbers
         DEF Remember, IInv, HistoryIsPast
    <3>3. HistoryIsPast'
      BY <1>2, <3>2 DEF IInv, HistoryIsPast
    <3>4. MarkInv'
      BY <1>1, <1>2, <2>1, <2>3, <3>1, <3>2, Numbers, ReaderNumbers
         DEF MarkInv, MarkIsBacked, MarkIsFresh, BodyInv
    <3>5. ASSUME NEW u \in Threads PROVE ReaderInv(reader[u])'
      <4>1. CASE u = t
        BY <1>1, <1>5, <1>11, <4>1 DEF ReadConcludes, TypeOK
      <4>2. CASE u # t
        <5> DEFINE q == reader[u]
        <5>1. reader'[u] = q /\ q \in Readers /\ ReaderInv(q)
          BY <1>1, <1>11, <4>2 DEF ReadConcludes, TypeOK, IInv, ReadersInv
        <5>2. CASE q.phase # "recalled"
          BY <1>2, <5>1, <5>2 DEF ReaderInv, HasBody, HasStamp, BodyInv
        <5>3. CASE q.phase = "recalled"
          <6>1. /\ q.began <= now /\ now <= q.began + ReadTime
                /\ SeenInv(q)
            BY <5>1, <5>3 DEF ReaderInv
          <6>2. SeenInv(q)'
            BY <1>1, <1>2, <2>1, <3>1, <3>2, <5>1, <6>1, Numbers, ReaderNumbers
               DEF SeenInv
          <6>3. QED
            BY <1>2, <5>1, <5>3, <6>2
               DEF ReaderInv, HasBody, HasStamp, BodyInv
        <5>4. QED
          BY <5>2, <5>3
      <4>3. QED
        BY <4>1, <4>2
    <3>6. QED
      BY <1>1, <1>3, <3>3, <3>4, <3>5 DEF IInv, ReadersInv
  <2>4. QED
    BY <1>11, <2>2, <2>3 DEF ReadConcludes, Records
<1>12. QED
  BY <1>6, <1>7, <1>8, <1>9, <1>10, <1>11 DEF Read

LEMMA InvStep == IInv /\ [Next]_vars => IInv'
<1> SUFFICES ASSUME IInv, [Next]_vars PROVE IInv'
  OBVIOUS
<1>1. CASE UNCHANGED vars
  <2>1. TypeOK'
    BY <1>1, TypeStep DEF IInv
  <2>2. /\ UNCHANGED <<now, agent, mark, reader>>
        /\ UNCHANGED <<lastArrived, lastAccepted, lastRecorded>>
    BY <1>1 DEF vars, history
  <2>3. QED
    BY <2>1, <2>2
       DEF IInv, HistoryIsPast, AgentInv, MarkInv, MarkIsBacked, MarkIsFresh,
           ReadersInv, ReaderInv, HasBody, HasStamp, BodyInv, SeenInv
<1>2. CASE HarperRestarts
  <2>1. TypeOK'
    BY <1>2, TypeStep DEF IInv, Next
  <2>2. ReadersInv'
    BY <1>2 DEF HarperRestarts, ReadersInv, ReaderInv, Idle, HasBody, HasStamp
  <2>3. QED
    BY <1>2, <2>1, <2>2
       DEF HarperRestarts, history, IInv, HistoryIsPast, AgentInv, MarkInv,
           MarkIsBacked, MarkIsFresh
<1>3. ASSUME NEW t \in Threads, ThreadStarts(t) PROVE IInv'
  <2>1. TypeOK'
    BY <1>3, TypeStep DEF IInv, Next
  <2>2. /\ UNCHANGED <<now, agent, mark, reader>>
        /\ UNCHANGED <<lastArrived, lastAccepted, lastRecorded>>
    BY <1>3 DEF ThreadStarts, history
  <2>3. QED
    BY <2>1, <2>2
       DEF IInv, HistoryIsPast, AgentInv, MarkInv, MarkIsBacked, MarkIsFresh,
           ReadersInv, ReaderInv, HasBody, HasStamp, BodyInv, SeenInv
<1>4. QED
  BY <1>1, <1>2, <1>3, TickStep, AgentStep, ReadStep DEF Next

LEMMA Invariance == Spec => []IInv
  BY InvInit, InvStep, PTL DEF Spec

-----------------------------------------------------------------------------
(* The properties.                                                         *)

(* The shared mark always stands on a real acceptance, however many        *)
(* threads read and record at once and however often Harper restarts.      *)
THEOREM MarkSound == Spec => [](MarkIsBacked /\ MarkIsFresh)
  BY Invariance, PTL DEF IInv, MarkInv

(* Only ReadConcludes answers a recalled read.                             *)
LEMMA ConcludesBy ==
    ASSUME TypeOK, [Next]_vars, NEW t \in Threads, Concludes(t)
    PROVE  ReadConcludes(t)
<1>1. reader[t].phase = "recalled" /\ reader'[t].phase = "answered"
  BY DEF Concludes
<1>2. reader' # reader
  BY <1>1
<1>3. reader'[t].phase # "idle"
  BY <1>1
<1>4. ~HarperRestarts
  BY <1>3 DEF HarperRestarts, Idle
<1>5. PICK u \in Threads : Read(u)
  BY <1>2, <1>4
     DEF Next, vars, Tick, Agent, AgentStarts, LogOpens, LogLost, AgentDies,
         WindowResets,
         SpansArrive, ClientStatsArrive, StatsAccepted, StatsTurnedAway,
         TraceAccepted, TraceTurnedAway, LogScrolls, ThreadStarts
<1>6. CASE u # t
  <2>1. reader'[t] = reader[t]
    BY <1>5, <1>6 DEF TypeOK, Read, ReadBegins, PollFails, AgentServes,
                      ClockRead, MarkRead, ReadConcludes
  <2>2. QED
    BY <1>1, <2>1
<1>7. CASE u = t
  BY <1>1, <1>5, <1>7 DEF Read, ReadBegins, InProgress, PollFails, AgentServes,
                          ClockRead, MarkRead
<1>8. QED
  BY <1>6, <1>7

(* What a concluding read answers and what its invariant says of it.       *)
LEMMA Conclusion ==
    ASSUME IInv, [Next]_vars, NEW t \in Threads, Concludes(t)
    PROVE  LET r == reader[t]
           IN  /\ r \in Readers
               /\ reader'[t].signal = Signal(r.body, TraceHop(r), Recalled(r))
               /\ r.began <= now /\ now <= r.began + ReadTime
               /\ r.began <= r.at /\ r.at <= now
               /\ BodyInv(r) /\ SeenInv(r)
<1> DEFINE r == reader[t]
<1>1. TypeOK /\ r \in Readers /\ ReaderInv(r)
  BY DEF IInv, TypeOK, ReadersInv
<1>2. ReadConcludes(t) /\ r.phase = "recalled"
  BY <1>1, ConcludesBy DEF Concludes
<1>3. reader'[t] = Answered(Signal(r.body, TraceHop(r), Recalled(r)))
  BY <1>1, <1>2 DEF ReadConcludes, TypeOK
<1>4. \A signal : Answered(signal).signal = signal
  BY DEF Answered, Idle
<1>5. QED
  BY <1>1, <1>2, <1>3, <1>4 DEF ReaderInv, HasBody, HasStamp

(* What one answer says of the stats hop is backed by an acceptance, with  *)
(* the trace-agent's log there or not: a counted payload by one of this    *)
(* window, a verdict that calls the route out good by one within the       *)
(* recall, and a dated acceptance by one no older than its date            *)
(* (deliveryVerdict, recallStatsWindow).                                   *)
THEOREM StatsClaimsHold == Spec => StatsClaimsAreBacked
<1>1. ASSUME IInv, [Next]_vars, NEW t \in Threads, Concludes(t)
      PROVE  /\ reader'[t].signal.stats = "yes" =>
                  Within(lastAccepted, Window + ReadTime)
             /\ reader'[t].signal.verdict
                    \in {"traces-unrefuted", "traces-unconfirmed"} =>
                  Within(lastAccepted, Recall + Window + 2 * ReadTime)
             /\ reader'[t].signal.ago # Never =>
                  Within(lastAccepted,
                         reader'[t].signal.ago + Window + 2 * ReadTime)
  <2> DEFINE r == reader[t]
  <2>1. /\ r \in Readers
        /\ reader'[t].signal = Signal(r.body, TraceHop(r), Recalled(r))
        /\ r.began <= now /\ now <= r.began + ReadTime
        /\ r.began <= r.at /\ r.at <= now
        /\ BodyInv(r) /\ SeenInv(r)
    BY <1>1, Conclusion
  <2>2. TypeOK /\ Recall \in Nat
    BY <1>1, VerdictAssumption DEF IInv
  <2>3. r.body.statsPayloads > 0 => Within(lastAccepted, Window + ReadTime)
    BY <2>1, <2>2, Numbers, ReaderNumbers DEF BodyInv, Within
  <2>4. Vouched(Recalled(r))
            => Within(lastAccepted, Recall + Window + 2 * ReadTime)
    <3>1. Vouched(Recalled(r)) => r.seen # Never /\ r.at - r.seen <= Recall
      BY <2>1, <2>2, Numbers, ReaderNumbers
         DEF Vouched, AcceptedAgo, Recalled
    <3>2. QED
      BY <2>1, <2>2, <3>1, Numbers, ReaderNumbers DEF SeenInv, Within
  <2>5. reader'[t].signal.stats = "yes" => r.body.statsPayloads > 0
    BY <2>1 DEF Signal, ProvenStats
  <2>6. reader'[t].signal.verdict \in {"traces-unrefuted", "traces-unconfirmed"}
            => r.body.statsPayloads > 0 \/ Vouched(Recalled(r))
    BY <2>1 DEF Signal, VerdictOf, EmptyWindowVerdict
  <2>7. Within(lastAccepted, Window + ReadTime)
            => Within(lastAccepted, Recall + Window + 2 * ReadTime)
    BY <2>2, Numbers DEF Within
  <2>8. ASSUME reader'[t].signal.ago # Never
        PROVE  Within(lastAccepted,
                      reader'[t].signal.ago + Window + 2 * ReadTime)
    <3>1. r.seen # Never /\ reader'[t].signal.ago = r.at - r.seen
      BY <2>1, <2>8 DEF Signal, AcceptedAgo, Recalled
    <3>2. QED
      BY <2>1, <2>2, <3>1, Numbers, ReaderNumbers DEF SeenInv, Within
  <2>9. QED
    BY <2>3, <2>4, <2>5, <2>6, <2>7, <2>8
<1>2. IInv /\ [Next]_vars => [\A t \in Threads : ClaimBacked(t)]_vars
  BY <1>1 DEF ClaimBacked
<1>3. QED
  BY <1>2, Invariance, PTL DEF Spec, StatsClaimsAreBacked

(* While a read runs, the mark on disk is one held there before the read   *)
(* recorded anything, and so is the mark it has seen.                      *)
HeldInv ==
    \A t \in Threads :
        /\ InProgress(t) => mark \in held[t]
        /\ reader[t].phase = "recalled" /\ reader[t].seen # Never
              => reader[t].seen \in held[t]

LEMMA HeldInit == Init => HeldInv
  BY DEF Init, HeldInv, InProgress, Idle

LEMMA HeldStep == TypeOK /\ HeldInv /\ [Next]_vars => HeldInv'
<1> SUFFICES ASSUME TypeOK, HeldInv, [Next]_vars PROVE HeldInv'
  OBVIOUS
<1>1. CASE UNCHANGED <<mark, reader, held>>
  BY <1>1 DEF HeldInv, InProgress
<1>2. CASE HarperRestarts
  BY <1>2 DEF HarperRestarts, HeldInv, InProgress, Idle
<1>3. ASSUME NEW t \in Threads, ReadBegins(t) PROVE HeldInv'
  <2>1. Answered(Unavailable).phase = "answered"
        /\ Polling(started[t]).phase = "polling"
    BY DEF Answered, Polling, Idle
  <2>2. QED
    BY <1>3, <2>1 DEF ReadBegins, HeldInv, InProgress, TypeOK
<1>4. ASSUME NEW t \in Threads, PollFails(t) PROVE HeldInv'
  <2>1. Answered(Unavailable).phase = "answered"
    BY DEF Answered, Idle
  <2>2. QED
    BY <1>4, <2>1 DEF PollFails, HeldInv, InProgress, TypeOK
<1>5. ASSUME NEW t \in Threads, AgentServes(t) PROVE HeldInv'
  <2>1. PICK q : q = [reader[t] EXCEPT !.phase = "served", !.body = agent.counters]
    OBVIOUS
  <2>2. q.phase = "served" /\ reader' = [reader EXCEPT ![t] = q]
    BY <1>5, <2>1 DEF AgentServes, TypeOK, Readers
  <2>3. QED
    BY <1>5, <2>2 DEF AgentServes, history, HeldInv, InProgress, TypeOK
<1>6. ASSUME NEW t \in Threads, ClockRead(t) PROVE HeldInv'
  <2>1. PICK q : q = [reader[t] EXCEPT !.phase = "stamped", !.at = now]
    OBVIOUS
  <2>2. q.phase = "stamped" /\ reader' = [reader EXCEPT ![t] = q]
    BY <1>6, <2>1 DEF ClockRead, TypeOK, Readers
  <2>3. QED
    BY <1>6, <2>2 DEF ClockRead, history, HeldInv, InProgress, TypeOK
<1>7. ASSUME NEW t \in Threads, MarkRead(t) PROVE HeldInv'
  <2>1. PICK q : q = [reader[t] EXCEPT !.phase = "recalled",
                          !.seen = IF reader[t].shared THEN mark ELSE Never]
    OBVIOUS
  <2>2. /\ q.phase = "recalled" /\ q.seen \in {mark, Never}
        /\ reader' = [reader EXCEPT ![t] = q]
    BY <1>7, <2>1 DEF MarkRead, TypeOK, Readers
  <2>3. mark \in held[t]
    BY <1>7 DEF MarkRead, HeldInv, InProgress
  <2>4. QED
    BY <1>7, <2>2, <2>3 DEF MarkRead, history, HeldInv, InProgress, TypeOK
<1>8. ASSUME NEW t \in Threads, ReadConcludes(t) PROVE HeldInv'
  <2> SUFFICES ASSUME NEW u \in Threads
               PROVE  /\ InProgress(u)' => mark' \in held'[u]
                      /\ reader'[u].phase = "recalled" /\ reader'[u].seen # Never
                            => reader'[u].seen \in held'[u]
    BY DEF HeldInv
  <2>1. CASE u = t
    <3>1. reader'[u].phase = "answered"
      BY <1>8, <2>1 DEF ReadConcludes, Answered, Idle, TypeOK
    <3>2. QED
      BY <3>1 DEF InProgress
  <2>2. CASE u # t
    <3>1. reader'[u] = reader[u]
      BY <1>8, <2>2 DEF ReadConcludes, TypeOK
    <3>2. InProgress(u) => held'[u] = held[u] \cup {mark'}
      BY <1>8, <2>2 DEF ReadConcludes
    <3>3. QED
      BY <3>1, <3>2 DEF HeldInv, InProgress
  <2>3. QED
    BY <2>1, <2>2
<1>9. QED
  BY <1>1, <1>2, <1>3, <1>4, <1>5, <1>6, <1>7, <1>8
     DEF Next, vars, history, Tick, Agent, AgentStarts, LogOpens, LogLost,
         AgentDies, WindowResets, SpansArrive, ClientStatsArrive,
         StatsAccepted, StatsTurnedAway, TraceAccepted, TraceTurnedAway,
         LogScrolls, ThreadStarts, Read

(* The acceptance an answer dates is one that stood on disk while the read *)
(* ran, before the read stored a mark of its own: no window corroborates   *)
(* itself (recallStatsWindow: answer, then record).                        *)
THEOREM NoSelfCorroboration == Spec => NeverItsOwnCorroboration
<1>1. ASSUME IInv, HeldInv, [Next]_vars, NEW t \in Threads, Concludes(t),
             reader'[t].signal.ago # Never
      PROVE  reader[t].at - reader'[t].signal.ago \in held[t]
  <2> DEFINE r == reader[t]
  <2>1. /\ r \in Readers
        /\ reader'[t].signal = Signal(r.body, TraceHop(r), Recalled(r))
    BY <1>1, Conclusion
  <2>2. r.seen # Never /\ reader'[t].signal.ago = r.at - r.seen
    BY <1>1, <2>1 DEF Signal, AcceptedAgo, Recalled
  <2>3. r.seen \in held[t]
    BY <1>1, <2>2 DEF HeldInv, Concludes
  <2>4. r.at - (r.at - r.seen) = r.seen
    BY <2>1, <2>2, ReaderNumbers
  <2>5. QED
    BY <2>2, <2>3, <2>4
<1>2. IInv /\ HeldInv /\ [Next]_vars => [\A t \in Threads : DatedByAnother(t)]_vars
  BY <1>1 DEF DatedByAnother
<1>3. IInv => TypeOK
  BY DEF IInv
<1>4. QED
  BY <1>2, <1>3, Invariance, HeldInit, HeldStep, PTL
     DEF Spec, NeverItsOwnCorroboration

(* A mark any thread stored keeps every started thread from calling the    *)
(* hop down until it expires (sharedStatsStore, STATS_RECALL_MS).          *)
THEOREM RecallIsShared == Spec => RecallReachesEveryThread
<1>1. ASSUME IInv, [Next]_vars, NEW t \in Threads, Concludes(t),
             reader[t].shared,
             lastRecorded # Never,
             lastRecorded + ReadTime < reader[t].began,
             reader[t].at <= lastRecorded + Recall - ReadTime
      PROVE  reader'[t].signal.verdict # "not-delivering"
  <2> DEFINE r == reader[t]
  <2>1. /\ r \in Readers
        /\ reader'[t].signal = Signal(r.body, TraceHop(r), Recalled(r))
        /\ SeenInv(r)
    BY <1>1, Conclusion
  <2>2. TypeOK /\ Recall \in Nat
    BY <1>1, VerdictAssumption DEF IInv
  <2>3. r.seen # Never /\ r.seen <= r.at /\ r.at - r.seen <= Recall
    BY <1>1, <2>1, <2>2, Numbers, ReaderNumbers DEF SeenInv
  <2>4. Vouched(Recalled(r))
    BY <2>1, <2>2, <2>3, Numbers, ReaderNumbers
       DEF Vouched, AcceptedAgo, Recalled
  <2>5. QED
    BY <2>1, <2>4 DEF Signal, VerdictOf, EmptyWindowVerdict, RouteGood
<1>2. IInv /\ [Next]_vars => [\A t \in Threads : RecallReaches(t)]_vars
  BY <1>1 DEF RecallReaches
<1>3. QED
  BY <1>2, Invariance, PTL DEF Spec, RecallReachesEveryThread

(* "not-delivering" is never said of a node nothing reached inside the     *)
(* window, however stale the receiver's snapshot (deliveryVerdict's        *)
(* thisMinute).                                                            *)
THEOREM QuietNodeHolds == Spec => QuietNodeIsNotAccused
<1>1. ASSUME IInv, [Next]_vars, NEW t \in Threads, Concludes(t),
             reader'[t].signal.verdict = "not-delivering"
      PROVE  Within(lastArrived, Window + ReadTime)
  <2> DEFINE r == reader[t]
  <2>1. /\ r \in Readers
        /\ reader'[t].signal = Signal(r.body, TraceHop(r), Recalled(r))
        /\ r.began <= now /\ now <= r.began + ReadTime
        /\ BodyInv(r)
    BY <1>1, Conclusion
  <2>2. /\ r.body.work > 0
        /\ ~(r.body.statsPayloads > 0)
        /\ ~(r.body.statsFailures > 0)
    BY <1>1, <2>1
       DEF Signal, VerdictOf, EmptyWindowVerdict, RouteGood, ThisMinute,
           StatsRefused
  <2>3. TypeOK
    BY <1>1 DEF IInv
  <2>4. QED
    BY <2>1, <2>2, <2>3, Numbers, ReaderNumbers DEF BodyInv, Within
<1>2. IInv /\ [Next]_vars => [\A t \in Threads : AccusedOnTraffic(t)]_vars
  BY <1>1 DEF AccusedOnTraffic
<1>3. QED
  BY <1>2, Invariance, PTL DEF Spec, QuietNodeIsNotAccused

(* No refusal inside the window is hidden by a remembered acceptance while *)
(* it is in the tail the trace-agent's log is read by (readTraceHop).      *)
THEOREM RefusalOutranks == Spec => RefusalOutranksMemory
<1>1. ASSUME IInv, [Next]_vars, NEW t \in Threads, Concludes(t),
             reader'[t].signal.verdict = "traces-unrefuted",
             \/ ~log.exists
             \/ log.refusal = lastRefused /\ Within(lastRefused, LogWindow)
      PROVE  FALSE
  <2> DEFINE r == reader[t]
  <2>1. reader'[t].signal = Signal(r.body, TraceHop(r), Recalled(r))
    BY <1>1, Conclusion
  <2>2. CASE ~log.exists
    <3>1. TraceHop(r) = "none"
      BY <2>2 DEF TraceHop
    <3>2. VerdictOf(r.body, TraceHop(r), Recalled(r)) # "traces-unrefuted"
      BY <3>1 DEF VerdictOf, EmptyWindowVerdict, RouteGood
    <3>3. QED
      BY <1>1, <2>1, <3>2 DEF Signal
  <2>3. CASE log.refusal = lastRefused /\ Within(lastRefused, LogWindow)
    <3>1. lastRefused \in Nat /\ now \in Nat /\ LogWindow \in Nat
      BY <1>1, <2>3, SignalAssumption DEF IInv, TypeOK, Times, Within
    <3>2. log.refusal # Never /\ log.refusal >= now - LogWindow
      BY <2>3, <3>1 DEF Within
    <3>3. TraceHop(r) \in {"none", "refused"}
      BY <3>2 DEF TraceHop
    <3>4. VerdictOf(r.body, TraceHop(r), Recalled(r)) # "traces-unrefuted"
      BY <3>3 DEF VerdictOf, EmptyWindowVerdict, RouteGood
    <3>5. QED
      BY <1>1, <2>1, <3>4 DEF Signal
  <2>4. QED
    BY <1>1, <2>2, <2>3
<1>2. IInv /\ [Next]_vars => [\A t \in Threads : UnrefutedInTail(t)]_vars
  BY <1>1 DEF UnrefutedInTail
<1>3. QED
  BY <1>2, Invariance, PTL DEF Spec, RefusalOutranksMemory

=============================================================================
