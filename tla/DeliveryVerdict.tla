--------------------------- MODULE DeliveryVerdict ---------------------------
(***************************************************************************)
(* What runtime/delivery.js concludes from one reading of the trace-agent. *)
(*                                                                         *)
(* deliveryVerdict() is a pure function of three pieces of evidence: the   *)
(* agent's one-minute counters, what the tail of the trace-agent's log     *)
(* says of the trace hop, and how long ago a stats payload was last seen   *)
(* accepted.  Counters are abstracted to the sums the code compares with   *)
(* zero; the wording of "detail" is kept only where it states a fact.      *)
(***************************************************************************)
EXTENDS Integers

CONSTANTS
    Never,   \* "undefined": no such time, no such age
    Recall   \* STATS_RECALL_MS, in clock units

ASSUME VerdictAssumption ==
    /\ Never \notin Int
    /\ Recall \in Nat

(* The counters of one /debug/vars document.                               *)
(*   received      TracesReceived + SpansReceived over every client        *)
(*   work          StatsBuckets + ClientPayloads of stats_writer           *)
(*   statsPayloads, statsFailures   Payloads, Errors + Retries             *)
(*   tracePayloads, traceFailures   the same two of trace_writer           *)
Counters ==
    [received : Nat, work : Nat, statsPayloads : Nat, statsFailures : Nat,
     tracePayloads : Nat, traceFailures : Nat]

(* readTraceHop's three answers: no readable log, a refusal inside the     *)
(* window, a log with none.                                                *)
Hops == {"none", "refused", "clear"}

Verdicts ==
    {"unavailable", "delivering", "rejected", "traces-unrefuted",
     "traces-unconfirmed", "not-delivering", "idle"}

Evidence == {"yes", "no", "unknown"}   \* proven.*: true, false, null

-----------------------------------------------------------------------------

Arriving(c)      == c.received > 0
ThisMinute(c)    == c.work > 0
StatsRefused(c)  == c.statsFailures > 0
TracesRefused(c) == c.traceFailures > 0

AgoUnchecked(recalled) == recalled

(* Only a non-negative number is an age; anything else is no memory.       *)
AcceptedAgo(recalled) ==
    IF recalled # Never /\ recalled >= 0 THEN recalled ELSE Never

VouchedWithoutLimit(recalled) == AcceptedAgo(recalled) # Never

Vouched(recalled) ==
    /\ AcceptedAgo(recalled) # Never
    /\ AcceptedAgo(recalled) <= Recall

ProvenStats(c) ==
    IF c.statsPayloads > 0 THEN "yes"
    ELSE IF StatsRefused(c) THEN "no" ELSE "unknown"

(* A refusal in the log overwrites whatever the counters proved.           *)
ProvenTraces(c, hop) ==
    IF hop = "refused" THEN "no"
    ELSE IF c.tracePayloads > 0 THEN "yes"
    ELSE IF TracesRefused(c) THEN "no" ELSE "unknown"

(* The route out is good; what can be said of the trace hop is up to the log. *)
RouteGood(hop) ==
    IF hop = "none" THEN "traces-unconfirmed" ELSE "traces-unrefuted"

EmptyWindowUndated(c, hop, recalled) ==
    IF ~Arriving(c) THEN "idle"
    ELSE IF Vouched(recalled) THEN RouteGood(hop) ELSE "not-delivering"

(* An empty stats window: nothing accepted and nothing refused in it.      *)
EmptyWindowVerdict(c, hop, recalled) ==
    IF ~Arriving(c) THEN "idle"
    ELSE IF Vouched(recalled) THEN RouteGood(hop)
    ELSE IF ThisMinute(c) THEN "not-delivering"
    ELSE "idle"

VerdictStatsFirst(c, hop, recalled) ==
    IF c.tracePayloads > 0 THEN "delivering"
    ELSE IF TracesRefused(c) THEN "rejected"
    ELSE IF c.statsPayloads > 0
         THEN IF Arriving(c) THEN RouteGood(hop) ELSE "traces-unconfirmed"
    ELSE IF StatsRefused(c) \/ hop = "refused" THEN "rejected"
    ELSE EmptyWindowVerdict(c, hop, recalled)

VerdictOf(c, hop, recalled) ==
    IF c.tracePayloads > 0 THEN "delivering"
    ELSE IF TracesRefused(c) \/ hop = "refused" THEN "rejected"
    ELSE IF c.statsPayloads > 0
         THEN IF Arriving(c) THEN RouteGood(hop) ELSE "traces-unconfirmed"
    ELSE IF StatsRefused(c) THEN "rejected"
    ELSE EmptyWindowVerdict(c, hop, recalled)

Signals ==
    [verdict : Verdicts, stats : Evidence, traces : Evidence,
     ago : Nat \cup {Never}]

Signal(c, hop, recalled) ==
    [verdict   |-> VerdictOf(c, hop, recalled),
     stats     |-> ProvenStats(c),
     traces    |-> ProvenTraces(c, hop),
     ago       |-> AcceptedAgo(recalled)]

(* unavailable(): no counters were read, so nothing is claimed.            *)
Unavailable ==
    [verdict |-> "unavailable", stats |-> "unknown", traces |-> "unknown",
     ago |-> Never]

=============================================================================
