----------------------------- MODULE NodeEmitter -----------------------------
(***************************************************************************)
(* What runtime/series.js promises of a node, however many Harper threads  *)
(* share it: nothing unless the series is switched on and has something to *)
(* measure, and never two readings within one timer period.  There is one  *)
(* emitter here: no threads, no timers and no claim.                       *)
(***************************************************************************)
EXTENDS Integers

CONSTANT Periods   \* the timer periods a node may be given, positive

VARIABLES
    period,    \* the period of this node
    allowed,   \* switched on, with something to measure
    wait       \* how long until a reading may be taken again

node == <<period, allowed, wait>>

Init == period \in Periods /\ allowed \in BOOLEAN /\ wait = 0

Waits == wait > 0 /\ wait' = wait - 1 /\ UNCHANGED <<period, allowed>>

Emits == allowed /\ wait = 0 /\ wait' = period /\ UNCHANGED <<period, allowed>>

Next == Waits \/ Emits

Spec == Init /\ [][Next]_node

=============================================================================
