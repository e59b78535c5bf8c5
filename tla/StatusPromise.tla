----------------------------- MODULE StatusPromise -----------------------------
(***************************************************************************)
(* What one Harper thread promises of GET /DatadogStatus/, whatever its    *)
(* startup meets (runtime/component.js): there is one start, its answer is *)
(* settled once and never rejected, and every read that joined it shows    *)
(* that one answer, each process under its own name, with its own failure  *)
(* and the verifier its verdict is retaken by.  There are no probes, no    *)
(* resolutions, no supervisor and no positions here.                       *)
(***************************************************************************)
EXTENDS Naturals, Sequences

CONSTANTS Agents, Readers, Absent

VARIABLES
    promise,   \* none, pending or settled
    listed,    \* the processes it settled with
    reads

promised == <<promise, listed, reads>>

Reports == [name : Agents, started : BOOLEAN, why : Agents \union {Absent}]

\* No agent twice, and a dead one quotes its own failure.
Consistent(list) ==
    /\ list \in Seq(Reports)
    /\ \A i, j \in DOMAIN list : list[i].name = list[j].name => i = j
    /\ \A i \in DOMAIN list : ~list[i].started => list[i].why = list[i].name

Init ==
    /\ promise = "none" /\ listed = <<>>
    /\ reads = [r \in Readers |-> [at |-> "idle", joined |-> FALSE, body |-> <<>>]]

Starts ==
    /\ promise = "none" /\ promise' = "pending"
    /\ UNCHANGED <<listed, reads>>

Settles ==
    /\ promise = "pending" /\ promise' = "settled"
    /\ Consistent(listed')
    /\ UNCHANGED reads

\* A read that comes before the start never waits for it.
Asks(r) ==
    /\ reads[r].at \in {"idle", "answered"}
    /\ reads' = [reads EXCEPT ![r] = [at |-> "waiting", joined |-> promise # "none",
                                      body |-> <<>>]]
    /\ UNCHANGED <<promise, listed>>

Shown == [i \in DOMAIN listed |-> [process |-> listed[i], located |-> TRUE,
                                   verifier |-> listed[i].name]]

Answers(r) ==
    /\ reads[r].at = "waiting"
    /\ reads[r].joined => promise = "settled"
    /\ reads' = [reads EXCEPT ![r] =
                    [at |-> "answered", joined |-> reads[r].joined,
                     body |-> IF reads[r].joined THEN Shown ELSE <<>>]]
    /\ UNCHANGED <<promise, listed>>

Next == Starts \/ Settles \/ \E r \in Readers : Asks(r) \/ Answers(r)

Spec == Init /\ [][Next]_promised

-----------------------------------------------------------------------------

\* Every read that joined and is answered shows all that the start settled
\* with, so that no two of them differ (component.js:212-220).
Told ==
    \A r \in Readers :
        reads[r].at = "answered" /\ reads[r].joined =>
            promise = "settled" /\ reads[r].body = Shown

=============================================================================
