--------------------------- MODULE ComponentStart ---------------------------
(***************************************************************************)
(* One Harper thread's startup and its status resource                     *)
(* (runtime/component.js).  Harper calls handleApplication, which keeps    *)
(* the promise of the one start in the thread's slot; the start resolves   *)
(* every declared binary at once, hands what it found to a supervisor and  *)
(* joins the supervisor's answer back to the declaration by position.      *)
(* GETs arrive at any moment, before and while it runs.                    *)
(*                                                                         *)
(* The supervisor, the resolver and the counters' poll are external: they  *)
(* answer in any order, and any of them but the poll may throw.            *)
(***************************************************************************)
EXTENDS Naturals, Sequences, FiniteSets

CONSTANTS
    Declared,   \* the agents resources.js declares, in start order
    Needs,      \* the probe each agent is opted in by, Always for the rest
    Always,
    Readers,    \* GETs in flight at once
    Absent      \* JavaScript's undefined

Agents == {Declared[i] : i \in DOMAIN Declared}
Probes == {Needs[a] : a \in Agents} \ {Always}

ASSUME StartAssumption ==
    /\ Declared \in Seq(Agents) /\ DOMAIN Needs = Agents
    /\ \A i, j \in DOMAIN Declared : Declared[i] = Declared[j] => i = j
    /\ Absent \notin Agents

VARIABLES
    slot,       \* state.supervisor: the thread has the promise of its start
    phase,      \* what the start is awaiting
    wanted,     \* the agents this node asked for, in start order
    binaries,   \* what each position of wanted resolved to
    failures,   \* the sparse array of the resolver's messages, by position
    startable,  \* the positions the supervisor is asked to start
    running,    \* the agents the supervisor started
    state,      \* what the read path uses of ComponentState
    status,     \* the value of the promise
    gets        \* the GETs

start == <<wanted, binaries, failures, startable, running, state>>
vars == <<slot, phase, start, status, gets>>

\* A process as the status carries it.  why is the agent whose failure it
\* quotes: the guard's own refusal is quoted under the agent's name too.
Reports == [name : Agents, started : BOOLEAN, why : Agents \union {Absent}]

\* baseStatus, which notStarted and a running start share
BaseStatus == [processes |-> <<>>, failed |-> FALSE]

\* A GET: whether it found a promise in the slot, whether the counters came
\* back, and the processes it answered, each beside the verifier retaking it.
Quiet == [at |-> "idle", joined |-> FALSE, polled |-> FALSE, body |-> <<>>]

Init ==
    /\ slot = FALSE /\ phase = "uncalled"
    /\ wanted = <<>> /\ binaries = <<>> /\ failures = <<>>
    /\ startable = <<>> /\ running = {}
    /\ state = [pidDir |-> FALSE, verifiers |-> {}, started |-> <<>>]
    /\ status = BaseStatus
    /\ gets = [r \in Readers |-> Quiet]

-----------------------------------------------------------------------------
(* The start *)

\* The first load starts; a later one joins, and a validation load starts
\* nothing, so neither changes anything here.
HandleApplication ==
    /\ ~slot
    /\ slot' = TRUE /\ phase' = "ebpf"
    /\ UNCHANGED <<start, status, gets>>

\* A plausible bug: a startup that threw is run again before it is reported.
CaughtAndRetried == phase' = "ebpf" /\ UNCHANGED status

\* What startup leaves when something under its try threw
Caught == phase' = "done" /\ status' = [status EXCEPT !.failed = TRUE]

\* The positions in S as a filter keeps them, in their order: one sequence,
\* told by what it holds rather than built element by element.
InOrder(S) ==
    {order \in UNION {[1 .. n -> S] : n \in 0 .. Cardinality(S)} :
        /\ S = {order[k] : k \in DOMAIN order}
        /\ \A j, k \in DOMAIN order : j < k => order[j] < order[k]}

\* resolveEbpfDir rejects or prepareRuntime throws, and the tree's paths are not
\* kept; or they are, and what is read off the runtime after them throws.
PrepareThrows ==
    /\ phase = "ebpf"
    /\ Caught
    /\ \E kept \in BOOLEAN : state' = [state EXCEPT !.pidDir = kept]
    /\ UNCHANGED <<slot, wanted, binaries, failures, startable, running, gets>>

\* The objects' directory is known: the tree is prepared, the declaration is
\* narrowed to what the probe settings enable, and every binary is asked for.
Prepare(on) ==
    /\ phase = "ebpf"
    /\ phase' = "binaries"
    /\ \E order \in InOrder({i \in DOMAIN Declared :
                               Needs[Declared[i]] \in on \union {Always}}) :
         wanted' = [k \in DOMAIN order |-> Declared[order[k]]]
    /\ binaries' = [i \in DOMAIN wanted' |-> "pending"]
    /\ failures' = [i \in DOMAIN wanted' |-> Absent]
    /\ state' = [state EXCEPT !.pidDir = TRUE]
    /\ UNCHANGED <<slot, startable, running, status, gets>>

\* The resolver's rejection, kept at the position it was asked for
Failed(i) == [failures EXCEPT ![i] = wanted[i]]

BinaryResolves(i) ==
    /\ phase = "binaries" /\ binaries[i] = "pending"
    /\ \/ binaries' = [binaries EXCEPT ![i] = "found"] /\ UNCHANGED failures
       \/ binaries' = [binaries EXCEPT ![i] = "missing"] /\ failures' = Failed(i)
    /\ UNCHANGED <<slot, phase, wanted, startable, running, state, status, gets>>

\* The positions that resolved to a binary
Found == {i \in DOMAIN wanted : binaries[i] = "found"}

\* A plausible bug: verifiers only for what the supervisor is handed.
VerifiersOfStartable ==
    {wanted[i] : i \in Found}

\* Every declared process has a verifier, one that did not resolve included.
Verifiers == {wanted[i] : i \in DOMAIN wanted}

HandOver ==
    /\ phase = "binaries" /\ \A i \in DOMAIN wanted : binaries[i] # "pending"
    /\ state' = [state EXCEPT !.verifiers = Verifiers]
    /\ startable' \in InOrder(Found)
    /\ phase' = "supervisor"
    /\ UNCHANGED <<slot, wanted, binaries, failures, running, status, gets>>

\* Declaring what resolved throws before its verifiers are kept.
HandOverThrows ==
    /\ phase = "binaries" /\ \A i \in DOMAIN wanted : binaries[i] # "pending"
    /\ Caught
    /\ UNCHANGED <<slot, start, gets>>

\* The supervisor's states, in the order it was given the startable ones
Processes(up) ==
    [k \in DOMAIN startable |->
        LET a == wanted[startable[k]]
        IN  [name |-> a, started |-> a \in up,
             why |-> IF a \in up THEN Absent ELSE a]]

Unstarted(a, error) == [name |-> a, started |-> FALSE, why |-> error]

\* A plausible bug: the supervisor's answer read by the declaration's index.
JoinedByDeclaration(processes) ==
    [i \in DOMAIN wanted |->
        IF binaries[i] = "found" /\ i \in DOMAIN processes
        THEN processes[i] ELSE Unstarted(wanted[i], failures[i])]

\* A plausible bug: an unresolved agent left as the undefined the map gives.
JoinedOrUndefined(processes) ==
    [i \in DOMAIN wanted |->
        IF \E k \in DOMAIN startable : startable[k] = i
        THEN processes[CHOOSE k \in DOMAIN startable : startable[k] = i]
        ELSE Absent]

\* states.get(name) ?? unstarted(agent, failures[index])
Joined(processes) ==
    [i \in DOMAIN wanted |->
        IF \E k \in DOMAIN startable : startable[k] = i
        THEN processes[CHOOSE k \in DOMAIN startable : startable[k] = i]
        ELSE Unstarted(wanted[i], failures[i])]

\* The supervisor answers, or was not asked because nothing resolved, and the
\* series is scheduled in the same turn.  What throws after the processes are
\* listed leaves them listed, beside the error.
SupervisorAnswers(up) ==
    /\ phase = "supervisor"
    /\ running' = up
    /\ state' = [state EXCEPT !.started = Joined(Processes(up))]
    /\ phase' = "done"
    /\ \E thrown \in BOOLEAN :
         status' = [processes |-> Joined(Processes(up)), failed |-> thrown]
    /\ UNCHANGED <<slot, wanted, binaries, failures, startable, gets>>

SupervisorThrows ==
    /\ phase = "supervisor" /\ startable # <<>>
    /\ Caught
    /\ UNCHANGED <<slot, start, gets>>

Resolved == {wanted[i] : i \in Found}

Start ==
    \/ HandleApplication
    \/ PrepareThrows
    \/ \E on \in SUBSET Probes : Prepare(on)
    \/ \E i \in DOMAIN wanted : BinaryResolves(i)
    \/ HandOver
    \/ HandOverThrows
    \/ \E up \in SUBSET Resolved : SupervisorAnswers(up)
    \/ SupervisorThrows

-----------------------------------------------------------------------------
(* GET /DatadogStatus/ *)

\* state.supervisor ?? notStarted is read here, as the counters' poll begins.
Ask(r) ==
    /\ gets[r].at \in {"idle", "answered"}
    /\ gets' = [gets EXCEPT ![r] = [Quiet EXCEPT !.at = "waiting", !.joined = slot]]
    /\ UNCHANGED <<slot, phase, start, status>>

CountersRead(r) ==
    /\ gets[r].at = "waiting" /\ ~gets[r].polled
    /\ gets' = [gets EXCEPT ![r].polled = TRUE]
    /\ UNCHANGED <<slot, phase, start, status>>

\* The body: each process the promise carried, with the verifier its verdict
\* is retaken by and whether the lock directory was known to look it up in.
Body(r) ==
    IF ~gets[r].joined THEN <<>> ELSE
    [i \in DOMAIN status.processes |->
        [process |-> status.processes[i], located |-> state.pidDir,
         verifier |-> IF status.processes[i].name \in state.verifiers
                      THEN status.processes[i].name ELSE Absent]]

\* A plausible bug: the promise is not awaited beside the counters.
AnswerOfTheMoment(r) ==
    /\ gets[r].at = "waiting" /\ gets[r].polled
    /\ gets' = [gets EXCEPT ![r].at = "answered", ![r].body = Body(r)]
    /\ UNCHANGED <<slot, phase, start, status>>

Answer(r) ==
    /\ gets[r].at = "waiting" /\ gets[r].polled
    /\ gets[r].joined => phase = "done"
    /\ gets' = [gets EXCEPT ![r].at = "answered", ![r].body = Body(r)]
    /\ UNCHANGED <<slot, phase, start, status>>

Get(r) == Ask(r) \/ CountersRead(r) \/ Answer(r)

Next == Start \/ \E r \in Readers : Get(r)

Spec == Init /\ [][Next]_vars

\* Every await the start and a GET make settles: the resolver reads files, the
\* guard's verifiers and the counters' poll have budgets of their own.  Nothing
\* says Harper calls handleApplication at all.
Fairness ==
    /\ WF_vars(Start /\ slot)
    /\ \A r \in Readers : WF_vars(CountersRead(r)) /\ WF_vars(Answer(r))

FairSpec == Spec /\ Fairness

-----------------------------------------------------------------------------
(* Properties *)

Phases == {"uncalled", "ebpf", "binaries", "supervisor", "done"}

\* Every variable has the shape component.js gives it.
TypeOK ==
    /\ slot \in BOOLEAN /\ phase \in Phases
    /\ slot <=> phase # "uncalled"
    /\ running \subseteq Agents
    /\ DOMAIN binaries = DOMAIN wanted /\ DOMAIN failures = DOMAIN wanted
    /\ \A i \in DOMAIN wanted :
         /\ wanted[i] \in Agents
         /\ binaries[i] \in {"pending", "found", "missing"}
         /\ failures[i] \in Agents \union {Absent}
    /\ \A k \in DOMAIN startable : startable[k] \in DOMAIN wanted
    /\ state.pidDir \in BOOLEAN /\ state.verifiers \subseteq Agents
    /\ \A i \in DOMAIN state.started : state.started[i] \in Reports
    /\ \A i \in DOMAIN status.processes : status.processes[i] \in Reports
    /\ status.failed \in BOOLEAN
    /\ \A r \in Readers : gets[r].at \in {"idle", "waiting", "answered"}

\* However the resolutions interleave and whatever subset of them fails, a
\* status that lists processes, or reports no error, describes every agent this node asked for
\* under its own name, running exactly when the supervisor started it, and a
\* dead one quotes its own failure (component.js:316-329 and 365-371, where two
\* arrays of different lengths are joined by position).
EachReportIsItsOwn ==
    phase = "done" /\ (status.processes # <<>> \/ ~status.failed) =>
        /\ DOMAIN status.processes = DOMAIN wanted
        /\ \A i \in DOMAIN wanted :
             LET report == status.processes[i]
             IN  /\ report.name = wanted[i]
                 /\ report.started <=> wanted[i] \in running
                 /\ ~report.started => report.why = wanted[i]

\* A GET that reports a process has the lock directory to look it up in and
\* that process's own verifier to retake its verdict by, and what it shows is
\* what the series timer samples (component.js:221-230, 296-297, 350, 372).
AnswersCanBeRetaken ==
    \A r \in Readers :
        gets[r].at = "answered" /\ gets[r].body # <<>> =>
            /\ DOMAIN gets[r].body = DOMAIN state.started
            /\ \A i \in DOMAIN gets[r].body :
                 /\ gets[r].body[i].located
                 /\ gets[r].body[i].process = state.started[i]
                 /\ gets[r].body[i].verifier = state.started[i].name

\* What the GETs see of it: a promise, and what it settled with.
Promise == INSTANCE StatusPromise WITH
    promise <- IF ~slot THEN "none" ELSE IF phase = "done" THEN "settled" ELSE "pending",
    listed <- status.processes,
    reads <- [r \in Readers |-> [at |-> gets[r].at, joined |-> gets[r].joined,
                                 body |-> gets[r].body]]

\* However its resolutions, its supervisor and its failures fall, and whenever
\* the GETs arrive, the start is to them one promise that is settled once: no
\* two of those that joined it are told different processes, none is told of a
\* half-done start, and none that came before it waits (component.js:215-217,
\* 278, 398-404).
ImplementsPromise == Promise!Spec

\* A GET is answered whatever startup meets: "Never rejects" (component.js:278)
\* is what keeps the endpoint up on a thread whose startup threw.
EveryGetIsAnswered ==
    \A r \in Readers : gets[r].at = "waiting" ~> gets[r].at = "answered"

=============================================================================
