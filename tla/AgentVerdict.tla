----------------------------- MODULE AgentVerdict -----------------------------
(***************************************************************************)
(* runtime/verify.js for one agent this thread supervises: a verification  *)
(* polls endpoints that any process on the node may be answering, while    *)
(* the supervisor restarts the agent and rewrites the pid on the very      *)
(* state object being verified.  A status read retakes a verdict that is   *)
(* about another pid, or that said no.                                     *)
(*                                                                         *)
(* A thread whose launch was refused has no process of its own.  Under the *)
(* bundled guard a status read then verifies a copy of its state that      *)
(* names the process the node's lock names, run by another thread          *)
(* (component.js, nodeProcess).                                            *)
(*                                                                         *)
(* A verification is split at its awaits: the call, each poll's answer,    *)
(* and the continuation that reads the state again and concludes.          *)
(***************************************************************************)
EXTENDS Integers, FiniteSets

CONSTANTS
    NoPid,     \* no process; a state whose pid is not a number
    MaxPid,    \* bound: processes the supervisor starts, pids 1..MaxPid
    Kinds      \* the agent kinds a run tries

Known == {"trace", "core", "process", "sysprobe", "security"}

ASSUME VerdictAssumptions ==
    /\ NoPid \notin Int
    /\ MaxPid \in Nat
    /\ Kinds \subseteq Known \cup {"cluster"}

Stray == 0                          \* the pid of a process of an earlier boot
Ours == 1..MaxPid
Pids == {Stray} \cup Ours
MaybePid == Pids \cup {NoPid}

(* "answers" is what shows the kind: /info, expvar or the socket.  "names" *)
(* is the trace-agent's own expvar, which says what pid serves it.         *)
Endpoints == {"answers", "names"}

VARIABLES
    kind,      \* the declared agent's kind
    off,       \* the endpoints whose port is 0 on this node
    published, \* does this build's core agent name its pid in expvar
    recorded,  \* does the supervisor put a pid on the states it makes
    supervision, \* status.supervision: the bundled guard, or Harper itself
    stray,     \* what the stray process is: the same kind of agent or another
    own,       \* the state object: launched or not, pid, exited
    process,   \* the node's live agent, of this thread or of the one whose lock it is
    spawned,   \* how many were started
    serves,    \* who serves each endpoint
    check,     \* the verification in progress
    verdict    \* the last one concluded

node == <<kind, off, published, recorded, supervision, stray>>
vars == <<node, own, process, spawned, serves, check, verdict>>

-----------------------------------------------------------------------------

Silence == [from |-> NoPid, right |-> FALSE, pid |-> NoPid, during |-> NoPid]

(* What p answers: is it an agent of this kind, the pid it names, and      *)
(* (history) the pid on the state when it answered.                        *)
IsRight(p) == p \in Ours \/ stray = "same"

ExpvarPidStrict(p) == IF kind = "core" /\ published /\ IsRight(p) THEN p ELSE NoPid

ExpvarPidUnvalidated(p) == IF IsRight(p) /\ kind = "trace" THEN p ELSE -1

(* The trace-agent publishes its pid as a string, which expvarPid accepts. *)
ExpvarPid(p) ==
    IF IsRight(p) /\ (kind = "trace" \/ (kind = "core" /\ published))
    THEN p ELSE NoPid

Answer(p) ==
    [from |-> p, right |-> IsRight(p), pid |-> ExpvarPid(p), during |-> own.pid]

Bodies == [from : MaybePid, right : BOOLEAN, pid : MaybePid, during : MaybePid]

(* against: what takeVerdictAgainst put on the state.  adopted: that state *)
(* is nodeProcess's copy, whose pid no supervisor rewrites.                *)
Idle ==
    [phase |-> "idle", against |-> NoPid, adopted |-> FALSE,
     first |-> Silence, second |-> Silence]

NoVerdict ==
    [ok |-> "none", against |-> NoPid, adopted |-> FALSE, accused |-> NoPid,
     named |-> NoPid, from |-> NoPid, during |-> NoPid]

Refused(against) == [NoVerdict EXCEPT !.ok = "no", !.against = against]

Init ==
    /\ kind \in Kinds
    /\ off \in SUBSET Endpoints
    /\ published \in BOOLEAN
    /\ recorded \in BOOLEAN
    /\ supervision \in {"guard", "harper"}
    /\ stray \in {"none", "same", "other"}
    /\ own = [launch |-> "pending", pid |-> NoPid, exited |-> FALSE]
    /\ process = NoPid
    /\ spawned = 0
    /\ serves = [e \in Endpoints |-> NoPid]
    /\ check = Idle
    /\ verdict = NoVerdict

-----------------------------------------------------------------------------
(* The supervisor and the processes on the node.                           *)

Spawn ==
    /\ spawned < MaxPid
    /\ spawned' = spawned + 1
    /\ process' = spawned + 1
    /\ own' = [launch |-> "started", exited |-> FALSE,
               pid |-> IF recorded THEN spawned + 1 ELSE NoPid]
    /\ UNCHANGED <<node, serves, check, verdict>>

Launch == own.launch = "pending" /\ Spawn

(* No binary, no lock, a refused pid: a state that never reached a spawn.  *)
LaunchFails ==
    /\ own.launch = "pending"
    /\ own' = [own EXCEPT !.launch = "failed"]
    /\ UNCHANGED <<node, process, spawned, serves, check, verdict>>

Freed(p) == [e \in Endpoints |-> IF serves[e] = p THEN NoPid ELSE serves[e]]

Dies ==
    /\ process # NoPid
    /\ process' = NoPid
    /\ serves' = Freed(process)
    /\ own' = [own EXCEPT !.exited = @ \/ own.launch = "started"]
    /\ UNCHANGED <<node, spawned, check, verdict>>

(* The thread that holds the lock starts the agent, or starts it again;    *)
(* this one's state does not hear of it.                                   *)
StartsElsewhere ==
    /\ own.launch = "failed"
    /\ process = NoPid
    /\ spawned < MaxPid
    /\ spawned' = spawned + 1
    /\ process' = spawned + 1
    /\ UNCHANGED <<node, own, serves, check, verdict>>

(* The guard rewrites pid on the same object, with no new verification.    *)
Restart == own.launch = "started" /\ process = NoPid /\ Spawn

StrayLeaves ==
    /\ stray # "none"
    /\ stray' = "none"
    /\ serves' = Freed(Stray)
    /\ UNCHANGED <<kind, off, published, recorded, supervision, own, process,
                   spawned, check, verdict>>

Running(p) == p = process \/ (p = Stray /\ stray # "none")

Bind(p, e) ==
    /\ Running(p)
    /\ e \notin off
    /\ serves[e] = NoPid
    /\ serves' = [serves EXCEPT ![e] = p]
    /\ UNCHANGED <<node, own, process, spawned, check, verdict>>

-----------------------------------------------------------------------------
(* verifyLaunch.                                                           *)

(* nodeProcess: under the guard, a state with no process of its own is     *)
(* read as the live process its lock names; on the native path never.      *)
Adopts ==
    /\ own.launch = "failed"
    /\ supervision = "guard"
    /\ process # NoPid

(* The pid on the state a verification is handed.                          *)
Handed == IF Adopts THEN process ELSE own.pid

NeverStartedIgnored == FALSE

NeverStarted == own.launch = "failed" /\ ~Adopts

(* A port of 0 is refused before anything is asked.                        *)
PortOff ==
    \/ kind = "trace" /\ off # {}
    \/ kind = "core" /\ "answers" \in off

(* First after the spawn; then by a status read (retakeVerdict), when the  *)
(* verdict is about another pid or said no.  A copy is made for one read   *)
(* and its verdict stays on it, so the next read takes its own.            *)
Due ==
    \/ verdict.ok \in {"none", "no"}
    \/ verdict.against # own.pid

CheckRefuses ==
    /\ check.phase = "idle"
    /\ own.launch # "pending"
    /\ Due
    /\ kind \notin Known \/ NeverStarted \/ PortOff
    /\ verdict' = Refused(Handed)
    /\ UNCHANGED <<node, own, process, spawned, serves, check>>

CheckBegins ==
    /\ check.phase = "idle"
    /\ own.launch # "pending"
    /\ Due
    /\ ~(kind \notin Known \/ NeverStarted \/ PortOff)
    /\ check' = [Idle EXCEPT !.phase = "first", !.against = Handed,
                             !.adopted = Adopts]
    /\ UNCHANGED <<node, own, process, spawned, serves, verdict>>

(* A poll ends with an answer, or with null once nothing answers: the time *)
(* is up, or state.exited made it give up.                                 *)
Polled(e) == IF serves[e] = NoPid THEN Silence ELSE Answer(serves[e])

FirstPoll ==
    /\ check.phase = "first"
    /\ check' = [check EXCEPT
           !.first = Polled("answers"),
           !.phase = IF kind = "trace" /\ Polled("answers").right
                     THEN "second" ELSE "answered"]
    /\ UNCHANGED <<node, own, process, spawned, serves, verdict>>

SecondPoll ==
    /\ check.phase = "second"
    /\ check' = [check EXCEPT !.second = Polled("names"), !.phase = "answered"]
    /\ UNCHANGED <<node, own, process, spawned, serves, verdict>>

AgainstNow == own.pid

(* The pid the verdict is recorded against, set before anything is awaited. *)
Against == check.against

(* heldPid, read when the polls are over.                                  *)
Held == IF check.adopted THEN check.against ELSE own.pid

NamesAnotherUnchecked(body) == body.pid # NoPid /\ body.pid # Held

(* A state with no pid refutes none.                                       *)
NamesAnother(body) ==
    body.pid # NoPid /\ Held # NoPid /\ body.pid # Held

(* The body that decides: for the trace-agent the one that names a pid.    *)
Deciding == IF kind = "trace" THEN check.second ELSE check.first

(* What shows the kind.  The sockets prove a listener and no more.         *)
Shown ==
    IF kind \in {"sysprobe", "security"} THEN check.first.from # NoPid
    ELSE check.first.right /\ (kind = "trace" => check.second.pid # NoPid)

Concluded ==
    [ok      |-> IF Shown /\ ~NamesAnother(Deciding) THEN "yes" ELSE "no",
     against |-> Against,
     adopted |-> check.adopted,
     accused |-> IF Shown /\ NamesAnother(Deciding) THEN Deciding.pid ELSE NoPid,
     named   |-> IF Shown /\ kind = "trace" THEN Deciding.pid ELSE Held,
     from    |-> Deciding.from,
     during  |-> Deciding.during]

Concludes ==
    /\ check.phase = "answered"
    /\ verdict' = Concluded
    /\ check' = Idle
    /\ UNCHANGED <<node, own, process, spawned, serves>>

-----------------------------------------------------------------------------

Supervisor == Launch \/ LaunchFails \/ Dies \/ Restart \/ StartsElsewhere

Verify == CheckRefuses \/ CheckBegins \/ FirstPoll \/ SecondPoll \/ Concludes

Next ==
    \/ Supervisor
    \/ StrayLeaves
    \/ \E p \in Pids, e \in Endpoints : Bind(p, e)
    \/ Verify

Spec == Init /\ [][Next]_vars

(* A verification runs to its end, and status reads keep coming.           *)
FairSpec == Spec /\ WF_vars(Verify)

-----------------------------------------------------------------------------

Owns == [launch : {"pending", "started", "failed"}, pid : MaybePid, exited : BOOLEAN]

Checks ==
    [phase : {"idle", "first", "second", "answered"}, against : MaybePid,
     adopted : BOOLEAN, first : Bodies, second : Bodies]

Verdicts ==
    [ok : {"none", "yes", "no"}, against : MaybePid, adopted : BOOLEAN,
     accused : MaybePid,
     named : MaybePid, from : MaybePid, during : MaybePid]

(* Every value verify.js and the supervisor put on the state is of its     *)
(* type; expvarPid in particular never lets a body name a pid of 0 or less *)
(* that is not a process.                                                  *)
TypeOK ==
    /\ kind \in Kinds
    /\ off \in SUBSET Endpoints
    /\ published \in BOOLEAN
    /\ recorded \in BOOLEAN
    /\ supervision \in {"guard", "harper"}
    /\ stray \in {"none", "same", "other"}
    /\ own \in Owns
    /\ process \in Ours \cup {NoPid}
    /\ spawned \in 0..MaxPid
    /\ serves \in [Endpoints -> MaybePid]
    /\ check \in Checks
    /\ verdict \in Verdicts

(* The rule a status read goes by: the verdict is about the pid on the     *)
(* state, so it is published as it stands.                                 *)
Fresh == own.pid # NoPid /\ verdict.against = own.pid

(* However a restart fell between the polls, a verdict published as it     *)
(* stands rests on an answer given while that very process was the one on  *)
(* the state; the trace-agent's was given by that process itself.          *)
FreshVerdictIsEarned ==
    verdict.ok = "yes" /\ Fresh =>
        /\ verdict.from # NoPid
        /\ verdict.during = own.pid
        /\ kind = "trace" => verdict.from = own.pid

(* "the port belongs to a process nothing here supervises; stop it": an    *)
(* operator who reads this of a current verdict, one about the pid on this *)
(* thread's own state, is never sent after a process the supervisor        *)
(* started.                                                                *)
AccusationIsTrue ==
    verdict.accused # NoPid /\ verdict.against = own.pid => verdict.accused = Stray

(* A state that never reached a spawn is not verified off whatever answers *)
(* its port, by any number of status reads.  What verifies is the node's   *)
(* own process, under the guard only, as the copy that names it; and for   *)
(* the trace-agent it is that process that answered.                       *)
UnstartedVerifiesOnlyAsTheNodes ==
    own.launch = "failed" /\ verdict.ok = "yes" =>
        /\ verdict.adopted /\ supervision = "guard"
        /\ verdict.against \in Ours
        /\ verdict.from # NoPid
        /\ kind = "trace" => verdict.from = verdict.against

Needed == IF kind = "trace" THEN Endpoints ELSE {"answers"}

(* The process a status read reports of this state, serving what shows it. *)
Serving ==
    /\ process # NoPid
    /\ \A e \in Needed : serves[e] = process
    /\ own.launch = "started" \/ Adopts

(* A refusal taken too early, or about a dead process, is not final: an    *)
(* agent that keeps serving ends up verified, and stays so, on the thread  *)
(* that runs it and on one that reports it as the node's.                  *)
HealthyAgentIsVerified ==
    kind \in Known /\ <>[]Serving
        => <>[](verdict.ok = "yes" /\ verdict.against = Handed)

=============================================================================
