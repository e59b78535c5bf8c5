----------------------------- MODULE VerdictProofs -----------------------------
(***************************************************************************)
(* Proofs about AgentVerdict, for any number of restarts and every kind.   *)
(*                                                                         *)
(* The argument: pids only grow, so a verdict recorded against the pid now *)
(* on the state was begun after that process was spawned, and every answer *)
(* it used came later still.  It is takeVerdictAgainst running before the  *)
(* first await (verify.js:258-260) that makes this so.                     *)
(***************************************************************************)
EXTENDS AgentVerdict, TLAPS

Numbered(p) == p = NoPid \/ p \in 1..spawned

(* Pids only grow, and the state names the live process if it names any.   *)
PidInv ==
    /\ Numbered(own.pid) /\ Numbered(process)
    /\ Numbered(check.against) /\ Numbered(verdict.against)
    /\ own.pid # NoPid => recorded
    /\ recorded /\ own.launch = "started" /\ process # NoPid => own.pid = process
    /\ own.launch # "started" => own.pid = NoPid

ServesInv ==
    \A e \in Endpoints : serves[e] \in Ours => serves[e] = process

(* What is true of any answer a poll brought back.                         *)
BodyOK(body) ==
    /\ body.right => body.from # NoPid
    /\ body.pid # NoPid => body.pid = body.from
    /\ body.from \in Ours /\ body.during # NoPid => body.from = body.during

(* An answer got during this tenure, if the check began in it.             *)
Tenured(body) ==
    check.against = own.pid /\ own.pid # NoPid /\ body.from # NoPid
        => body.during = own.pid

CheckInv ==
    /\ BodyOK(check.first) /\ BodyOK(check.second)
    /\ check.phase # "idle" => Tenured(check.first) /\ Tenured(check.second)

LaunchInv ==
    /\ own.launch = "pending" =>
          check.phase = "idle" /\ verdict.ok = "none" /\ process = NoPid
    /\ own.launch = "failed" /\ check.phase # "idle" => check.adopted
    /\ check.adopted =>
          own.launch = "failed" /\ supervision = "guard" /\ check.against \in Ours

IInv ==
    /\ TypeOK
    /\ PidInv
    /\ ServesInv
    /\ CheckInv
    /\ LaunchInv
    /\ FreshVerdictIsEarned
    /\ AccusationIsTrue
    /\ UnstartedVerifiesOnlyAsTheNodes

-----------------------------------------------------------------------------

(* A body a poll can bring back is typed and says nothing false of itself. *)
LEMMA PolledOK ==
    ASSUME TypeOK, PidInv, ServesInv, NEW e \in Endpoints
    PROVE  /\ Polled(e) \in Bodies
           /\ BodyOK(Polled(e))
           /\ Polled(e).from # NoPid => Polled(e).during = own.pid
<1> USE VerdictAssumptions
<1>1. serves[e] \in MaybePid /\ own.pid \in MaybePid
  BY DEF TypeOK, Owns
<1>2. CASE serves[e] = NoPid
  <2>1. Polled(e) = [from |-> NoPid, right |-> FALSE, pid |-> NoPid, during |-> NoPid]
    BY <1>2 DEF Polled, Silence
  <2> QED
    BY <2>1 DEF Bodies, BodyOK, MaybePid, Pids, Ours, Stray
<1>3. CASE serves[e] # NoPid
  <2>1. PICK p : p = serves[e]
    OBVIOUS
  <2>2. p \in Pids
    BY <1>1, <1>3, <2>1 DEF MaybePid
  <2>3. Polled(e) = [from |-> p, right |-> IsRight(p), pid |-> ExpvarPid(p),
                     during |-> own.pid]
    BY <1>3, <2>1 DEF Polled, Answer
  <2>4. IsRight(p) \in BOOLEAN
    BY DEF IsRight
  <2>5. ExpvarPid(p) \in {p, NoPid}
    BY DEF ExpvarPid
  <2>6. p \in Ours /\ own.pid # NoPid => p = own.pid
    <3>1. p \in Ours => p # NoPid /\ p = process
      BY <2>1 DEF ServesInv, Ours
    <3> QED
      BY <3>1 DEF PidInv
  <2>7. Polled(e) \in Bodies
    BY <1>1, <2>2, <2>3, <2>4, <2>5 DEF Bodies, MaybePid
  <2>8. p # NoPid
    BY <2>2 DEF Pids, Ours, Stray
  <2> QED
    BY <2>3, <2>5, <2>6, <2>7, <2>8 DEF BodyOK
<1> QED
  BY <1>2, <1>3

LEMMA SilenceOK == Silence \in Bodies /\ BodyOK(Silence) /\ Silence.from = NoPid
BY VerdictAssumptions DEF Silence, Bodies, BodyOK, MaybePid, Pids, Ours, Stray

LEMMA InitInv == Init => IInv
<1> SUFFICES ASSUME Init PROVE IInv
  OBVIOUS
<1> USE VerdictAssumptions
<1>1. own \in Owns /\ verdict \in Verdicts
  BY DEF Init, Owns, Verdicts, NoVerdict, MaybePid
<1>2. check \in Checks
  BY SilenceOK DEF Init, Checks, Idle, MaybePid
<1>3. TypeOK
  BY <1>1, <1>2 DEF Init, TypeOK, MaybePid
<1>4. PidInv /\ ServesInv
  BY DEF Init, PidInv, Numbered, ServesInv, Ours, Idle, NoVerdict
<1>5. CheckInv
  BY SilenceOK DEF Init, CheckInv, Idle
<1>6. LaunchInv /\ FreshVerdictIsEarned /\ AccusationIsTrue /\ UnstartedVerifiesOnlyAsTheNodes
  BY DEF Init, LaunchInv, FreshVerdictIsEarned, AccusationIsTrue,
         UnstartedVerifiesOnlyAsTheNodes, Idle, NoVerdict
<1> QED
  BY <1>3, <1>4, <1>5, <1>6 DEF IInv

(* The pid a read hands over: the state's own, or the node's in its stead. *)
LEMMA HandedFacts ==
    ASSUME TypeOK, PidInv
    PROVE  /\ Handed \in MaybePid
           /\ Numbered(Handed)
           /\ own.pid # NoPid => Handed = own.pid /\ ~Adopts
           /\ Adopts => Handed \in Ours
           /\ Adopts \in BOOLEAN
<1>1. own.pid \in MaybePid /\ process \in Ours \cup {NoPid}
  BY DEF TypeOK, Owns
<1>2. own.launch = "failed" => own.pid = NoPid
  BY DEF PidInv
<1> QED
  BY <1>1, <1>2 DEF Handed, Adopts, PidInv, MaybePid, Pids

-----------------------------------------------------------------------------
(* One lemma per kind of step.                                             *)

(* A new process gets a pid nothing was recorded against before.           *)
LEMMA SpawnStep ==
    ASSUME IInv, Spawn, process = NoPid, own.launch # "failed"
    PROVE  IInv'
<1> USE VerdictAssumptions DEF IInv
<1>1. /\ spawned \in 0..MaxPid /\ spawned < MaxPid
      /\ spawned' = spawned + 1 /\ process' = spawned + 1
      /\ own' = [launch |-> "started", exited |-> FALSE,
                 pid |-> IF recorded THEN spawned + 1 ELSE NoPid]
      /\ UNCHANGED <<kind, off, published, recorded, supervision, stray, serves, check, verdict>>
  BY DEF Spawn, node, TypeOK
<1>2. spawned + 1 \in Ours /\ spawned + 1 \in 0..MaxPid
  BY <1>1 DEF Ours
<1>3. own' \in Owns
  BY <1>1, <1>2 DEF Owns, MaybePid, Pids
<1>4. TypeOK'
  BY <1>1, <1>2, <1>3 DEF TypeOK
<1>5. own'.pid = IF recorded THEN spawned + 1 ELSE NoPid
  BY <1>1
<1>6. check.against # spawned + 1 /\ verdict.against # spawned + 1
  BY <1>1 DEF PidInv, Numbered
<1>7. PidInv'
  <2>1. \A p : Numbered(p) => p = NoPid \/ p \in 1..(spawned + 1)
    BY <1>1 DEF Numbered
  <2>2. spawned + 1 \in 1..(spawned + 1)
    BY <1>1
  <2>3. check'.against = check.against /\ verdict'.against = verdict.against
    BY <1>1
  <2>4. Numbered(check.against)' /\ Numbered(verdict.against)'
    BY <1>1, <2>1, <2>3 DEF PidInv, Numbered
  <2>5. Numbered(own.pid)' /\ Numbered(process)'
    BY <1>1, <1>5, <2>2 DEF Numbered
  <2> QED
    BY <1>1, <1>5, <2>4, <2>5 DEF PidInv
<1>8. ServesInv'
  BY <1>1 DEF ServesInv, Ours
<1>9. CheckInv'
  BY <1>1, <1>5, <1>6 DEF CheckInv, BodyOK, Tenured
<1>10. LaunchInv' /\ UnstartedVerifiesOnlyAsTheNodes'
  BY <1>1 DEF LaunchInv, UnstartedVerifiesOnlyAsTheNodes
<1>11. FreshVerdictIsEarned'
  BY <1>1, <1>5, <1>6 DEF FreshVerdictIsEarned, Fresh
<1>12. AccusationIsTrue'
  BY <1>1, <1>5, <1>6 DEF AccusationIsTrue, PidInv
<1> QED
  BY <1>4, <1>7, <1>8, <1>9, <1>10, <1>11, <1>12

(* Another thread's process gets a pid nothing was recorded against.       *)
LEMMA ElsewhereStep ==
    ASSUME IInv, StartsElsewhere
    PROVE  IInv'
<1> USE VerdictAssumptions DEF IInv
<1>1. /\ own.launch = "failed" /\ process = NoPid
      /\ spawned \in 0..MaxPid /\ spawned < MaxPid
      /\ spawned' = spawned + 1 /\ process' = spawned + 1
      /\ UNCHANGED <<kind, off, published, recorded, supervision, stray, own,
                     serves, check, verdict>>
  BY DEF StartsElsewhere, node, TypeOK
<1>2. spawned + 1 \in Ours /\ spawned + 1 \in 0..MaxPid
  BY <1>1 DEF Ours
<1>3. TypeOK'
  BY <1>1, <1>2 DEF TypeOK
<1>4. PidInv'
  <2>1. \A p : Numbered(p) => p = NoPid \/ p \in 1..(spawned + 1)
    BY <1>1 DEF Numbered
  <2>2. spawned + 1 \in 1..(spawned + 1)
    BY <1>1
  <2>3. /\ Numbered(own.pid)' /\ Numbered(check.against)'
        /\ Numbered(verdict.against)' /\ Numbered(process)'
    BY <1>1, <2>1, <2>2 DEF PidInv, Numbered
  <2> QED
    BY <1>1, <2>3 DEF PidInv
<1>5. ServesInv'
  BY <1>1 DEF ServesInv, Ours
<1> QED
  BY <1>1, <1>3, <1>4, <1>5 DEF CheckInv, BodyOK, Tenured, LaunchInv,
     FreshVerdictIsEarned, AccusationIsTrue, UnstartedVerifiesOnlyAsTheNodes,
     Fresh

(* Endpoints are only freed, and the pid on the state stays.               *)
LEMMA ProcessStep ==
    ASSUME IInv, LaunchFails \/ Dies \/ StrayLeaves
    PROVE  IInv'
<1> USE VerdictAssumptions DEF IInv
<1>1. /\ own'.pid = own.pid /\ own' \in Owns
      /\ UNCHANGED <<kind, off, published, recorded, supervision, spawned, check, verdict>>
      /\ stray' \in {"none", "same", "other"}
  BY DEF LaunchFails, Dies, StrayLeaves, node, TypeOK, Owns
<1>2. process' \in {process, NoPid} /\ process' \in Ours \cup {NoPid}
  BY DEF LaunchFails, Dies, StrayLeaves, TypeOK
<1>3. ASSUME NEW e \in Endpoints
      PROVE  /\ serves'[e] \in {serves[e], NoPid}
             /\ serves'[e] \in Ours => serves'[e] = process'
  <2>1. CASE LaunchFails
    BY <2>1 DEF LaunchFails, ServesInv
  <2>2. CASE Dies
    BY <2>2 DEF Dies, Freed, ServesInv, Ours
  <2>3. CASE StrayLeaves
    BY <2>3 DEF StrayLeaves, Freed, ServesInv, Ours
  <2> QED
    BY <2>1, <2>2, <2>3
<1>4. serves' \in [Endpoints -> MaybePid]
  <2>1. serves \in [Endpoints -> MaybePid] /\ NoPid \in MaybePid
    BY DEF TypeOK, MaybePid
  <2>2. serves' = serves \/ \E p : serves' = Freed(p)
    BY DEF LaunchFails, Dies, StrayLeaves
  <2> QED
    BY <2>1, <2>2 DEF Freed
<1>5. TypeOK'
  BY <1>1, <1>2, <1>4 DEF TypeOK
<1>6. PidInv' /\ ServesInv'
  <2>1. \/ own'.launch = own.launch
        \/ own.launch = "pending" /\ own'.launch = "failed"
    BY DEF LaunchFails, Dies, StrayLeaves, TypeOK, Owns
  <2> QED
    BY <1>1, <1>2, <1>3, <2>1 DEF PidInv, Numbered, ServesInv
<1>7. CheckInv'
  BY <1>1 DEF CheckInv, BodyOK, Tenured
<1>8. LaunchInv' /\ UnstartedVerifiesOnlyAsTheNodes'
  BY <1>1 DEF LaunchFails, Dies, StrayLeaves, LaunchInv, UnstartedVerifiesOnlyAsTheNodes, TypeOK, Owns
<1>9. FreshVerdictIsEarned' /\ AccusationIsTrue'
  BY <1>1 DEF FreshVerdictIsEarned, AccusationIsTrue, Fresh
<1> QED
  BY <1>5, <1>6, <1>7, <1>8, <1>9

LEMMA BindStep ==
    ASSUME IInv, NEW p \in Pids, NEW e \in Endpoints, Bind(p, e)
    PROVE  IInv'
<1> USE VerdictAssumptions DEF IInv
<1>1. /\ serves' = [serves EXCEPT ![e] = p]
      /\ p = process \/ p = Stray
      /\ UNCHANGED <<kind, off, published, recorded, supervision, stray, own, process, spawned,
                     check, verdict>>
  BY DEF Bind, Running, node
<1>2. TypeOK'
  BY <1>1 DEF TypeOK, MaybePid
<1>3. ServesInv'
  BY <1>1 DEF ServesInv, TypeOK, Ours, Stray
<1> QED
  BY <1>1, <1>2, <1>3 DEF PidInv, Numbered, CheckInv, BodyOK, Tenured, LaunchInv,
     FreshVerdictIsEarned, AccusationIsTrue, UnstartedVerifiesOnlyAsTheNodes, Fresh

(* The call and the polls: every answer is got during the tenure the check *)
(* began in, or the tenure has changed.                                    *)
LEMMA PollStep ==
    ASSUME IInv, CheckBegins \/ FirstPoll \/ SecondPoll
    PROVE  IInv'
<1> USE VerdictAssumptions DEF IInv
<1>1. UNCHANGED <<kind, off, published, recorded, supervision, stray, own, process, spawned,
                  serves, verdict>>
  BY DEF CheckBegins, FirstPoll, SecondPoll, node
<1>2. check \in Checks /\ own.pid \in MaybePid
  BY DEF TypeOK, Owns
<1>3. /\ check' \in Checks
      /\ Numbered(check'.against)
      /\ BodyOK(check'.first) /\ BodyOK(check'.second)
      /\ Tenured(check.first)' /\ Tenured(check.second)'
  <2>1. CASE CheckBegins
    <3>1. check' = [phase |-> "first", against |-> Handed, adopted |-> Adopts,
                    first |-> Silence, second |-> Silence]
      BY <2>1 DEF CheckBegins, Idle
    <3>2. Handed \in MaybePid /\ Numbered(Handed) /\ Adopts \in BOOLEAN
      BY HandedFacts
    <3>3. check' \in Checks
      BY <3>1, <3>2, SilenceOK DEF Checks
    <3>4. /\ check'.against = Handed
          /\ check'.first = Silence /\ check'.second = Silence
      BY <3>1
    <3> QED
      BY <1>1, <3>2, <3>3, <3>4, SilenceOK DEF Tenured
  <2>2. CASE FirstPoll
    <3>1. PICK b, f : b = Polled("answers") /\ f \in {"second", "answered"}
                   /\ check' = [check EXCEPT !.first = b, !.phase = f]
      BY <2>2 DEF FirstPoll
    <3>2. b \in Bodies /\ BodyOK(b) /\ (b.from # NoPid => b.during = own.pid)
      BY <3>1, PolledOK DEF Endpoints
    <3>3. /\ check' \in Checks
          /\ check'.first = b /\ check'.second = check.second
          /\ check'.against = check.against
      BY <1>2, <3>1, <3>2 DEF Checks
    <3>4. check.phase # "idle"
      BY <2>2 DEF FirstPoll
    <3> QED
      BY <1>1, <3>2, <3>3, <3>4 DEF CheckInv, PidInv, Tenured
  <2>3. CASE SecondPoll
    <3>1. PICK b : b = Polled("names")
                   /\ check' = [check EXCEPT !.second = b, !.phase = "answered"]
      BY <2>3 DEF SecondPoll
    <3>2. b \in Bodies /\ BodyOK(b) /\ (b.from # NoPid => b.during = own.pid)
      BY <3>1, PolledOK DEF Endpoints
    <3>3. /\ check' \in Checks
          /\ check'.second = b /\ check'.first = check.first
          /\ check'.against = check.against
      BY <1>2, <3>1, <3>2 DEF Checks
    <3>4. check.phase # "idle"
      BY <2>3 DEF SecondPoll
    <3> QED
      BY <1>1, <3>2, <3>3, <3>4 DEF CheckInv, PidInv, Tenured
  <2> QED
    BY <2>1, <2>2, <2>3
<1>4. TypeOK'
  BY <1>1, <1>3 DEF TypeOK
<1>5. PidInv' /\ ServesInv'
  BY <1>1, <1>3 DEF PidInv, Numbered, ServesInv
<1>6. CheckInv'
  BY <1>3 DEF CheckInv, BodyOK
<1>7. LaunchInv'
  <2>1. CASE CheckBegins
    <3>1. /\ check'.adopted = Adopts /\ check'.against = Handed
          /\ own.launch # "pending" /\ ~NeverStarted
      BY <2>1 DEF CheckBegins, Idle
    <3>2. Adopts => Handed \in Ours
      BY HandedFacts
    <3> QED
      BY <1>1, <3>1, <3>2 DEF LaunchInv, NeverStarted, Adopts
  <2>2. CASE FirstPoll \/ SecondPoll
    <3>1. /\ check'.adopted = check.adopted /\ check'.against = check.against
          /\ check.phase # "idle"
      BY <1>2, <2>2 DEF FirstPoll, SecondPoll, Checks
    <3> QED
      BY <1>1, <3>1 DEF LaunchInv
  <2> QED
    BY <2>1, <2>2
<1>8. FreshVerdictIsEarned' /\ AccusationIsTrue' /\ UnstartedVerifiesOnlyAsTheNodes'
  BY <1>1 DEF FreshVerdictIsEarned, AccusationIsTrue, UnstartedVerifiesOnlyAsTheNodes, Fresh
<1> QED
  BY <1>4, <1>5, <1>6, <1>7, <1>8

LEMMA RefuseStep ==
    ASSUME IInv, CheckRefuses
    PROVE  IInv'
<1> USE VerdictAssumptions DEF IInv
<1>1. /\ verdict' = [ok |-> "no", against |-> Handed, adopted |-> FALSE,
                     accused |-> NoPid, named |-> NoPid, from |-> NoPid,
                     during |-> NoPid]
      /\ UNCHANGED <<kind, off, published, recorded, supervision, stray, own,
                     process, spawned, serves, check>>
      /\ own.launch # "pending"
  BY DEF CheckRefuses, Refused, NoVerdict, node
<1>2. Handed \in MaybePid /\ Numbered(Handed)
  BY HandedFacts
<1>3. verdict' \in Verdicts
  BY <1>1, <1>2 DEF Verdicts, MaybePid
<1>4. verdict'.against = Handed /\ verdict'.ok = "no" /\ verdict'.accused = NoPid
  BY <1>1
<1>5. PidInv'
  BY <1>1, <1>2, <1>4 DEF PidInv, Numbered
<1>6. LaunchInv'
  BY <1>1 DEF LaunchInv
<1> QED
  BY <1>1, <1>3, <1>4, <1>5, <1>6 DEF TypeOK, ServesInv, CheckInv, BodyOK,
     Tenured, FreshVerdictIsEarned, AccusationIsTrue,
     UnstartedVerifiesOnlyAsTheNodes, Fresh

LEMMA ConcludeStep ==
    ASSUME IInv, Concludes
    PROVE  IInv'
<1> USE VerdictAssumptions DEF IInv
<1>1. /\ verdict' = Concluded
      /\ check' = Idle
      /\ check.phase = "answered"
      /\ UNCHANGED <<kind, off, published, recorded, supervision, stray, own, process, spawned, serves>>
  BY DEF Concludes, node
<1>2. PICK b : b = Deciding
  OBVIOUS
<1>3. b \in Bodies /\ BodyOK(b) /\ Tenured(b)
  BY <1>1, <1>2 DEF Deciding, CheckInv, TypeOK, Checks
<1>4. /\ verdict'.ok = IF Shown /\ ~NamesAnother(b) THEN "yes" ELSE "no"
      /\ verdict'.against = check.against
      /\ verdict'.accused = IF Shown /\ NamesAnother(b) THEN b.pid ELSE NoPid
      /\ verdict'.from = b.from
      /\ verdict'.during = b.during
  BY <1>1, <1>2 DEF Concluded, Against
<1>5. verdict'.adopted = check.adopted
  BY <1>1 DEF Concluded
<1>6. Held \in MaybePid /\ (own.pid # NoPid => Held = own.pid)
  <2>1. check.against \in MaybePid /\ own.pid \in MaybePid
    BY DEF TypeOK, Checks, Owns
  <2>2. check.adopted => own.pid = NoPid
    BY DEF LaunchInv, PidInv
  <2> QED
    BY <2>1, <2>2 DEF Held
<1>7. verdict' \in Verdicts
  <2>1. check.against \in MaybePid /\ own.pid \in MaybePid /\ NoPid \in MaybePid
        /\ check.adopted \in BOOLEAN
    BY DEF TypeOK, Checks, Owns, MaybePid
  <2>2. b.pid \in MaybePid /\ b.from \in MaybePid /\ b.during \in MaybePid
    BY <1>3 DEF Bodies
  <2> QED
    BY <1>1, <1>2, <1>6, <2>1, <2>2 DEF Concluded, Against, Verdicts
<1>8. check' \in Checks /\ check'.phase = "idle" /\ check'.against = NoPid
      /\ check'.adopted = FALSE
      /\ BodyOK(check'.first) /\ BodyOK(check'.second)
  BY <1>1, SilenceOK DEF Idle, Checks, MaybePid
<1>9. TypeOK'
  BY <1>1, <1>7, <1>8 DEF TypeOK
<1>10. PidInv' /\ ServesInv'
  BY <1>1, <1>4, <1>8 DEF PidInv, Numbered, ServesInv
<1>11. CheckInv'
  BY <1>8 DEF CheckInv, BodyOK
<1>12. LaunchInv' /\ UnstartedVerifiesOnlyAsTheNodes'
  <2>1. LaunchInv'
    BY <1>1, <1>8 DEF LaunchInv
  <2>2. ASSUME own.launch = "failed", verdict'.ok = "yes"
        PROVE  /\ check.adopted /\ supervision = "guard"
               /\ check.against \in Ours
               /\ b.from # NoPid
               /\ kind = "trace" => b.from = check.against
    <3>1. check.adopted /\ supervision = "guard" /\ check.against \in Ours
      BY <1>1, <2>2 DEF LaunchInv
    <3>2. Shown /\ ~NamesAnother(b) /\ Held = check.against
      BY <1>4, <2>2, <3>1 DEF Held
    <3>3. CASE kind = "trace"
      BY <1>2, <1>3, <3>1, <3>2, <3>3
         DEF Shown, Deciding, BodyOK, NamesAnother, Ours
    <3>4. CASE kind # "trace"
      BY <1>2, <1>3, <3>1, <3>2, <3>4 DEF Shown, Deciding, BodyOK
    <3> QED
      BY <3>1, <3>3, <3>4
  <2> QED
    BY <1>1, <1>4, <1>5, <2>1, <2>2 DEF UnstartedVerifiesOnlyAsTheNodes
<1>13. FreshVerdictIsEarned'
  <2> SUFFICES ASSUME verdict'.ok = "yes", own.pid # NoPid, check.against = own.pid
               PROVE  /\ b.from # NoPid
                      /\ b.during = own.pid
                      /\ kind = "trace" => b.from = own.pid
    BY <1>1, <1>4 DEF FreshVerdictIsEarned, Fresh
  <2>1. Shown /\ ~NamesAnother(b)
    BY <1>4
  <2>2. b.from # NoPid
    <3>1. CASE kind = "trace"
      BY <1>2, <1>3, <2>1, <3>1 DEF Shown, Deciding, BodyOK
    <3>2. CASE kind # "trace"
      BY <1>2, <1>3, <2>1, <3>2 DEF Shown, Deciding, BodyOK
    <3> QED
      BY <3>1, <3>2
  <2>3. b.during = own.pid
    BY <1>3, <2>2 DEF Tenured
  <2>4. kind = "trace" => b.from = own.pid
    BY <1>2, <1>3, <1>6, <2>1 DEF Shown, Deciding, NamesAnother, BodyOK
  <2> QED
    BY <2>2, <2>3, <2>4
<1>14. AccusationIsTrue'
  <2> SUFFICES ASSUME verdict'.accused # NoPid, check.against = own.pid
               PROVE  b.pid = Stray
    BY <1>1, <1>4 DEF AccusationIsTrue
  <2>1. b.pid # NoPid /\ Held # NoPid /\ b.pid # Held
    BY <1>4 DEF NamesAnother
  <2>2. own.pid # NoPid /\ Held = own.pid
    <3>1. CASE check.adopted
      \* A copy is of a state with no pid; against is then not the state's.
      BY <1>6, <3>1 DEF LaunchInv, PidInv, Ours
    <3>2. CASE ~check.adopted
      BY <2>1, <3>2 DEF Held
    <3> QED
      BY <3>1, <3>2
  <2>3. b.pid = b.from
    BY <1>3, <2>1 DEF BodyOK
  <2>4. b.during = own.pid
    BY <1>3, <2>1, <2>2, <2>3 DEF Tenured
  <2>5. b.from \notin Ours
    BY <1>3, <2>1, <2>2, <2>3, <2>4 DEF BodyOK
  <2> QED
    BY <1>3, <2>1, <2>3, <2>5 DEF Bodies, MaybePid, Pids
<1> QED
  BY <1>9, <1>10, <1>11, <1>12, <1>13, <1>14

LEMMA InvStep == IInv /\ [Next]_vars => IInv'
<1> SUFFICES ASSUME IInv, [Next]_vars PROVE IInv'
  OBVIOUS
<1>1. CASE Launch
  <2>1. process = NoPid
    BY <1>1 DEF Launch, IInv, LaunchInv
  <2> QED
    BY <1>1, <2>1, SpawnStep DEF Launch
<1>2. CASE Restart
  BY <1>2, SpawnStep DEF Restart
<1>3. CASE LaunchFails \/ Dies \/ StrayLeaves \/ StartsElsewhere
  BY <1>3, ProcessStep, ElsewhereStep
<1>4. CASE \E p \in Pids, e \in Endpoints : Bind(p, e)
  BY <1>4, BindStep
<1>5. CASE CheckBegins \/ FirstPoll \/ SecondPoll
  BY <1>5, PollStep
<1>6. CASE CheckRefuses
  BY <1>6, RefuseStep
<1>7. CASE Concludes
  BY <1>7, ConcludeStep
<1>8. CASE UNCHANGED vars
  BY <1>8 DEF vars, node, IInv, TypeOK, PidInv, Numbered, ServesInv, CheckInv, BodyOK,
     Tenured, LaunchInv, FreshVerdictIsEarned, AccusationIsTrue,
     UnstartedVerifiesOnlyAsTheNodes, Fresh
<1> QED
  BY <1>1, <1>2, <1>3, <1>4, <1>5, <1>6, <1>7, <1>8 DEF Next, Supervisor, Verify

LEMMA Invariance == Spec => []IInv
<1>1. Init => IInv
  BY InitInv
<1>2. IInv /\ [Next]_vars => IInv'
  BY InvStep
<1> QED
  BY <1>1, <1>2, PTL DEF Spec

-----------------------------------------------------------------------------

(* A verdict published as it stands rests on the process it names, through *)
(* any number of restarts between its polls (verify.js:257-277).           *)
THEOREM VerdictsAreEarned == Spec => [](TypeOK /\ FreshVerdictIsEarned)
<1>1. IInv => TypeOK /\ FreshVerdictIsEarned
  BY DEF IInv
<1> QED
  BY <1>1, Invariance, PTL

(* No current verdict accuses a process of the supervisor (verify.js:56-59). *)
THEOREM AccusationsAreTrue == Spec => []AccusationIsTrue
<1>1. IInv => AccusationIsTrue
  BY DEF IInv
<1> QED
  BY <1>1, Invariance, PTL

(* A state that never reached a spawn never verifies on its own: only as   *)
(* the copy that names the node's own process, under the guard, and for    *)
(* the trace-agent on that process's own answer (verify.js:276,            *)
(* component.js:221-231).                                                  *)
THEOREM UnstartedIsRefused == Spec => []UnstartedVerifiesOnlyAsTheNodes
<1>1. IInv => UnstartedVerifiesOnlyAsTheNodes
  BY DEF IInv
<1> QED
  BY <1>1, Invariance, PTL

================================================================================
