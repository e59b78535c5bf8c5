----------------------------- MODULE StartProofs -----------------------------
(***************************************************************************)
(* What a status says of the processes of one thread's start: each under   *)
(* its own name and with its own failure, and each one a later read can    *)
(* verify again.  For any declaration of distinct agents, any number of    *)
(* reads and every order in which binaries resolve and fail.               *)
(***************************************************************************)
EXTENDS ComponentStart, TLAPS

-----------------------------------------------------------------------------
(* The invariant.                                                          *)

(* The records keep the fields the actions change one by one.              *)
Shapes ==
    /\ DOMAIN state = {"pidDir", "verifiers", "started"}
    /\ DOMAIN status = {"processes", "failed"}
    /\ DOMAIN gets = Readers
    /\ \A r \in Readers : DOMAIN gets[r] = {"at", "joined", "polled", "body"}

(* What a node asked for is a part of the declaration, so that no agent has *)
(* two positions.                                                          *)
Distinct ==
    \A i, j \in DOMAIN wanted : wanted[i] = wanted[j] => i = j

(* What a node asked for is a list: its positions start at one, no gaps.   *)
Positions == \E n \in Nat : DOMAIN wanted = 1 .. n

(* A binary that did not resolve left its message at its own position.     *)
Quoted ==
    \A i \in DOMAIN wanted : binaries[i] = "missing" => failures[i] = wanted[i]

(* What the supervisor is handed is every position that resolved, and every *)
(* declared agent has its verifier by then.                                *)
Asked ==
    /\ phase \in {"uncalled", "ebpf", "binaries"} => DOMAIN startable = {}
    /\ phase = "supervisor" =>
        /\ {startable[k] : k \in DOMAIN startable} = Found
        /\ \A j, k \in DOMAIN startable : startable[j] = startable[k] => j = k
        /\ \A i \in DOMAIN wanted : binaries[i] # "pending"
        /\ state.verifiers = Verifiers

(* What the series samples is what the status lists, and everything listed *)
(* has a verifier and a lock directory.                                    *)
Kept ==
    /\ status.processes = state.started
    /\ phase # "done" => state.started = <<>>
    /\ phase \in {"binaries", "supervisor"} => state.pidDir
    /\ \A i \in DOMAIN state.started :
         state.pidDir /\ state.started[i].name \in state.verifiers

(* A read that answered with processes joined a start that was done.       *)
Joins ==
    \A r \in Readers :
        /\ gets[r].joined => slot
        /\ gets[r].at = "answered" /\ gets[r].body # <<>> => phase = "done"

IInv ==
    /\ TypeOK /\ Shapes /\ Positions /\ Distinct /\ Quoted /\ Asked /\ Kept /\ Joins
    /\ EachReportIsItsOwn /\ AnswersCanBeRetaken

-----------------------------------------------------------------------------
(* What a filter keeps.                                                    *)

(* A filter keeps exactly its set, each position once.                     *)
LEMMA FilterKeeps ==
    ASSUME NEW S \in SUBSET Nat, NEW order \in InOrder(S)
    PROVE  /\ S = {order[k] : k \in DOMAIN order}
           /\ \A k \in DOMAIN order : order[k] \in S
           /\ \A j, k \in DOMAIN order : order[j] = order[k] => j = k
           /\ DOMAIN order \subseteq Nat
           /\ \E n \in Nat : DOMAIN order = 1 .. n
<1>0. S \in SUBSET Nat /\ order \in UNION {[1 .. n -> S] : n \in 0 .. Cardinality(S)}
  BY DEF InOrder
<1>1. PICK n \in 0 .. Cardinality(S) : order \in [1 .. n -> S]
  BY DEF InOrder
<1>2. DOMAIN order \subseteq Nat /\ \A k \in DOMAIN order : order[k] \in S
  BY <1>1
<1>3. /\ S = {order[k] : k \in DOMAIN order}
      /\ \A j, k \in DOMAIN order : j < k => order[j] < order[k]
  BY DEF InOrder
<1>4. ASSUME NEW j \in DOMAIN order, NEW k \in DOMAIN order, order[j] = order[k]
      PROVE  j = k
  <2>1. j \in Nat /\ k \in Nat /\ order[j] \in Nat /\ order[k] \in Nat
    BY <1>2
  <2> QED
    BY <2>1, <1>3, <1>4
<1> QED
  BY <1>1, <1>2, <1>3, <1>4

(* The declaration is a sequence of distinct agents.                       *)
LEMMA DeclaredFacts ==
    /\ DOMAIN Declared \subseteq Nat
    /\ \A i \in DOMAIN Declared : Declared[i] \in Agents
BY StartAssumption DEF Agents

-----------------------------------------------------------------------------
(* The steps.                                                              *)

LEMMA InitInv == Init => IInv
<1> SUFFICES ASSUME Init PROVE IInv
  OBVIOUS
<1>1. DOMAIN wanted = {} /\ DOMAIN binaries = {} /\ DOMAIN failures = {}
      /\ DOMAIN startable = {} /\ DOMAIN state.started = {}
      /\ DOMAIN status.processes = {}
  BY DEF Init, BaseStatus
<1>2. Shapes
  BY DEF Init, BaseStatus, Quiet, Shapes
<1>3. TypeOK
  BY <1>1 DEF Init, TypeOK, Phases, BaseStatus, Quiet
<1>4. Positions /\ Distinct /\ Quoted /\ Asked
  BY <1>1 DEF Init, Positions, Distinct, Quoted, Asked
<1>5. Kept /\ Joins /\ EachReportIsItsOwn /\ AnswersCanBeRetaken
  BY <1>1 DEF Init, BaseStatus, Quiet, Kept, Joins, EachReportIsItsOwn, AnswersCanBeRetaken
<1> QED
  BY <1>2, <1>3, <1>4, <1>5 DEF IInv

LEMMA CallStep ==
    ASSUME IInv, HandleApplication
    PROVE  IInv'
<1> USE DEF HandleApplication, start
<1>1. phase = "uncalled" /\ phase' = "ebpf"
  BY DEF IInv, TypeOK
<1>2. TypeOK' /\ Shapes' /\ Positions' /\ Distinct' /\ Quoted'
  BY <1>1 DEF IInv, TypeOK, Phases, Shapes, Positions, Distinct, Quoted
<1>3. Asked' /\ Kept' /\ Joins' /\ EachReportIsItsOwn'
  BY <1>1 DEF IInv, Asked, Kept, Joins, EachReportIsItsOwn
<1>4. AnswersCanBeRetaken'
  BY DEF IInv, AnswersCanBeRetaken
<1> QED
  BY <1>2, <1>3, <1>4 DEF IInv

(* A status that lists nothing was answered with nothing.                  *)
LEMMA NothingListed ==
    ASSUME IInv, phase # "done", NEW r \in Readers
    PROVE  ~(gets[r].at = "answered" /\ gets[r].body # <<>>)
BY DEF IInv, Joins

(* A startup that threw before its supervisor answered has listed nothing.  *)
LEMMA ThrowStep ==
    ASSUME IInv, PrepareThrows \/ HandOverThrows \/ SupervisorThrows
    PROVE  IInv'
<1>1. /\ phase \in {"ebpf", "binaries", "supervisor"} /\ phase' = "done"
      /\ status' = [status EXCEPT !.failed = TRUE]
      /\ UNCHANGED <<slot, wanted, binaries, failures, startable, running, gets>>
      /\ \/ state' = state
         \/ \E kept \in BOOLEAN : state' = [state EXCEPT !.pidDir = kept]
  BY DEF PrepareThrows, HandOverThrows, SupervisorThrows, Caught, start
<1>0. /\ state'.pidDir \in BOOLEAN /\ state'.verifiers = state.verifiers
      /\ state'.started = state.started /\ DOMAIN state' = DOMAIN state
  BY <1>1 DEF IInv, Shapes, TypeOK
<1>2. status'.failed = TRUE /\ status'.processes = status.processes
      /\ DOMAIN status' = DOMAIN status
  BY <1>1 DEF IInv, Shapes
<1>3. TypeOK' /\ Shapes' /\ Positions' /\ Distinct' /\ Quoted'
  BY <1>0, <1>1, <1>2 DEF IInv, TypeOK, Phases, Shapes, Positions, Distinct, Quoted
<1>4. status'.processes = <<>> /\ state'.started = <<>>
  BY <1>0, <1>1, <1>2 DEF IInv, Kept
<1>5. Asked' /\ Kept' /\ Joins' /\ EachReportIsItsOwn'
  BY <1>1, <1>2, <1>4 DEF IInv, Asked, Kept, Joins, EachReportIsItsOwn
<1>6. AnswersCanBeRetaken'
  BY <1>1, NothingListed DEF AnswersCanBeRetaken, IInv, Shapes
<1> QED
  BY <1>3, <1>5, <1>6 DEF IInv

LEMMA PrepareStep ==
    ASSUME IInv, NEW on \in SUBSET Probes, Prepare(on)
    PROVE  IInv'
<1> DEFINE S == {i \in DOMAIN Declared : Needs[Declared[i]] \in on \union {Always}}
<1>1. PICK order \in InOrder(S) : wanted' = [k \in DOMAIN order |-> Declared[order[k]]]
  BY DEF Prepare
<1>2. S \in SUBSET Nat
  BY DeclaredFacts
<1> HIDE DEF S
<1>3. /\ \A k \in DOMAIN order : order[k] \in S
      /\ DOMAIN order \subseteq Nat
      /\ \A j, k \in DOMAIN order : order[j] = order[k] => j = k
      /\ \E n \in Nat : DOMAIN order = 1 .. n
  BY <1>2, FilterKeeps
<1>4. S \subseteq DOMAIN Declared
  BY DEF S
<1>5. \A k \in DOMAIN wanted' : wanted'[k] \in Agents
  BY <1>1, <1>3, <1>4, DeclaredFacts
<1>6. Distinct'
  <2> SUFFICES ASSUME NEW i \in DOMAIN wanted', NEW j \in DOMAIN wanted',
                      wanted'[i] = wanted'[j]
               PROVE  i = j
    BY DEF Distinct
  <2>1. Declared[order[i]] = Declared[order[j]] /\ i \in DOMAIN order /\ j \in DOMAIN order
    BY <1>1
  <2>2. order[i] = order[j]
    BY <2>1, <1>3, <1>4, StartAssumption
  <2> QED
    BY <2>1, <2>2, <1>3
<1>7. /\ phase = "ebpf" /\ phase' = "binaries"
      /\ binaries' = [i \in DOMAIN wanted' |-> "pending"]
      /\ failures' = [i \in DOMAIN wanted' |-> Absent]
      /\ state' = [state EXCEPT !.pidDir = TRUE]
      /\ UNCHANGED <<slot, startable, running, status, gets>>
  BY DEF Prepare
<1>8. /\ state'.pidDir = TRUE /\ state'.verifiers = state.verifiers
      /\ state'.started = state.started /\ DOMAIN state' = DOMAIN state
  BY <1>7 DEF IInv, Shapes
<1>9. TypeOK'
  BY <1>1, <1>5, <1>7, <1>8 DEF IInv, TypeOK, Phases, Asked
<1>10. Shapes' /\ Positions' /\ Quoted' /\ Asked'
  BY <1>1, <1>3, <1>7, <1>8 DEF IInv, Shapes, Positions, Quoted, Asked
<1>11. Kept' /\ Joins' /\ EachReportIsItsOwn'
  BY <1>7, <1>8 DEF IInv, Kept, Joins, EachReportIsItsOwn
<1>12. AnswersCanBeRetaken'
  BY <1>7, NothingListed DEF AnswersCanBeRetaken, IInv, Shapes
<1> QED
  BY <1>6, <1>9, <1>10, <1>11, <1>12 DEF IInv

LEMMA ResolveStep ==
    ASSUME IInv, NEW i \in DOMAIN wanted, BinaryResolves(i)
    PROVE  IInv'
<1>1. /\ phase = "binaries" /\ phase' = "binaries"
      /\ binaries[i] = "pending"
      /\ \/ binaries' = [binaries EXCEPT ![i] = "found"] /\ failures' = failures
         \/ binaries' = [binaries EXCEPT ![i] = "missing"]
              /\ failures' = [failures EXCEPT ![i] = wanted[i]]
      /\ UNCHANGED <<slot, wanted, startable, running, state, status, gets>>
  BY DEF BinaryResolves, Failed
<1>2. /\ DOMAIN binaries' = DOMAIN wanted /\ DOMAIN failures' = DOMAIN wanted
      /\ \A j \in DOMAIN wanted :
           /\ binaries'[j] \in {"pending", "found", "missing"}
           /\ failures'[j] \in Agents \union {Absent}
           /\ binaries'[j] = "missing" => failures'[j] = wanted[j]
  BY <1>1 DEF IInv, TypeOK, Quoted
<1>3. TypeOK' /\ Shapes' /\ Positions' /\ Distinct' /\ Quoted'
  BY <1>1, <1>2 DEF IInv, TypeOK, Phases, Shapes, Positions, Distinct, Quoted
<1>4. Asked' /\ Kept' /\ Joins' /\ EachReportIsItsOwn'
  BY <1>1 DEF IInv, Asked, Kept, Joins, EachReportIsItsOwn
<1>5. AnswersCanBeRetaken'
  BY <1>1 DEF IInv, AnswersCanBeRetaken
<1> QED
  BY <1>3, <1>4, <1>5 DEF IInv

LEMMA HandOverStep ==
    ASSUME IInv, HandOver
    PROVE  IInv'
<1>1. /\ phase = "binaries" /\ phase' = "supervisor"
      /\ \A i \in DOMAIN wanted : binaries[i] # "pending"
      /\ state' = [state EXCEPT !.verifiers = Verifiers]
      /\ startable' \in InOrder(Found)
      /\ UNCHANGED <<slot, wanted, binaries, failures, running, status, gets>>
  BY DEF HandOver
<1>2. /\ state'.verifiers = Verifiers /\ state'.pidDir = state.pidDir
      /\ state'.started = state.started /\ DOMAIN state' = DOMAIN state
  BY <1>1 DEF IInv, Shapes
<1>3. /\ {startable'[k] : k \in DOMAIN startable'} = Found
      /\ \A k \in DOMAIN startable' : startable'[k] \in Found
      /\ \A j, k \in DOMAIN startable' : startable'[j] = startable'[k] => j = k
  <2>1. Found \in SUBSET Nat
    BY DEF IInv, TypeOK, Positions, Found
  <2> QED
    BY <1>1, <2>1, FilterKeeps
<1>4. Found' = Found /\ Verifiers' = Verifiers /\ Verifiers \subseteq Agents
  BY <1>1 DEF IInv, TypeOK, Found, Verifiers
<1>5. TypeOK'
  BY <1>1, <1>2, <1>3, <1>4 DEF IInv, TypeOK, Phases, Found
<1>6. Shapes' /\ Positions' /\ Distinct' /\ Quoted' /\ Asked'
  BY <1>1, <1>2, <1>3, <1>4 DEF IInv, Shapes, Positions, Distinct, Quoted, Asked
<1>7. Kept' /\ Joins' /\ EachReportIsItsOwn'
  BY <1>1, <1>2 DEF IInv, Kept, Joins, EachReportIsItsOwn
<1>8. AnswersCanBeRetaken'
  BY <1>1, NothingListed DEF AnswersCanBeRetaken, IInv, Shapes
<1> QED
  BY <1>5, <1>6, <1>7, <1>8 DEF IInv

(* Joining the supervisor's answer back gives every agent the one report    *)
(* that is its own, though it answered for fewer agents than were asked for. *)
LEMMA JoinGivesEachItsOwn ==
    ASSUME IInv, phase = "supervisor", NEW up \in SUBSET Resolved,
           NEW i \in DOMAIN wanted
    PROVE  LET report == Joined(Processes(up))[i]
           IN  /\ report \in Reports
               /\ report.name = wanted[i]
               /\ report.started <=> wanted[i] \in up
               /\ ~report.started => report.why = wanted[i]
<1> DEFINE report == Joined(Processes(up))[i]
<1>1. /\ wanted[i] \in Agents /\ binaries[i] \in {"found", "missing"}
      /\ {startable[k] : k \in DOMAIN startable} = Found
  BY DEF IInv, TypeOK, Asked
<1>2. CASE \E k \in DOMAIN startable : startable[k] = i
  <2> DEFINE k == CHOOSE k \in DOMAIN startable : startable[k] = i
  <2>1. k \in DOMAIN startable /\ startable[k] = i
    BY <1>2
  <2>2. report = Processes(up)[k]
    BY <1>2 DEF Joined
  <2> HIDE DEF k, report
  <2>3. report = [name |-> wanted[i], started |-> wanted[i] \in up,
                  why |-> IF wanted[i] \in up THEN Absent ELSE wanted[i]]
    BY <2>1, <2>2 DEF Processes
  <2>4. CASE wanted[i] \in up
    <3>1. report = [name |-> wanted[i], started |-> TRUE, why |-> Absent]
      BY <2>3, <2>4
    <3>2. report \in Reports
      BY <3>1, <1>1 DEF Reports
    <3>3. report.name = wanted[i] /\ (report.started <=> wanted[i] \in up)
          /\ (~report.started => report.why = wanted[i])
      BY <2>4, <3>1
    <3> QED
      BY <3>2, <3>3 DEF report
  <2>5. CASE wanted[i] \notin up
    <3>0. (wanted[i] \in up) = FALSE
      BY <2>5
    <3>1. report = [name |-> wanted[i], started |-> FALSE, why |-> wanted[i]]
      BY <2>3, <2>5, <3>0, Zenon
    <3>2. report \in Reports
      BY <3>1, <1>1 DEF Reports
    <3>3. report.name = wanted[i] /\ (report.started <=> wanted[i] \in up)
          /\ (~report.started => report.why = wanted[i])
      BY <2>5, <3>1
    <3> QED
      BY <3>2, <3>3 DEF report
  <2> QED
    BY <2>4, <2>5
<1>3. CASE ~ \E k \in DOMAIN startable : startable[k] = i
  <2>1. i \notin Found
    BY <1>1, <1>3
  <2>2. binaries[i] = "missing" /\ failures[i] = wanted[i]
    BY <1>1, <2>1 DEF Found, IInv, Quoted
  <2>3. wanted[i] \notin up
    BY <2>1 DEF Resolved, Found, IInv, Distinct
  <2>4. report = [name |-> wanted[i], started |-> FALSE, why |-> wanted[i]]
    BY <1>3, <2>2 DEF Joined, Unstarted
  <2> QED
    BY <2>3, <2>4, <1>1 DEF Reports
<1> QED
  BY <1>2, <1>3

LEMMA SupervisorStep ==
    ASSUME IInv, NEW up \in SUBSET Resolved, SupervisorAnswers(up)
    PROVE  IInv'
<1> DEFINE answer == Joined(Processes(up))
<1>1. /\ phase = "supervisor" /\ phase' = "done" /\ running' = up
      /\ state' = [state EXCEPT !.started = answer]
      /\ \E thrown \in BOOLEAN : status' = [processes |-> answer, failed |-> thrown]
      /\ UNCHANGED <<slot, wanted, binaries, failures, startable, gets>>
  BY DEF SupervisorAnswers
<1>2. /\ DOMAIN answer = DOMAIN wanted
      /\ \A i \in DOMAIN wanted :
           /\ answer[i] \in Reports
           /\ answer[i].name = wanted[i]
           /\ answer[i].started <=> wanted[i] \in up
           /\ ~answer[i].started => answer[i].why = wanted[i]
  BY <1>1, JoinGivesEachItsOwn DEF Joined
<1> HIDE DEF answer
<1>3. /\ state'.started = answer /\ state'.pidDir = state.pidDir
      /\ state'.verifiers = state.verifiers /\ DOMAIN state' = DOMAIN state
      /\ status'.processes = answer /\ status'.failed \in BOOLEAN
      /\ DOMAIN status' = DOMAIN status
  BY <1>1 DEF IInv, Shapes
<1>4. up \subseteq Agents
  BY DEF Resolved, Found, IInv, TypeOK
<1>5. TypeOK'
  BY <1>1, <1>2, <1>3, <1>4 DEF IInv, TypeOK, Phases
<1>6. Shapes' /\ Positions' /\ Distinct' /\ Quoted' /\ Asked'
  BY <1>1, <1>3 DEF IInv, Shapes, Positions, Distinct, Quoted, Asked
<1>7. state.pidDir /\ state.verifiers = Verifiers
  BY <1>1 DEF IInv, Kept, Asked
<1>8. Kept'
  BY <1>1, <1>2, <1>3, <1>7 DEF Kept, Verifiers
<1>9. Joins' /\ EachReportIsItsOwn'
  BY <1>1, <1>2, <1>3 DEF IInv, Joins, EachReportIsItsOwn
<1>10. AnswersCanBeRetaken'
  BY <1>1, NothingListed DEF AnswersCanBeRetaken, IInv, Shapes
<1> QED
  BY <1>5, <1>6, <1>8, <1>9, <1>10 DEF IInv

-----------------------------------------------------------------------------
(* The reads.                                                              *)

(* A read that is not answered yet shows nothing, whatever it has found.   *)
LEMMA PollStep ==
    ASSUME IInv, NEW r \in Readers, Ask(r) \/ CountersRead(r)
    PROVE  IInv'
<1>1. /\ UNCHANGED <<slot, phase, wanted, binaries, failures, startable, running, state, status>>
      /\ \E g : /\ gets' = [gets EXCEPT ![r] = g]
                /\ DOMAIN g = {"at", "joined", "polled", "body"}
                /\ g.at = "waiting" /\ (g.joined => slot)
  <2>1. CASE Ask(r)
    <3> DEFINE g == [Quiet EXCEPT !.at = "waiting", !.joined = slot]
    <3>1. gets' = [gets EXCEPT ![r] = g] /\ g.at = "waiting" /\ g.joined = slot
          /\ DOMAIN g = {"at", "joined", "polled", "body"}
      BY <2>1 DEF Ask, Quiet
    <3> QED
      BY <2>1, <3>1 DEF Ask, start
  <2>2. CASE CountersRead(r)
    <3> DEFINE g == [gets[r] EXCEPT !.polled = TRUE]
    <3>1. gets' = [gets EXCEPT ![r] = g] /\ g.at = gets[r].at
          /\ g.joined = gets[r].joined /\ DOMAIN g = {"at", "joined", "polled", "body"}
      BY <2>2 DEF CountersRead, IInv, Shapes
    <3> QED
      BY <2>2, <3>1 DEF CountersRead, start, IInv, Joins
  <2> QED
    BY <2>1, <2>2
<1>2. PICK g : /\ gets' = [gets EXCEPT ![r] = g]
               /\ DOMAIN g = {"at", "joined", "polled", "body"}
               /\ g.at = "waiting" /\ (g.joined => slot)
  BY <1>1
<1>3. /\ gets'[r] = g /\ DOMAIN gets' = Readers
      /\ \A s \in Readers : s # r => gets'[s] = gets[s]
  BY <1>2 DEF IInv, Shapes
<1>4. TypeOK' /\ Shapes' /\ Positions' /\ Distinct' /\ Quoted'
  BY <1>1, <1>2, <1>3 DEF IInv, TypeOK, Shapes, Positions, Distinct, Quoted
<1>5. Asked' /\ Kept' /\ EachReportIsItsOwn'
  BY <1>1 DEF IInv, Asked, Found, Verifiers, Kept, EachReportIsItsOwn
<1>6. Joins' /\ AnswersCanBeRetaken'
  BY <1>1, <1>2, <1>3 DEF IInv, Joins, AnswersCanBeRetaken
<1> QED
  BY <1>4, <1>5, <1>6 DEF IInv

LEMMA AnswerStep ==
    ASSUME IInv, NEW r \in Readers, Answer(r)
    PROVE  IInv'
<1>1. /\ gets[r].at = "waiting" /\ (gets[r].joined => phase = "done")
      /\ gets' = [gets EXCEPT ![r].at = "answered", ![r].body = Body(r)]
      /\ UNCHANGED <<slot, phase, wanted, binaries, failures, startable, running, state, status>>
  BY DEF Answer, start
<1>2. /\ DOMAIN gets' = Readers
      /\ \A s \in Readers : s # r => gets'[s] = gets[s]
      /\ gets'[r].at = "answered" /\ gets'[r].body = Body(r)
      /\ gets'[r].joined = gets[r].joined
      /\ DOMAIN gets'[r] = {"at", "joined", "polled", "body"}
  BY <1>1 DEF IInv, Shapes
<1>3. TypeOK' /\ Shapes' /\ Positions' /\ Distinct' /\ Quoted'
  BY <1>1, <1>2 DEF IInv, TypeOK, Shapes, Positions, Distinct, Quoted
<1>4. Asked' /\ Kept' /\ EachReportIsItsOwn'
  BY <1>1 DEF IInv, Asked, Found, Verifiers, Kept, EachReportIsItsOwn
<1>5. Body(r) # <<>> =>
        /\ gets[r].joined /\ phase = "done"
        /\ DOMAIN Body(r) = DOMAIN state.started
        /\ \A i \in DOMAIN state.started :
             /\ Body(r)[i].located
             /\ Body(r)[i].process = state.started[i]
             /\ Body(r)[i].verifier = state.started[i].name
  BY <1>1 DEF Body, IInv, Kept
<1>6. Joins'
  BY <1>1, <1>2, <1>5 DEF IInv, Joins
<1>7. AnswersCanBeRetaken'
  <2> SUFFICES ASSUME NEW s \in Readers,
                      gets'[s].at = "answered" /\ gets'[s].body # <<>>
               PROVE  /\ DOMAIN gets'[s].body = DOMAIN state'.started
                      /\ \A i \in DOMAIN gets'[s].body :
                           /\ gets'[s].body[i].located
                           /\ gets'[s].body[i].process = state'.started[i]
                           /\ gets'[s].body[i].verifier = state'.started[i].name
    BY DEF AnswersCanBeRetaken
  <2>1. CASE s = r
    BY <2>1, <1>1, <1>2, <1>5
  <2>2. CASE s # r
    BY <2>2, <1>1, <1>2 DEF IInv, AnswersCanBeRetaken
  <2> QED
    BY <2>1, <2>2
<1> QED
  BY <1>3, <1>4, <1>6, <1>7 DEF IInv

-----------------------------------------------------------------------------
(* The theorems.                                                           *)

LEMMA InvStep == IInv /\ [Next]_vars => IInv'
<1> SUFFICES ASSUME IInv, [Next]_vars PROVE IInv'
  OBVIOUS
<1>1. CASE Start
  BY <1>1, CallStep, ThrowStep, PrepareStep, ResolveStep, HandOverStep, SupervisorStep
     DEF Start
<1>2. CASE \E r \in Readers : Get(r)
  BY <1>2, PollStep, AnswerStep DEF Get
<1>3. CASE UNCHANGED vars
  BY <1>3 DEF vars, start, IInv, TypeOK, Shapes, Positions, Distinct, Quoted, Asked,
     Found, Verifiers, Kept, Joins, EachReportIsItsOwn, AnswersCanBeRetaken
<1> QED
  BY <1>1, <1>2, <1>3 DEF Next

LEMMA Invariance == Spec => []IInv
BY InitInv, InvStep, PTL DEF Spec

(* What startup keeps has the shape component.js gives it, under every      *)
(* interleaving of resolutions, failures and reads.                         *)
THEOREM StartTypeCorrect == Spec => []TypeOK
<1>1. IInv => TypeOK
  BY DEF IInv
<1> QED
  BY <1>1, Invariance, PTL

(* The join of component.js:365-371 is right for every declaration and every *)
(* subset of binaries that fails to resolve: an agent is never reported under *)
(* another's name, with another's state or with another's failure.            *)
THEOREM ReportsAreTheirOwn == Spec => []EachReportIsItsOwn
<1>1. IInv => EachReportIsItsOwn
  BY DEF IInv
<1> QED
  BY <1>1, Invariance, PTL

(* A GET that lists a process always has what readProcess needs to verify it *)
(* again, because state.pidDir and state.verifiers are filled in before the  *)
(* promise that carries the processes can settle (component.js:221-230, 296- *)
(* 297, 350, 372).                                                           *)
THEOREM AnswersAreRetakable == Spec => []AnswersCanBeRetaken
<1>1. IInv => AnswersCanBeRetaken
  BY DEF IInv
<1> QED
  BY <1>1, Invariance, PTL

-----------------------------------------------------------------------------
(* The start is one promise.                                               *)

LEMMA InitPromise == Init => Promise!Init
BY DEF Init, Promise!Init, BaseStatus, Quiet

(* What the promise is to a read, by how far the start has come.           *)
LEMMA PromiseOf ==
    ASSUME IInv
    PROVE  /\ slot = (phase # "uncalled")
           /\ phase # "done" => status.processes = <<>>
BY DEF IInv, TypeOK, Kept

(* The join answers with one consistent list.                              *)
LEMMA JoinIsConsistent ==
    ASSUME IInv, phase = "supervisor", NEW up \in SUBSET Resolved
    PROVE  Promise!Consistent(Joined(Processes(up)))
<1> DEFINE answer == Joined(Processes(up))
<1>1. /\ DOMAIN answer = DOMAIN wanted
      /\ \A i \in DOMAIN wanted :
           /\ answer[i] \in Reports
           /\ answer[i].name = wanted[i]
           /\ ~answer[i].started => answer[i].why = wanted[i]
  BY JoinGivesEachItsOwn DEF Joined
<1>2. answer = [i \in DOMAIN wanted |-> answer[i]]
  BY DEF Joined
<1> HIDE DEF answer
<1>3. PICK n \in Nat : DOMAIN wanted = 1 .. n
  BY DEF IInv, Positions
<1>4. answer \in Seq(Reports)
  BY <1>1, <1>2, <1>3
<1>5. answer \in Seq(Promise!Reports)
  BY <1>4 DEF Reports, Promise!Reports
<1>6. \A i, j \in DOMAIN answer : answer[i].name = answer[j].name => i = j
  BY <1>1 DEF IInv, Distinct
<1>7. \A i \in DOMAIN answer : ~answer[i].started => answer[i].why = answer[i].name
  BY <1>1
<1>8. Promise!Consistent(answer)
  BY <1>5, <1>6, <1>7 DEF Promise!Consistent
<1> QED
  BY <1>8 DEF answer

LEMMA NothingIsConsistent == Promise!Consistent(<<>>)
BY DEF Promise!Consistent

LEMMA StartSettles ==
    ASSUME IInv, Start
    PROVE  [Promise!Next]_(Promise!promised)
<1> USE DEF start
<1>1. CASE HandleApplication
  <2>1. Promise!Starts
    BY <1>1 DEF HandleApplication, Promise!Starts
  <2> QED
    BY <2>1 DEF Promise!Next
<1>2. CASE PrepareThrows \/ HandOverThrows \/ SupervisorThrows
  <2>1. /\ phase \in {"ebpf", "binaries", "supervisor"} /\ phase' = "done"
        /\ status' = [status EXCEPT !.failed = TRUE]
        /\ UNCHANGED <<slot, gets>>
    BY <1>2 DEF PrepareThrows, HandOverThrows, SupervisorThrows, Caught
  <2>2. slot /\ status.processes = <<>> /\ status'.processes = <<>>
    BY <2>1, PromiseOf DEF IInv, Shapes
  <2>3. Promise!Settles
    BY <2>1, <2>2, NothingIsConsistent DEF Promise!Settles
  <2> QED
    BY <2>3 DEF Promise!Next
<1>3. CASE \/ \E on \in SUBSET Probes : Prepare(on)
           \/ \E i \in DOMAIN wanted : BinaryResolves(i)
           \/ HandOver
  <2>1. /\ phase # "done" /\ phase' # "done"
        /\ UNCHANGED <<slot, status, gets>>
    BY <1>3 DEF Prepare, BinaryResolves, HandOver
  <2> QED
    BY <2>1 DEF Promise!promised
<1>4. CASE \E up \in SUBSET Resolved : SupervisorAnswers(up)
  <2>1. PICK up \in SUBSET Resolved : SupervisorAnswers(up)
    BY <1>4
  <2>2. /\ phase = "supervisor" /\ phase' = "done"
        /\ \E thrown \in BOOLEAN :
             status' = [processes |-> Joined(Processes(up)), failed |-> thrown]
        /\ UNCHANGED <<slot, gets>>
    BY <2>1 DEF SupervisorAnswers
  <2>3. slot /\ status'.processes = Joined(Processes(up))
    <3>1. slot
      BY <2>2, PromiseOf
    <3>2. status'.processes = Joined(Processes(up))
      BY <2>2
    <3> QED
      BY <3>1, <3>2
  <2>4. Promise!Consistent(status'.processes)
    BY <2>2, <2>3, JoinIsConsistent
  <2>5. Promise!Settles
    BY <2>2, <2>3, <2>4 DEF Promise!Settles
  <2> QED
    BY <2>5 DEF Promise!Next
<1> QED
  BY <1>1, <1>2, <1>3, <1>4 DEF Start

LEMMA AskAsks ==
    ASSUME IInv, NEW r \in Readers, Ask(r)
    PROVE  Promise!Asks(r)
<1> DEFINE g == [Quiet EXCEPT !.at = "waiting", !.joined = slot]
<1>1. /\ gets[r].at \in {"idle", "answered"}
      /\ gets' = [gets EXCEPT ![r] = g]
      /\ UNCHANGED <<slot, phase, status>>
  BY DEF Ask, start
<1>2. g.at = "waiting" /\ g.joined = slot /\ g.body = <<>>
  BY DEF Quiet
<1> HIDE DEF g
<1>3. \A s \in Readers : gets'[s] = IF s = r THEN g ELSE gets[s]
  BY <1>1 DEF IInv, Shapes
<1>4. slot \in BOOLEAN
  BY DEF IInv, TypeOK
<1>5. CASE slot
  <2>1. slot = TRUE /\ g.joined = TRUE
    BY <1>2, <1>4, <1>5
  <2> QED
    BY <1>1, <1>2, <1>3, <2>1 DEF Promise!Asks
<1>6. CASE ~slot
  <2>1. slot = FALSE /\ g.joined = FALSE
    BY <1>2, <1>4, <1>6
  <2> QED
    BY <1>1, <1>2, <1>3, <2>1 DEF Promise!Asks
<1> QED
  BY <1>5, <1>6

(* A read that joined a settled start shows all of it, each process beside  *)
(* the verifier of its own name: nothing is missing from the state it reads. *)
LEMMA BodyIsShown ==
    ASSUME IInv, NEW r \in Readers, gets[r].joined
    PROVE  Body(r) = Promise!Shown
<1>1. \A i \in DOMAIN status.processes :
        state.pidDir /\ status.processes[i].name \in state.verifiers
  BY DEF IInv, Kept
<1>2. \A i \in DOMAIN status.processes : state.pidDir = TRUE
  BY <1>1 DEF IInv, TypeOK
<1>3. Body(r) =
        [i \in DOMAIN status.processes |->
            [process |-> status.processes[i], located |-> TRUE,
             verifier |-> status.processes[i].name]]
  BY <1>1, <1>2 DEF Body
<1> QED
  BY <1>3 DEF Promise!Shown

LEMMA AnswerAnswers ==
    ASSUME IInv, NEW r \in Readers, Answer(r)
    PROVE  Promise!Answers(r)
<1>1. /\ gets[r].at = "waiting" /\ (gets[r].joined => phase = "done")
      /\ gets' = [gets EXCEPT ![r].at = "answered", ![r].body = Body(r)]
      /\ UNCHANGED <<slot, phase, status>>
  BY DEF Answer, start
<1>2. gets[r].joined => slot
  BY DEF IInv, Joins
<1>3. Body(r) = IF gets[r].joined THEN Promise!Shown ELSE <<>>
  <2>1. CASE gets[r].joined
    BY <2>1, BodyIsShown
  <2>2. CASE ~gets[r].joined
    BY <2>2 DEF Body
  <2> QED
    BY <2>1, <2>2
<1>4. /\ \A s \in Readers : s # r => gets'[s] = gets[s]
      /\ gets'[r].at = "answered" /\ gets'[r].body = Body(r)
      /\ gets'[r].joined = gets[r].joined
  BY <1>1 DEF IInv, Shapes
<1> DEFINE shown == IF gets[r].joined THEN Promise!Shown ELSE <<>>
<1>5. Body(r) = shown
  BY <1>3
<1> HIDE DEF shown
<1>6. \A s \in Readers :
        [at |-> gets'[s].at, joined |-> gets'[s].joined, body |-> gets'[s].body]
          = IF s = r
            THEN [at |-> "answered", joined |-> gets[r].joined, body |-> shown]
            ELSE [at |-> gets[s].at, joined |-> gets[s].joined, body |-> gets[s].body]
  BY <1>4, <1>5
<1> QED
  BY <1>1, <1>2, <1>6 DEF Promise!Answers, shown

LEMMA GetReads ==
    ASSUME IInv, NEW r \in Readers, Get(r)
    PROVE  [Promise!Next]_(Promise!promised)
<1>1. CASE Ask(r)
  BY <1>1, AskAsks DEF Promise!Next
<1>2. CASE Answer(r)
  BY <1>2, AnswerAnswers DEF Promise!Next
<1>3. CASE CountersRead(r)
  <2>1. /\ gets' = [gets EXCEPT ![r].polled = TRUE]
        /\ UNCHANGED <<slot, phase, status>>
    BY <1>3 DEF CountersRead, start
  <2>2. \A s \in Readers : /\ gets'[s].at = gets[s].at
                            /\ gets'[s].joined = gets[s].joined
                            /\ gets'[s].body = gets[s].body
    BY <2>1 DEF IInv, Shapes
  <2> QED
    BY <2>1, <2>2 DEF Promise!promised
<1> QED
  BY <1>1, <1>2, <1>3 DEF Get

(* For any declaration, any number of reads and every way a start can go or  *)
(* fail, GET /DatadogStatus/ sees one promise that is settled once: every    *)
(* read that joined it shows the same processes, whole, and one that came    *)
(* before it shows none (component.js:215-217, 278, 398-404).                *)
THEOREM TheStartIsOnePromise == Spec => ImplementsPromise
<1>1. IInv /\ [Next]_vars => [Promise!Next]_(Promise!promised)
  <2> SUFFICES ASSUME IInv, [Next]_vars PROVE [Promise!Next]_(Promise!promised)
    OBVIOUS
  <2>1. CASE UNCHANGED vars
    BY <2>1 DEF vars, Promise!promised
  <2> QED
    BY <2>1, StartSettles, GetReads DEF Next
<1> QED
  BY <1>1, InitPromise, Invariance, PTL DEF Spec, ImplementsPromise, Promise!Spec


(* What the promise has told is told for good: nothing settles it again.    *)
LEMMA ToldStays == Promise!Told /\ [Promise!Next]_(Promise!promised) => Promise!Told'
<1> DEFINE reads == [r \in Readers |-> [at |-> gets[r].at, joined |-> gets[r].joined,
                                        body |-> gets[r].body]]
           promise == IF ~slot THEN "none" ELSE IF phase = "done" THEN "settled" ELSE "pending"
<1> SUFFICES ASSUME Promise!Told, [Promise!Next]_(Promise!promised), NEW s \in Readers,
                    reads'[s].at = "answered", reads'[s].joined
             PROVE  promise' = "settled" /\ reads'[s].body = Promise!Shown'
  BY DEF Promise!Told
<1>1. reads[s].at = "answered" /\ reads[s].joined =>
        promise = "settled" /\ reads[s].body = Promise!Shown
  BY DEF Promise!Told
<1>2. DOMAIN reads = Readers
  OBVIOUS
<1>3. CASE Promise!Starts \/ Promise!Settles
  <2>1. reads' = reads /\ promise # "settled"
    BY <1>3 DEF Promise!Starts, Promise!Settles
  <2> HIDE DEF reads, promise
  <2> QED
    BY <1>1, <2>1
<1>4. ASSUME NEW r \in Readers, Promise!Asks(r)
      PROVE  promise' = "settled" /\ reads'[s].body = Promise!Shown'
  <2>1. /\ promise' = promise /\ status'.processes = status.processes
        /\ \E j : reads' = [reads EXCEPT ![r] = [at |-> "waiting", joined |-> j,
                                                 body |-> <<>>]]
    BY <1>4 DEF Promise!Asks
  <2>2. Promise!Shown' = Promise!Shown
    BY <2>1 DEF Promise!Shown
  <2> HIDE DEF reads, promise
  <2>3. s # r /\ reads'[s] = reads[s]
    BY <1>2, <2>1
  <2> QED
    BY <1>1, <2>1, <2>2, <2>3
<1>5. ASSUME NEW r \in Readers, Promise!Answers(r)
      PROVE  promise' = "settled" /\ reads'[s].body = Promise!Shown'
  <2>1. /\ promise' = promise /\ status'.processes = status.processes
        /\ reads[r].joined => promise = "settled"
        /\ reads' = [reads EXCEPT ![r] =
              [at |-> "answered", joined |-> reads[r].joined,
               body |-> IF reads[r].joined THEN Promise!Shown ELSE <<>>]]
    BY <1>5 DEF Promise!Answers
  <2>2. Promise!Shown' = Promise!Shown
    BY <2>1 DEF Promise!Shown
  <2> HIDE DEF reads, promise
  <2>3. CASE s = r
    BY <1>2, <2>1, <2>2, <2>3
  <2>4. CASE s # r
    BY <1>1, <1>2, <2>1, <2>2, <2>4
  <2> QED
    BY <2>3, <2>4
<1>6. CASE UNCHANGED Promise!promised
  <2>1. reads' = reads /\ promise' = promise /\ Promise!Shown' = Promise!Shown
    BY <1>6 DEF Promise!promised, Promise!Shown
  <2> HIDE DEF reads, promise
  <2> QED
    BY <1>1, <2>1
<1> QED
  BY <1>3, <1>4, <1>5, <1>6 DEF Promise!Next

(* No two reads that joined a thread's start are told different processes,   *)
(* whenever they came and whatever happened since: the promise alone, which  *)
(* knows nothing of how a start goes, says so (component.js:212-220).        *)
THEOREM ReadsOfOneStartAgree == Spec => []Promise!Told
<1>1. Promise!Init => Promise!Told
  BY DEF Promise!Init, Promise!Told
<1> QED
  BY <1>1, ToldStays, TheStartIsOnePromise, PTL DEF ImplementsPromise, Promise!Spec

=============================================================================
