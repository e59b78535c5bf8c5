------------------------------ MODULE TreeProofs ------------------------------
(***************************************************************************)
(* Proofs about RuntimeTree, for any number of threads, releases, checks   *)
(* and environments, any order of the files, and any number of deploys,    *)
(* reboots and faults.                                                     *)
(*                                                                         *)
(* A start that is fresh, of the installed release, never writes or removes*)
(* anything but what the tree has to hold (Rendering), so each file is     *)
(* settled by the step of a thread that gets to it (Settled) and stays so  *)
(* while every thread is fresh.  With threads of a replaced release about, *)
(* what settles a file is that every thread has got to it since.           *)
(***************************************************************************)
EXTENDS RuntimeTree, TLAPS

Fields == {"phase", "objects", "release", "files", "checks", "left", "silent",
           "told", "fresh"}

Mine == MainFiles \union Owned(installed)

Collecteds == {"list", "prune", "unserved", "write", "served"}

(* The functions and records are what the actions take them for.           *)
Shape ==
    /\ DOMAIN start = Threads
    /\ \A t \in Threads : DOMAIN start[t] = Fields
    /\ tree = [file \in Files |-> tree[file]]

(* A start of the installed release renders what the tree has to hold, and *)
(* removes none of it.                                                     *)
Rendering(t) ==
    /\ start[t].phase \in {"idle", "collect", "list"} => start[t].silent
    /\ start[t].phase = "collect" => start[t].objects = (installed \in WithObjects)
    /\ start[t].phase = "list" => start[t].release = installed
    /\ start[t].phase \in Collecteds =>
          /\ DOMAIN start[t].files \subseteq Mine
          /\ \A file \in DOMAIN start[t].files : start[t].files[file] = Whole[file]
          /\ start[t].silent => /\ DOMAIN start[t].files = Mine
                                /\ start[t].checks = CollectCoreChecks(installed)
    /\ start[t].phase = "prune" => start[t].left \intersect Mine = {}
    /\ start[t].phase = "write" => start[t].left \subseteq DOMAIN start[t].files
    /\ start[t].phase = "served" => start[t].left = {}

Renderings == \A t \in Threads : start[t].fresh => Rendering(t)

(* Only a directory conf.d was given can hold a default.                   *)
Listing ==
    /\ dirs \subseteq Defaults
    /\ \A d \in Defaults : tree[d] # Missing => d \in dirs

Freshness ==
    /\ ~deployed => \A t \in Threads : start[t].fresh
    /\ \A t \in Threads : At(t, "idle") => start[t].fresh

(* A thread has got to a file: written it, or made sure it is not there.   *)
Wrote(t, file) ==
    /\ start[t].fresh /\ start[t].phase \in {"write", "served"}
    /\ file \in DOMAIN start[t].files /\ file \notin start[t].left

Cleared(t, file) ==
    /\ start[t].fresh /\ start[t].silent /\ file \notin Mine
    /\ \/ start[t].phase \in {"write", "served"}
       \/ start[t].phase = "prune" /\ file \notin start[t].left

Settled(t, file) == Wrote(t, file) \/ Cleared(t, file)

BootSettles ==
    ~deployed =>
        \A t \in Threads : \A file \in Files :
            Settled(t, file) => tree[file] = Whole[file]

RolloutSettles ==
    \A file \in Files :
        (\A t \in Threads : Settled(t, file)) => tree[file] = Whole[file]

(* An agent read what its fingerprint says, and one a start of this boot   *)
(* supervises has nothing else in its fingerprint than the tree has.       *)
AgentIsTold ==
    ~deployed =>
        /\ agent # None =>
              /\ agent.key = agent.fingerprint.key
              /\ \A file \in DOMAIN agent.fingerprint.files :
                     agent.read[file] = agent.fingerprint.files[file]
        /\ held =>
              /\ agent.key = env.key /\ agent.fingerprint.key = env.key
              /\ \A file \in DOMAIN agent.fingerprint.files :
                     /\ file \in Files
                     /\ agent.fingerprint.files[file] = Whole[file]
                     /\ tree[file] = Whole[file]

AgentIsServed ==
    ~deployed =>
        /\ (\E t \in Threads : At(t, "served")) => held
        /\ (\E t \in Threads : Served(t)) =>
              \A file \in Mine : agent.read[file] = Whole[file]

IInv ==
    /\ TypeOK /\ Shape /\ Renderings /\ Listing /\ Freshness
    /\ BootSettles /\ RolloutSettles /\ AgentIsTold /\ AgentIsServed

-----------------------------------------------------------------------------
(* What the tree has to hold.                                              *)

LEMMA MineFacts ==
    ASSUME installed \in Releases
    PROVE  /\ Mine \subseteq Files
           /\ Mine = MainFiles \union (CollectCoreChecks(installed) \union {LogCheck})
           /\ CollectCoreChecks(installed) \subseteq CheckDirs
           /\ Defaults \intersect Mine = Owned(installed)
<1>1. Shipped[installed] \subseteq CheckDirs
  BY DEF CheckDirs
<1>2. CollectCoreChecks(installed) \subseteq CheckDirs
  BY <1>1 DEF CollectCoreChecks
<1> QED
  BY <1>2, TreeAssumption DEF Mine, Owned, Files, Defaults

LEMMA WholeFacts ==
    ASSUME installed \in Releases
    PROVE  /\ Whole = [file \in Files |-> Whole[file]]
           /\ \A file \in Files \ Mine : Whole[file] = Missing
           /\ \A file \in MainFiles :
                  Whole[file] = RenderMain(file, installed \in WithObjects)
           /\ \A d \in CollectCoreChecks(installed) : Whole[d] = [body |-> installed]
           /\ DOMAIN ConfigFiles(installed \in WithObjects, installed,
                                 CollectCoreChecks(installed) \union {LogCheck}) = Mine
           /\ \A file \in Mine :
                  Whole[file] = ConfigFiles(installed \in WithObjects, installed,
                      CollectCoreChecks(installed) \union {LogCheck})[file]
<1> DEFINE rendered == ConfigFiles(installed \in WithObjects, installed,
                                   CollectCoreChecks(installed) \union {LogCheck})
<1>1. DOMAIN rendered = Mine
  BY MineFacts DEF ConfigFiles
<1>2. Whole = [file \in Files |->
                  IF file \in DOMAIN rendered THEN rendered[file] ELSE Missing]
  BY DEF Whole
<1>3. \A file \in Mine : Whole[file] = rendered[file]
  BY <1>1, <1>2, MineFacts
<1>4. \A file \in Files \ Mine : Whole[file] = Missing
  BY <1>1, <1>2
<1>5. \A file \in MainFiles : rendered[file] = RenderMain(file, installed \in WithObjects)
  BY DEF ConfigFiles
<1>6. \A d \in CollectCoreChecks(installed) : rendered[d] = [body |-> installed]
  BY MineFacts, TreeAssumption DEF ConfigFiles, Defaults
<1>7. MainFiles \subseteq Mine /\ CollectCoreChecks(installed) \subseteq Mine
  BY MineFacts
<1>8. Whole = [file \in Files |-> Whole[file]]
  BY <1>2
<1> QED
  BY <1>1, <1>3, <1>4, <1>5, <1>6, <1>7, <1>8

(* A start that could collect nothing still renders the main files right.  *)
LEMMA MainOnly ==
    ASSUME installed \in Releases
    PROVE  /\ DOMAIN ConfigFiles(installed \in WithObjects, None, {}) = MainFiles
           /\ MainFiles \subseteq Mine
           /\ \A file \in MainFiles :
                  ConfigFiles(installed \in WithObjects, None, {})[file] = Whole[file]
<1>1. \A file \in MainFiles :
          ConfigFiles(installed \in WithObjects, None, {})[file]
              = RenderMain(file, installed \in WithObjects)
  BY DEF ConfigFiles
<1> QED
  BY <1>1, WholeFacts DEF ConfigFiles, Mine

-----------------------------------------------------------------------------
(* The initial states.                                                     *)

LEMMA InitInv == Init => IInv
<1> SUFFICES ASSUME Init PROVE IInv
  OBVIOUS
<1>1. start = [t \in Threads |-> Idle]
  BY DEF Init
<1>2. \A t \in Threads : /\ start[t] = Idle
                         /\ DOMAIN start[t] = Fields
  BY <1>1 DEF Idle, Fields
<1>3. TypeOK
  <2>1. DOMAIN Idle.files = {}
    BY DEF Idle
  <2>2. /\ Idle.phase = "idle"
        /\ Idle.left = {} /\ Idle.checks = {}
    BY DEF Idle
  <2>3. /\ installed \in Releases /\ env \in Settings
        /\ deployed \in BOOLEAN /\ held \in BOOLEAN
        /\ DOMAIN tree = Files /\ dirs \subseteq Defaults
        /\ agent = None
    BY DEF Init
  <2> QED
    BY <1>2, <2>1, <2>2, <2>3 DEF TypeOK, Phases
<1>4. Shape
  BY <1>1, <1>2 DEF Init, Shape
<1>5. Renderings
  BY <1>2 DEF Renderings, Rendering, Idle, Collecteds
<1>6. Listing /\ Freshness
  BY <1>2 DEF Init, Listing, Freshness, Idle, Files
<1>7. \A t \in Threads : \A file \in Files : ~Settled(t, file)
  BY <1>2 DEF Settled, Wrote, Cleared, Idle
<1>8. BootSettles /\ RolloutSettles
  BY <1>7, TreeAssumption DEF BootSettles, RolloutSettles
<1>9. AgentIsTold /\ AgentIsServed
  BY <1>2 DEF Init, AgentIsTold, AgentIsServed, Served, At, Idle
<1> QED
  BY <1>3, <1>4, <1>5, <1>6, <1>8, <1>9 DEF IInv

-----------------------------------------------------------------------------
(* What a step of one start changes.                                       *)

LEMMA StartStep ==
    ASSUME Shape, NEW t \in Threads, Start(t)
    PROVE  /\ UNCHANGED node
           /\ DOMAIN start' = Threads
           /\ \A u \in Threads : u # t => start'[u] = start[u]
           /\ DOMAIN start'[t] = Fields
           /\ start'[t].fresh = start[t].fresh
<1> USE DEF Shape, Fields
<1>1. CASE ObjectsResolved(t)
  BY <1>1 DEF ObjectsResolved
<1>2. CASE Collected(t)
  BY <1>2 DEF Collected
<1>3. CASE CollectFails(t)
  BY <1>3 DEF CollectFails, Warned
<1>4. CASE Listed(t)
  BY <1>4 DEF Listed
<1>5. CASE PruneFails(t)
  BY <1>5 DEF PruneFails, Warned
<1>6. CASE \E d \in Defaults : Removed(t, d)
  BY <1>6 DEF Removed
<1>7. CASE Prepared(t)
  BY <1>7 DEF Prepared
<1>8. CASE NothingResolved(t)
  BY <1>8 DEF NothingResolved
<1>9. CASE \E file \in Files : Written(t, file)
  BY <1>9 DEF Written
<1>10. CASE Held(t)
  BY <1>10 DEF Held
<1> QED
  BY <1>1, <1>2, <1>3, <1>4, <1>5, <1>6, <1>7, <1>8, <1>9, <1>10 DEF Start

(* A deploy leaves each start as it is but for what is fresh.              *)
LEMMA DeployStep ==
    ASSUME Shape, NEW r \in Releases, Deploy(r), NEW u \in Threads
    PROVE  /\ start'[u].fresh = (start[u].phase = "idle")
           /\ \A field \in Fields \ {"fresh"} : start'[u][field] = start[u][field]
           /\ DOMAIN start'[u] = Fields
           /\ start'[u].phase = start[u].phase /\ start'[u].silent = start[u].silent
<1> DEFINE idle == start[u].phase = "idle"
<1>1. start'[u] = [start[u] EXCEPT !.fresh = idle]
  BY DEF Deploy, At
<1> HIDE DEF idle
<1>2. start'[u].fresh = idle
  BY <1>1 DEF Shape, Fields
<1>3. /\ \A field \in Fields \ {"fresh"} : start'[u][field] = start[u][field]
      /\ DOMAIN start'[u] = Fields
  BY <1>1 DEF Shape, Fields
<1> QED
  BY <1>2, <1>3 DEF idle, Fields

(* The steps that are not a start's.                                       *)
LEMMA OtherSteps ==
    ASSUME [Next]_vars
    PROVE  \/ \E t \in Threads : Start(t)
           \/ \E t \in Threads : ThreadRestarts(t)
           \/ AgentRestarts
           \/ \E r \in Releases : Deploy(r)
           \/ \E s \in Settings, reaped \in BOOLEAN : Reboot(s, reaped)
           \/ UNCHANGED vars
BY DEF Next

LEMMA ShapeStep ==
    ASSUME Shape, [Next]_vars
    PROVE  Shape'
<1>1. DOMAIN start' = Threads /\ \A t \in Threads : DOMAIN start'[t] = Fields
  <2>1. CASE \E t \in Threads : Start(t)
    BY <2>1, StartStep DEF Shape
  <2>2. CASE \E t \in Threads : ThreadRestarts(t)
    BY <2>2 DEF ThreadRestarts, Shape, Idle, Fields
  <2>3. CASE AgentRestarts \/ UNCHANGED vars
    BY <2>3 DEF AgentRestarts, vars, Shape
  <2>4. CASE \E r \in Releases : Deploy(r)
    BY <2>4 DEF Deploy, Shape
  <2>5. CASE \E s \in Settings, reaped \in BOOLEAN : Reboot(s, reaped)
    BY <2>5 DEF Reboot, Idle, Fields
  <2> QED
    BY <2>1, <2>2, <2>3, <2>4, <2>5, OtherSteps
<1>2. tree' = [file \in Files |-> tree'[file]]
  <2>1. CASE UNCHANGED tree
    BY <2>1 DEF Shape
  <2>2. CASE \E t \in Threads : \E d \in Defaults : Removed(t, d)
    BY <2>2 DEF Removed, Shape
  <2>3. CASE \E t \in Threads : \E file \in Files : Written(t, file)
    BY <2>3 DEF Written, Shape
  <2> QED
    BY <2>1, <2>2, <2>3 DEF Next, Start, vars, ObjectsResolved, Collected,
       CollectFails, Listed, PruneFails, Prepared, NothingResolved, Held,
       ThreadRestarts, AgentRestarts, Deploy, Reboot
<1> QED
  BY <1>1, <1>2 DEF Shape

(* What the tree has to hold is of the node, not of any start.             *)
LEMMA SameNode ==
    ASSUME UNCHANGED <<installed, env>>
    PROVE  Whole' = Whole /\ Mine' = Mine
BY DEF Whole, Mine, Owned, CollectCoreChecks, ConfigFiles, RenderMain

(* What configFiles can hold.                                              *)
LEMMA RenderedFiles ==
    ASSUME NEW objects, NEW r, NEW checks \in SUBSET Defaults
    PROVE  DOMAIN ConfigFiles(objects, r, checks) \subseteq Files
BY DEF ConfigFiles, Files

LEMMA TypeStep ==
    ASSUME TypeOK, Shape, [Next]_vars
    PROVE  TypeOK'
<1>1. installed' \in Releases /\ env' \in Settings
  BY DEF TypeOK, Next, Start, vars, node, ObjectsResolved, Collected, CollectFails,
     Listed, PruneFails, Removed, Prepared, NothingResolved, Written, Held,
     ThreadRestarts, AgentRestarts, Deploy, Reboot
<1>2. deployed' \in BOOLEAN /\ held' \in BOOLEAN
  <2>1. CASE \E s \in Settings, reaped \in BOOLEAN : Reboot(s, reaped)
    BY <2>1 DEF Reboot, TypeOK
  <2> QED
    BY <2>1 DEF TypeOK, Next, Start, vars, node, serving, ObjectsResolved, Collected,
       CollectFails, Listed, PruneFails, Removed, Prepared, NothingResolved, Written,
       Held, ThreadRestarts, AgentRestarts, Deploy
<1>3. DOMAIN tree' = Files /\ dirs' \subseteq Defaults
  <2>1. DOMAIN tree' = Files
    BY ShapeStep DEF Shape
  <2>2. CASE \E t \in Threads, file \in Files : Written(t, file)
    BY <2>1, <2>2 DEF Written, TypeOK
  <2>3. CASE UNCHANGED dirs
    BY <2>1, <2>3 DEF TypeOK
  <2> QED
    BY <2>2, <2>3 DEF Next, Start, vars, ObjectsResolved, Collected, CollectFails,
       Listed, PruneFails, Removed, Prepared, NothingResolved, Held,
       ThreadRestarts, AgentRestarts, Deploy, Reboot
<1>4. ASSUME NEW t \in Threads
      PROVE  /\ start'[t].phase \in Phases
             /\ start'[t].left \subseteq Files
             /\ start'[t].checks \subseteq CheckDirs
             /\ DOMAIN start'[t].files \subseteq Files
  <2> USE DEF Shape, Fields, TypeOK, Phases
  <2>0. CollectCoreChecks(installed) \subseteq CheckDirs
        /\ CollectCoreChecks(installed) \union {LogCheck} \subseteq Defaults
    BY MineFacts DEF Defaults
  <2>1. CASE ObjectsResolved(t)
    BY <2>1 DEF ObjectsResolved
  <2>2. CASE Collected(t)
    BY <2>0, <2>2, RenderedFiles DEF Collected
  <2>3. CASE CollectFails(t)
    BY <2>3, RenderedFiles DEF CollectFails, Warned
  <2>4. CASE Listed(t)
    BY <2>4 DEF Listed, Files
  <2>5. CASE PruneFails(t)
    BY <2>5 DEF PruneFails, Warned
  <2>6. CASE \E d \in Defaults : Removed(t, d)
    BY <2>6 DEF Removed
  <2>7. CASE Prepared(t)
    BY <2>7 DEF Prepared
  <2>8. CASE NothingResolved(t)
    BY <2>8 DEF NothingResolved
  <2>9. CASE \E file \in Files : Written(t, file)
    BY <2>9 DEF Written
  <2>10. CASE Held(t)
    BY <2>10 DEF Held
  <2>11. CASE start'[t] = Idle
    <3>1. DOMAIN Idle.files = {}
      BY DEF Idle
    <3> QED
      BY <2>11, <3>1 DEF Idle
  <2>12. CASE \E r \in Releases : Deploy(r)
    BY <2>12 DEF Deploy
  <2>13. CASE start'[t] = start[t]
    BY <2>13
  <2>14. \A u \in Threads : Start(u) => u = t \/ start'[t] = start[t]
    BY StartStep
  <2>15. \A u \in Threads : ThreadRestarts(u) => start'[t] \in {Idle, start[t]}
    BY DEF ThreadRestarts
  <2>16. AgentRestarts \/ UNCHANGED vars => start'[t] = start[t]
    BY DEF AgentRestarts, vars
  <2>17. (\E s \in Settings, reaped \in BOOLEAN : Reboot(s, reaped)) => start'[t] = Idle
    BY DEF Reboot
  <2> QED
    BY <2>1, <2>2, <2>3, <2>4, <2>5, <2>6, <2>7, <2>8, <2>9, <2>10, <2>11, <2>12,
       <2>13, <2>14, <2>15, <2>16, <2>17, OtherSteps DEF Start
<1>5. agent' # None => DOMAIN agent'.read = Files
  <2>1. CASE \E t \in Threads : Held(t)
    BY <2>1 DEF Held, Reading, TypeOK
  <2>2. CASE AgentRestarts
    BY <2>2 DEF AgentRestarts, Reading, TypeOK
  <2>3. CASE \E s \in Settings, reaped \in BOOLEAN : Reboot(s, reaped)
    BY <2>3 DEF Reboot, TypeOK
  <2>4. CASE UNCHANGED agent
    BY <2>4 DEF TypeOK
  <2> QED
    BY <2>1, <2>2, <2>3, <2>4 DEF Next, Start, vars, serving, ObjectsResolved, Collected,
       CollectFails, Listed, PruneFails, Removed, Prepared, NothingResolved, Written,
       ThreadRestarts, Deploy
<1> QED
  BY <1>1, <1>2, <1>3, <1>4, <1>5 DEF TypeOK

-----------------------------------------------------------------------------
(* A fresh start stays within what the tree has to hold.                   *)

LEMMA RenderingOfStart ==
    ASSUME TypeOK, Shape, NEW t \in Threads, Rendering(t), Start(t)
    PROVE  Rendering(t)'
<1>0. Whole' = Whole /\ Mine' = Mine /\ installed' = installed
  BY StartStep, SameNode DEF node
<1>1. t \in DOMAIN start /\ DOMAIN start[t] = Fields
  BY DEF Shape
<1>2. /\ Mine \subseteq Files /\ Owned(installed)= Defaults \intersect Mine
      /\ Owned(installed) \subseteq Mine
      /\ CollectCoreChecks(installed) \union {LogCheck} = Owned(installed)
  BY MineFacts DEF TypeOK, Owned
<1>3. dirs \subseteq Defaults
  BY DEF TypeOK
<1> USE DEF Rendering, Collecteds, Fields, At
<1>4. CASE ObjectsResolved(t)
  BY <1>0, <1>1, <1>4 DEF ObjectsResolved
<1>5. CASE Collected(t)
  <2>1. start[t].objects = (installed \in WithObjects)
    BY <1>5 DEF Collected
  <2>2. /\ DOMAIN start'[t].files = Mine
        /\ \A file \in Mine : start'[t].files[file] = Whole[file]
    <3>1. start'[t].files = ConfigFiles(installed \in WithObjects, installed,
                                CollectCoreChecks(installed) \union {LogCheck})
      BY <1>1, <1>5, <2>1 DEF Collected
    <3> QED
      BY <3>1, WholeFacts DEF TypeOK
  <2>3. /\ start'[t].phase = "list" /\ start'[t].release = installed
        /\ start'[t].checks = CollectCoreChecks(installed)
        /\ start'[t].silent = start[t].silent /\ start[t].silent
    BY <1>1, <1>5 DEF Collected
  <2> QED
    BY <1>0, <2>2, <2>3 DEF CollectCoreChecks
<1>6. CASE CollectFails(t)
  <2>1. start[t].objects = (installed \in WithObjects)
    BY <1>6 DEF CollectFails
  <2>2. /\ start'[t].files = ConfigFiles(installed \in WithObjects, None, {})
        /\ start'[t].phase = "prune" /\ start'[t].left = {} /\ ~start'[t].silent
    BY <1>1, <1>6, <2>1 DEF CollectFails, Warned
  <2> QED
    BY <1>0, <2>2, MainOnly DEF TypeOK
<1>7. CASE Listed(t)
  BY <1>0, <1>1, <1>2, <1>3, <1>7 DEF Listed, CollectCoreChecks
<1>8. CASE PruneFails(t)
  BY <1>0, <1>1, <1>8 DEF PruneFails, Warned, CollectCoreChecks
<1>9. CASE \E d \in Defaults : Removed(t, d)
  BY <1>0, <1>1, <1>9 DEF Removed, CollectCoreChecks
<1>10. CASE Prepared(t)
  BY <1>0, <1>1, <1>10 DEF Prepared, CollectCoreChecks
<1>11. CASE NothingResolved(t)
  BY <1>0, <1>1, <1>11 DEF NothingResolved, CollectCoreChecks
<1>12. CASE \E file \in Files : Written(t, file)
  BY <1>0, <1>1, <1>12 DEF Written, CollectCoreChecks
<1>13. CASE Held(t)
  BY <1>0, <1>1, <1>13 DEF Held, CollectCoreChecks
<1> QED
  BY <1>4, <1>5, <1>6, <1>7, <1>8, <1>9, <1>10, <1>11, <1>12, <1>13 DEF Start

LEMMA RenderingStep ==
    ASSUME TypeOK, Shape, Renderings, Freshness, [Next]_vars
    PROVE  Renderings'
<1>1. CASE \E t \in Threads : Start(t)
  <2> SUFFICES ASSUME NEW t \in Threads, Start(t),
                      NEW u \in Threads, start'[u].fresh
               PROVE  Rendering(u)'
    BY <1>1 DEF Renderings
  <2>1. CASE u = t
    BY <2>1, StartStep, RenderingOfStart DEF Renderings
  <2>2. CASE u # t
    <3>1. start'[u] = start[u] /\ UNCHANGED <<installed, env>>
      BY <2>2, StartStep DEF node
    <3>2. Rendering(u)
      BY <3>1 DEF Renderings
    <3> QED
      BY <3>1, <3>2, SameNode DEF Rendering, CollectCoreChecks
  <2> QED
    BY <2>1, <2>2
<1>2. CASE AgentRestarts \/ UNCHANGED vars
  <2>1. start' = start /\ UNCHANGED <<installed, env>>
    BY <1>2 DEF AgentRestarts, vars, node
  <2> QED
    BY <2>1, SameNode DEF Renderings, Rendering, CollectCoreChecks
<1>3. ASSUME NEW u \in Threads, start'[u] = Idle
      PROVE  Rendering(u)'
  BY <1>3 DEF Rendering, Idle, Collecteds
<1>4. CASE \E t \in Threads : ThreadRestarts(t)
  <2> SUFFICES ASSUME NEW t \in Threads, ThreadRestarts(t),
                      NEW u \in Threads, start'[u].fresh, start'[u] # Idle
               PROVE  Rendering(u)'
    BY <1>3, <1>4 DEF Renderings
  <2>1. start'[u] = start[u] /\ UNCHANGED <<installed, env>>
    BY DEF ThreadRestarts, node, Shape
  <2> QED
    BY <2>1, SameNode DEF Renderings, Rendering, CollectCoreChecks
<1>5. CASE \E r \in Releases : Deploy(r)
  <2> SUFFICES ASSUME NEW u \in Threads, start'[u].fresh
               PROVE  Rendering(u)'
    BY DEF Renderings
  <2>1. /\ start[u].phase = "idle" /\ start'[u].phase = "idle"
        /\ start'[u].silent = start[u].silent
    BY <1>5, DeployStep
  <2>2. start[u].silent
    BY <2>1 DEF Freshness, Renderings, Rendering, At
  <2> QED
    BY <2>1, <2>2 DEF Rendering, Collecteds
<1>6. CASE \E s \in Settings, reaped \in BOOLEAN : Reboot(s, reaped)
  BY <1>3, <1>6 DEF Reboot, Renderings
<1> QED
  BY <1>1, <1>2, <1>4, <1>5, <1>6, OtherSteps

LEMMA ListingStep ==
    ASSUME TypeOK, Shape, Listing, [Next]_vars
    PROVE  Listing'
<1>1. CASE UNCHANGED <<tree, dirs>>
  BY <1>1 DEF Listing
<1>2. CASE \E t \in Threads, d \in Defaults : Removed(t, d)
  BY <1>2 DEF Removed, Listing, Shape
<1>3. CASE \E t \in Threads, file \in Files : Written(t, file)
  BY <1>3 DEF Written, Listing, Shape
<1> QED
  BY <1>1, <1>2, <1>3 DEF Next, Start, vars, ObjectsResolved, Collected, CollectFails,
     Listed, PruneFails, Prepared, NothingResolved, Held, ThreadRestarts,
     AgentRestarts, Deploy, Reboot

LEMMA FreshnessStep ==
    ASSUME Shape, Freshness, [Next]_vars
    PROVE  Freshness'
<1>1. CASE \E t \in Threads : Start(t)
  <2> SUFFICES ASSUME NEW t \in Threads, Start(t) PROVE Freshness'
    BY <1>1
  <2>1. \A u \in Threads : start'[u].fresh = start[u].fresh
    BY StartStep
  <2>2. start'[t].phase # "idle"
    BY DEF Start, Shape, Fields, ObjectsResolved, Collected, CollectFails, Warned,
       Listed, PruneFails, Removed, Prepared, NothingResolved, Written, Held, At
  <2>3. deployed' = deployed
    BY StartStep DEF node
  <2> QED
    BY <2>1, <2>2, <2>3, StartStep DEF Freshness, At
<1>2. CASE \E t \in Threads : ThreadRestarts(t)
  BY <1>2 DEF ThreadRestarts, node, Freshness, Idle, At, Shape
<1>3. CASE AgentRestarts \/ UNCHANGED vars
  BY <1>3 DEF AgentRestarts, vars, node, Freshness, At
<1>4. CASE \E r \in Releases : Deploy(r)
  <2>1. deployed'
    BY <1>4 DEF Deploy
  <2>2. ASSUME NEW u \in Threads, start'[u].phase = "idle"
        PROVE  start'[u].fresh
    <3>1. start'[u].fresh = (start[u].phase = "idle") /\ start'[u].phase = start[u].phase
      BY <1>4, DeployStep
    <3> QED
      BY <2>2, <3>1
  <2> QED
    BY <2>1, <2>2 DEF Freshness, At
<1>5. CASE \E s \in Settings, reaped \in BOOLEAN : Reboot(s, reaped)
  BY <1>5 DEF Reboot, Freshness, Idle, At
<1> QED
  BY <1>1, <1>2, <1>3, <1>4, <1>5, OtherSteps

-----------------------------------------------------------------------------
(* What a start does to a file, and what settles it.                       *)

LEMMA TreeOfStart ==
    ASSUME TypeOK, Shape, NEW t \in Threads, start[t].fresh, Rendering(t), Start(t)
    PROVE  \A file \in Files : tree'[file] \in {tree[file], Whole[file]}
<1> USE DEF Rendering, Collecteds, At
<1>1. CASE UNCHANGED tree
  BY <1>1
<1>2. CASE \E d \in Defaults : Removed(t, d)
  <2> SUFFICES ASSUME NEW d \in Defaults, Removed(t, d)
               PROVE  \A file \in Files : tree'[file] \in {tree[file], Whole[file]}
    BY <1>2
  <2>1. d \in Files \ Mine
    BY DEF Removed, TypeOK
  <2>2. Whole[d] = Missing
    BY <2>1, WholeFacts DEF TypeOK
  <2> QED
    BY <2>2 DEF Removed, Shape
<1>3. CASE \E file \in Files : Written(t, file)
  BY <1>3 DEF Written, Shape
<1> QED
  BY <1>1, <1>2, <1>3 DEF Start, ObjectsResolved, Collected, CollectFails, Listed,
     PruneFails, Prepared, NothingResolved, Held

LEMMA SettledByStart ==
    ASSUME TypeOK, Shape, Listing, NEW t \in Threads, start[t].fresh, Rendering(t),
           Start(t), NEW f \in Files, Settled(t, f)'
    PROVE  \/ tree'[f] = Whole[f]
           \/ Settled(t, f) /\ tree'[f] = tree[f]
<1>0. Mine' = Mine
  BY StartStep, SameNode DEF node
<1>1. f \notin Mine => f \in Defaults /\ f \notin Owned(installed) /\ Whole[f] = Missing
  BY WholeFacts DEF TypeOK, Mine, Files
<1> USE DEF Settled, Wrote, Cleared, Rendering, Collecteds, Shape, Fields, At
<1>2. CASE ObjectsResolved(t) \/ Collected(t) \/ CollectFails(t) \/ PruneFails(t)
           \/ NothingResolved(t)
  <2>1. CASE ObjectsResolved(t) \/ Collected(t) \/ NothingResolved(t)
    <3>1. start'[t].phase \in {"collect", "list", "unserved"}
      BY <2>1 DEF ObjectsResolved, Collected, NothingResolved
    <3> QED
      BY <3>1
  <2>2. CASE CollectFails(t) \/ PruneFails(t)
    <3>1. /\ DOMAIN Warned(t) = Fields
          /\ Warned(t).phase = "prune" /\ Warned(t).silent = FALSE
      BY DEF Warned
    <3>2. start'[t].phase = "prune" /\ start'[t].silent = FALSE
      BY <2>2, <3>1 DEF CollectFails, PruneFails
    <3> QED
      BY <3>2
  <2> QED
    BY <1>2, <2>1, <2>2
<1>3. CASE Listed(t)
  BY <1>0, <1>1, <1>3 DEF Listed, Listing
<1>4. CASE \E d \in Defaults : Removed(t, d)
  BY <1>0, <1>1, <1>4 DEF Removed
<1>5. CASE Prepared(t)
  BY <1>0, <1>5 DEF Prepared
<1>6. CASE \E file \in Files : Written(t, file)
  BY <1>0, <1>6 DEF Written
<1>7. CASE Held(t)
  BY <1>0, <1>7 DEF Held
<1> QED
  BY <1>2, <1>3, <1>4, <1>5, <1>6, <1>7 DEF Start

(* What another step leaves of a thread's settling.                        *)
LEMMA SettledElsewhere ==
    ASSUME Shape, [Next]_vars, NEW u \in Threads, NEW f \in Files, Settled(u, f)',
           \A t \in Threads : Start(t) => t # u
    PROVE  Settled(u, f) /\ UNCHANGED <<installed, env>>
<1>1. CASE UNCHANGED <<installed, env, start>> \/ start'[u] = Idle
  BY <1>1, SameNode DEF Settled, Wrote, Cleared, Idle
<1>2. CASE \E t \in Threads : Start(t)
  <2>1. start'[u] = start[u] /\ UNCHANGED <<installed, env>>
    BY <1>2, StartStep DEF node
  <2> QED
    BY <2>1, SameNode DEF Settled, Wrote, Cleared
<1>3. CASE \E t \in Threads : ThreadRestarts(t)
  <2>1. start'[u] \in {start[u], Idle} /\ UNCHANGED <<installed, env>>
    BY <1>3 DEF ThreadRestarts, node, Shape
  <2> QED
    BY <1>1, <2>1, SameNode DEF Settled, Wrote, Cleared
<1>4. CASE \E r \in Releases : Deploy(r)
  <2>1. /\ start'[u].fresh = (start[u].phase = "idle")
        /\ start'[u].phase = start[u].phase
    BY <1>4, DeployStep
  <2> QED
    BY <2>1 DEF Settled, Wrote, Cleared
<1>5. CASE \E s \in Settings, reaped \in BOOLEAN : Reboot(s, reaped)
  BY <1>1, <1>5 DEF Reboot
<1> QED
  BY <1>1, <1>2, <1>3, <1>4, <1>5, OtherSteps DEF AgentRestarts, vars, node

(* A step that is no start's leaves the tree alone.                        *)
LEMMA TreeElsewhere ==
    ASSUME [Next]_vars, \A t \in Threads : ~Start(t)
    PROVE  tree' = tree
BY OtherSteps DEF ThreadRestarts, AgentRestarts, Deploy, Reboot, vars

LEMMA BootSettlesStep ==
    ASSUME IInv, [Next]_vars
    PROVE  BootSettles'
<1> SUFFICES ASSUME ~deployed', NEW u \in Threads, NEW f \in Files, Settled(u, f)'
             PROVE  tree'[f] = Whole'[f]
  BY DEF BootSettles
<1> USE DEF IInv
<1>1. CASE \E t \in Threads : Start(t)
  <2> SUFFICES ASSUME NEW t \in Threads, Start(t) PROVE tree'[f] = Whole'[f]
    BY <1>1
  <2>1. ~deployed /\ Whole' = Whole
    BY StartStep, SameNode DEF node
  <2>2. start[t].fresh /\ Rendering(t)
    BY <2>1 DEF Freshness, Renderings
  <2>3. CASE u = t
    BY <2>1, <2>2, <2>3, SettledByStart DEF BootSettles
  <2>4. CASE u # t
    <3>1. start'[u] = start[u] /\ Mine' = Mine
      BY <2>4, StartStep, SameNode DEF node
    <3>2. Settled(u, f)
      BY <3>1 DEF Settled, Wrote, Cleared
    <3>3. tree[f] = Whole[f]
      BY <2>1, <3>2 DEF BootSettles
    <3> QED
      BY <2>1, <2>2, <3>3, TreeOfStart
  <2> QED
    BY <2>3, <2>4
<1>2. CASE \A t \in Threads : ~Start(t)
  <2>1. Settled(u, f) /\ Whole' = Whole
    BY <1>2, SettledElsewhere, SameNode
  <2>2. ~deployed
    <3>1. CASE \E s \in Settings, reaped \in BOOLEAN : Reboot(s, reaped)
      BY <3>1 DEF Reboot, Settled, Wrote, Cleared, Idle
    <3> QED
      BY <1>2, <3>1, OtherSteps DEF ThreadRestarts, AgentRestarts, Deploy, node, vars
  <2> QED
    BY <1>2, <2>1, <2>2, TreeElsewhere DEF BootSettles
<1> QED
  BY <1>1, <1>2

LEMMA RolloutSettlesStep ==
    ASSUME IInv, [Next]_vars
    PROVE  RolloutSettles'
<1> SUFFICES ASSUME NEW f \in Files, \A u \in Threads : Settled(u, f)'
             PROVE  tree'[f] = Whole'[f]
  BY DEF RolloutSettles
<1> USE DEF IInv
<1>1. CASE \E t \in Threads : Start(t)
  <2> SUFFICES ASSUME NEW t \in Threads, Start(t) PROVE tree'[f] = Whole'[f]
    BY <1>1
  <2>1. Whole' = Whole /\ Mine' = Mine
    BY StartStep, SameNode DEF node
  <2>2. start[t].fresh /\ Rendering(t)
    <3>1. start'[t].fresh
      BY DEF Settled, Wrote, Cleared
    <3> QED
      BY <3>1, StartStep DEF Renderings
  <2>3. tree'[f] = Whole[f] \/ (Settled(t, f) /\ tree'[f] = tree[f])
    BY <2>2, SettledByStart
  <2>4. \A u \in Threads : u # t => Settled(u, f)
    <3> SUFFICES ASSUME NEW u \in Threads, u # t PROVE Settled(u, f)
      OBVIOUS
    <3>1. start'[u] = start[u]
      BY StartStep
    <3> QED
      BY <2>1, <3>1 DEF Settled, Wrote, Cleared
  <2> QED
    BY <2>1, <2>3, <2>4 DEF RolloutSettles
<1>2. CASE \A t \in Threads : ~Start(t)
  <2>1. \A u \in Threads : Settled(u, f) /\ UNCHANGED <<installed, env>>
    BY <1>2, SettledElsewhere
  <2>2. Whole' = Whole
    BY <2>1, SameNode, TreeAssumption
  <2> QED
    BY <1>2, <2>1, <2>2, TreeElsewhere DEF RolloutSettles
<1> QED
  BY <1>1, <1>2

-----------------------------------------------------------------------------
(* The agent.                                                              *)

(* A start that takes the agent has written all it rendered.               *)
LEMMA WrittenWhenHeld ==
    ASSUME IInv, ~deployed, NEW t \in Threads, Held(t)
    PROVE  /\ DOMAIN start[t].files \subseteq Mine /\ Mine \subseteq Files
           /\ \A file \in DOMAIN start[t].files :
                  /\ start[t].files[file] = Whole[file]
                  /\ tree[file] = Whole[file]
<1> USE DEF IInv
<1>1. start[t].fresh /\ Rendering(t) /\ start[t].phase = "write" /\ start[t].left = {}
  BY DEF Held, At, Freshness, Renderings
<1>2. Mine \subseteq Files
  BY MineFacts DEF TypeOK
<1>3. /\ DOMAIN start[t].files \subseteq Mine
      /\ \A file \in DOMAIN start[t].files : start[t].files[file] = Whole[file]
  BY <1>1 DEF Rendering, Collecteds
<1>4. \A file \in DOMAIN start[t].files : Settled(t, file)
  BY <1>1 DEF Settled, Wrote
<1> QED
  BY <1>2, <1>3, <1>4 DEF BootSettles

(* A silent start that is served has settled every file.                   *)
LEMMA ServedSettles ==
    ASSUME TypeOK, NEW t \in Threads, Served(t), start[t].fresh, Rendering(t)
    PROVE  /\ \A file \in Files : Settled(t, file)
           /\ DOMAIN start[t].files = Mine /\ Mine \subseteq Files
           /\ start[t].checks = CollectCoreChecks(installed)
<1>1. /\ DOMAIN start[t].files = Mine /\ start[t].left = {} /\ start[t].phase = "served"
      /\ start[t].checks = CollectCoreChecks(installed) /\ start[t].silent
  BY DEF Served, At, Rendering, Collecteds
<1> QED
  BY <1>1, MineFacts DEF Settled, Wrote, Cleared, TypeOK

LEMMA ServedIsWhole ==
    ASSUME IInv, ~deployed, NEW t \in Threads, Served(t)
    PROVE  \A file \in Files : tree[file] = Whole[file]
<1>1. start[t].fresh /\ Rendering(t)
  BY DEF IInv, Freshness, Renderings
<1> QED
  BY <1>1, ServedSettles DEF IInv, BootSettles

(* The agent a start takes: the one it adopts, or the one it spawned.      *)
LEMMA AgentWhenHeld ==
    ASSUME IInv, ~deployed, NEW t \in Threads, Held(t)
    PROVE  /\ agent'.fingerprint = Fingerprint(t) /\ agent'.key = env.key
           /\ \A file \in DOMAIN start[t].files :
                  agent'.read[file] = start[t].files[file]
           /\ agent' = agent \/ agent'.read = tree
<1>1. /\ Reading(Fingerprint(t)).fingerprint = Fingerprint(t)
      /\ Reading(Fingerprint(t)).key = env.key
      /\ Reading(Fingerprint(t)).read = tree
  BY DEF Reading
<1>2. Fingerprint(t).files = start[t].files /\ Fingerprint(t).key = env.key
  BY DEF Fingerprint
<1>3. CASE agent # None /\ agent.fingerprint = Fingerprint(t)
  <2>1. agent' = agent
    BY <1>3 DEF Held
  <2> QED
    BY <1>2, <1>3, <2>1 DEF IInv, AgentIsTold
<1>4. CASE ~(agent # None /\ agent.fingerprint = Fingerprint(t))
  <2>1. agent' = Reading(Fingerprint(t))
    BY <1>4 DEF Held
  <2> QED
    BY <1>1, <1>2, <2>1, WrittenWhenHeld
<1> QED
  BY <1>3, <1>4

LEMMA AgentIsToldStep ==
    ASSUME IInv, [Next]_vars
    PROVE  AgentIsTold'
<1> SUFFICES ASSUME ~deployed' PROVE AgentIsTold'
  BY DEF AgentIsTold
<1> USE DEF IInv
<1>1. CASE \E t \in Threads : Start(t)
  <2> SUFFICES ASSUME NEW t \in Threads, Start(t) PROVE AgentIsTold'
    BY <1>1
  <2>1. ~deployed /\ Whole' = Whole /\ env' = env
    BY StartStep, SameNode DEF node
  <2>2. CASE Held(t)
    <3>1. tree' = tree /\ held'
      BY <2>2 DEF Held
    <3>2. Fingerprint(t).files = start[t].files /\ Fingerprint(t).key = env.key
      BY DEF Fingerprint
    <3> QED
      BY <2>1, <2>2, <3>1, <3>2, WrittenWhenHeld, AgentWhenHeld DEF AgentIsTold
  <2>3. CASE ~Held(t)
    <3>1. agent' = agent /\ held' = held
      BY <2>3 DEF Start, ObjectsResolved, Collected, CollectFails, Listed, PruneFails,
         Removed, Prepared, NothingResolved, Written, serving
    <3>2. \A file \in Files : tree'[file] \in {tree[file], Whole[file]}
      BY <2>1, TreeOfStart DEF Freshness, Renderings
    <3> QED
      BY <2>1, <3>1, <3>2 DEF AgentIsTold
  <2> QED
    BY <2>2, <2>3
<1>2. CASE AgentRestarts
  <2>1. /\ agent'.fingerprint = agent.fingerprint /\ agent'.read = tree
        /\ agent'.key = env.key /\ held' = held /\ held
    BY <1>2 DEF AgentRestarts, Reading
  <2>2. ~deployed /\ Whole' = Whole /\ env' = env /\ tree' = tree
    BY <1>2, SameNode DEF AgentRestarts, node
  <2> QED
    BY <2>1, <2>2 DEF AgentIsTold
<1>3. CASE \E s \in Settings, reaped \in BOOLEAN : Reboot(s, reaped)
  <2>1. ~held' /\ agent' \in {None, agent}
    BY <1>3 DEF Reboot
  <2>2. agent' # None => ~deployed
    BY <1>3 DEF Reboot
  <2> QED
    BY <2>1, <2>2 DEF AgentIsTold
<1>4. CASE \A t \in Threads : ~Start(t) /\ UNCHANGED <<node, tree, serving>>
  <2>1. Whole' = Whole /\ ~deployed
    BY <1>4, SameNode, TreeAssumption DEF node
  <2> QED
    BY <1>4, <2>1, TreeAssumption DEF AgentIsTold, node, serving
<1>5. (\E t \in Threads : ThreadRestarts(t)) \/ UNCHANGED vars
          => UNCHANGED <<node, tree, serving>>
  BY DEF ThreadRestarts, vars, node, serving
<1> QED
  BY <1>1, <1>2, <1>3, <1>4, <1>5, OtherSteps DEF Deploy

(* Only taking the agent makes a start a served one.                       *)
LEMMA ServedElsewhere ==
    ASSUME Shape, [Next]_vars, \A t \in Threads : ~Held(t),
           NEW u \in Threads, At(u, "served")'
    PROVE  /\ At(u, "served") /\ start'[u].silent = start[u].silent
           /\ \A s \in Settings, reaped \in BOOLEAN : ~Reboot(s, reaped)
<1>1. start'[u] # Idle
  BY DEF At, Idle
<1>2. \A s \in Settings, reaped \in BOOLEAN : ~Reboot(s, reaped)
  BY <1>1 DEF Reboot
<1>3. CASE Start(u)
  <2>1. start'[u].phase # "served"
    BY <1>3 DEF Start, Shape, Fields, ObjectsResolved, Collected, CollectFails, Warned,
       Listed, PruneFails, Removed, Prepared, NothingResolved, Written, At
  <2> QED
    BY <2>1 DEF At
<1>4. CASE \E r \in Releases : Deploy(r)
  BY <1>2, <1>4, DeployStep DEF At
<1>5. CASE start'[u] = start[u]
  BY <1>2, <1>5 DEF At
<1>6. \A t \in Threads : Start(t) => t = u \/ start'[u] = start[u]
  BY StartStep
<1>7. \A t \in Threads : ThreadRestarts(t) => start'[u] = start[u]
  BY <1>1 DEF ThreadRestarts
<1> QED
  BY <1>2, <1>3, <1>4, <1>5, <1>6, <1>7, OtherSteps DEF AgentRestarts, vars

LEMMA AgentIsServedStep ==
    ASSUME IInv, AgentIsTold', [Next]_vars
    PROVE  AgentIsServed'
<1> SUFFICES ASSUME ~deployed' PROVE AgentIsServed'
  BY DEF AgentIsServed
<1> USE DEF IInv
<1>1. CASE \E t \in Threads : Held(t)
  <2> SUFFICES ASSUME NEW t \in Threads, Held(t) PROVE AgentIsServed'
    BY <1>1
  <2>1. ~deployed /\ Whole' = Whole /\ Mine' = Mine /\ held' /\ tree' = tree
    BY SameNode DEF Held, node
  <2>2. ASSUME NEW u \in Threads, Served(u)', NEW file \in Mine
        PROVE  agent'.read[file] = Whole[file]
    <3>1. CASE u = t
      <4>1. start[t].silent /\ start[t].phase = "write"
        BY <2>2, <3>1 DEF Served, Held, At, Shape, Fields
      <4>2. DOMAIN start[t].files = Mine
        BY <2>1, <4>1 DEF Freshness, Renderings, Rendering, Collecteds
      <4> QED
        BY <2>1, <4>2, WrittenWhenHeld, AgentWhenHeld
    <3>2. CASE u # t
      <4>1. Served(u)
        BY <2>2, <3>2 DEF Served, Held, At, Shape
      <4>2. agent.read[file] = Whole[file]
        BY <2>1, <4>1 DEF AgentIsServed
      <4>3. tree[file] = Whole[file]
        BY <2>1, <4>1, ServedIsWhole, MineFacts DEF TypeOK
      <4> QED
        BY <2>1, <4>2, <4>3, AgentWhenHeld
    <3> QED
      BY <3>1, <3>2
  <2> QED
    BY <2>1, <2>2 DEF AgentIsServed
<1>2. CASE \A t \in Threads : ~Held(t)
  <2> SUFFICES ASSUME NEW v \in Threads, At(v, "served")'
               PROVE  AgentIsServed'
    BY DEF AgentIsServed, Served
  <2>1. /\ UNCHANGED <<installed, env, deployed, held>>
        /\ agent' = agent \/ AgentRestarts
    <3>1. \A s \in Settings, reaped \in BOOLEAN : ~Reboot(s, reaped)
      BY <1>2, ServedElsewhere
    <3> QED
      BY <1>2, <3>1 DEF Next, Start, vars, node, serving, ObjectsResolved, Collected,
         CollectFails, Listed, PruneFails, Removed, Prepared, NothingResolved, Written,
         ThreadRestarts, AgentRestarts, Deploy
  <2>2. ~deployed /\ Whole' = Whole /\ Mine' = Mine /\ Mine \subseteq Files
    BY <2>1, SameNode, MineFacts DEF TypeOK
  <2>3. held
    BY <1>2, <2>2, ServedElsewhere DEF AgentIsServed
  <2>4. ASSUME NEW u \in Threads, Served(u)', NEW file \in Mine
        PROVE  agent'.read[file] = Whole[file]
    <3>1. Served(u)
      BY <1>2, <2>4, ServedElsewhere DEF Served
    <3>2. agent.read[file] = Whole[file]
      BY <2>2, <3>1 DEF AgentIsServed
    <3>3. tree[file] = Whole[file]
      BY <2>2, <3>1, ServedIsWhole
    <3>4. AgentRestarts => agent'.read = tree
      BY DEF AgentRestarts, Reading
    <3> QED
      BY <2>1, <3>2, <3>3, <3>4
  <2> QED
    BY <2>1, <2>2, <2>3, <2>4 DEF AgentIsServed
<1> QED
  BY <1>1, <1>2

-----------------------------------------------------------------------------
(* The invariant and what follows from it.                                 *)

LEMMA InvStep == IInv /\ [Next]_vars => IInv'
<1> SUFFICES ASSUME IInv, [Next]_vars PROVE IInv'
  OBVIOUS
<1>1. TypeOK' /\ Shape' /\ Renderings' /\ Listing' /\ Freshness'
  BY TypeStep, ShapeStep, RenderingStep, ListingStep, FreshnessStep DEF IInv
<1>2. BootSettles' /\ RolloutSettles' /\ AgentIsTold' /\ AgentIsServed'
  BY BootSettlesStep, RolloutSettlesStep, AgentIsToldStep, AgentIsServedStep
<1> QED
  BY <1>1, <1>2 DEF IInv

LEMMA Invariance == Spec => []IInv
BY InitInv, InvStep, PTL DEF Spec

(* Every variable has the shape the code gives it.                         *)
THEOREM TreeTypeCorrect == Spec => []TypeOK
<1>1. IInv => TypeOK
  BY DEF IInv
<1> QED
  BY <1>1, Invariance, PTL

(* However many threads a node runs and in whatever order their removals   *)
(* and writes fall, one start that ended without a warning leaves the tree *)
(* whole until the node is rebooted or another release is installed        *)
(* (datadog.js:456-485).                                                   *)
THEOREM OneSilentStartIsEnough == Spec => []SilentStartIsWhole
<1>1. IInv => SilentStartIsWhole
  <2> SUFFICES ASSUME IInv, ~deployed, NEW t \in Threads, Served(t)
               PROVE  tree = Whole
    BY DEF SilentStartIsWhole
  <2>1. \A file \in Files : tree[file] = Whole[file]
    BY ServedIsWhole
  <2>2. tree = [file \in Files |-> tree[file]] /\ Whole = [file \in Files |-> Whole[file]]
    BY WholeFacts DEF IInv, Shape, TypeOK
  <2> QED
    BY <2>1, <2>2
<1> QED
  BY <1>1, Invariance, PTL

(* A node that was deployed to any number of times is whole once every     *)
(* thread has started on the release it ended with (datadog.js:479).       *)
THEOREM RolloutEndsWhole == Spec => []RolloutIsWhole
<1>1. IInv => RolloutIsWhole
  <2> SUFFICES ASSUME IInv, \A t \in Threads : Served(t) /\ start[t].fresh
               PROVE  tree = Whole
    BY DEF RolloutIsWhole
  <2>1. \A t \in Threads : \A file \in Files : Settled(t, file)
    BY ServedSettles DEF IInv, Renderings
  <2>2. \A file \in Files : tree[file] = Whole[file]
    BY <2>1 DEF IInv, RolloutSettles
  <2>3. tree = [file \in Files |-> tree[file]] /\ Whole = [file \in Files |-> Whole[file]]
    BY WholeFacts DEF IInv, Shape, TypeOK
  <2> QED
    BY <2>2, <2>3
<1> QED
  BY <1>1, Invariance, PTL

(* Whichever thread spawned the agent, and whatever it could collect, the  *)
(* agent has read what a silent start of this boot rendered, and runs under*)
(* this boot's credentials (component.js:331-337).                         *)
THEOREM TheAgentIsConfigured == Spec => []AgentRunsTheConfiguration
<1>1. IInv => AgentRunsTheConfiguration
  <2> SUFFICES ASSUME IInv, ~deployed, NEW t \in Threads, Served(t)
               PROVE  /\ held /\ agent.key = env.key
                      /\ \A file \in Files :
                             Whole[file] # Missing => agent.read[file] = Whole[file]
    BY DEF AgentRunsTheConfiguration
  <2>1. held /\ \A file \in Mine : agent.read[file] = Whole[file]
    BY DEF IInv, AgentIsServed, Served
  <2>2. agent.key = env.key
    BY <2>1 DEF IInv, AgentIsTold
  <2>3. \A file \in Files : Whole[file] # Missing => file \in Mine
    BY WholeFacts DEF IInv, TypeOK
  <2> QED
    BY <2>1, <2>2, <2>3
<1> QED
  BY <1>1, Invariance, PTL

(* The checks a silent start reports stay those of conf.d                  *)
(* (datadog.js:498-500).                                                   *)
THEOREM StatusStaysTrue == Spec => []StatusIsTheTree
<1>1. IInv => StatusIsTheTree
  <2> SUFFICES ASSUME IInv, ~deployed, NEW t \in Threads, Served(t)
               PROVE  start[t].checks = {d \in CheckDirs : tree[d] # Missing}
    BY DEF StatusIsTheTree
  <2>1. start[t].checks = CollectCoreChecks(installed)
    BY ServedSettles DEF IInv, Freshness, Renderings
  <2>2. CheckDirs \subseteq Files
    BY DEF Files, Defaults
  <2>3. \A d \in CheckDirs : tree[d] = Whole[d]
    BY <2>2, ServedIsWhole
  <2>4. \A d \in CheckDirs : Whole[d] # Missing <=> d \in CollectCoreChecks(installed)
    <3>1. CheckDirs \intersect Mine = CollectCoreChecks(installed)
      BY MineFacts, TreeAssumption DEF Mine, Owned, Defaults, IInv, TypeOK
    <3> QED
      BY <2>2, <3>1, WholeFacts, TreeAssumption DEF IInv, TypeOK
  <2>5. CollectCoreChecks(installed) \subseteq CheckDirs
    BY MineFacts DEF IInv, TypeOK
  <2> QED
    BY <2>1, <2>3, <2>4, <2>5
<1> QED
  BY <1>1, Invariance, PTL
=============================================================================
