----------------------------- MODULE RuntimeTree -----------------------------
(***************************************************************************)
(* The runtime tree every worker thread of a node renders                  *)
(* (runtime/datadog.js prepareRuntime, runtime/render.js) and the agent    *)
(* that reads it.  The tree outlives boots and releases; each thread, on   *)
(* each start, removes the check defaults nobody owns any more, writes     *)
(* every file it rendered and takes the node's one agent under a           *)
(* fingerprint of what it wrote.  Threads do this at once, and a deploy    *)
(* replaces the component directory they read from under them.             *)
(*                                                                         *)
(* External: the guard, which writes the files through beforeStart, then   *)
(* adopts a running agent of the same fingerprint or replaces it; Harper,  *)
(* which restarts the threads a deploy made stale.  A file's content is    *)
(* what it was rendered from; a conf.d default is named by its directory.  *)
(***************************************************************************)
EXTENDS Naturals, Sequences, FiniteSets

CONSTANTS
    Threads,
    Releases,      \* versions of this component a node may carry
    Shipped,       \* the conf.d directories of each release
    Gated,         \* those whose platforms file leaves this platform out
    WithObjects,   \* the releases installed beside a probe package
    Settings,      \* environments: ports, probe, security, key
    LogCheck,      \* HARPER_LOG_CHECK
    Order,         \* the order configFiles comes in: Main, checks, LogCheck
    Missing, None,
    Deploys, Boots, Faults    \* bounds on what disturbs the node

Main == <<"datadog.yaml", "system-probe.yaml", "security-agent.yaml">>
CheckDirs == UNION {Shipped[r] : r \in Releases}
Defaults == CheckDirs \union {LogCheck}
MainFiles == {Main[i] : i \in DOMAIN Main}
Files == MainFiles \union Defaults

ASSUME TreeAssumption ==
    /\ DOMAIN Shipped = Releases /\ DOMAIN Gated = Releases
    /\ WithObjects \subseteq Releases
    /\ Threads # {}
    /\ LogCheck \notin CheckDirs /\ Defaults \intersect MainFiles = {}
    /\ \A r \in Releases : Missing # [body |-> r]
    /\ Order \in Seq(Files) /\ Files = {Order[i] : i \in DOMAIN Order}
    /\ {Deploys, Boots, Faults} \subseteq Nat
    /\ \A s \in Settings : /\ DOMAIN s = {"ports", "probe", "security", "key"}
                           /\ {s.probe, s.security} \subseteq BOOLEAN

VARIABLES
    installed,   \* the release in the component directory
    env,         \* the environment of this boot
    tree,        \* what each file holds
    dirs,        \* the directories conf.d has ever been given
    start,       \* the start of each thread
    agent,       \* the agent that holds the node's lock, or None
    held,        \* a start of this boot supervises it
    deployed,    \* a release was installed under the threads or agent of this boot
    budget       \* the disturbances left

vars == <<installed, env, tree, dirs, start, agent, held, deployed, budget>>

-----------------------------------------------------------------------------
(* What is rendered *)

\* A plausible bug: the log check counted among the collected ones.
CollectedWithTheLog(r) == (Shipped[r] \ Gated[r]) \union {LogCheck}

\* The checks of the component directory that apply on this platform
CollectCoreChecks(r) == Shipped[r] \ Gated[r]

\* renderDatadogYaml, renderSystemProbeYaml and renderSecurityAgentYaml
RenderMain(file, objects) ==
    CASE file = "datadog.yaml" -> [ports |-> env.ports]
      [] file = "system-probe.yaml" ->
            [enabled |-> env.probe, security |-> env.security, bpfDir |-> objects]
      [] file = "security-agent.yaml" -> [security |-> env.security]

\* configFiles, once the checks of release r were collected
ConfigFiles(objects, r, checks) ==
    [file \in MainFiles \union checks |->
        IF file \in MainFiles THEN RenderMain(file, objects)
        ELSE IF file = LogCheck THEN [logs |-> LogCheck]
        ELSE [body |-> r]]

\* A plausible bug: the log check rendered but never claimed.
OwnedByTheRelease(r) == CollectCoreChecks(r)

\* A plausible bug: every shipped directory claimed, gated off or not.
OwnedUngated(r) == Shipped[r] \union {LogCheck}

\* What prepareRuntime claims of conf.d
Owned(r) == CollectCoreChecks(r) \union {LogCheck}

\* A start that has not begun
Idle == [phase |-> "idle", objects |-> FALSE, release |-> None, files |-> <<>>,
         checks |-> {}, left |-> {}, silent |-> TRUE,
         told |-> FALSE, fresh |-> TRUE]

\* What the tree has to hold on a node of this release and environment
Whole ==
    LET rendered == ConfigFiles(installed \in WithObjects, installed,
                                CollectCoreChecks(installed) \union {LogCheck})
    IN  [file \in Files |-> IF file \in DOMAIN rendered THEN rendered[file] ELSE Missing]

Init ==
    /\ installed \in Releases /\ env \in Settings
    /\ tree = [file \in Files |-> Missing] /\ dirs = {}
    /\ start = [t \in Threads |-> Idle]
    /\ agent = None /\ held = FALSE /\ deployed = FALSE
    /\ budget = [deploys |-> Deploys, boots |-> Boots, faults |-> Faults]

At(t, phase) == start[t].phase = phase
Fault == budget.faults > 0 /\ budget' = [budget EXCEPT !.faults = @ - 1]
node == <<installed, env, deployed>>
serving == <<agent, held>>

-----------------------------------------------------------------------------
(* prepareRuntime *)

\* resolveEbpfDir is awaited before anything is rendered.
ObjectsResolved(t) ==
    /\ At(t, "idle")
    /\ start' = [start EXCEPT ![t].phase = "collect",
                              ![t].objects = installed \in WithObjects]
    /\ UNCHANGED <<node, tree, dirs, serving, budget>>

Collected(t) ==
    /\ At(t, "collect")
    /\ start' = [start EXCEPT
         ![t].phase = "list", ![t].release = installed,
         ![t].checks = CollectCoreChecks(installed),
         ![t].files = ConfigFiles(start[t].objects, installed,
                                  CollectCoreChecks(installed) \union {LogCheck})]
    /\ UNCHANGED <<node, tree, dirs, serving, budget>>

\* What the catch leaves: the warning, and the files rendered so far.
Warned(t) == [start[t] EXCEPT !.phase = "prune", !.silent = FALSE,
                              !.told = TRUE, !.left = {}]

\* conf.d could not be read: no log check is rendered and nothing is removed.
CollectFails(t) ==
    /\ At(t, "collect")
    /\ Fault
    /\ start' = [start EXCEPT ![t] =
         [Warned(t) EXCEPT !.files = ConfigFiles(start[t].objects, None, {})]]
    /\ UNCHANGED <<node, tree, dirs, serving>>

\* removeStaleDefaults lists conf.d once and removes what it listed.
Listed(t) ==
    /\ At(t, "list")
    /\ start' = [start EXCEPT ![t].phase = "prune",
                              ![t].left = dirs \ Owned(start[t].release)]
    /\ UNCHANGED <<node, tree, dirs, serving, budget>>

\* force: a default that is not there is no error.
Removed(t, d) ==
    /\ At(t, "prune") /\ d \in start[t].left
    /\ tree' = [tree EXCEPT ![d] = Missing]
    /\ start' = [start EXCEPT ![t].left = @ \ {d}]
    /\ UNCHANGED <<node, dirs, serving, budget>>

\* The listing or one removal throws, in the try that collected the checks.
PruneFails(t) ==
    /\ At(t, "list") \/ (At(t, "prune") /\ start[t].left # {})
    /\ Fault
    /\ start' = [start EXCEPT ![t] = Warned(t)]
    /\ UNCHANGED <<node, tree, dirs, serving>>

-----------------------------------------------------------------------------
(* The supervisor *)

\* The tree is prepared and its status taken; once the binaries are resolved
\* the guard is asked to start them.
Prepared(t) ==
    /\ At(t, "prune") /\ start[t].left = {}
    /\ start' = [start EXCEPT ![t].phase = "write",
                              ![t].left = DOMAIN start[t].files]
    /\ UNCHANGED <<node, tree, dirs, serving, budget>>

\* Nothing resolved: no supervisor is asked and no file is written.
NothingResolved(t) ==
    /\ At(t, "prune") /\ start[t].left = {}
    /\ Fault
    /\ start' = [start EXCEPT ![t].phase = "unserved"]
    /\ UNCHANGED <<node, tree, dirs, serving>>

\* The first in Order of the files still to write
IsNext(file, left) ==
    \E i \in DOMAIN Order :
      /\ Order[i] = file
      /\ \A j \in 1 .. (i - 1) : Order[j] \notin left

\* beforeStart writes the files one by one, before anything is spawned.  A write
\* is taken not to fail.
Written(t, file) ==
    /\ At(t, "write") /\ file \in start[t].left
    /\ IsNext(file, start[t].left)
    /\ tree' = [tree EXCEPT ![file] = start[t].files[file]]
    /\ dirs' = dirs \union ({file} \intersect Defaults)
    /\ start' = [start EXCEPT ![t].left = @ \ {file}]
    /\ UNCHANGED <<node, serving, budget>>

\* A plausible bug: a rotated key is not folded in.
FingerprintOfFiles(t) == [files |-> start[t].files, key |-> None]

\* The rendered contents and the credentials, which ride in the environment.
Fingerprint(t) == [files |-> start[t].files, key |-> env.key]

\* An agent that comes up reads the whole tree.
Reading(fingerprint) == [fingerprint |-> fingerprint, read |-> tree, key |-> env.key]

\* The guard's lock: one agent a node, adopted when it is what this start
\* would have spawned and replaced when it is not.
Held(t) ==
    /\ At(t, "write") /\ start[t].left = {}
    /\ agent' = IF agent # None /\ agent.fingerprint = Fingerprint(t)
                THEN agent ELSE Reading(Fingerprint(t))
    /\ held' = TRUE
    /\ start' = [start EXCEPT ![t].phase = "served"]
    /\ UNCHANGED <<node, tree, dirs, budget>>

Start(t) ==
    \/ ObjectsResolved(t) \/ Collected(t) \/ CollectFails(t)
    \/ Listed(t) \/ PruneFails(t)
    \/ \E d \in Defaults : Removed(t, d)
    \/ Prepared(t) \/ NothingResolved(t)
    \/ \E file \in Files : Written(t, file)
    \/ Held(t)

-----------------------------------------------------------------------------
(* What happens to the node *)

\* The guard restarts an agent that exited; it reads the tree again.  One an
\* earlier boot left has no supervisor until a start adopts it.
AgentRestarts ==
    /\ held
    /\ agent' = Reading(agent.fingerprint)
    /\ agent' # agent
    /\ UNCHANGED <<node, tree, dirs, start, held, budget>>

\* Harper restarts a thread whose release was replaced, or one that died.
ThreadRestarts(t) ==
    /\ ~At(t, "idle")
    /\ IF start[t].fresh THEN Fault ELSE UNCHANGED budget
    /\ start' = [start EXCEPT ![t] = Idle]
    /\ UNCHANGED <<node, tree, dirs, serving>>

\* A deploy replaces the component directory, under whatever is running.
Deploy(r) ==
    /\ budget.deploys > 0 /\ budget' = [budget EXCEPT !.deploys = @ - 1]
    /\ installed' = r /\ deployed' = TRUE
    /\ start' = [t \in Threads |-> [start[t] EXCEPT !.fresh = At(t, "idle")]]
    /\ UNCHANGED <<env, tree, dirs, serving>>

\* The node comes back with another environment.  The reaper stopped its
\* agent, or was gone itself and the agent is still there.
Reboot(s, reaped) ==
    /\ budget.boots > 0 /\ budget' = [budget EXCEPT !.boots = @ - 1]
    /\ env' = s
    /\ start' = [t \in Threads |-> Idle]
    /\ agent' = (IF reaped THEN None ELSE agent) /\ held' = FALSE
    /\ deployed' = (deployed /\ agent' # None)
    /\ UNCHANGED <<installed, tree, dirs>>

Next ==
    \/ \E t \in Threads : Start(t) \/ ThreadRestarts(t)
    \/ AgentRestarts
    \/ \E r \in Releases : Deploy(r)
    \/ \E s \in Settings, reaped \in BOOLEAN : Reboot(s, reaped)

Spec == Init /\ [][Next]_vars

-----------------------------------------------------------------------------
(* Properties *)

Phases == {"idle", "collect", "list", "prune", "unserved", "write", "served"}

\* Every variable has the shape the code gives it.
TypeOK ==
    /\ installed \in Releases /\ env \in Settings
    /\ deployed \in BOOLEAN /\ held \in BOOLEAN
    /\ DOMAIN tree = Files /\ dirs \subseteq Defaults
    /\ \A t \in Threads :
         /\ start[t].phase \in Phases
         /\ start[t].left \subseteq Files /\ start[t].checks \subseteq CheckDirs
         /\ DOMAIN start[t].files \subseteq Files
    /\ agent # None => DOMAIN agent.read = Files

\* A start that ended with its agent up and logged nothing on the way
Served(t) == At(t, "served") /\ start[t].silent

\* One start that ended without a warning makes the tree whole for the rest
\* of the boot: whatever the tree was left with by an earlier boot, release or
\* start that died half-way, and however the other threads' removals and
\* writes fall after it, no file is missing, stale or rendered from anything
\* but this node's environment (datadog.js:456-485, component.js:144, where
\* every thread rewrites and prunes the files a running agent may re-read).
SilentStartIsWhole ==
    ~deployed /\ (\E t \in Threads : Served(t)) => tree = Whole

\* A deploy ends the same way once every thread has been started on the new
\* release: a thread of the old one, which may still be removing what the new
\* release ships and writing what it dropped, leaves nothing behind
\* (datadog.js:479, removeStaleDefaults run by two releases at once).
RolloutIsWhole ==
    (\A t \in Threads : Served(t) /\ start[t].fresh) => tree = Whole

\* The agent a silent start leaves behind, adopted or replaced, has read every
\* file that start rendered and runs under this boot's credentials, though it
\* may have been spawned by another thread, by one that could collect no
\* checks, or before the node was restarted with a rotated key
\* (component.js:331-337).  A default that was removed is in no fingerprint:
\* an agent adopted from a start whose removal threw may still run it.
AgentRunsTheConfiguration ==
    ~deployed /\ (\E t \in Threads : Served(t)) =>
        /\ held
        /\ agent.key = env.key
        /\ \A file \in Files : Whole[file] # Missing => agent.read[file] = Whole[file]

\* The checks a silent start lists in the status are those conf.d holds, for
\* as long as the boot lasts: what a release dropped or gates off here is gone
\* though an earlier boot wrote it, and no thread that starts later removes one
\* (datadog.js:498-500 and render.js:224, reported once, at the start).
StatusIsTheTree ==
    \A t \in Threads : Served(t) /\ ~deployed =>
        start[t].checks = {d \in CheckDirs : tree[d] # Missing}

\* "no core check configuration was collected" (datadog.js:482): a start that
\* says so collected none.
WarningIsTrue == \A t \in Threads : start[t].told => start[t].checks = {}
=============================================================================
