# datadog-agent-binary in TLA+

A verification project for the Harper plugin in `src/`, in both of its halves: what runs on a node, in
several worker threads at once, to start the Datadog agents, keep verifying them, publish process metrics and
tell an operator whether anything reaches Datadog; and what runs on a build machine to compile, lift and
check the agents that are packaged. The modules are translated from the JavaScript; line numbers in the
comments and in `PROJECT.json` are those of the files under `src/`.

Run from this directory: `tlc -config MCSeriesTimers.cfg MCSeries` checks a run, `tlapm SeriesProofs.tla`
checks proofs.

## 1. The system

A node is one Harper process with several worker threads. Every thread evaluates `resources.js` and calls
`handleApplication`; each renders the same configuration into one runtime tree, and a supervisor (Harper's
own, or the bundled `harper-process-guard`) takes one pid lock per agent, so that the node runs one set of
agents. `GET /DatadogStatus/` is answered by whichever thread is free. Threads share no memory: they share
the agents' ports, the files of the runtime tree, the claim file and the stats mark. The binaries come from a
runner that compiles some of them and lifts the others out of a signed Debian package; it keeps a build tree
from one attempt to the next.

| Component | State | Operations | Interacts with | What is hard | What makes it correct |
| --- | --- | --- | --- | --- | --- |
| delivery signal, `runtime/delivery.js` | none of its own but the shared mark "stats last accepted at" | `readSignal`, `recallStatsWindow`, `readTraceHop`, `deliveryVerdict` | the trace-agent's expvar, its log, other threads through the mark | counters are one-minute windows that reset between the poll and its use; two threads read and write the mark in no order; Harper restarts and the mark stays | a verdict never outlives its evidence; a quiet node is not accused; a refusal wins over a memory |
| process series, `runtime/series.js` | one timer per thread, the node's claim file | `scheduleSeries`, the tick, `sendDogstatsd` | other threads through the claim, DogStatsD, the operator's `conf.d` | the claim's holder dies; timers fire late; sends outlast the cadence; startup happens again | the threads are together one emitter, and the series resumes |
| agent verification, `runtime/verify.js` | the verdict and the pid it was taken against, on the supervisor's state object | `verifyLaunch` and five verifiers | whatever process answers a port or socket; the supervisor, which rewrites the same object | a restart between two polls; a stray agent of an earlier boot on the port; a refusal taken before the agent bound | a current verdict is about the current process; nobody is sent after the wrong process; a healthy agent ends up verified |
| startup and status, `runtime/component.js` | the slot, `pidDir`, verifiers, `started` | `createStart`'s function, `DatadogStatus.get` | resolver, supervisor, the three above | binaries fail to resolve in any order; startup throws anywhere; GETs arrive before and during it | each report is its own; each answer can be verified again; every GET is answered |
| agent table, ports, probes, `runtime/datadog.js` | none | `agentsFor`, `resolvePorts`, `probeSettings`, `probePrivilege`, `probeStatus` | startup | a typo in a declaration; opt-in agents | nothing unasked-for is declared |
| runtime tree, `runtime/datadog.js`, `runtime/render.js` | files that outlive boots and releases | `prepareRuntime`, `collectCoreChecks`, `removeStaleDefaults`, `render*` | every thread writes and prunes the same files while agents read them; a deploy replaces the directory they are rendered from | a failure part-way under one `try`; another thread's removal; two releases at once during a rollout | one start that ended silently leaves the tree whole for the rest of the boot |
| node supervision, `harper-process-guard` (external) | locks, fingerprints, processes, the reaper | start, adopt, replace, restart, reap | the fingerprint and names `createStart` computes | an agent adopted from another thread, from before the reboot, from before the key was rotated | the agent a start leaves runs what that start rendered |
| core check configuration, `conf.d/` | static files | - | the tree they are copied into | a directory one release ships and another gates off | - |
| release verification, `agent-build/verify-release.js`, `release.js` | none | `verifyRelease`, `hashFromRelease`, `hashFromPackages`, `readGpgStatus` | the extraction | the same path under three hash sections; documents of two days of one repository; a check that neither fails nor is recorded | `ok` exactly when the whole chain from the signature to the bytes holds |
| agent build, `agent.js`, `download.js`, `compile.js`, `extract.js`, `binaries.js`, `toolchain.js`, `tree.js`, `binary-kit.config.js` | clone, GOPATH link, scratch directory, `bin/`, `share/` | `buildAgents`, `fetchAgentSource`, `build`, `extractRelease`, the packing gate | git, dda, gpg, Datadog's repository, the kit | attempts killed anywhere over a tree nothing clears; a command that hangs; a toolchain of another release left in the environment | a build that ended well left what it resolved and what it pins, and nothing else is packed |
| build command line and log, `cli.js`, `log.js` | none | options, exit code | the build | - | - |
| CI and soak tooling, `test/soak/`, `.github/` | measurements | - | - | - | not part of the shipped program |

`PROJECT.json` lists each with its status and, under `hazards`, the places where it can go wrong.

## 2. Modules

| Module | Models | Uses |
| --- | --- | --- |
| `DeliveryVerdict` | `deliveryVerdict` as an operator over counters, log and memory | |
| `DeliverySignal` | reads of several threads, the agent's windows, the shared mark | `DeliveryVerdict` |
| `DeliveryProofs` | theorems about both | `DeliverySignal` |
| `NodeEmitter` | what the series promises of a node: the abstract specification | |
| `ProcessSeries` | timers, the claim, the sends; implements `NodeEmitter` | `NodeEmitter` (INSTANCE) |
| `SeriesProofs` | theorems, the refinement among them | `ProcessSeries` |
| `AgentVerdict` | verifications against restarts and strays | |
| `VerdictProofs` | theorems | `AgentVerdict` |
| `StatusPromise` | what a thread promises of `GET /DatadogStatus/`: the abstract specification | |
| `ComponentStart` | one thread's startup and its GETs; implements `StatusPromise` | `StatusPromise` (INSTANCE) |
| `StartProofs` | theorems, the refinement among them | `ComponentStart` |
| `RuntimeTree` | several threads' starts over one runtime tree, with the node's agent, deploys and reboots | |
| `TreeProofs` | theorems | `RuntimeTree` |
| `Binaries` | which half makes which binary, per system | |
| `ReleaseChain` | `verifyRelease` and its lookups, and what the chain means | |
| `ExtractRelease` | `extractRelease`, attempt after attempt | `ReleaseChain`, `Binaries` |
| `ChainProofs` | theorems about the lookups and the verdict, for documents of any length | `ReleaseChain` |
| `ExtractProofs` | theorems | `ExtractRelease`, `ChainProofs` |
| `AgentBuild` | the whole build of one target, composed with the extraction and implementing it | `ExtractRelease` (INSTANCE), `Binaries` |
| `BuildProofs` | theorems, the refinement among them | `AgentBuild`, `ExtractProofs` (INSTANCE) |
| `MCDelivery`, `MCSeries`, `MCVerdict`, `MCStart`, `MCTree`, `MCExtract`, `MCBuild` | the instances TLC checks | the module above |

**How code becomes actions.** JavaScript runs a continuation to its next `await` without interruption, so an
action is the code between two awaits; across threads, a file read or write is the unit, so the mark's `get`
and `set` are two actions, and so are the writes of two files. What the repository does not contain (the
guard, the resolver, the kit, Harper, the agents, git, dda, gpg, the kernel) is modelled from how `src/` uses
it and from its tests, and marked `external` in the map.

**DeliverySignal.** `reader[t]` is a thread's status read: `ReadBegins` (markDir taken as the GET arrives),
`AgentServes` or `PollFails` (the poll's end), `ClockRead` (`now()`), `MarkRead` (`store.get`),
`ReadConcludes` (`store.set`, `readTraceHop`, `deliveryVerdict`). The agent counts what the intake takes and
turns away, resets its window, dies and starts; Harper restarts with the mark left on disk. The agent's log is
not the agent: it is opened after the agent starts (`LogOpens`), scrolls, and may be removed or unreadable at any
time (`LogLost`), so that `readTraceHop` answers null beside a running agent and a recalled acceptance.
`lastAccepted`, `lastArrived`, `lastRefused`, `lastRecorded` and `held` (the marks on disk while each read ran)
are history the properties compare with.

**ProcessSeries.** `timers[t][s]` counts down to a tick; `Slots` has room for a timer that nothing can stop,
so that losing one is possible. `ScheduleTimer` and `ScheduleNothing` are the ways out of `scheduleSeries`;
a tick is `TickNotOwner`, `TickUnwritable`, `TickNothing`, `TickThrows` (the claim is renewed, then taking the
readings throws and the timer's callback swallows it) or `TickReads`, and its send ends in `SendEnds`, resolved
or not. Time is kept as ages capped at the claim's staleness: nothing distinguishes older ages, so
the state space is finite with no bound on time. `NodeEmitter` has no threads: a node may emit when it is
allowed to and its period has passed. The mapping takes its wait from the age of the last reading.

**AgentVerdict.** `own` is the supervisor's state object, `process` the process that really runs, `serves`
who holds each endpoint. A verification is `CheckBegins`, `FirstPoll`, `SecondPoll` (the trace-agent's second
endpoint) and `Concludes`, which reads `own` again; `Restart` may come between any two. `verdict.from` and
`verdict.during` are history: who answered, and which pid was on the state when it did. A thread whose launch was
refused has no process; under the bundled guard (`supervision`) a status read then verifies the copy
`nodeProcess` makes of its state, naming the process of the node's lock (`Adopts`, `Handed`), which another thread
starts and starts again (`StartsElsewhere`). The copy is made for one read, so its pid is never rewritten (`Held`)
and its verdict is not kept.

**ComponentStart.** `phase` is the await the start is at; `wanted`, `binaries`, `failures` and `startable` are
its local arrays and `Joined` puts the supervisor's shorter answer back in declaration order. A filter is the
one order of the positions it keeps (`InOrder`). A GET is `Ask` (the slot is read), `CountersRead` and
`Answer`. The start throws before or after `pidDir` is kept (`PrepareThrows`), while what resolved is declared
(`HandOverThrows`), out of the supervisor (`SupervisorThrows`), or once the processes are already listed (in
`SupervisorAnswers`: the series' scheduling); in the last case the status keeps the processes beside the error. How a
verdict is retaken inside the GET is `AgentVerdict`'s, and what the counters say is
`DeliverySignal`'s. `StatusPromise` has no probes, resolutions, supervisor or positions: a promise that is none,
pending or settled, the list it settled with, and reads. The mapping takes the promise from the slot and from
whether the start is done; resolving, handing over and polling are stutters.

**RuntimeTree.** `start[t]` is one thread's run through `prepareRuntime` and the supervisor: `ObjectsResolved`
(`resolveEbpfDir`), `Collected` or `CollectFails`, `Listed` (the one `readdir` of `removeStaleDefaults`),
`Removed` for each stale default, `PruneFails` (the same `try`), `Prepared`, `Written` file by file in
`configFiles`' order, and `Held`, where the guard adopts or replaces the node's one agent by fingerprint. A
file holds what it was rendered from. `Deploy` replaces the component directory under running threads,
`ThreadRestarts` is Harper's answer to it (or a crash), `Reboot` brings another environment and leaves the
tree, with or without its agent; `AgentRestarts` makes the agent read the tree again. `fresh`, `deployed` and
`told` are history.

**ReleaseChain and ExtractRelease.** A Release file is the sequence of its lines and a Packages index of its
stanzas; the lookups are the code's passes over them, written as recursive functions from the line they are at
(`within` and `before` the SHA256 section), and `Proven` says declaratively, without any of them, what the
chain of hashes shows. `ExtractRelease` is the function step by step, from `Called` over the five
downloads, `Verified` or `Refused`, the two archives, tar and the copies, to `Cleared`; `Killed` is any
crash, which may leave one file half written (`Partial`).

**AgentBuild.** One target's build: `Request` (the CLI's option, the checkout's pin and version file, CI's
override), `SourceRemoved` and `Cloned`, `Linked`, `HostReady`, `ToolsInstalled`, `Built` for each binary,
`Lifting` into `ExtractRelease`, and `Packed`, the kit's gate. Its `Lift` is `ExtractRelease` over the same
variables: an extraction step is that module's action. Its `Lifts` is the other direction: seen only through the
lifted names, the objects and the scratch directory, with preparing and compiling as the call that has not
looked yet (`calledSince`, `liftedHalf`), the build must be `ExtractRelease` again (`ImplementsExtraction`). A command may hang (`Hangs`) until `run`'s budget
(`TimedOut`), or be one whose rejection the code swallows (`Swallowed`); anything may fail (`Fails`). The
clone, the link, `bin/`, `share/`, the scratch directory and the environment's toolchain are what one attempt
leaves to the next.

## 3. Runs

| Run | Module, config | States | Checks |
| --- | --- | --- | --- |
| marks | `MCDelivery`, `MCDeliveryMarks.cfg` | 5.2M | `TypeOK`, `MarkIsBacked`, `MarkIsFresh`, `NeverItsOwnCorroboration`, `RecallReachesEveryThread` |
| claims | `MCDelivery`, `MCDeliveryClaims.cfg` | 5.6M | `StatsClaimsAreBacked`, `QuietNodeIsNotAccused`, `RefusalOutranksMemory` |
| timers | `MCSeries`, `MCSeriesTimers.cfg` | 38k | `TypeOK`, `TimersAreHeld`, `ReadingsAreSpaced`, `ImplementsEmitter`, `EmissionResumes` |
| fresh | `MCVerdict`, `MCVerdictFresh.cfg` | 444k | `TypeOK`, `FreshVerdictIsEarned`, `AccusationIsTrue`, `UnstartedVerifiesOnlyAsTheNodes`, `HealthyAgentIsVerified` |
| reports | `MCStart`, `MCStartReports.cfg` | 56k | `TypeOK`, `EachReportIsItsOwn`, `AnswersCanBeRetaken`, `ImplementsPromise`, `EveryGetIsAnswered` |
| tree | `MCTree`, `MCTreeWhole.cfg` | 1.8M | `TypeOK`, `SilentStartIsWhole`, `RolloutIsWhole`, `AgentRunsTheConfiguration`, `StatusIsTheTree` |
| chain | `MCExtract`, `MCExtractChain.cfg` | 56k | `TypeOK`, `VerdictIsTheChain`, `WritesOnlyTheProven` |
| build | `MCBuild`, `MCBuildTree.cfg` | 1.4M | `TypeOK`, `DoneIsWhole`, `BuiltByItsToolchain`, `PackedIsAsGated`, `ImplementsExtraction`, `CompileEnds` |

What they show:

- **marks**: two threads' reads overlap in every order. The mark is not written atomically with its read, so
  an older time can replace a newer one; the run shows the loss is at most the time one read takes, that a mark
  recorded by one thread keeps every started thread from calling the hop down until the recall expires, and that
  the acceptance a read dates its answer by stood on disk before the read stored its own. A read that began before
  its thread's startup had set `markDir` is outside the recall's property (`component.js:446`).
- **claims**: one thread against every history of accepted, refused and forgotten payloads. Two runs, because
  the mark's races need two threads and few kinds of event, the verdict's branches one thread and all of them. Its
  reads take no time (`ReadTime` 0), so what a clock older than the mark does to an age (`delivery.js:65`) is seen
  in `marks` and not here; the proof of its properties has any `ReadTime` and any number of threads.
- **timers**: with any interleaving of second startups, thread ends, late ticks and long sends, a thread has at
  most the timer it can stop, the node is one emitter, and a dead holder's claim goes stale. What an operator
  types is resolved as the code resolves it, a prefix of dots alone included: it comes out empty, and nothing here
  calls that right (see the disagreements below). That a send overlaps the next is in the model; nothing is
  promised of the order their datagrams leave in (`series.js:273`).
- **fresh**: a verdict published as it stands rests on an answer given under the pid now on the state, and an
  agent this thread never spawned verifies only under the guard, as the node's own process. `AccusationIsTrue` is
  of verdicts about the pid on this thread's own state. The momentary verdict of a read on an adopted copy is
  outside it: when the node's agent is restarted between the poll and the end of such a read, the copy still names
  the old pid and the read can point at the new process, as TLC finds when the property is stated of copies too;
  the next read makes a new copy.
- **reports**: the join by position is right for every order and subset of failures, also in a status that lists
  processes beside an error, and whatever startup meets, the GETs see one promise that is settled once. That the
  start never rejects rests on `supervisorFor` and `baseStatus` not throwing: they stand before its `try`
  (`component.js:279-281`), where a throw would reject the promise every GET awaits.
- **tree**: every thread prunes and rewrites the same files, and two releases may do it at once. One start
  that ended silently is enough for the rest of the boot, since starts of one release only ever write what the
  tree has to hold; after a deploy it takes every thread's. The agent left behind has read all of it.
- **chain**: `verifyRelease` passes exactly what is `Proven`, for every arrangement of lines the instance
  has, and no byte reaches the disk otherwise.
- **build**: whatever an attempt that was killed or hung left in a tree that nothing clears, a later one that
  ends well has replaced every binary with its own, under its own release's toolchain or, where its pin is missing,
  malformed or unreadable, the runner's (`compile.js:115`, `121`), and the packing gate refuses a core agent not
  known to be without Python. Nothing is said of stripping. A strip killed at its budget while it rewrites the file
  is caught like any other failure of strip (`compile.js:333-339`); the model takes the file to be left whole.
  Compiling ends, however many commands hang. Nothing but the extraction touches what is lifted.

Runs that must find a violation, each a disagreement between the code and what its comments, texts or tests
say (`PROJECT.json`, `findings`):

| Run | Property | The code |
| --- | --- | --- |
| proven | `DeliveringIsNotDisproven` | `delivery.js:100` answers "delivering" with `tracesAtDatadog: false` |
| cadence | `CadenceIsAsConfigured` | `series.js:275` overflows the timer: an interval past 24.8 days ticks each millisecond |
| misreport | `WarningIsTrue` | `datadog.js:482` says no check configuration was collected when a removal failed and it was |
| mixed | `OneVersionIsPacked` | `download.js:11`: the compiled version and the lifted one are chosen in two places and never compared |

Three more were met that no run states. In each the model does what the code does, and no property is worded
as if it did otherwise:

- `series.js:43` strips trailing dots after the test for blank, so a prefix of dots alone becomes the empty one and
  `series.js:138` sends bare names; `test/unit/process-metrics.test.js:427` wants an override that names nothing to
  fall back "rather than emitting a bare name", and tries blanks only.
- The package's README says that what was compiled was "then stripped" (`binary-kit.config.js:74`);
  `compile.js:327` strips nothing on Windows, and `compile.js:333-339` ships a binary with its symbols where strip
  failed. `PackedIsAsGated` is about tags and halves only.
- The same README calls every object in `share/` the pinned package's; see section 6.

**Bounds.**

- Delivery: `MaxTime`, `Recall`, `Window`, `LogWindow`, `ReadTime` keep the real constants' order (log window
  and recall longer than the window, a read shorter than both) with enough time after the last acceptance for
  the recall to expire in both runs. `Occurs`: which kinds of event a run has.
- `Threads`: two suffice for a race on one file; the theorems have no bound. Threads are symmetric in `marks`
  and `tree`, which check no liveness.
- Series: `Slots`: two, a timer and the one that should have been stopped. `Intervals` around `TimerMax`, so
  that one overflows. `MaxInFlight`: one unfinished send per thread.
- Verdict: `MaxPid`: three processes, so that a restart can come both before and after the first poll.
- Start: five agents behind two opt-ins, so that filtering leaves gaps; `Readers`: two GETs.
- Tree: `Deploys`, `Boots`, `Faults` of one each: a reboot from any state the tree was left in by a deploy and
  one failure. Two releases, of which the new one gates a check off and is beside a probe package; three
  environments, which differ by probes or by key.
- Chain: Release files of every sequence of up to three lines (a key, an entry and one that hides it), Packages
  of two days and one without a digest, every gpg verdict, a `.deb` of the pinned digest but another length.
- Build: two attempts, one to leave its remains and one to find them; two releases, one with no
  `.go-version`; three overrides; all three systems.

`CHECK_DEADLOCK FALSE` is said where a bound ends a behaviour: pids in `MCVerdict`, threads that are all served
with no disturbance left in `MCTree`, attempts in `MCExtract` and `MCBuild` (where a hang in git, which has no
budget, also stops the build for good).

**Fairness.** `ProcessSeries`: time passes, sends end (DogStatsD is UDP on loopback), and a timer that comes
due again and again is not refused its claim by an unwritable directory every time (`SF`, since the claim
may be busy in between). `TickThrows`, too, is
not taken every time (the same `SF`). `AgentVerdict`: a verification that began ends, since every poll has a budget, and
status reads keep coming, since only they retake a verdict. Nothing is assumed of the agents:
`HealthyAgentIsVerified` is conditional on one that keeps serving. `ComponentStart`: the awaits of a start
and of a GET settle; that Harper calls `handleApplication` is not assumed. `AgentBuild`: a step whose command
answers goes on, and a budget that was armed runs out; that any command answers is not assumed, and nothing
is assumed of git, which `run` gives no budget.

## 4. Proofs

For every value of the constants their assumptions allow:

| Theorem | Says |
| --- | --- |
| `MemoryOnlyExcusesEmptyWindows`, `LogDecidesOnlyTheTraceHop` | what the memory and the log may change in `deliveryVerdict`'s answer |
| `TypeCorrect`, `MarkSound` | the mark is evidence, for any number of threads and any clock |
| `StatsClaimsHold`, `NoSelfCorroboration`, `RecallIsShared`, `QuietNodeHolds`, `RefusalOutranks` | the action properties of the Delivery runs |
| `OneTimerPerThread`, `OneSeriesPerNode` | the safety properties of the series |
| `NodeIsOneEmitter` | `ProcessSeries` implements `NodeEmitter` |
| `VerdictsAreEarned`, `AccusationsAreTrue`, `UnstartedIsRefused` | the safety properties of verification |
| `StartTypeCorrect`, `ReportsAreTheirOwn`, `AnswersAreRetakable` | the safety properties of startup, for any declaration |
| `TheStartIsOnePromise`, `ReadsOfOneStartAgree` | `ComponentStart` implements `StatusPromise`; hence no two reads that joined a start are told different processes |
| `TreeTypeCorrect`, `OneSilentStartIsEnough`, `RolloutEndsWhole`, `TheAgentIsConfigured`, `StatusStaysTrue` | the properties of the runtime tree, for any threads, releases, checks and number of disturbances |
| `BuildTypeCorrect`, `AWholeBuild`, `OneToolchain`, `ThePackageIsAsGated` | the safety properties of the build, for any number of attempts |
| `TheBuildImplementsTheExtraction`, `TheBuildLiftsOnlyTheProven` | `AgentBuild` implements `ExtractRelease`; hence no step of a build changes what is lifted without the proof |
| `HashFromReleaseIsTheListedOne`, `HashFromPackagesIsTheIndexedOne` | what the two lookups return, for documents of any length |
| `PassedIsProven`, `TheVerdictIsTheChain` | `verifyRelease` passes exactly what the chain of hashes proves |
| `ExtractTypeCorrect`, `OnlyTheProvenIsWritten` | the extraction's types; nothing but the proven package is written |

Each module of proofs defines an inductive invariant `IInv`, shows that `Init` implies it and every action
keeps it, and draws the properties from it.

- *Delivery*: `MarkIsBacked` says nothing of reads in flight, and it is a read in flight that writes the
  mark. `IInv` dates what each read carries: its body no later than its clock, a counted payload within one
  window of `lastAccepted`, a remembered time no later than the read. The action properties follow from what
  `ReadConcludes` does to a read so dated.
- *Series*: readings are spaced because the claim's age plus what is left of the holder's countdown covers a
  period, and because the claim is never older than the last reading; `Spacing` says so of every timer of the
  holder, and needs `TimersAreHeld`, without which a forgotten timer of the same thread shares its claim. The
  refinement then has two kinds of step to map: time, which is the emitter waiting, and a reading, which needs
  `AskedFor`, that no timer is armed on a node whose series is off.
- *Delivery, the read's own mark*: `HeldInv` says that what a read found at `get` is one of the marks that were on
  disk since it began, which other threads' `set`s only add to.
- *Verification*: a verdict is current when its pid is the state's. Pids are never reused by the supervisor
  (`spawned` counts them), so a check whose `against` is still on the state has seen no restart, and what it
  was answered, it was answered under that pid.
- *Startup*: `Asked` says that by the time the supervisor is asked, what it is handed is each resolved position
  once; with agents at one position each (`Distinct`) and every failure kept at its own (`Quoted`), looking a
  name up and falling back by index agree. `Kept` and `Joins` tie what is listed to what can verify it.
- *Tree*: a start of the installed release never writes or removes anything but what the tree has to hold
  (`Rendering`), so each file is settled by whichever thread gets to it first and stays so (`BootSettles`);
  with threads of a replaced release about, what settles a file is that every thread has got to it since
  (`RolloutSettles`). `AgentIsTold` and `AgentIsServed` carry the same through adoption and restart.
- *Build*: what an attempt has finished with is told from what it found by `todo` and `left`: a compiled binary
  is this attempt's once it left the one (`Compiling`), a lifted one the pin's once it left the other
  (`Extraction`), and the halves never write the same name.
- *The promise*: of `IInv` the refinement also needs that what a node asked for is a list without gaps
  (`Positions`), so that what the join gives is one. `ReadsOfOneStartAgree` is then drawn from `StatusPromise`
  alone: a settled promise is never settled again, so what was told stays true. The processes are meant as the
  start reported them; the verdict beside each is retaken by every read.
- *Chain*: each lookup is a recursive function of the line it is at. The library's induction theorems take an
  operator, which the provers cannot instantiate, so `ChainProofs` argues by the least counterexample. A search
  is a function that answers at the first line its test holds for and asks the next line otherwise; such a
  function exists and is unique, because two that differ would differ at a last line and agree after it. What
  it returns is therefore the entry at the least line that matches. `hashFromRelease` is two searches, one
  outside the SHA256 section and one in it; `PassedIsProven` puts them together with the four checks.
- *Extraction*: every step that writes comes after `Verified`, with the downloads `Verified` saw (`Holding`), and
  what `verifyRelease` passes is `Proven`. `VerdictIsTheChain` and `WritesOnlyTheProven` have no hypothesis left
  but the named assumptions.
- *The build implements the extraction*: `Sequenced` ties where the attempt is to where its extraction is, so
  a step of the build is a step of the extraction, the call of a new attempt, a death, or nothing to the lifted
  half: the compiled names are not the lifted ones. `OnlyTheProvenIsWritten` is then used as it stands, through
  an instance of `ExtractProofs` with the same mapping.

Assumed are only the named `ASSUME`s, which TLC evaluates in the runs: that sentinels are no values, that
durations and bounds are natural numbers, that the claim goes stale no sooner than one cadence, that no agent
is declared twice, that `Order` names every file, and what a download can be (`DownloadAssumption`): documents
that are sequences of lines and stanzas, and bytes that have a digest.

Only model-checked: `EmissionResumes`, `HealthyAgentIsVerified`, `EveryGetIsAnswered` and `CompileEnds`
(liveness under fairness is beyond the prover). Every other property of a passing run is proved.

## 5. Not modelled

- Text: log lines, details and the layout of the rendered yaml. A rendered file is what it was rendered from.
- What a tick counts per process group; only whether anything is left to send.
- Poll and command budgets in milliseconds; a poll ends with an answer or with none, a command answers, fails
  or hangs. Whether the sum of the budgets fits the job's is not a question this model can be asked.
- The reaper's re-read in the GET, the API-key field and the suppression of the component's own spans.
- `probePrivilege`, which reads the host and is reported, never enforced; which of system-probe's modules each
  probe setting switches on; a node whose root is unknown, which renders no log check; the range checks of
  `resolvePorts`, which are the guard's.
- The atomicity and the failure of one rendered file's write: a write is a step that succeeds, so an agent that
  reads half a file is not seen, nor a start whose disk is full.
- Of the build: which interpreter pipx is given, where MSYS2 is looked for, what the manifest says, and the
  kit's symbol and glibc gates, which look inside binaries.
- The interior of `harper-process-guard`, `harper-binary-kit`, Harper and the agents. In particular two GETs
  that retake one verdict at once are decided inside `retakeVerdict`, and the lock's own races inside the guard.
- The yaml of `conf.d/`, and the soak, test and CI tooling, which measure the running system from outside.

## 6. What is left

In order of weight:

1. `StatusRead`: `ComponentStart` composed with `AgentVerdict` and `DeliverySignal`, as far as what two GETs
   share is in this repository.
2. The eBPF objects of an earlier pin: `cp -R` (`extract.js:296`) leaves one the pinned package does not carry in
   `share/`, and the package's README calls all of them the pin's. `DoneIsThePin` says nothing of it; in the
   instance of `build`, TLC reaches a packed build with such an object.
3. `ProbePrivilege`: `probeSettings` and `probePrivilege` as operators against what the render functions need.
4. `RuntimeTree` with two agents under their own locks, to say what a thread whose binary does not resolve
   does to the other's.
