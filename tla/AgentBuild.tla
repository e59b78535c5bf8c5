------------------------------ MODULE AgentBuild ------------------------------
(***************************************************************************)
(* One runner building one target, attempt after attempt over one build    *)
(* tree (agent-build/agent.js, download.js, compile.js): resolve a         *)
(* version, replace the clone, prepare the host, compile and strip what is *)
(* built here, lift the rest (ExtractRelease), and pass the packing gate   *)
(* (binary-kit.config.js).  bin/, share/, the clone and the GOPATH link    *)
(* are what one attempt leaves for the next.                               *)
(*                                                                         *)
(* External: git, dda and the tools under it, which may fail or hang, and  *)
(* the kit, which packs build/<target>/bin once the build has ended well.  *)
(***************************************************************************)
EXTENDS Binaries, Naturals, Sequences

CONSTANTS
    Sha256(_), SizeOf(_), DatadogKey, Absent, Targets, Pins, ReleaseFiles,
    PackagesFiles, Debs, Statuses, Readable, Objects, ObjectsIn(_), Missing,
    Partial, Attempts,   \* as in ExtractRelease
    Versions,            \* releases of Datadog's repository
    Latest,              \* the one GitHub calls the latest
    VersionOf(_),        \* the release a .deb is of
    GoPin(_),            \* the toolchain a release's .go-version names, Absent
                         \* where it ships none or what it says is no version
    Overrides            \* what the argsOverride variables may add

ASSUME BuildAssumption ==
    /\ Latest \in Versions /\ Absent \notin Versions
    /\ Targets \subseteq Systems /\ Attempts \in Nat
    /\ \A deb \in Debs : ObjectsIn(deb) \subseteq Objects
    /\ Missing \notin Debs /\ Partial \notin Debs

\* A file is neither of the marks that stand for none and for half of one.
ASSUME FileAssumption ==
    /\ \A deb \in Debs : [from |-> "release", deb |-> deb] \notin {Missing, Partial}
    /\ \A v \in Versions, tags \in {Absent, {"zlib"}, {"python", "zlib"}},
          debug \in BOOLEAN :
         \A toolchain \in {GoPin(v), Absent} :
           [from |-> "build", version |-> v, go |-> toolchain, tags |-> tags,
            debug |-> debug] \notin {Missing, Partial}

VARIABLES os, pin, phase, got, scratch, bin, share, left, tries

Lift == INSTANCE ExtractRelease

VARIABLES
    step,        \* where the attempt is
    hung,        \* the command it waits for will not answer
    version,     \* the version it resolved
    source,      \* the release the clone holds
    link,        \* the clone is linked into GOPATH
    go,          \* GOTOOLCHAIN of the environment everything is run under
    extra,       \* the flags CI adds
    todo         \* the binaries still to compile

\* What is downloaded and pinned, as in ExtractRelease
ASSUME DownloadAssumption ==
    /\ Absent \notin Pins /\ Absent # DatadogKey /\ Absent # "SHA256"
    /\ Missing # Partial /\ Readable \subseteq Debs
    /\ \A p \in Pins : Absent # p.sha256
    /\ \A release \in ReleaseFiles : Lift!IsRelease(release)
    /\ \A packages \in PackagesFiles :
         Lift!IsPackages(packages) /\ Sha256(packages) # Absent

disk == <<scratch, bin, share>>
lift == <<os, pin, phase, got, disk, left, tries>>
attempt == <<step, hung, version, extra>>
tree == <<source, link, go, todo>>
vars == <<lift, attempt, tree>>

Init ==
    /\ Lift!Init
    /\ step = "idle" /\ hung = FALSE /\ version = Absent /\ extra = {}
    /\ source = Missing /\ link = FALSE /\ go = Absent /\ todo = {}

Over == {"idle", "done", "packed", "unpacked", "failed"}

\* One step of the attempt, with nothing of the other half touched.  A command
\* that hangs takes none.
Goes(from, to) == step = from /\ step' = to /\ ~hung /\ UNCHANGED hung
Throws == step' = "failed" /\ hung' = FALSE

-----------------------------------------------------------------------------
(* The source *)

\* A plausible bug: a checkout with no pin is not given the latest.
PinnedOrAsked(option, file) == IF option # Absent THEN option ELSE file

\* version ?? pinnedVersion() ?? fetchLatestVersion()
Resolved(option, file) ==
    CASE option # Absent -> option
      [] option = Absent /\ file # Absent -> file
      [] option = Absent /\ file = Absent -> Latest

\* The checkout may have moved since the last attempt: file is its
\* .datadog-agent-version and p its release.js.
Request(option, file, p, flags) ==
    /\ step \in Over /\ tries > 0 /\ tries' = tries - 1
    /\ pin' = p /\ extra' = flags
    /\ version' = Resolved(option, file)
    /\ step' = "clone" /\ hung' = FALSE
    /\ phase' = "idle" /\ got' = Absent /\ left' = {}
    /\ UNCHANGED <<os, disk, tree>>

\* Whatever was cloned before goes first.
SourceRemoved ==
    /\ Goes("clone", "cloning")
    /\ source' = Missing
    /\ UNCHANGED <<lift, version, extra, link, go, todo>>

Cloned ==
    /\ Goes("cloning", "link")
    /\ source' = version
    /\ UNCHANGED <<lift, version, extra, link, go, todo>>

\* stat(link) follows the link; only when it fails is one made, and a dangling
\* one is in its way.
Linked ==
    /\ link => source # Missing
    /\ Goes("link", "host")
    /\ link' = TRUE
    /\ UNCHANGED <<lift, version, extra, source, go, todo>>

-----------------------------------------------------------------------------
(* Compiling *)

\* A plausible bug: a second copy of the pin, that of the latest release.
ToolchainOfItsOwn == {GoPin(Latest)}

\* GOTOOLCHAIN: from the clone's own .go-version, or left as the runner has it
\* when that file cannot be read
Toolchain == {GoPin(source), Absent}

\* A plausible bug: what an earlier attempt left in bin/ is not built again.
OnlyMissing == {name \in builtFor(os) : bin[name] = Missing}

\* A plausible bug: the loop goes over the names the lifting has to fill.
EveryBinary == binariesFor(os)

\* What build() goes through, whatever bin/ already holds
ToBuild == builtFor(os)

\* The precondition, the host and dda are settled before anything is compiled.
\* install-tools follows under the same environment.
HostReady ==
    /\ step = "host" /\ step' = "tools"
    /\ go' \in Toolchain /\ todo' = ToBuild
    /\ UNCHANGED <<lift, version, extra, source, link>>

Prepared == ~hung /\ HostReady /\ UNCHANGED hung

ToolsInstalled ==
    /\ Goes("tools", "compile")
    /\ UNCHANGED <<lift, version, extra, tree>>

\* The override adds flags; it cannot remove one.
buildArgs(name) ==
    (IF BINARIES[name].tag = "" THEN {} ELSE {"exclude-python"}) \union extra

\* The tags the linker records under those flags, or none at all.  Only the
\* core agent would carry Python.
Tags(name) ==
    IF "no-build-info" \in buildArgs(name) THEN Absent
    ELSE IF name = "agent" /\ (\/ "include-python" \in buildArgs(name)
                               \/ "exclude-python" \notin buildArgs(name))
    THEN {"python", "zlib"} ELSE {"zlib"}

\* What compiling, copying and stripping leave of one binary
Compiled(name, debug) == [from |-> "build", version |-> source, go |-> go,
                          tags |-> Tags(name), debug |-> debug]

\* What one pass of the loop over builtFor leaves
Leaves(name, debug) ==
    /\ step = "compile" /\ name \in todo
    /\ bin' = [bin EXCEPT ![name] = Compiled(name, debug)]
    /\ todo' = todo \ {name}
    /\ UNCHANGED <<os, pin, phase, got, scratch, share, left, tries,
                   step, version, extra, source, link, go>>

\* One binary after the other.  strip may be missing, which is no failure, and
\* is not asked on Windows.
Built(name, debug) ==
    /\ ~hung /\ (os = "windows" => debug)
    /\ Leaves(name, debug)
    /\ UNCHANGED hung

Compile ==
    \/ Prepared \/ ToolsInstalled
    \/ \E name \in Names, debug \in BOOLEAN : Built(name, debug)

Commands == {"host", "tools", "compile"}

\* git, dda or a tool it runs stops answering.
Hangs ==
    /\ step \in Commands \union {"cloning"} /\ ~hung
    /\ hung' = TRUE
    /\ UNCHANGED <<lift, step, version, extra, tree>>

\* A plausible bug: only the build tasks are given a budget.
BudgetOfTasks == {"compile"}

\* The steps whose commands run() gives a budget.  git has none.
Budgeted == Commands

\* run() kills the command at the end of its budget and rejects.
TimedOut ==
    /\ hung /\ step \in Budgeted
    /\ Throws
    /\ UNCHANGED <<lift, version, extra, tree>>

\* The rejection of a killed strip, or of one of the commands that look for and
\* install dda, is caught, and the build goes on without it.  A strip killed
\* while it rewrites the binary is taken to leave it as it was.
Swallowed ==
    /\ hung /\ step \in Budgeted /\ hung' = FALSE
    /\ \/ HostReady
       \/ os # "windows" /\ \E name \in Names : Leaves(name, TRUE)

\* A command fails, no MSYS2 shell is found, the latest version cannot be
\* read, or the job is killed: half a clone or half a binary stays.
Fails ==
    /\ step \in Commands \union {"clone", "cloning", "link"}
    /\ Throws
    /\ \/ UNCHANGED <<source, bin>>
       \/ step = "cloning" /\ source' = Partial /\ UNCHANGED bin
       \/ /\ step = "compile" /\ UNCHANGED source
          /\ \E name \in todo : bin' = [bin EXCEPT ![name] = Partial]
    /\ UNCHANGED <<os, pin, phase, got, scratch, share, left, tries,
                   version, extra, link, go, todo>>

-----------------------------------------------------------------------------
(* Lifting and packing *)

\* extractRelease is called once everything is compiled.
Lifting ==
    /\ todo = {}
    /\ Goes("compile", "extract")
    /\ phase' = "called"
    /\ UNCHANGED <<os, pin, got, disk, left, tries, version, extra, tree>>

\* Its answer or its error is the build's.
Extracting ==
    /\ step = "extract"
    /\ Lift!Extract
    /\ step' = IF phase' \in Lift!Ends THEN phase' ELSE step
    /\ UNCHANGED <<hung, version, extra, tree>>

\* A plausible bug: a binary with no build info is taken for clean.
TagAbsentIfReadable(name) ==
    BINARIES[name].tag = "" \/ bin[name].tags = Absent
        \/ BINARIES[name].tag \notin bin[name].tags

\* No record at all is refused: unreadable is not the same as clean.
excludedTagIsAbsent(name) ==
    BINARIES[name].tag = "" \/ (/\ bin[name].tags # Absent
                                /\ BINARIES[name].tag \notin bin[name].tags)

Packed ==
    /\ step = "done"
    /\ step' = IF \A name \in baseBinaries(os) \union probeBinaries(os) :
                    excludedTagIsAbsent(name)
               THEN "packed" ELSE "unpacked"
    /\ UNCHANGED <<lift, hung, version, extra, tree>>

Next ==
    \/ \E option, file \in Versions \union {Absent}, p \in Lift!PinsOf(os),
          flags \in Overrides : Request(option, file, p, flags)
    \/ SourceRemoved \/ Cloned \/ Linked
    \/ Compile \/ Hangs \/ TimedOut \/ Swallowed \/ Fails
    \/ Lifting \/ Extracting \/ Packed

Spec == Init /\ [][Next]_vars

\* A compile step that answers goes on, and a timer that is armed fires.
Fairness == WF_vars(Compile \/ Lifting) /\ WF_vars(TimedOut \/ Swallowed)

FairSpec == Spec /\ Fairness

-----------------------------------------------------------------------------
(* Properties *)

\* Every variable has the shape the code gives it.
TypeOK ==
    /\ Lift!TypeOK
    /\ step \in Over \union Commands \union {"clone", "cloning", "link", "extract"}
    /\ hung \in BOOLEAN /\ link \in BOOLEAN
    /\ version \in Versions \union {Absent}
    /\ source \in Versions \union {Missing, Partial}
    /\ go \in {GoPin(v) : v \in Versions} \union {Absent}
    /\ extra \in Overrides \union {{}}
    /\ todo \subseteq Names

\* A build that ended well leaves every binary of its target, each from its
\* own half: those compiled here from the version this attempt resolved, and
\* those lifted out of the package it pins, with the probe's objects; whatever
\* earlier attempts for other versions, or killed between two binaries, left
\* under the same names in a bin/ that nothing clears (agent.js:46-60).
DoneIsWhole ==
    step = "done" =>
        /\ \A name \in builtFor(os) :
             /\ bin[name] \notin {Missing, Partial}
             /\ bin[name].from = "build" /\ bin[name].version = version
        /\ phase = "done" /\ Lift!DoneIsThePin

\* No compiled binary in bin/ was built under a toolchain pinned for another
\* release: it is its own release's, or the runner's where that release pins
\* none that can be read (compile.js:108-109, "a second copy drifts and this
\* one had", and :115 and :121, which leave GOTOOLCHAIN unset).
BuiltByItsToolchain ==
    \A name \in builtFor(os) :
        bin[name] \notin {Missing, Partial} =>
            bin[name].go \in {GoPin(bin[name].version), Absent}

\* Two things hold of what is packed: the core agent's recorded tags say that it
\* has no Python, whatever CI's override asked the build for, and each binary
\* comes from the half, compiled or lifted, that the README lists it under
\* (binary-kit.config.js:28-41 and :48-92).  It says nothing of stripping:
\* the README's "then stripped" (line 74) is not so on Windows, nor where strip
\* failed.
PackedIsAsGated ==
    step = "packed" =>
        \A name \in binariesFor(os) :
          /\ bin[name].from = sourceOf(name, os)
          /\ name = "agent" => bin[name].tags # Absent /\ "python" \notin bin[name].tags

\* To the names it lifts the build is one attempt of the extraction after the
\* other: preparing and compiling are the call that has not looked yet, and a
\* build that fails there is an attempt that was killed.
calledSince == IF step \in Commands \union {"clone", "cloning", "link"} THEN "called"
               ELSE IF step = "failed" THEN "failed" ELSE phase
liftedHalf == [name \in Names |-> IF name \in extractedFor(os) THEN bin[name] ELSE Missing]

Lifts == INSTANCE ExtractRelease WITH phase <- calledSince, bin <- liftedHalf

\* Nothing but the extraction touches what is lifted: a build, retried, timed
\* out or killed in any step, for whatever version and pin, does to the lifted
\* names, the objects and the scratch directory what attempts of extract.js
\* alone would (agent.js:46-60).
ImplementsExtraction == Lifts!Spec

\* "so a hang fails the build rather than the job" (compile.js:25): once the
\* compiling has begun it ends, in a call to the extraction or a failure,
\* however many of its commands would never have answered.
CompileEnds == step \in Commands ~> step \notin Commands

\* "a package cannot be labelled one version and built from another"
\* (download.js:11): what is packed is of one release.
OneVersionIsPacked ==
    step = "packed" =>
        \A name \in extractedFor(os) : VersionOf(bin[name].deb) = version
=============================================================================
