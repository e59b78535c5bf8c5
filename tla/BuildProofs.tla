----------------------------- MODULE BuildProofs -----------------------------
(***************************************************************************)
(* Proofs about AgentBuild, for any versions, pins, downloads and targets, *)
(* and any number of attempts over one build tree.                         *)
(*                                                                         *)
(* What an attempt finished with is kept apart from what it found: a       *)
(* compiled binary is this attempt's once it has left todo (Compiling), a  *)
(* lifted one once it has left left (Lifted), and the two never write the  *)
(* same name (Apart).                                                      *)
(***************************************************************************)
EXTENDS AgentBuild, TLAPS

Wanted == extractedFor(os)

(* The package the attempt holds is the pinned one.                        *)
Pinned(deb) ==
    deb \in Debs /\ Sha256(deb) = pin.sha256 /\ SizeOf(deb) = pin.size

(* name was lifted out of deb, and the probe's objects with it.            *)
LiftedFrom(deb) ==
    /\ \A name \in Wanted : bin[name] = Lift!Lifted(deb)
    /\ "probe" \in Wanted => \A object \in ObjectsIn(deb) : share[object] = deb

UnpackedFrom(deb) ==
    /\ \A name \in Wanted : scratch.files[name] = deb
    /\ "probe" \in Wanted => \A object \in ObjectsIn(deb) : scratch.objects[object] = deb

Proved == {"verified", "written", "unpacking", "copying", "clearing"}

(* The extraction, phase by phase.                                         *)
Extraction ==
    /\ left \subseteq Wanted
    /\ phase \in Proved \union {"fetched"} => got.deb \in Debs
    /\ phase \in Proved => Pinned(got.deb)
    /\ phase = "unpacking" => scratch.data = got.deb
    /\ phase \in {"copying", "clearing"} =>
          /\ UnpackedFrom(got.deb)
          /\ \A name \in Wanted \ left : bin[name] = Lift!Lifted(got.deb)
    /\ phase = "clearing" => left = {} /\ LiftedFrom(got.deb)
    /\ phase = "done" /\ Wanted # {} => \E deb \in Debs : Pinned(deb) /\ LiftedFrom(deb)

Early == {"clone", "cloning", "link", "host", "tools", "compile"}
Ended == {"done", "packed", "unpacked"}

(* A binary this attempt compiled.                                         *)
Made(file) ==
    \E tags \in {Absent, {"zlib"}, {"python", "zlib"}}, debug \in BOOLEAN,
       toolchain \in {GoPin(version), Absent} :
        file = [from |-> "build", version |-> version, go |-> toolchain,
                tags |-> tags, debug |-> debug]

(* The attempt, step by step.                                              *)
Compiling ==
    /\ step \in Early \union {"extract"} \union Ended => version \in Versions
    /\ step \in {"link", "host", "tools", "compile", "extract"} \union Ended =>
          source = version
    /\ step \in {"tools", "compile"} =>
          go \in {GoPin(source), Absent} /\ todo \subseteq builtFor(os)
    /\ step \in {"extract"} \union Ended => todo = {}
    /\ step \in {"tools", "compile", "extract"} \union Ended =>
          \A name \in builtFor(os) \ todo : Made(bin[name])
    /\ step \in Early => phase = "idle"
    /\ step \in Ended => phase = "done"

(* A file that was compiled, in this attempt or another.                   *)
Toolchained ==
    \A name \in builtFor(os) :
        bin[name] \notin {Missing, Partial} =>
            bin[name].go \in {GoPin(bin[name].version), Absent}

Gate ==
    step = "packed" =>
        \A name \in baseBinaries(os) \union probeBinaries(os) : excludedTagIsAbsent(name)

(* The extraction holds downloads only while it is between them and its    *)
(* end, and is where the attempt says it is.                               *)
Sequenced ==
    /\ got # Absent => phase \in Proved \union {"fetched"}
    /\ step = "idle" => phase = "idle"
    /\ step = "failed" => phase \in {"idle", "failed"}
    /\ step = "extract" => phase \notin Lift!Ends \union {"idle"}

IInv == TypeOK /\ Extraction /\ Compiling /\ Sequenced /\ Toolchained /\ Gate

-----------------------------------------------------------------------------
(* The two halves write different names.                                   *)

LEMMA Apart ==
    /\ builtFor(os) \intersect Wanted = {}
    /\ builtFor(os) \subseteq Names /\ Wanted \subseteq Names
BY DEF Wanted, builtFor, extractedFor, binariesFor

(* The extraction's table is the build's.                                  *)
LEMMA SameTable ==
    /\ Lift!Names = Names
    /\ Lift!WantedBinaries = Wanted
    /\ Lift!WantsObjects <=> "probe" \in Wanted
<1>1. Lift!BINARIES = BINARIES
  BY DEF Lift!BINARIES, BINARIES, Lift!Systems, Systems
<1>2. Lift!Names = Names
  BY <1>1 DEF Lift!Names, Names
<1>3. Lift!WantedBinaries = Wanted
  BY <1>1, <1>2 DEF Lift!WantedBinaries, Lift!extractedFor, Lift!binariesFor, Lift!sourceOf,
     Wanted, extractedFor, binariesFor, sourceOf
<1> QED
  BY <1>2, <1>3 DEF Lift!WantsObjects

LEMMA EverySource ==
    ASSUME NEW name \in binariesFor(os)
    PROVE  /\ sourceOf(name, os) \in {"build", "release"}
           /\ name \in builtFor(os) => sourceOf(name, os) = "build"
           /\ name \in Wanted => sourceOf(name, os) = "release"
           /\ name \in builtFor(os) \union Wanted
           /\ name \in baseBinaries(os) \union probeBinaries(os)
<1>1. name \in Names
  BY DEF binariesFor
<1>2. BINARIES[name].from \in {"build", "release"}
  <2>1. Names = {"agent", "trace", "probe", "process", "security"}
    BY DEF Names, BINARIES
  <2>2. BINARIES["agent"].from = "build" /\ BINARIES["trace"].from = "build"
    BY DEF BINARIES
  <2>3. BINARIES["probe"].from = "release" /\ BINARIES["process"].from = "release"
        /\ BINARIES["security"].from = "release"
    BY DEF BINARIES
  <2> QED
    BY <1>1, <2>1, <2>2, <2>3
<1>3. sourceOf(name, os) \in {"build", "release"}
  BY <1>2 DEF sourceOf
<1> QED
  BY <1>3 DEF Wanted, builtFor, extractedFor, baseBinaries, probeBinaries

LEMMA InitInv == Init => IInv
<1> SUFFICES ASSUME Init PROVE IInv
  OBVIOUS
<1> USE DEF Init, Lift!Init
<1>1. Lift!TypeOK
  <2>1. os \in Targets /\ pin \in Lift!PinsOf(os) /\ phase = "idle" /\ left = {}
    OBVIOUS
  <2>2. /\ scratch.deb = Missing /\ scratch.data = Missing
        /\ scratch.files = [name \in Lift!Names |-> Missing]
        /\ scratch.objects = [object \in Objects |-> Missing]
    BY DEF Lift!Nothing, Lift!NoObject
  <2>3. /\ DOMAIN bin = Lift!Names
        /\ share = [object \in Objects |-> Missing]
    BY DEF Lift!Nothing, Lift!NoObject
  <2>4. got = Absent /\ tries \in 0 .. Attempts
    BY BuildAssumption
  <2> QED
    BY <2>1, <2>2, <2>3, <2>4 DEF Lift!TypeOK, Lift!Phases
<1>2. TypeOK
  BY <1>1 DEF TypeOK, Over
<1>3. Extraction
  BY DEF Extraction, Proved
<1>4. Compiling
  BY DEF Compiling, Early, Ended
<1>5. Sequenced
  BY DEF Sequenced
<1>6. Toolchained /\ Gate
  <2>1. \A name \in builtFor(os) : bin[name] = Missing
    BY Apart, SameTable DEF Lift!Nothing
  <2> QED
    BY <2>1 DEF Toolchained, Gate
<1> QED
  BY <1>2, <1>3, <1>4, <1>5, <1>6 DEF IInv

-----------------------------------------------------------------------------
(* The extraction.                                                         *)

(* What the extraction may do to the rest of the tree.                     *)
LEMMA ExtractKeeps ==
    ASSUME Lift!TypeOK, Extraction, Lift!Extract
    PROVE  /\ os' = os /\ pin' = pin /\ tries' = tries /\ phase' # "idle"
           /\ DOMAIN bin' = Names
           /\ \A name \in builtFor(os) : bin'[name] = bin[name]
<1> USE DEF Lift!Fail, Lift!disk, Lift!Ends
<1>1. os' = os /\ pin' = pin /\ tries' = tries /\ phase' # "idle"
  BY DEF Lift!Extract, Lift!Called, Lift!FetchFails, Lift!Downloads, Lift!Fetched,
     Lift!Verified, Lift!Refused, Lift!DebWritten, Lift!NotReadable, Lift!DataWritten,
     Lift!Unpacked, Lift!UnpackFails, Lift!Copied, Lift!ObjectsCopied, Lift!Cleared,
     Lift!Killed
<1>2. DOMAIN bin = Names
  BY SameTable DEF Lift!TypeOK
<1>3. CASE UNCHANGED bin
  BY <1>1, <1>2, <1>3
<1>4. ASSUME NEW name \in left, NEW file, bin' = [bin EXCEPT ![name] = file]
      PROVE  DOMAIN bin' = Names /\ \A other \in builtFor(os) : bin'[other] = bin[other]
  <2>1. name \in Wanted
    BY DEF Extraction
  <2> QED
    BY <1>2, <1>4, <2>1, Apart
<1>5. CASE \E name \in Lift!Names : Lift!Copied(name)
  BY <1>1, <1>4, <1>5 DEF Lift!Copied
<1>6. CASE Lift!Killed
  BY <1>1, <1>2, <1>4, <1>6 DEF Lift!Killed
<1> QED
  BY <1>3, <1>5, <1>6 DEF Lift!Extract, Lift!Called, Lift!FetchFails, Lift!Downloads,
     Lift!Fetched, Lift!Verified, Lift!Refused, Lift!DebWritten, Lift!NotReadable,
     Lift!DataWritten, Lift!Unpacked, Lift!UnpackFails, Lift!ObjectsCopied, Lift!Cleared

(* What a verdict of ok says of the bytes.                                 *)
LEMMA VerifiedIsPinned ==
    ASSUME Lift!VerifyRelease(pin, got).ok
    PROVE  Sha256(got.deb) = pin.sha256 /\ SizeOf(got.deb) = pin.size
<1>1. "bytes" \notin Lift!Failures(pin, got)
  BY DEF Lift!VerifyRelease
<1>2. Lift!Holds("bytes", pin, got)
  BY <1>1 DEF Lift!Failures, Lift!Steps
<1> QED
  BY <1>2 DEF Lift!Holds

LEMMA ExtractStep ==
    ASSUME Lift!TypeOK, Extraction, Lift!Extract
    PROVE  Extraction'
<1>0. os' = os /\ pin' = pin /\ Wanted' = Wanted /\ Lift!WantedBinaries = Wanted
  BY ExtractKeeps, SameTable DEF Wanted
<1>1. /\ DOMAIN bin = Names /\ Wanted \subseteq Names
      /\ DOMAIN scratch.files = Names /\ DOMAIN scratch.objects = Objects
  BY Apart, SameTable DEF Lift!TypeOK
<1>2. /\ left \subseteq Wanted /\ \A deb \in Debs : ObjectsIn(deb) \subseteq Objects
  BY BuildAssumption DEF Extraction
<1> USE <1>0, <1>1, <1>2 DEF Extraction, Proved, Pinned
<1>3. CASE Lift!Called
  BY <1>3 DEF Lift!Called, Lift!disk
<1>4. CASE phase' = "failed" /\ left' = left
  BY <1>4
<1>5. CASE Lift!Downloads
  BY <1>5 DEF Lift!Downloads, Lift!Fetched, Lift!disk
<1>6. CASE Lift!Verified
  BY <1>6, VerifiedIsPinned DEF Lift!Verified, Lift!disk
<1>7. CASE Lift!DebWritten
  BY <1>7 DEF Lift!DebWritten
<1>8. CASE Lift!DataWritten
  BY <1>8 DEF Lift!DataWritten
<1>9. CASE Lift!Unpacked
  <2>1. /\ phase = "unpacking" /\ phase' = "copying" /\ left' = Wanted
        /\ got' = got /\ scratch.data = got.deb /\ Pinned(got.deb)
    BY <1>9 DEF Lift!Unpacked
  <2>2. "files" \in DOMAIN scratch /\ "objects" \in DOMAIN scratch
    BY DEF Lift!TypeOK
  <2>3. scratch'.files =
          [name \in Names |-> IF name \in Wanted THEN got.deb ELSE scratch.files[name]]
    BY <1>9, <2>1, <2>2, SameTable DEF Lift!Unpacked
  <2>4. "probe" \in Wanted => scratch'.objects = Lift!Over(scratch.objects, got.deb)
    BY <1>9, <2>1, <2>2, SameTable DEF Lift!Unpacked
  <2>5. UnpackedFrom(got.deb)'
    BY <2>1, <2>3, <2>4 DEF UnpackedFrom, Lift!Over
  <2> QED
    BY <2>1, <2>5
<1>10. CASE \E name \in Lift!Names : Lift!Copied(name)
  BY <1>10 DEF Lift!Copied, UnpackedFrom
<1>11. CASE Lift!ObjectsCopied
  <2>1. /\ phase = "copying" /\ phase' = "clearing" /\ left = {} /\ left' = {}
        /\ got' = got /\ bin' = bin /\ scratch' = scratch /\ Pinned(got.deb)
    BY <1>11 DEF Lift!ObjectsCopied
  <2>2. ASSUME "probe" \in Wanted, NEW object \in ObjectsIn(got.deb)
        PROVE  share'[object] = got.deb
    <3>1. scratch.objects[object] = got.deb /\ got.deb # Missing /\ object \in Objects
      BY <2>1, <2>2, BuildAssumption DEF UnpackedFrom
    <3>2. share' = [o \in Objects |-> IF scratch.objects[o] # Missing
                                      THEN scratch.objects[o] ELSE share[o]]
      BY <1>11, <2>2, SameTable DEF Lift!ObjectsCopied
    <3> QED
      BY <3>1, <3>2
  <2>3. LiftedFrom(got.deb)'
    BY <2>1, <2>2 DEF LiftedFrom
  <2>4. UnpackedFrom(got.deb)'
    BY <2>1 DEF UnpackedFrom
  <2> QED
    BY <2>1, <2>3, <2>4
<1>12. CASE Lift!Cleared
  BY <1>12 DEF Lift!Cleared, LiftedFrom
<1>13. Lift!FetchFails \/ Lift!Refused \/ Lift!NotReadable \/ Lift!Killed
           \/ (\E some \in SUBSET Lift!WantedBinaries : Lift!UnpackFails(some))
         => phase' = "failed" /\ left' = left
  BY DEF Lift!FetchFails, Lift!Refused, Lift!NotReadable, Lift!Killed, Lift!UnpackFails,
     Lift!Fail
<1> QED
  BY <1>3, <1>4, <1>5, <1>6, <1>7, <1>8, <1>9, <1>10, <1>11, <1>12, <1>13
     DEF Lift!Extract

LEMMA ExtractTypes ==
    ASSUME Lift!TypeOK, Extraction, Lift!Extract
    PROVE  Lift!TypeOK'
<1>0. os' = os /\ pin' = pin /\ tries' = tries /\ DOMAIN bin' = Lift!Names
  BY ExtractKeeps, SameTable
<1>1. phase' \in Lift!Phases /\ left' \subseteq Lift!Names
  <2>1. Wanted \subseteq Lift!Names
    BY Apart, SameTable
  <2> QED
    BY <2>1, SameTable DEF Lift!TypeOK, Lift!Phases, Lift!Ends, Lift!Fail, Lift!Extract,
       Lift!Called, Lift!FetchFails, Lift!Downloads, Lift!Fetched, Lift!Verified,
       Lift!Refused, Lift!DebWritten, Lift!NotReadable, Lift!DataWritten, Lift!Unpacked,
       Lift!UnpackFails, Lift!Copied, Lift!ObjectsCopied, Lift!Cleared, Lift!Killed
<1>2. got' # Absent => got'.deb \in Debs
  BY DEF Lift!TypeOK, Lift!Fail, Lift!Extract, Lift!Called, Lift!FetchFails,
     Lift!Downloads, Lift!Fetched, Lift!Verified, Lift!Refused, Lift!DebWritten,
     Lift!NotReadable, Lift!DataWritten, Lift!Unpacked, Lift!UnpackFails, Lift!Copied,
     Lift!ObjectsCopied, Lift!Cleared, Lift!Killed
<1>3. scratch' \in [deb : Debs \union {Missing}, data : Debs \union {Missing},
                    files : [Lift!Names -> Debs \union {Missing}],
                    objects : [Objects -> Debs \union {Missing}]]
  <2> USE DEF Lift!TypeOK
  <2>1. CASE UNCHANGED scratch
    BY <2>1
  <2>2. CASE Lift!DebWritten \/ Lift!DataWritten
    BY <2>2 DEF Lift!DebWritten, Lift!DataWritten, Extraction, Proved, Pinned
  <2>3. CASE Lift!Unpacked
    BY <2>3 DEF Lift!Unpacked, Lift!Over
  <2>4. CASE \E some \in SUBSET Lift!WantedBinaries : Lift!UnpackFails(some)
    BY <2>4 DEF Lift!UnpackFails
  <2>5. CASE Lift!Cleared
    BY <2>5 DEF Lift!Cleared
  <2> QED
    BY <2>1, <2>2, <2>3, <2>4, <2>5 DEF Lift!Extract, Lift!Called, Lift!FetchFails,
       Lift!Downloads, Lift!Fetched, Lift!Verified, Lift!Refused, Lift!NotReadable,
       Lift!Copied, Lift!ObjectsCopied, Lift!Killed, Lift!disk
<1>4. share' \in [Objects -> Debs \union {Missing, Partial}]
  <2>1. CASE UNCHANGED share
    BY <2>1 DEF Lift!TypeOK
  <2>2. CASE Lift!ObjectsCopied
    BY <2>2 DEF Lift!ObjectsCopied, Lift!TypeOK
  <2>3. CASE Lift!Killed
    BY <2>3 DEF Lift!Killed, Lift!TypeOK
  <2> QED
    BY <2>1, <2>2, <2>3 DEF Lift!Extract, Lift!Called, Lift!FetchFails, Lift!Downloads,
       Lift!Fetched, Lift!Verified, Lift!Refused, Lift!DebWritten, Lift!NotReadable,
       Lift!DataWritten, Lift!Unpacked, Lift!UnpackFails, Lift!Copied, Lift!Cleared,
       Lift!disk
<1> QED
  BY <1>0, <1>1, <1>2, <1>3, <1>4 DEF Lift!TypeOK

-----------------------------------------------------------------------------
(* The attempt.                                                            *)

(* A request resolves a release of the repository.                         *)
LEMMA RequestResolves ==
    ASSUME NEW option \in Versions \union {Absent}, NEW file \in Versions \union {Absent}
    PROVE  Resolved(option, file) \in Versions
BY BuildAssumption DEF Resolved

(* A step of the compiling half readies the host, installs the tools or    *)
(* leaves one binary, whether its command answered or was killed.          *)
LEMMA CompileLeaves ==
    ASSUME Compile \/ Swallowed
    PROVE  HostReady \/ ToolsInstalled
             \/ \E name \in Names, debug \in BOOLEAN : Leaves(name, debug)
BY DEF Compile, Prepared, Built, Swallowed

LEMMA LiftTypeStep ==
    ASSUME Lift!TypeOK, Extraction, [Next]_vars
    PROVE  Lift!TypeOK'
<1>1. ASSUME NEW option, NEW file, NEW p \in Lift!PinsOf(os), NEW flags,
             Request(option, file, p, flags)
      PROVE  Lift!TypeOK'
  <2>1. tries' \in 0 .. Attempts
    BY <1>1, BuildAssumption DEF Request, Lift!TypeOK
  <2>2. /\ os' = os /\ pin' = p /\ phase' = "idle" /\ left' = {}
        /\ got' = Absent /\ scratch' = scratch /\ bin' = bin /\ share' = share
    BY <1>1 DEF Request, disk
  <2> QED
    BY <2>1, <2>2 DEF Lift!TypeOK, Lift!Phases, Lift!PinsOf
<1>2. CASE Extracting
  BY <1>2, ExtractTypes DEF Extracting
<1>3. CASE UNCHANGED lift
  BY <1>3 DEF lift, disk, Lift!TypeOK, Lift!PinsOf
<1>4. CASE UNCHANGED <<os, pin, got, scratch, share, left, tries>>
           /\ phase' \in Lift!Phases /\ DOMAIN bin' = DOMAIN bin
  BY <1>4 DEF Lift!TypeOK, Lift!PinsOf
<1>5. CASE Lifting
  BY <1>4, <1>5 DEF Lifting, Lift!Phases, disk
<1>6. CASE \E name \in Names, debug \in BOOLEAN : Leaves(name, debug)
  BY <1>4, <1>6 DEF Leaves, Lift!TypeOK
<1>7. CASE Fails
  BY <1>4, <1>7 DEF Fails, Lift!TypeOK
<1> QED
  BY <1>1, <1>2, <1>3, <1>5, <1>6, <1>7, CompileLeaves DEF Next, vars, SourceRemoved,
     Cloned, Linked, HostReady, ToolsInstalled, Hangs, TimedOut, Packed

LEMMA TypeStep ==
    ASSUME IInv, [Next]_vars
    PROVE  TypeOK'
<1> USE DEF IInv, TypeOK
<1>1. step' \in Over \union Commands \union {"clone", "cloning", "link", "extract"}
  BY CompileLeaves DEF Next, vars, attempt, Request, SourceRemoved, Cloned, Linked,
     HostReady, ToolsInstalled, Leaves, Hangs, TimedOut, Fails, Lifting, Extracting, Packed,
     Goes, Throws, Over, Commands, Lift!Ends
<1>2. hung' \in BOOLEAN /\ link' \in BOOLEAN
  BY DEF Next, vars, attempt, tree, Request, SourceRemoved, Cloned, Linked, Compile,
     Prepared, HostReady, ToolsInstalled, Built, Leaves, Hangs, TimedOut, Swallowed,
     Fails, Lifting, Extracting, Packed, Goes, Throws
<1>3. version' \in Versions \union {Absent}
  BY RequestResolves, CompileLeaves DEF Next, vars, attempt, Request, SourceRemoved,
     Cloned, Linked, HostReady, ToolsInstalled, Leaves, Hangs, TimedOut, Fails, Lifting,
     Extracting, Packed
<1>4. source' \in Versions \union {Missing, Partial}
  <2>1. Cloned => version \in Versions
    BY DEF Cloned, Goes, Compiling, Early
  <2> QED
    BY <2>1, CompileLeaves DEF Next, vars, tree, Request, SourceRemoved, Cloned, Linked,
       HostReady, ToolsInstalled, Leaves, Hangs, TimedOut, Fails, Lifting,
       Extracting, Packed
<1>5. todo' \subseteq Names
  <2>1. builtFor(os) \subseteq Names
    BY Apart
  <2> QED
    BY <2>1, CompileLeaves DEF Next, vars, tree, Request, SourceRemoved, Cloned, Linked,
       HostReady, ToolsInstalled, Leaves, Hangs, TimedOut, Fails, Lifting,
       Extracting, Packed, ToBuild
<1>6. go' \in {GoPin(v) : v \in Versions} \union {Absent}
  <2>1. HostReady => source \in Versions
    BY DEF HostReady, Compiling, Early
  <2> QED
    BY <2>1, CompileLeaves DEF Next, vars, tree, Request, SourceRemoved, Cloned, Linked,
       HostReady, ToolsInstalled, Leaves, Hangs, TimedOut, Fails, Lifting,
       Extracting, Packed, Toolchain
<1>7. extra' \in Overrides \union {{}}
  BY CompileLeaves DEF Next, vars, attempt, Request, SourceRemoved, Cloned, Linked,
     HostReady, ToolsInstalled, Leaves, Hangs, TimedOut, Fails, Lifting, Extracting, Packed
<1> QED
  BY <1>1, <1>2, <1>3, <1>4, <1>5, <1>6, <1>7, LiftTypeStep

LEMMA ExtractionStep ==
    ASSUME IInv, [Next]_vars
    PROVE  Extraction'
<1> USE DEF IInv
<1>1. ASSUME NEW option, NEW file, NEW p, NEW flags, Request(option, file, p, flags)
      PROVE  Extraction'
  BY <1>1 DEF Request, Extraction, Proved
<1>2. CASE Extracting
  BY <1>2, ExtractStep DEF Extracting, TypeOK
<1>3. CASE UNCHANGED lift
  BY <1>3 DEF lift, disk, Extraction, Proved, Pinned, LiftedFrom, UnpackedFrom, Wanted
<1>4. CASE Lifting
  BY <1>4 DEF Lifting, Extraction, Proved, Wanted
<1>5. CASE step \in Early /\ UNCHANGED <<os, phase, left>>
  BY <1>5 DEF Compiling, Extraction, Proved, Wanted
<1>6. CASE \E name \in Names, debug \in BOOLEAN : Leaves(name, debug)
  BY <1>5, <1>6 DEF Leaves, Early
<1>7. CASE Fails
  BY <1>5, <1>7 DEF Fails, Commands, Early
<1> QED
  BY <1>1, <1>2, <1>3, <1>4, <1>6, <1>7, CompileLeaves DEF Next, vars, SourceRemoved,
     Cloned, Linked, HostReady, ToolsInstalled, Hangs, TimedOut, Packed

(* What compiling one binary leaves under its name.                        *)
LEMMA CompiledIsMade ==
    ASSUME Compiling, NEW name \in Names, NEW debug \in BOOLEAN, Leaves(name, debug)
    PROVE  /\ Made(Compiled(name, debug)) /\ name \in builtFor(os)
           /\ Compiled(name, debug).go \in {GoPin(Compiled(name, debug).version), Absent}
           /\ version \in Versions
<1>1. /\ source = version /\ go \in {GoPin(source), Absent} /\ name \in builtFor(os)
      /\ version \in Versions
  BY DEF Leaves, Compiling, Early
<1>2. Tags(name) \in {Absent, {"zlib"}, {"python", "zlib"}}
  BY DEF Tags
<1> QED
  BY <1>1, <1>2 DEF Compiled, Made

LEMMA MadeIsAFile ==
    ASSUME version \in Versions, NEW file, Made(file)
    PROVE  /\ file \notin {Missing, Partial}
           /\ file.from = "build" /\ file.version = version
BY FileAssumption DEF Made

LEMMA CompilingStep ==
    ASSUME IInv, [Next]_vars
    PROVE  Compiling'
<1> USE DEF IInv, Early, Ended
<1>1. ASSUME NEW option \in Versions \union {Absent}, NEW file \in Versions \union {Absent},
             NEW p, NEW flags, Request(option, file, p, flags)
      PROVE  Compiling'
  BY <1>1, RequestResolves DEF Request, Compiling
<1>2. CASE step' = "failed"
  BY <1>2 DEF Compiling
<1>3. CASE Extracting
  <2>1. /\ step = "extract" /\ UNCHANGED <<version, source, link, go, todo>>
        /\ step' \in {"extract", "done", "failed"}
        /\ step' = "done" => phase' = "done"
    BY <1>3 DEF Extracting, tree, Lift!Ends
  <2>2. os' = os /\ \A name \in builtFor(os) : bin'[name] = bin[name]
    BY <1>3, ExtractKeeps DEF Extracting, TypeOK
  <2>3. builtFor(os)' = builtFor(os)
    BY <2>2 DEF builtFor, binariesFor, sourceOf
  <2>4. /\ version \in Versions /\ source = version /\ todo = {}
        /\ \A name \in builtFor(os) : Made(bin'[name])
    BY <2>1, <2>2 DEF Compiling
  <2>5. ASSUME NEW name \in builtFor(os)
        PROVE  Made(bin[name])'
    BY <2>1, <2>4 DEF Made
  <2> QED
    BY <2>1, <2>3, <2>4, <2>5 DEF Compiling
<1>4. CASE \E name \in Names, debug \in BOOLEAN : Leaves(name, debug)
  <2> SUFFICES ASSUME NEW name \in Names, NEW debug \in BOOLEAN, Leaves(name, debug)
               PROVE  Compiling'
    BY <1>4
  <2>1. /\ step = "compile" /\ step' = "compile" /\ name \in todo
        /\ todo' = todo \ {name} /\ bin' = [bin EXCEPT ![name] = Compiled(name, debug)]
        /\ UNCHANGED <<os, phase, version, source, go>>
    BY DEF Leaves
  <2>2. DOMAIN bin = Names /\ builtFor(os)' = builtFor(os) /\ builtFor(os) \subseteq Names
    BY <2>1, SameTable, Apart DEF TypeOK, Lift!TypeOK
  <2>3. \A other \in builtFor(os) \ todo' : Made(bin'[other])
    BY <2>1, <2>2, CompiledIsMade DEF Compiling
  <2>4. \A file : Made(file)' <=> Made(file)
    BY <2>1 DEF Made
  <2> QED
    BY <2>1, <2>2, <2>3, <2>4 DEF Compiling, Made
<1>5. CASE HostReady \/ ToolsInstalled
  BY <1>5 DEF HostReady, ToolsInstalled, Goes, Toolchain, ToBuild, Compiling, lift, disk,
     Made, tree
<1>6. CASE Lifting
  BY <1>6 DEF Lifting, Goes, Compiling, disk, Made, tree
<1>7. CASE SourceRemoved \/ Cloned \/ Linked
  BY <1>7 DEF SourceRemoved, Cloned, Linked, Goes, Compiling, lift
<1>8. CASE UNCHANGED <<os, phase, bin, version, source, go, todo>>
           /\ (step' = step \/ (step \in Ended /\ step' \in Ended))
  BY <1>8 DEF Compiling, Made
<1>9. Hangs \/ Packed \/ UNCHANGED vars
      => /\ UNCHANGED <<os, phase, bin, version, source, go, todo>>
         /\ step' = step \/ (step \in Ended /\ step' \in Ended)
  BY DEF Hangs, Packed, vars, lift, disk, attempt, tree
<1>10. TimedOut \/ Fails => step' = "failed"
  BY DEF TimedOut, Fails, Throws
<1> QED
  BY <1>1, <1>2, <1>3, <1>4, <1>5, <1>6, <1>7, <1>8, <1>9, <1>10,
     CompileLeaves DEF Next

LEMMA SequencedStep ==
    ASSUME IInv, [Next]_vars
    PROVE  Sequenced'
<1> USE DEF IInv, Sequenced, Proved
<1>1. ASSUME NEW option, NEW file, NEW p, NEW flags, Request(option, file, p, flags)
      PROVE  Sequenced'
  BY <1>1 DEF Request
<1>2. CASE Extracting
  <2>1. /\ step = "extract" /\ phase \notin Lift!Ends \union {"idle"}
        /\ step' = IF phase' \in Lift!Ends THEN phase' ELSE step
    BY <1>2 DEF Extracting
  <2>2. phase' # "idle"
    BY <1>2, ExtractKeeps DEF Extracting, TypeOK
  <2>3. got' # Absent => phase' \in Proved \union {"fetched"}
    BY <1>2 DEF Extracting, Lift!Fail, Lift!Extract, Lift!Called, Lift!FetchFails,
       Lift!Downloads, Lift!Fetched, Lift!Verified, Lift!Refused, Lift!DebWritten,
       Lift!NotReadable, Lift!DataWritten, Lift!Unpacked, Lift!UnpackFails, Lift!Copied,
       Lift!ObjectsCopied, Lift!Cleared, Lift!Killed
  <2> QED
    BY <2>1, <2>2, <2>3 DEF Lift!Ends
<1>3. CASE Lifting
  BY <1>3 DEF Lifting, Goes, Compiling, Early, Lift!Ends
<1>4. CASE step \in Early /\ UNCHANGED <<phase, got>> /\ step' \in Early \union {"failed"}
  BY <1>4 DEF Compiling, Early
<1>5. CASE /\ step' = step \/ (step = "done" /\ step' \in Ended)
           /\ UNCHANGED <<phase, got>>
  BY <1>5 DEF Ended
<1> QED
  BY <1>1, <1>2, <1>3, <1>4, <1>5, CompileLeaves DEF Next, vars, lift, attempt,
     SourceRemoved, Cloned, Linked, HostReady, ToolsInstalled, Leaves, Hangs, TimedOut,
     Fails, Packed, Goes, Throws, Early, Ended, Commands, Budgeted

LEMMA ToolchainedStep ==
    ASSUME IInv, [Next]_vars
    PROVE  Toolchained'
<1> USE DEF IInv, Toolchained
<1>1. DOMAIN bin = Names /\ builtFor(os) \subseteq Names
  BY SameTable, Apart DEF TypeOK, Lift!TypeOK
<1>2. CASE UNCHANGED <<os, bin>>
  BY <1>2
<1>3. CASE Extracting
  BY <1>3, ExtractKeeps DEF Extracting, TypeOK
<1>4. CASE \E name \in Names, debug \in BOOLEAN : Leaves(name, debug)
  <2> SUFFICES ASSUME NEW name \in Names, NEW debug \in BOOLEAN, Leaves(name, debug)
               PROVE  Toolchained'
    BY <1>4
  <2>1. os' = os /\ bin' = [bin EXCEPT ![name] = Compiled(name, debug)]
    BY DEF Leaves
  <2> QED
    BY <1>1, <2>1, CompiledIsMade
<1>5. CASE Fails
  BY <1>1, <1>2, <1>5 DEF Fails
<1> QED
  BY <1>2, <1>3, <1>4, <1>5, CompileLeaves DEF Next, vars, lift, disk, Request,
     SourceRemoved, Cloned, Linked, HostReady, ToolsInstalled, Hangs, TimedOut, Lifting,
     Packed

LEMMA GateStep ==
    ASSUME IInv, [Next]_vars
    PROVE  Gate'
<1> SUFFICES ASSUME step' = "packed" PROVE Gate'
  BY DEF Gate
<1>1. Packed \/ (step = "packed" /\ UNCHANGED <<os, bin>>)
  BY CompileLeaves DEF Next, vars, lift, disk, attempt, Request, SourceRemoved, Cloned,
     Linked, HostReady, ToolsInstalled, Leaves, Hangs, TimedOut, Fails, Lifting,
     Extracting, Packed, Goes, Throws, Lift!Ends, Commands
<1>2. UNCHANGED <<os, bin>>
  BY <1>1 DEF Packed, lift, disk
<1>3. \A name \in baseBinaries(os) \union probeBinaries(os) : excludedTagIsAbsent(name)
  BY <1>1 DEF Packed, IInv, Gate
<1> QED
  BY <1>2, <1>3 DEF Gate, excludedTagIsAbsent

-----------------------------------------------------------------------------
(* The invariant and what follows from it.                                 *)

LEMMA Invariance == Spec => []IInv
<1>1. IInv /\ [Next]_vars => IInv'
  BY TypeStep, ExtractionStep, CompilingStep, SequencedStep,
     ToolchainedStep, GateStep DEF IInv
<1> QED
  BY <1>1, InitInv, PTL DEF Spec

(* Whatever an attempt that ended well is packed from is its own.          *)
LEMMA EndedIsWhole ==
    ASSUME IInv, step \in Ended
    PROVE  /\ \A name \in builtFor(os) :
                /\ bin[name] \notin {Missing, Partial}
                /\ bin[name].from = "build" /\ bin[name].version = version
           /\ \A name \in Wanted :
                /\ bin[name] \notin {Missing, Partial} /\ bin[name].from = "release"
           /\ phase = "done" /\ Lift!DoneIsThePin
<1>1. /\ version \in Versions /\ phase = "done"
      /\ \A name \in builtFor(os) : Made(bin[name])
  BY DEF IInv, Compiling, Ended
<1>2. CASE Wanted = {}
  BY <1>1, <1>2, MadeIsAFile, SameTable DEF Lift!DoneIsThePin
<1>3. CASE Wanted # {}
  <2>1. PICK deb \in Debs : Pinned(deb) /\ LiftedFrom(deb)
    BY <1>1, <1>3 DEF IInv, Extraction
  <2>2. \A name \in Wanted : /\ bin[name] \notin {Missing, Partial}
                             /\ bin[name].from = "release" /\ bin[name].deb = deb
    BY <2>1, FileAssumption DEF LiftedFrom, Lift!Lifted
  <2>3. Lift!DoneIsThePin
    BY <2>1, <2>2, SameTable DEF Lift!DoneIsThePin, Pinned, LiftedFrom
  <2> QED
    BY <1>1, <2>2, <2>3, MadeIsAFile
<1> QED
  BY <1>2, <1>3

(* Every variable has the shape the code gives it.                         *)
THEOREM BuildTypeCorrect == Spec => []TypeOK
<1>1. IInv => TypeOK
  BY DEF IInv
<1> QED
  BY <1>1, Invariance, PTL

(* However many attempts, for other versions and pins or killed anywhere,  *)
(* left files in bin/ and share/, a build that ends well leaves every      *)
(* binary of its own version and its own pin (agent.js:46-60).             *)
THEOREM AWholeBuild == Spec => []DoneIsWhole
<1>1. IInv => DoneIsWhole
  BY EndedIsWhole DEF DoneIsWhole, Ended
<1> QED
  BY <1>1, Invariance, PTL

(* No compiled binary stays in bin/ that a toolchain built which is neither *)
(* the one its own release pins nor the runner's (compile.js:107-125).      *)
THEOREM OneToolchain == Spec => []BuiltByItsToolchain
<1>1. IInv => BuiltByItsToolchain
  BY DEF IInv, Toolchained, BuiltByItsToolchain
<1> QED
  BY <1>1, Invariance, PTL

(* What the gate lets through has its core agent's tags on record, Python   *)
(* not among them, and every binary from the half that is listed for it     *)
(* (binary-kit.config.js:28-41 and :48-92).                                 *)
THEOREM ThePackageIsAsGated == Spec => []PackedIsAsGated
<1>1. IInv => PackedIsAsGated
  <2> SUFFICES ASSUME IInv, step = "packed", NEW name \in binariesFor(os)
               PROVE  /\ bin[name].from = sourceOf(name, os)
                      /\ name = "agent" =>
                           bin[name].tags # Absent /\ "python" \notin bin[name].tags
    BY DEF PackedIsAsGated
  <2>1. bin[name].from = sourceOf(name, os)
    BY EverySource, EndedIsWhole DEF Ended
  <2>2. excludedTagIsAbsent(name)
    BY EverySource DEF IInv, Gate
  <2>3. BINARIES["agent"].tag = "python"
    BY DEF BINARIES
  <2> QED
    BY <2>1, <2>2, <2>3 DEF excludedTagIsAbsent
<1> QED
  BY <1>1, Invariance, PTL

-----------------------------------------------------------------------------
(* The build does to the lifted half what the extraction alone would.      *)

(* Both instances judge and lift alike.                                    *)
LEMMA SameExtraction ==
    /\ Lifts!Names = Names /\ Lifts!WantedBinaries = Wanted
    /\ Lifts!WantsObjects <=> "probe" \in Wanted
    /\ Lifts!PinsOf(os) = Lift!PinsOf(os) /\ Lifts!Ends = Lift!Ends
    /\ \A p, downloads :
         Lifts!VerifyRelease(p, downloads) = Lift!VerifyRelease(p, downloads)
<1>1. Lifts!BINARIES = BINARIES
  BY DEF Lifts!BINARIES, BINARIES, Lifts!Systems, Systems
<1>2. Lifts!Names = Names
  BY <1>1 DEF Lifts!Names, Names
<1>3. Lifts!WantedBinaries = Wanted
  BY <1>1, <1>2 DEF Lifts!WantedBinaries, Lifts!extractedFor, Lifts!binariesFor,
     Lifts!sourceOf, Wanted, extractedFor, binariesFor, sourceOf
<1>4. \A lines, path : Lifts!HashFromRelease(lines, path) = Lift!HashFromRelease(lines, path)
  BY DEF Lifts!HashFromRelease, Lift!HashFromRelease
<1>5. \A stanzas, path :
        Lifts!HashFromPackages(stanzas, path) = Lift!HashFromPackages(stanzas, path)
  BY DEF Lifts!HashFromPackages, Lift!HashFromPackages, Lifts!Min, Lift!Min
<1>6. \A part, p, downloads :
        Lifts!Holds(part, p, downloads) = Lift!Holds(part, p, downloads)
  BY <1>4, <1>5 DEF Lifts!Holds, Lift!Holds, Lifts!ReadGpgStatus, Lift!ReadGpgStatus,
     Lifts!IndexPath, Lift!IndexPath
<1>7. \A p, downloads : Lifts!VerifyRelease(p, downloads) = Lift!VerifyRelease(p, downloads)
  BY <1>6 DEF Lifts!VerifyRelease, Lift!VerifyRelease, Lifts!Failures, Lift!Failures,
     Lifts!Steps, Lift!Steps
<1> QED
  BY <1>2, <1>3, <1>7 DEF Lifts!WantsObjects, Lifts!PinsOf, Lift!PinsOf, Lifts!Ends,
     Lift!Ends

LEMMA InitLifts == Init => Lifts!Init
<1> SUFFICES ASSUME Init PROVE Lifts!Init
  OBVIOUS
<1> USE DEF Init, Lift!Init
<1>1. calledSince = "idle"
  BY DEF calledSince, Commands
<1>2. liftedHalf = Lifts!Nothing
  BY Apart, SameTable, SameExtraction DEF liftedHalf, Lifts!Nothing, Lift!Nothing, Wanted
<1>3. scratch = [deb |-> Missing, data |-> Missing, files |-> Lifts!Nothing,
                 objects |-> Lifts!NoObject] /\ share = Lifts!NoObject
  BY SameTable, SameExtraction DEF Lifts!Nothing, Lifts!NoObject, Lift!Nothing, Lift!NoObject
<1> QED
  BY <1>1, <1>2, <1>3, SameExtraction DEF Lifts!Init

(* A step of the extraction is the same step of the half it lifts.         *)
LEMMA ExtractingLifts ==
    ASSUME IInv, Extracting
    PROVE  Lifts!Extract
<1>1. /\ step = "extract" /\ calledSince = phase /\ calledSince' = phase'
      /\ phase \notin Lift!Ends \union {"idle"} /\ Lift!Extract
  BY DEF Extracting, calledSince, Commands, IInv, Sequenced, Lift!Ends
<1>2. os' = os /\ DOMAIN bin = Names /\ DOMAIN bin' = Names /\ left \subseteq Wanted
      /\ Wanted \subseteq Names
  BY <1>1, Apart, SameTable, ExtractKeeps DEF IInv, TypeOK, Extraction, Lift!TypeOK
<1>3. bin' = bin => liftedHalf' = liftedHalf
  BY <1>2 DEF liftedHalf, extractedFor, binariesFor, sourceOf
<1>4. ASSUME NEW name \in left, NEW file, bin' = [bin EXCEPT ![name] = file]
      PROVE  liftedHalf' = [liftedHalf EXCEPT ![name] = file]
  BY <1>2, <1>4 DEF liftedHalf, Wanted
<1> USE DEF Lift!Fail, Lifts!Fail, Lift!disk, Lifts!disk
<1>5. CASE Lift!Called \/ Lift!FetchFails \/ Lift!Downloads \/ Lift!Verified \/ Lift!Refused
  BY <1>1, <1>3, <1>5, SameTable, SameExtraction DEF Lifts!Extract, Lift!Called, Lifts!Called,
     Lift!FetchFails, Lifts!FetchFails, Lift!Downloads, Lifts!Downloads, Lift!Fetched,
     Lifts!Fetched, Lift!Verified, Lifts!Verified, Lift!Refused, Lifts!Refused
<1>6. CASE Lift!DebWritten \/ Lift!NotReadable \/ Lift!DataWritten \/ Lift!Unpacked
           \/ (\E some \in SUBSET Lift!WantedBinaries : Lift!UnpackFails(some))
  BY <1>1, <1>3, <1>6, SameTable, SameExtraction DEF Lifts!Extract, Lift!DebWritten,
     Lifts!DebWritten, Lift!NotReadable, Lifts!NotReadable, Lift!DataWritten,
     Lifts!DataWritten, Lift!Unpacked, Lifts!Unpacked, Lift!Over, Lifts!Over,
     Lift!UnpackFails, Lifts!UnpackFails
<1>7. CASE \E name \in Lift!Names : Lift!Copied(name)
  BY <1>1, <1>4, <1>7, SameTable, SameExtraction DEF Lifts!Extract, Lift!Copied,
     Lifts!Copied, Lift!Lifted, Lifts!Lifted
<1>8. CASE Lift!ObjectsCopied \/ Lift!Cleared
  BY <1>1, <1>3, <1>8, SameTable, SameExtraction DEF Lifts!Extract, Lift!ObjectsCopied,
     Lifts!ObjectsCopied, Lift!Cleared, Lifts!Cleared
<1>9. CASE Lift!Killed
  BY <1>1, <1>3, <1>4, <1>9, SameTable, SameExtraction DEF Lifts!Extract, Lift!Killed,
     Lifts!Killed
<1> QED
  BY <1>1, <1>5, <1>6, <1>7, <1>8, <1>9 DEF Lift!Extract

(* Any other step is a request, a death before the extraction is called,   *)
(* or none of its business.                                                *)
LEMMA StepLifts ==
    ASSUME IInv, [Next]_vars
    PROVE  [Lifts!Next]_(Lifts!extract)
<1> USE DEF IInv
<1>1. ASSUME NEW option, NEW file, NEW p \in Lift!PinsOf(os), NEW flags,
             Request(option, file, p, flags)
      PROVE  Lifts!Attempt(p)
  <2>1. calledSince \in Lifts!Ends \union {"idle"} /\ calledSince' = "called"
    BY <1>1, SameExtraction DEF Request, Over, calledSince, Commands, Compiling, Sequenced,
       Ended, Lift!Ends
  <2>2. got = Absent
    BY <1>1 DEF Request, Over, Compiling, Sequenced, Ended, Proved
  <2>3. liftedHalf' = liftedHalf
    BY <1>1 DEF Request, disk, liftedHalf, extractedFor, binariesFor, sourceOf
  <2> QED
    BY <1>1, <2>1, <2>2, <2>3 DEF Request, disk, Lifts!Attempt, Lifts!disk
<1>2. CASE Extracting
  BY <1>2, ExtractingLifts DEF Lifts!Next
<1>3. CASE UNCHANGED <<os, pin, got, scratch, share, left, tries, liftedHalf, calledSince>>
  BY <1>3 DEF Lifts!extract, Lifts!disk
<1>4. CASE step \in Early /\ step' = "failed"
           /\ UNCHANGED <<os, pin, got, scratch, share, left, tries, liftedHalf>>
  <2>1. calledSince = "called" /\ calledSince' = "failed"
    BY <1>4 DEF calledSince, Early, Commands
  <2>2. got = Absent
    BY <1>4 DEF Compiling, Sequenced, Proved
  <2> QED
    BY <1>4, <2>1, <2>2 DEF Lifts!Next, Lifts!Extract, Lifts!Killed, Lifts!Fail, Lifts!Ends
<1>5. os' = os /\ bin' = bin => liftedHalf' = liftedHalf
  BY DEF liftedHalf, extractedFor, binariesFor, sourceOf
<1>6. ASSUME NEW name \in builtFor(os), NEW file, os' = os, bin' = [bin EXCEPT ![name] = file]
      PROVE  liftedHalf' = liftedHalf
  <2>1. name \notin extractedFor(os) /\ extractedFor(os)' = extractedFor(os)
    BY <1>6, Apart DEF Wanted, extractedFor, binariesFor, sourceOf
  <2>2. \A other \in extractedFor(os) : bin'[other] = bin[other]
    BY <1>6, <2>1
  <2> QED
    BY <2>1, <2>2 DEF liftedHalf
<1>7. CASE SourceRemoved \/ Cloned \/ Linked \/ HostReady \/ ToolsInstalled \/ Hangs
           \/ Lifting \/ Packed \/ UNCHANGED vars
  <2>1. calledSince' = calledSince
    BY <1>7 DEF SourceRemoved, Cloned, Linked, HostReady, ToolsInstalled, Hangs, Lifting,
       Packed, vars, lift, attempt, Goes, calledSince, Commands
  <2> QED
    BY <1>3, <1>5, <1>7, <2>1 DEF SourceRemoved, Cloned, Linked, HostReady, ToolsInstalled,
       Hangs, Lifting, Packed, vars, lift, disk
<1>8. CASE \E name \in Names, debug \in BOOLEAN : Leaves(name, debug)
  <2> SUFFICES ASSUME NEW name \in Names, NEW debug \in BOOLEAN, Leaves(name, debug)
               PROVE  [Lifts!Next]_(Lifts!extract)
    BY <1>8
  <2>1. liftedHalf' = liftedHalf
    BY <1>6, CompiledIsMade DEF Leaves
  <2>2. calledSince' = calledSince
    BY DEF Leaves, calledSince
  <2> QED
    BY <1>3, <2>1, <2>2 DEF Leaves
<1>9. CASE TimedOut
  BY <1>4, <1>5, <1>9 DEF TimedOut, Throws, Budgeted, Commands, Early, lift, disk
<1>10. CASE Fails
  <2>1. liftedHalf' = liftedHalf
    <3>1. CASE bin' = bin
      BY <1>5, <1>10, <3>1 DEF Fails
    <3>2. CASE step = "compile" /\ \E name \in todo : bin' = [bin EXCEPT ![name] = Partial]
      BY <1>6, <1>10, <3>2 DEF Fails, Compiling
    <3> QED
      BY <1>10, <3>1, <3>2 DEF Fails
  <2> QED
    BY <1>4, <1>10, <2>1 DEF Fails, Throws, Commands, Early
<1>11. CASE Next
  <2>1. CASE \E option, file \in Versions \union {Absent}, p \in Lift!PinsOf(os),
                flags \in Overrides : Request(option, file, p, flags)
    BY <1>1, <2>1, SameExtraction DEF Lifts!Next
  <2> QED
    BY <1>2, <1>7, <1>8, <1>9, <1>10, <1>11, <2>1, CompileLeaves DEF Next
<1> QED
  BY <1>7, <1>11

(* Whatever becomes of a build, what it does to the names it lifts, to the *)
(* objects and to the scratch directory is what attempts of the extraction *)
(* alone would have done (agent.js:46-60).                                 *)
THEOREM TheBuildImplementsTheExtraction == Spec => ImplementsExtraction
<1>1. IInv /\ [Next]_vars => [Lifts!Next]_(Lifts!extract)
  BY StepLifts
<1> QED
  BY <1>1, InitLifts, Invariance, PTL DEF Spec, ImplementsExtraction, Lifts!Spec

-----------------------------------------------------------------------------
(* So what ExtractProofs shows of the extraction holds of the build.       *)

Whole == INSTANCE ExtractProofs WITH phase <- calledSince, bin <- liftedHalf

(* The two instances of ExtractRelease say the same.                       *)
LEMMA SameInit == Lifts!Init <=> Whole!Init
BY DEF Lifts!Init, Whole!Init, Lifts!PinsOf, Whole!PinsOf, Lifts!Nothing, Whole!Nothing,
     Lifts!NoObject, Whole!NoObject, Lifts!Names, Whole!Names, Lifts!BINARIES,
     Whole!BINARIES, Lifts!Systems, Whole!Systems

LEMMA SameNext == Lifts!Next <=> Whole!Next
<1>1. Lifts!Extract <=> Whole!Extract
  BY DEF Lifts!Extract, Whole!Extract, Lifts!Called, Whole!Called, Lifts!FetchFails,
     Whole!FetchFails, Lifts!Downloads, Whole!Downloads, Lifts!Fetched, Whole!Fetched,
     Lifts!Verified, Whole!Verified, Lifts!Refused, Whole!Refused, Lifts!DebWritten,
     Whole!DebWritten, Lifts!NotReadable, Whole!NotReadable, Lifts!DataWritten,
     Whole!DataWritten, Lifts!Unpacked, Whole!Unpacked, Lifts!UnpackFails,
     Whole!UnpackFails, Lifts!Copied, Whole!Copied, Lifts!ObjectsCopied,
     Whole!ObjectsCopied, Lifts!Cleared, Whole!Cleared, Lifts!Killed, Whole!Killed,
     Lifts!Fail, Whole!Fail, Lifts!Ends, Whole!Ends, Lifts!Lifted, Whole!Lifted,
     Lifts!Over, Whole!Over, Lifts!disk, Whole!disk, Lifts!WantsObjects,
     Whole!WantsObjects, Lifts!WantedBinaries, Whole!WantedBinaries, Lifts!extractedFor,
     Whole!extractedFor, Lifts!binariesFor, Whole!binariesFor, Lifts!sourceOf,
     Whole!sourceOf, Lifts!Names, Whole!Names, Lifts!BINARIES, Whole!BINARIES,
     Lifts!Systems, Whole!Systems, Lifts!VerifyRelease, Whole!VerifyRelease,
     Lifts!Failures, Whole!Failures, Lifts!Steps, Whole!Steps, Lifts!Holds, Whole!Holds,
     Lifts!ReadGpgStatus, Whole!ReadGpgStatus, Lifts!IndexPath, Whole!IndexPath,
     Lifts!HashFromRelease, Whole!HashFromRelease, Lifts!HashFromPackages,
     Whole!HashFromPackages, Lifts!Min, Whole!Min
<1> QED
  BY <1>1 DEF Lifts!Next, Whole!Next, Lifts!Attempt, Whole!Attempt, Lifts!PinsOf, Whole!PinsOf,
     Lifts!Ends, Whole!Ends, Lifts!disk, Whole!disk

LEMMA SameProven == Lifts!Proven(pin, got) <=> Whole!Proven(pin, got)
BY DEF Lifts!Proven, Whole!Proven, Lifts!Lists, Whole!Lists, Lifts!Sha256Section,
     Whole!Sha256Section, Lifts!Indexes, Whole!Indexes, Lifts!IndexPath, Whole!IndexPath,
     Lifts!Entry, Whole!Entry

(* No step of a build, retried, timed out or killed anywhere, changes a    *)
(* lifted binary, an object or the scratch directory but while it holds    *)
(* downloads that prove the pinned package (extract.js:2 and :252).        *)
THEOREM TheBuildLiftsOnlyTheProven == Spec => Lifts!WritesOnlyTheProven
<1>1. /\ Lifts!extract = Whole!extract /\ Lifts!extract' = Whole!extract'
      /\ Lifts!disk = Whole!disk /\ Lifts!disk' = Whole!disk'
  BY DEF Lifts!extract, Whole!extract, Lifts!disk, Whole!disk
<1>2. IInv /\ [Next]_vars => [Whole!Next]_(Whole!extract)
  BY <1>1, StepLifts, SameNext
<1>3. Init => Whole!Init
  BY InitLifts, SameInit
<1>4. Spec => Whole!Spec
  BY <1>2, <1>3, Invariance, PTL DEF Spec, Whole!Spec
<1>5. Whole!Spec => Whole!WritesOnlyTheProven
  <2>1. Targets \subseteq Whole!Systems /\ Attempts \in Nat
    BY BuildAssumption DEF Whole!Systems, Systems
  <2>2. \A release : Whole!IsRelease(release) <=> Lift!IsRelease(release)
    BY DEF Whole!IsRelease, Lift!IsRelease, Whole!Key, Lift!Key, Whole!Entry, Lift!Entry
  <2>3. \A packages : Whole!IsPackages(packages) <=> Lift!IsPackages(packages)
    BY DEF Whole!IsPackages, Lift!IsPackages
  <2> QED
    BY <2>1, <2>2, <2>3, BuildAssumption, DownloadAssumption, Whole!OnlyTheProvenIsWritten
<1>6. [Whole!disk' # Whole!disk => Whole!Proven(pin, got)]_(Whole!extract)
      => [Lifts!disk' # Lifts!disk => Lifts!Proven(pin, got)]_(Lifts!extract)
  BY <1>1, SameProven
<1> QED
  BY <1>4, <1>5, <1>6, PTL DEF Lifts!WritesOnlyTheProven, Whole!WritesOnlyTheProven
=============================================================================
