---------------------------- MODULE ExtractRelease ----------------------------
(***************************************************************************)
(* Lifting the binaries this package does not build out of Datadog's .deb  *)
(* (agent-build/extract.js), attempt after attempt over one build tree:    *)
(* nothing clears bin/, share/ or the scratch directory first, an attempt  *)
(* may be killed anywhere, and the pin may have moved on by the next one.  *)
(*                                                                         *)
(* Five documents are downloaded at once from a repository that republishes*)
(* in between, so any may be of another day or damaged: each download is   *)
(* any member of its set.  The network, gpg, tar and cp are external, and  *)
(* the three documents written for gpg to read are left out of scratch.  A *)
(* file on disk is Missing, Partial or the .deb it came out of.            *)
(***************************************************************************)
EXTENDS ReleaseChain, Binaries

CONSTANTS
    Targets,        \* the systems the tree may be built for
    Pins,           \* what release.js may pin for linux
    ReleaseFiles, PackagesFiles, Debs, Statuses,   \* what downloads may hold
    Readable,       \* the .debs with a data.tar member
    Objects,        \* names of eBPF objects
    ObjectsIn(_),   \* the objects a .deb carries
    Missing, Partial,
    Attempts        \* bound on the runs of the build

ASSUME ExtractAssumption ==
    /\ Targets \subseteq Systems /\ Attempts \in Nat
    /\ Readable \subseteq Debs
    /\ \A deb \in Debs : ObjectsIn(deb) \subseteq Objects
    /\ Missing \notin Debs /\ Partial \notin Debs /\ Missing # Partial
    /\ Absent \notin Pins /\ Absent # DatadogKey
    /\ \A pin \in Pins : Absent # pin.sha256

\* What the network hands over is lines and stanzas, and every index has a hash.
ASSUME DownloadAssumption ==
    /\ Absent # "SHA256"
    /\ \A release \in ReleaseFiles : IsRelease(release)
    /\ \A packages \in PackagesFiles : IsPackages(packages) /\ Sha256(packages) # Absent

VARIABLES
    os,        \* the target
    pin,       \* RELEASE_ARTIFACTS for it in this checkout, or Absent
    phase,     \* where this attempt is
    got,       \* the five downloads, while the attempt holds them
    scratch,   \* workDir: the .deb, the data.tar, and what tar left of each file
    bin,       \* outputDir
    share,     \* ebpfDir
    left,      \* the binaries this attempt has still to copy
    tries      \* attempts left

disk == <<scratch, bin, share>>
extract == <<os, pin, phase, got, disk, left, tries>>

\* A plausible bug: the directory of objects wanted as one binary more.
WantedWithObjects == extractedFor(os) \union {"ebpf"}

\* wantedFrom: the objects follow the probe, not the target.
WantedBinaries == extractedFor(os)
WantsObjects == "probe" \in WantedBinaries

Nothing == [name \in Names |-> Missing]
NoObject == [object \in Objects |-> Missing]

\* The pins exist for linux alone.
PinsOf(system) == IF system = "linux" THEN Pins ELSE {Absent}

Init ==
    /\ os \in Targets /\ pin \in PinsOf(os)
    /\ phase = "idle" /\ got = Absent
    /\ scratch = [deb |-> Missing, data |-> Missing, files |-> Nothing,
                  objects |-> NoObject]
    /\ bin = Nothing /\ share = NoObject
    /\ left = {} /\ tries = Attempts

Ends == {"done", "failed"}
Fail == phase' = "failed" /\ got' = Absent

\* Nothing to lift, and nothing pinned to lift it from
Called ==
    /\ phase = "called"
    /\ \/ /\ WantedBinaries = {} /\ phase' = "done"
       \/ /\ WantedBinaries # {} /\ pin = Absent /\ phase' = "failed"
       \/ /\ WantedBinaries # {} /\ pin # Absent /\ phase' = "fetching"
    /\ UNCHANGED <<os, pin, got, disk, left, tries>>

\* Promise.all over the five downloads, of which the first rejection is the
\* answer, or the import of the key into gpg's throwaway home.
FetchFails ==
    /\ phase = "fetching"
    /\ Fail
    /\ UNCHANGED <<os, pin, disk, left, tries>>

Fetched(release, packages, deb, status) ==
    /\ phase = "fetching"
    /\ got' = [release |-> release, packages |-> packages, deb |-> deb,
               status |-> status]
    /\ phase' = "fetched"
    /\ UNCHANGED <<os, pin, disk, left, tries>>

Verified ==
    /\ phase = "fetched"
    /\ VerifyRelease(pin, got).ok
    /\ phase' = "verified"
    /\ UNCHANGED <<os, pin, got, disk, left, tries>>

Refused ==
    /\ phase = "fetched"
    /\ ~VerifyRelease(pin, got).ok
    /\ Fail
    /\ UNCHANGED <<os, pin, disk, left, tries>>

\* The .deb is written before anything is looked for in it.
DebWritten ==
    /\ phase = "verified"
    /\ scratch' = [scratch EXCEPT !.deb = got.deb]
    /\ phase' = "written"
    /\ UNCHANGED <<os, pin, got, bin, share, left, tries>>

\* No data.tar of a name it knows: readArMembers or findDataMember throws.
NotReadable ==
    /\ phase = "written" /\ got.deb \notin Readable
    /\ Fail
    /\ UNCHANGED <<os, pin, disk, left, tries>>

DataWritten ==
    /\ phase = "written" /\ got.deb \in Readable
    /\ scratch' = [scratch EXCEPT !.data = got.deb]
    /\ phase' = "unpacking"
    /\ UNCHANGED <<os, pin, got, bin, share, left, tries>>

\* What a directory holds once the objects of a .deb are laid over it
Over(directory, deb) ==
    [object \in Objects |-> IF object \in ObjectsIn(deb) THEN deb ELSE directory[object]]

\* tar replaces the members it was asked for and leaves the rest of an earlier
\* payload where it was.
Unpacked ==
    /\ phase = "unpacking"
    /\ scratch' = [scratch EXCEPT
         !.files = [name \in Names |->
                      IF name \in WantedBinaries THEN scratch.data ELSE @[name]],
         !.objects = IF WantsObjects THEN Over(@, scratch.data) ELSE @]
    /\ phase' = "copying" /\ left' = WantedBinaries
    /\ UNCHANGED <<os, pin, got, bin, share, tries>>

\* tar exits with an error having written some of them.
UnpackFails(some) ==
    /\ phase = "unpacking"
    /\ scratch' = [scratch EXCEPT
         !.files = [name \in Names |-> IF name \in some THEN scratch.data ELSE @[name]]]
    /\ Fail
    /\ UNCHANGED <<os, pin, bin, share, left, tries>>

Lifted(deb) == [from |-> "release", deb |-> deb]

\* One binary after the other, over whatever an earlier attempt left there.
Copied(name) ==
    /\ phase = "copying" /\ name \in left
    /\ bin' = [bin EXCEPT ![name] = Lifted(scratch.files[name])]
    /\ left' = left \ {name}
    /\ UNCHANGED <<os, pin, phase, got, scratch, share, tries>>

\* cp -R lays the whole unpacked directory over the one that is shipped.
ObjectsCopied ==
    /\ phase = "copying" /\ left = {}
    /\ share' = IF ~WantsObjects THEN share ELSE
                [object \in Objects |->
                   IF scratch.objects[object] # Missing THEN scratch.objects[object]
                   ELSE share[object]]
    /\ phase' = "clearing"
    /\ UNCHANGED <<os, pin, got, scratch, bin, left, tries>>

\* The two archives go; the unpacked payload stays.
Cleared ==
    /\ phase = "clearing"
    /\ scratch' = [scratch EXCEPT !.deb = Missing, !.data = Missing]
    /\ phase' = "done" /\ got' = Absent
    /\ UNCHANGED <<os, pin, bin, share, left, tries>>

\* The process dies or a write throws, with one binary or object half written.
Killed ==
    /\ phase \notin Ends \union {"idle"}
    /\ Fail
    /\ \/ UNCHANGED <<bin, share>>
       \/ /\ phase = "copying" /\ UNCHANGED share
          /\ \E name \in left : bin' = [bin EXCEPT ![name] = Partial]
       \/ /\ phase = "copying" /\ left = {} /\ WantsObjects /\ UNCHANGED bin
          /\ \E object \in Objects : share' = [share EXCEPT ![object] = Partial]
    /\ UNCHANGED <<os, pin, scratch, left, tries>>

Downloads == \E release \in ReleaseFiles, packages \in PackagesFiles,
                deb \in Debs, status \in Statuses :
               Fetched(release, packages, deb, status)

Extract ==
    \/ Called \/ FetchFails \/ Downloads \/ Verified \/ Refused
    \/ DebWritten \/ NotReadable \/ DataWritten \/ Unpacked
    \/ \E some \in SUBSET WantedBinaries : UnpackFails(some)
    \/ \E name \in Names : Copied(name)
    \/ ObjectsCopied \/ Cleared \/ Killed

\* The build is run again on the same tree, with the pin this checkout has.
Attempt(p) ==
    /\ phase \in Ends \union {"idle"} /\ tries > 0
    /\ pin' = p /\ phase' = "called" /\ tries' = tries - 1
    /\ left' = {}
    /\ UNCHANGED <<os, got, disk>>

Next == Extract \/ \E p \in PinsOf(os) : Attempt(p)

Spec == Init /\ [][Next]_extract

-----------------------------------------------------------------------------
(* Properties *)

Phases == {"idle", "called", "fetching", "fetched", "verified", "written",
           "unpacking", "copying", "clearing"} \union Ends

\* Every variable has the shape extract.js gives it.
TypeOK ==
    /\ os \in Targets /\ pin \in PinsOf(os)
    /\ phase \in Phases /\ left \subseteq Names
    /\ got # Absent => got.deb \in Debs
    /\ scratch \in [deb : Debs \union {Missing}, data : Debs \union {Missing},
                    files : [Names -> Debs \union {Missing}],
                    objects : [Objects -> Debs \union {Missing}]]
    /\ DOMAIN bin = Names
    /\ share \in [Objects -> Debs \union {Missing, Partial}]
    /\ tries \in 0 .. Attempts

\* The verdict is the chain's.  However the lines of Release and the stanzas
\* of Packages fall, and whichever day each document is of, verifyRelease
\* passes exactly what Datadog's key signed, by way of the first full-length
\* digest the SHA256 section gives the index and the stanza that names the
\* pinned path (verify-release.js:51 and :72, where the same paths appear
\* under three digests and another package's SHA256 comes first).
VerdictIsTheChain ==
    phase = "fetched" => (VerifyRelease(pin, got).ok <=> Proven(pin, got))

\* No byte of a package reaches the disk, in bin/, beside it or in the scratch
\* directory, but in an attempt whose downloads prove the pinned package: not
\* on a refusal, and not by an attempt that finds an earlier one's files
\* (extract.js:2 "writing no byte until verifyRelease passes", and :252).
WritesOnlyTheProven ==
    [][disk' # disk => Proven(pin, got)]_extract

\* Everything an attempt that ended well leaves under a name it lifts, binary
\* or object, is whole and came out of the package pinned now, over whatever
\* earlier attempts for other pins, or killed half-way, had left in the same
\* places; and the objects are there whenever the probe is.
DoneIsThePin ==
    phase = "done" => \A name \in WantedBinaries :
        /\ bin[name] \notin {Missing, Partial}
        /\ Sha256(bin[name].deb) = pin.sha256 /\ SizeOf(bin[name].deb) = pin.size
        /\ name = "probe" => \A object \in ObjectsIn(bin[name].deb) :
                               share[object] = bin[name].deb
=============================================================================
