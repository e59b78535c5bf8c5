----------------------------- MODULE ReleaseChain -----------------------------
(***************************************************************************)
(* How a downloaded Debian package is shown to be the pinned one           *)
(* (agent-build/verify-release.js): the signature covers Release, Release  *)
(* hashes Packages, Packages hashes the .deb and release.js pins it.       *)
(*                                                                         *)
(* A Release file is the sequence of its lines: an unindented key, or an   *)
(* indented entry of a digest and a path.  wide tells a digest of SHA256's *)
(* length from the MD5 and SHA1 the same paths are listed under.  Packages *)
(* is the sequence of its stanzas.  gpg and SHA256 itself are external.    *)
(***************************************************************************)
EXTENDS Naturals, Sequences, FiniteSetsExt

CONSTANTS
    Sha256(_),    \* of a Packages index or of a .deb
    SizeOf(_),    \* the bytes of a .deb
    DatadogKey,   \* DATADOG_APT_FINGERPRINT
    Absent        \* undefined

\* Lines of a Release file
Key(key) == [key |-> key, path |-> Absent, digest |-> Absent, wide |-> FALSE]
Entry(path, digest, wide) ==
    [key |-> Absent, path |-> path, digest |-> digest, wide |-> wide]

\* A document that was downloaded: lines of those two kinds, and stanzas
IsRelease(release) ==
    /\ Len(release) \in Nat /\ DOMAIN release = 1 .. Len(release)
    /\ \A i \in DOMAIN release :
         \/ release[i] = Key(release[i].key)
         \/ /\ release[i] = Entry(release[i].path, release[i].digest, release[i].wide)
            /\ release[i].wide \in BOOLEAN

IsPackages(packages) ==
    /\ Len(packages) \in Nat /\ DOMAIN packages = 1 .. Len(packages)
    /\ \A i \in DOMAIN packages :
         packages[i] = [filename |-> packages[i].filename, sha256 |-> packages[i].sha256]

\* The path of the index that lists the packages of one architecture
IndexPath(artifact) == <<"Packages", artifact.debArch>>

-----------------------------------------------------------------------------
(* The lookups *)

\* A plausible bug: the path looked for without the section.
FirstMention(release, path) ==
    LET found == {i \in DOMAIN release : release[i].path = path}
    IN  IF found = {} THEN Absent ELSE release[Min(found)].digest

\* A plausible bug: a later key does not end the section.
FromTheSectionOn(release, path) ==
    LET found == {i \in DOMAIN release :
                    /\ release[i].path = path /\ release[i].wide
                    /\ \E k \in 1 .. i : release[k].key = "SHA256"}
    IN  IF found = {} THEN Absent ELSE release[Min(found)].digest

\* One pass over the lines, before the section and then within it (inSection).
\* Any other key ends the section, and the answer with it.
HashFromRelease(release, path) ==
    LET within[i \in 1 .. Len(release) + 1] ==
          IF i > Len(release) THEN Absent
          ELSE IF release[i].key \notin {"SHA256", Absent} THEN Absent
          ELSE IF release[i].key = Absent /\ release[i].wide /\ release[i].path = path
               THEN release[i].digest
          ELSE within[i + 1]
        before[i \in 1 .. Len(release) + 1] ==
          IF i > Len(release) THEN Absent
          ELSE IF release[i].key = "SHA256" THEN within[i + 1]
          ELSE before[i + 1]
    IN  before[1]

\* A plausible bug: the index's first SHA256, whoever it belongs to.
FirstHash(packages, path) ==
    IF packages = <<>> THEN Absent ELSE packages[1].sha256

\* The first stanza whose Filename is the path answers, by a digest or not.
HashFromPackages(packages, path) ==
    LET named == {i \in DOMAIN packages : packages[i].filename = path}
    IN  IF named = {} THEN Absent ELSE packages[Min(named)].sha256

\* A plausible bug: a signature is good when gpg named a key.
AnyNamedKey(status) ==
    [good |-> status.validsig # Absent, fingerprint |-> status.validsig]

\* What a gpg --status-fd run said: BADSIG first, then either of the two that
\* give the verdict; only VALIDSIG carries the fingerprint.
ReadGpgStatus(status) ==
    IF status.badsig \/ (~status.goodsig /\ status.validsig = Absent)
    THEN [good |-> FALSE, fingerprint |-> Absent]
    ELSE [good |-> TRUE, fingerprint |-> status.validsig]

-----------------------------------------------------------------------------
(* The chain *)

Steps == {"signature", "index", "pin", "bytes"}

\* Whether one step of the chain holds for what was downloaded
Holds(step, artifact, got) ==
    CASE step = "signature" ->
           LET signature == ReadGpgStatus(got.status)
           IN  signature.good /\ signature.fingerprint = DatadogKey
      [] step = "index" ->
           LET want == HashFromRelease(got.release, IndexPath(artifact))
           IN  want # Absent /\ want = Sha256(got.packages)
      [] step = "pin" ->
           LET want == HashFromPackages(got.packages, artifact.path)
           IN  want # Absent /\ want = artifact.sha256
      [] step = "bytes" ->
           Sha256(got.deb) = artifact.sha256 /\ SizeOf(got.deb) = artifact.size

\* Every step that failed, not the first
Failures(artifact, got) == {step \in Steps : ~Holds(step, artifact, got)}

\* A plausible bug: the pin is trusted without the bytes being hashed.
VerifiedByName(artifact, got) ==
    [ok |-> Failures(artifact, got) \subseteq {"bytes"}, failures |-> {}]

VerifyRelease(artifact, got) ==
    [ok |-> Failures(artifact, got) = {}, failures |-> Failures(artifact, got)]

-----------------------------------------------------------------------------
(* What the chain means *)

\* The lines a Release file lists under SHA256: those after the first such key
\* and before the next key of another name.
Sha256Section(release) ==
    {i \in DOMAIN release :
       \E first \in 1 .. (i - 1) :
         /\ release[first].key = "SHA256"
         /\ \A k \in first .. i : release[k].key \in {Absent, "SHA256"}
         /\ \A k \in 1 .. (first - 1) : release[k].key # "SHA256"}

\* The digest a Release gives a path: the section's first full-length one
Lists(release, path, digest) ==
    \E i \in Sha256Section(release) :
      /\ release[i] = Entry(path, digest, TRUE)
      /\ \A k \in Sha256Section(release) :
           k < i => release[k].path # path \/ ~release[k].wide

\* The digest a Packages index gives a path: that of the first stanza of it
Indexes(packages, path, digest) ==
    \E i \in DOMAIN packages :
      /\ packages[i] = [filename |-> path, sha256 |-> digest]
      /\ \A k \in 1 .. (i - 1) : packages[k].filename # path

\* Datadog signed a Release that lists an index that lists the pinned package,
\* and these bytes are that package.
Proven(artifact, got) ==
    /\ ~got.status.badsig /\ got.status.validsig = DatadogKey
    /\ Lists(got.release, IndexPath(artifact), Sha256(got.packages))
    /\ Indexes(got.packages, artifact.path, artifact.sha256)
    /\ Sha256(got.deb) = artifact.sha256 /\ SizeOf(got.deb) = artifact.size
=============================================================================
