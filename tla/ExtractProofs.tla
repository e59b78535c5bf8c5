---------------------------- MODULE ExtractProofs ----------------------------
(***************************************************************************)
(* Proofs about ExtractRelease, for any pins, downloads and number of      *)
(* attempts.  What the downloads of an attempt are is carried from the     *)
(* step that fetched them to the steps that write (Holding); what a        *)
(* verdict on them means is ChainProofs' PassedIsProven.                   *)
(***************************************************************************)
EXTENDS ExtractRelease, ChainProofs

Writing == {"verified", "written", "unpacking", "copying", "clearing"}

(* What an attempt holds past each of its steps: a pin to look for, three  *)
(* documents and a .deb of the repository, and, once it writes, the proof. *)
Holding ==
    /\ phase \in {"fetching", "fetched"} \union Writing => pin # Absent
    /\ phase \in {"fetched"} \union Writing =>
         /\ got.release \in ReleaseFiles /\ got.packages \in PackagesFiles
         /\ got.deb \in Debs
    /\ phase \in Writing => Proven(pin, got)

IInv == TypeOK /\ Holding

(* Verdict on downloads: the chain's.                                      *)
LEMMA FetchedIsJudged ==
    ASSUME TypeOK, Holding, phase = "fetched"
    PROVE  VerifyRelease(pin, got).ok <=> Proven(pin, got)
<1>1. pin \in Pins
  BY DEF TypeOK, Holding, PinsOf
<1>2. AreDownloads(got)
  BY DownloadAssumption DEF Holding, AreDownloads
<1> QED
  BY <1>1, <1>2, ExtractAssumption, DownloadAssumption, PassedIsProven

LEMMA InitInv == Init => IInv
<1> SUFFICES ASSUME Init PROVE IInv
  OBVIOUS
<1> USE DEF Init
<1>1. os \in Targets /\ pin \in PinsOf(os) /\ phase \in Phases /\ left \subseteq Names
  BY DEF Phases
<1>2. scratch \in [deb : Debs \union {Missing}, data : Debs \union {Missing},
                   files : [Names -> Debs \union {Missing}],
                   objects : [Objects -> Debs \union {Missing}]]
  BY DEF Nothing, NoObject
<1>3. /\ DOMAIN bin = Names /\ share \in [Objects -> Debs \union {Missing, Partial}]
      /\ tries \in 0 .. Attempts
  BY ExtractAssumption DEF Nothing, NoObject
<1>4. Holding
  BY DEF Holding, Writing
<1> QED
  BY <1>1, <1>2, <1>3, <1>4 DEF IInv, TypeOK

LEMMA WantedAreNames == WantedBinaries \subseteq Names
BY DEF WantedBinaries, extractedFor, binariesFor

LEMMA TypeStep ==
    ASSUME IInv, [Next]_extract
    PROVE  TypeOK'
<1> USE DEF IInv
<1>1. CASE UNCHANGED extract
  BY <1>1 DEF extract, disk, TypeOK, PinsOf
<1>2. ASSUME NEW p \in PinsOf(os), Attempt(p)
      PROVE  TypeOK'
  <2>1. tries' \in 0 .. Attempts /\ pin' \in PinsOf(os') /\ phase' \in Phases
    BY <1>2, ExtractAssumption DEF Attempt, TypeOK, Phases, PinsOf
  <2> QED
    BY <1>2, <2>1 DEF Attempt, disk, TypeOK
<1>3. CASE Extract
  <2>1. os' = os /\ pin' = pin /\ tries' = tries /\ DOMAIN bin' = DOMAIN bin
    BY <1>3 DEF Extract, Called, FetchFails, Downloads, Fetched, Verified, Refused,
       DebWritten, NotReadable, DataWritten, Unpacked, UnpackFails, Copied,
       ObjectsCopied, Cleared, Killed, disk
  <2>2. phase' \in Phases /\ left' \subseteq Names
    BY <1>3, WantedAreNames DEF TypeOK, Phases, Ends, Fail, Extract, Called, FetchFails,
       Downloads, Fetched, Verified, Refused, DebWritten, NotReadable, DataWritten,
       Unpacked, UnpackFails, Copied, ObjectsCopied, Cleared, Killed
  <2>3. got' # Absent => got'.deb \in Debs
    BY <1>3 DEF TypeOK, Fail, Extract, Called, FetchFails, Downloads, Fetched, Verified,
       Refused, DebWritten, NotReadable, DataWritten, Unpacked, UnpackFails, Copied,
       ObjectsCopied, Cleared, Killed
  <2>4. scratch' \in [deb : Debs \union {Missing}, data : Debs \union {Missing},
                      files : [Names -> Debs \union {Missing}],
                      objects : [Objects -> Debs \union {Missing}]]
    <3> USE DEF TypeOK
    <3>1. CASE UNCHANGED scratch
      BY <3>1
    <3>2. CASE DebWritten \/ DataWritten
      BY <3>2 DEF DebWritten, DataWritten, Holding, Writing
    <3>3. CASE Unpacked
      BY <3>3 DEF Unpacked, Over
    <3>4. CASE \E some \in SUBSET WantedBinaries : UnpackFails(some)
      BY <3>4 DEF UnpackFails
    <3>5. CASE Cleared
      BY <3>5 DEF Cleared
    <3> QED
      BY <1>3, <3>1, <3>2, <3>3, <3>4, <3>5 DEF Extract, Called, FetchFails, Downloads,
         Fetched, Verified, Refused, NotReadable, Copied, ObjectsCopied, Killed, disk
  <2>5. share' \in [Objects -> Debs \union {Missing, Partial}]
    <3>1. CASE UNCHANGED share
      BY <3>1 DEF TypeOK
    <3>2. CASE ObjectsCopied
      BY <3>2 DEF ObjectsCopied, TypeOK
    <3>3. CASE Killed
      BY <3>3 DEF Killed, TypeOK
    <3> QED
      BY <1>3, <3>1, <3>2, <3>3 DEF Extract, Called, FetchFails, Downloads, Fetched,
         Verified, Refused, DebWritten, NotReadable, DataWritten, Unpacked, UnpackFails,
         Copied, Cleared, disk
  <2> QED
    BY <2>1, <2>2, <2>3, <2>4, <2>5 DEF TypeOK, PinsOf
<1> QED
  BY <1>1, <1>2, <1>3 DEF Next

(* Only the steps past the verdict write.                                  *)
LEMMA WritersAreVerified ==
    ASSUME [Next]_extract, disk' # disk
    PROVE  phase \in Writing
<1>1. CASE Extract
  BY <1>1 DEF Extract, Called, FetchFails, Downloads, Fetched, Verified, Refused,
     DebWritten, NotReadable, DataWritten, Unpacked, UnpackFails, Copied, ObjectsCopied,
     Cleared, Killed, disk, Writing
<1>2. CASE \E p \in PinsOf(os) : Attempt(p)
  BY <1>2 DEF Attempt
<1> QED
  BY <1>1, <1>2 DEF Next, extract

LEMMA HoldingStep ==
    ASSUME IInv, [Next]_extract
    PROVE  Holding'
<1> USE DEF IInv, Holding, Writing
<1>1. CASE Called
  BY <1>1 DEF Called
<1>2. CASE Downloads
  BY <1>2 DEF Downloads, Fetched
<1>3. CASE Verified
  BY <1>3, FetchedIsJudged DEF Verified, Proven
<1>4. CASE phase \in Writing /\ UNCHANGED <<pin, got>>
  BY <1>4 DEF Proven
<1>5. CASE phase' \in Ends \union {"called"}
  BY <1>5 DEF Ends
<1>6. CASE Extract
  BY <1>1, <1>2, <1>3, <1>4, <1>5, <1>6 DEF Extract, FetchFails, Refused, DebWritten,
     NotReadable, DataWritten, Unpacked, UnpackFails, Copied, ObjectsCopied, Cleared,
     Killed, Fail, Ends
<1>7. CASE \E p \in PinsOf(os) : Attempt(p)
  BY <1>5, <1>7 DEF Attempt
<1>8. CASE UNCHANGED extract
  BY <1>8 DEF extract, Proven
<1> QED
  BY <1>6, <1>7, <1>8 DEF Next

LEMMA Invariance == Spec => []IInv
<1>1. IInv /\ [Next]_extract => IInv'
  BY TypeStep, HoldingStep DEF IInv
<1> QED
  BY <1>1, InitInv, PTL DEF Spec

(* Every variable has the shape extract.js gives it.                       *)
THEOREM ExtractTypeCorrect == Spec => []TypeOK
<1>1. IInv => TypeOK
  BY DEF IInv
<1> QED
  BY <1>1, Invariance, PTL

(* However many lines and stanzas the documents have and whichever day     *)
(* each is of, what verifyRelease passes is what Datadog's key signed      *)
(* (verify-release.js:51 and :72).                                         *)
THEOREM TheVerdictIsTheChain == Spec => []VerdictIsTheChain
<1>1. IInv => VerdictIsTheChain
  BY FetchedIsJudged DEF IInv, VerdictIsTheChain
<1> QED
  BY <1>1, Invariance, PTL

(* No attempt writes a byte but while it holds downloads that prove the    *)
(* pinned package: over any number of attempts, moving pins and files left *)
(* by a killed one (extract.js:252).                                       *)
THEOREM OnlyTheProvenIsWritten == Spec => WritesOnlyTheProven
<1>1. IInv /\ [Next]_extract => [disk' # disk => Proven(pin, got)]_extract
  BY WritersAreVerified DEF IInv, Holding
<1> QED
  BY <1>1, Invariance, PTL DEF Spec, WritesOnlyTheProven
=============================================================================
