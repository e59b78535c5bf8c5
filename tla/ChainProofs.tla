------------------------------ MODULE ChainProofs ------------------------------
(***************************************************************************)
(* Proofs about ReleaseChain: what the two lookups of verify-release.js    *)
(* return for a document of any length, and what a verdict on them means.  *)
(*                                                                         *)
(* The pass over Release is a recursive function, of which a prover knows  *)
(* only that it is one that satisfies its equation, if any does.  So the   *)
(* pass is compared with a search (Search) for the first of a set of lines *)
(* at which it stops: the answer at that line satisfies the equation       *)
(* (SearchExists), and nothing else does (SearchFinds), because a function *)
(* that differs from it differs at a last line, found as the least of a    *)
(* set of naturals.                                                        *)
(***************************************************************************)
EXTENDS ReleaseChain, WellFoundedInduction, TLAPS

(* A set of naturals has a least one.                                      *)
LEMMA Least ==
    ASSUME NEW S \in SUBSET Nat, S # {}
    PROVE  \E n \in S : \A m \in S : n <= m
<1>1. IsWellFoundedOn(OpToRel(<, Nat), Nat)
  BY NatLessThanWellFounded
<1> DEFINE R == {ss \in Nat \X Nat : ss[1] < ss[2]}
<1>2. IsWellFoundedOn(R, Nat)
  BY <1>1 DEF OpToRel
<1>3. PICK n \in S : \A y \in S : ~(<<y, n>> \in R)
  <2> HIDE DEF R
  <2> QED
    BY <1>2, WFMin
<1>4. ASSUME NEW m \in S PROVE n <= m
  <2>1. <<m, n>> \in Nat \X Nat /\ <<m, n>>[1] = m /\ <<m, n>>[2] = n
    OBVIOUS
  <2> QED
    BY <1>3, <2>1
<1> QED
  BY <1>4

(* The CHOOSE of Min finds it,                                             *)
LEMMA MinIsLeast ==
    ASSUME NEW S \in SUBSET Nat, S # {}
    PROVE  Min(S) \in S /\ \A m \in S : Min(S) <= m
BY Least DEF Min

(* and there is no other.                                                  *)
LEMMA MinUnique ==
    ASSUME NEW S \in SUBSET Nat, NEW n \in S, \A m \in S : n <= m
    PROVE  Min(S) = n
<1>1. Min(S) \in S /\ Min(S) <= n
  BY MinIsLeast
<1>2. n <= Min(S) /\ n \in Nat /\ Min(S) \in Nat
  BY <1>1
<1> QED
  BY <1>1, <1>2

(* One pass over n lines that answers at the first of stops.               *)
Search(n, stops, answer, f) ==
    [i \in 1 .. n + 1 |-> IF i > n THEN Absent
                          ELSE IF i \in stops THEN answer[i] ELSE f[i + 1]]

(* What it comes to from line i on                                         *)
Ahead(stops, i) == {j \in stops : i <= j}

From(stops, answer, i) ==
    IF Ahead(stops, i) = {} THEN Absent ELSE answer[Min(Ahead(stops, i))]

(* From(stops, answer, i) satisfies the equation of the pass.              *)
LEMMA FromUnfolds ==
    ASSUME NEW n \in Nat, NEW stops \in SUBSET (1 .. n), NEW answer, NEW i \in 1 .. n + 1
    PROVE  From(stops, answer, i) = IF i > n THEN Absent
                          ELSE IF i \in stops THEN answer[i] ELSE From(stops, answer, i + 1)
<1>0. i \in Int /\ n \in Int /\ \A j \in stops : j \in Nat /\ j <= n
  OBVIOUS
<1>1. CASE i > n
  <2>1. \A j \in stops : ~(i <= j)
    BY <1>0, <1>1
  <2>2. Ahead(stops, i) = {}
    BY <2>1 DEF Ahead
  <2> QED
    BY <1>1, <2>2 DEF From
<1>2. CASE i <= n /\ i \in stops
  <2>1. \A m \in Ahead(stops, i) : m \in Nat /\ i <= m
    BY <1>0 DEF Ahead
  <2>2. i \in Ahead(stops, i)
    BY <1>0, <1>2 DEF Ahead
  <2>3. Ahead(stops, i) \in SUBSET Nat
    BY <2>1
  <2>4. Min(Ahead(stops, i)) = i
    BY <2>1, <2>2, <2>3, MinUnique
  <2> QED
    BY <1>0, <1>2, <2>2, <2>4 DEF From
<1>3. CASE i <= n /\ i \notin stops
  <2>1. \A j \in stops : i <= j <=> i + 1 <= j
    BY <1>0, <1>3
  <2>2. Ahead(stops, i) = Ahead(stops, i + 1)
    BY <2>1 DEF Ahead
  <2> QED
    BY <1>0, <1>3, <2>2 DEF From
<1> QED
  BY <1>0, <1>1, <1>2, <1>3

(* The equation has a solution,                                            *)
LEMMA SearchExists ==
    ASSUME NEW n \in Nat, NEW stops \in SUBSET (1 .. n), NEW answer
    PROVE  \E f : f = Search(n, stops, answer, f)
<1> DEFINE f == [i \in 1 .. n + 1 |-> From(stops, answer, i)]
<1>1. ASSUME NEW i \in 1 .. n + 1
      PROVE  f[i] = IF i > n THEN Absent
                    ELSE IF i \in stops THEN answer[i] ELSE f[i + 1]
  <2>1. CASE i > n
    BY <2>1, FromUnfolds
  <2>2. CASE i <= n
    <3>1. f[i] = From(stops, answer, i) /\ f[i + 1] = From(stops, answer, i + 1)
      BY <2>2
    <3> QED
      BY <2>2, <3>1, FromUnfolds
  <2> QED
    BY <2>1, <2>2
<1>2. f = Search(n, stops, answer, f)
  BY <1>1 DEF Search
<1> QED
  BY <1>2

(* which is the only one: the last line at which another differed would be *)
(* one at which both answer alike.                                         *)
LEMMA SearchFinds ==
    ASSUME NEW n \in Nat, NEW stops \in SUBSET (1 .. n), NEW answer,
           NEW f, f = Search(n, stops, answer, f), NEW i \in 1 .. n + 1
    PROVE  f[i] = From(stops, answer, i)
<1> DEFINE S == {k \in 0 .. n : f[n + 1 - k] # From(stops, answer, n + 1 - k)}
<1>1. SUFFICES ASSUME f[i] # From(stops, answer, i) PROVE FALSE
  OBVIOUS
<1>2. n + 1 - i \in S /\ S \in SUBSET Nat
  BY <1>1
<1>3. PICK k \in S : \A m \in S : k <= m
  BY <1>2, Least
<1> DEFINE j == n + 1 - k
<1>4. j \in 1 .. n + 1 /\ f[j] # From(stops, answer, j)
  BY <1>3
<1>5. f[j] = IF j > n THEN Absent ELSE IF j \in stops THEN answer[j] ELSE f[j + 1]
  BY <1>4 DEF Search
<1>6. j <= n /\ f[j + 1] # From(stops, answer, j + 1)
  BY <1>4, <1>5, FromUnfolds
<1>7. k - 1 \in 0 .. n /\ n + 1 - (k - 1) = j + 1
  BY <1>3, <1>6
<1>8. k - 1 \in S
  BY <1>6, <1>7
<1> QED
  BY <1>3, <1>7, <1>8

-----------------------------------------------------------------------------
(* Where hashFromRelease's loop enters the section, and where it breaks or *)
(* returns, with what                                                      *)
Matches(line, path) == line.key = Absent /\ line.wide /\ line.path = path

Starts(release) == {i \in 1 .. Len(release) : release[i].key = "SHA256"}
Stops(release, path) ==
    {i \in 1 .. Len(release) :
       release[i].key \notin {"SHA256", Absent} \/ Matches(release[i], path)}
Answers(release) == [i \in 1 .. Len(release) |->
                        IF release[i].key # Absent THEN Absent ELSE release[i].digest]

(* hashFromRelease is one search for the section and one within it.        *)
LEMMA ScanIsASearch ==
    ASSUME NEW release, NEW path, Len(release) \in Nat
    PROVE  HashFromRelease(release, path) =
             IF Starts(release) = {} THEN Absent
             ELSE From(Stops(release, path), Answers(release), Min(Starts(release)) + 1)
<1> DEFINE n == Len(release)
           Within(f) == [i \in 1 .. Len(release) + 1 |->
              IF i > Len(release) THEN Absent
              ELSE IF release[i].key \notin {"SHA256", Absent} THEN Absent
              ELSE IF release[i].key = Absent /\ release[i].wide /\ release[i].path = path
                   THEN release[i].digest
              ELSE f[i + 1]]
           within == CHOOSE f : f = Within(f)
           Before(f) == [i \in 1 .. Len(release) + 1 |->
              IF i > Len(release) THEN Absent
              ELSE IF release[i].key = "SHA256" THEN within[i + 1]
              ELSE f[i + 1]]
           before == CHOOSE f : f = Before(f)
           heads == [i \in 1 .. n |-> within[i + 1]]
<1>1. HashFromRelease(release, path) = before[1]
  BY DEF HashFromRelease
<1>2. Stops(release, path) \in SUBSET (1 .. n) /\ Starts(release) \in SUBSET (1 .. n)
  BY DEF Stops, Starts
<1>3. ASSUME NEW f PROVE Within(f) = Search(n, Stops(release, path), Answers(release), f)
  BY DEF Search, Stops, Answers, Matches
<1>4. within = Within(within)
  <2>1. \E f : f = Within(f)
    <3> HIDE DEF Within
    <3> QED
      BY <1>2, <1>3, SearchExists
  <2> QED
    BY <2>1
<1>5. \A i \in 1 .. n + 1 : within[i] = From(Stops(release, path), Answers(release), i)
  <2> HIDE DEF within, Within
  <2> QED
    BY <1>2, <1>3, <1>4, SearchFinds
<1> HIDE DEF within
<1>6. ASSUME NEW f PROVE Before(f) = Search(n, Starts(release), heads, f)
  BY DEF Search, Starts
<1>7. before = Before(before)
  <2>1. \E f : f = Before(f)
    <3> HIDE DEF Before, heads
    <3> QED
      BY <1>2, <1>6, SearchExists
  <2> QED
    BY <2>1
<1>8. before[1] = From(Starts(release), heads, 1)
  <2> HIDE DEF before, Before, heads
  <2> QED
    BY <1>2, <1>6, <1>7, SearchFinds
<1>9. Ahead(Starts(release), 1) = Starts(release)
  BY <1>2 DEF Ahead
<1>10. CASE Starts(release) = {}
  BY <1>1, <1>8, <1>9, <1>10 DEF From
<1>11. CASE Starts(release) # {}
  <2>1. Min(Starts(release)) \in 1 .. n
    BY <1>2, <1>11, MinIsLeast
  <2>2. heads[Min(Starts(release))] = within[Min(Starts(release)) + 1]
    BY <2>1
  <2> HIDE DEF before, heads
  <2> QED
    BY <1>1, <1>5, <1>8, <1>9, <1>11, <2>1, <2>2 DEF From
<1> QED
  BY <1>10, <1>11

(* What a search finds is the answer at the first line it stops at,        *)
LEMMA FromFirst ==
    ASSUME NEW stops \in SUBSET Nat, NEW answer, NEW i \in Nat, NEW j \in stops,
           i <= j, \A k \in stops : i <= k => j <= k
    PROVE  From(stops, answer, i) = answer[j]
<1>1. Ahead(stops, i) \in SUBSET Nat /\ j \in Ahead(stops, i)
  BY DEF Ahead
<1>2. \A k \in Ahead(stops, i) : j <= k
  BY DEF Ahead
<1>3. Min(Ahead(stops, i)) = j
  BY <1>1, <1>2, MinUnique
<1> QED
  BY <1>1, <1>3 DEF From

(* and if it finds anything there is such a line.                          *)
LEMMA FromIsAFirst ==
    ASSUME NEW stops \in SUBSET Nat, NEW answer, NEW i \in Nat,
           From(stops, answer, i) # Absent
    PROVE  \E j \in stops : /\ i <= j /\ From(stops, answer, i) = answer[j]
                            /\ \A k \in stops : i <= k => j <= k
<1>1. Ahead(stops, i) \in SUBSET Nat
  BY DEF Ahead
<1>2. Ahead(stops, i) # {} /\ From(stops, answer, i) = answer[Min(Ahead(stops, i))]
  BY DEF From
<1>3. /\ Min(Ahead(stops, i)) \in Ahead(stops, i)
      /\ \A m \in Ahead(stops, i) : Min(Ahead(stops, i)) <= m
  BY <1>1, <1>2, MinIsLeast
<1> QED
  BY <1>2, <1>3 DEF Ahead

(* The SHA256 section is the lines after the first such key, up to         *)
(* another.                                                                *)
LEMMA SectionFollowsTheFirstKey ==
    ASSUME NEW release, Len(release) \in Nat, DOMAIN release = 1 .. Len(release),
           Starts(release) # {}, NEW i \in 1 .. Len(release)
    PROVE  i \in Sha256Section(release) <=>
             /\ Min(Starts(release)) < i
             /\ \A k \in Min(Starts(release)) .. i : release[k].key \in {Absent, "SHA256"}
<1> DEFINE s == Min(Starts(release))
<1>1. Starts(release) \in SUBSET Nat
  BY DEF Starts
<1>2. s \in Starts(release) /\ \A k \in Starts(release) : s <= k
  BY <1>1, MinIsLeast
<1> HIDE DEF s
<1>3. s \in 1 .. Len(release) /\ release[s].key = "SHA256"
  BY <1>2 DEF Starts
<1>4. \A k \in 1 .. (s - 1) : release[k].key # "SHA256"
  BY <1>2, <1>3 DEF Starts
<1>5. ASSUME i \in Sha256Section(release)
      PROVE  s < i /\ \A k \in s .. i : release[k].key \in {Absent, "SHA256"}
  <2>1. PICK first \in 1 .. (i - 1) :
          /\ release[first].key = "SHA256"
          /\ \A k \in first .. i : release[k].key \in {Absent, "SHA256"}
          /\ \A k \in 1 .. (first - 1) : release[k].key # "SHA256"
    BY <1>5 DEF Sha256Section
  <2>2. first = s
    <3>1. first \in Starts(release) /\ first \in Nat /\ s \in Nat
      BY <1>3, <2>1 DEF Starts
    <3>2. s <= first
      BY <1>2, <3>1
    <3>3. ~(s < first)
      BY <1>3, <2>1
    <3> QED
      BY <3>1, <3>2, <3>3
  <2> QED
    BY <2>1, <2>2
<1>6. ASSUME s < i, \A k \in s .. i : release[k].key \in {Absent, "SHA256"}
      PROVE  i \in Sha256Section(release)
  <2>1. s \in 1 .. (i - 1)
    BY <1>3, <1>6
  <2> QED
    BY <1>3, <1>4, <1>6, <2>1 DEF Sha256Section
<1> QED
  BY <1>5, <1>6 DEF s

(* Without the key there is none.                                          *)
LEMMA SectionNeedsAKey ==
    ASSUME NEW release, Len(release) \in Nat, DOMAIN release = 1 .. Len(release),
           Starts(release) = {}
    PROVE  Sha256Section(release) = {}
BY DEF Sha256Section, Starts

(* However many lines a Release file has, under however many keys and in   *)
(* whatever order, what hashFromRelease returns for a path is the first    *)
(* full-length digest its SHA256 section lists for it (verify-             *)
(* release.js:51-66).                                                      *)
THEOREM HashFromReleaseIsTheListedOne ==
    ASSUME NEW release, IsRelease(release), Absent # "SHA256",
           NEW path, NEW digest, digest # Absent
    PROVE  HashFromRelease(release, path) = digest <=> Lists(release, path, digest)
<1> DEFINE n == Len(release)
           s == Min(Starts(release))
           ends == Stops(release, path)
<1>1. n \in Nat /\ DOMAIN release = 1 .. n
  BY DEF IsRelease
<1>2. Starts(release) \in SUBSET Nat /\ ends \in SUBSET Nat
  BY <1>1 DEF Starts, Stops
<1>3. CASE Starts(release) = {}
  BY <1>1, <1>3, ScanIsASearch, SectionNeedsAKey DEF Lists
<1>4. CASE Starts(release) # {}
  <2>1. s \in 1 .. n /\ release[s].key = "SHA256"
    BY <1>2, <1>4, MinIsLeast DEF Starts
  <2>2. \A i \in 1 .. n :
          i \in Sha256Section(release) <=>
             s < i /\ \A k \in s .. i : release[k].key \in {Absent, "SHA256"}
    BY <1>1, <1>4, SectionFollowsTheFirstKey
  <2>3. HashFromRelease(release, path) = From(ends, Answers(release), s + 1)
    BY <1>1, <1>4, ScanIsASearch
  <2> HIDE DEF s, ends
  <2>4. ASSUME Lists(release, path, digest)
        PROVE  HashFromRelease(release, path) = digest
    <3>1. PICK i \in Sha256Section(release) :
            /\ release[i] = Entry(path, digest, TRUE)
            /\ \A k \in Sha256Section(release) :
                 k < i => release[k].path # path \/ ~release[k].wide
      BY <2>4 DEF Lists
    <3>2. i \in 1 .. n
      BY <1>1 DEF Sha256Section
    <3>3. s < i /\ \A k \in s .. i : release[k].key \in {Absent, "SHA256"}
      BY <2>2, <3>2
    <3>4. release[i].key = Absent /\ release[i].wide /\ release[i].path = path
          /\ release[i].digest = digest
      BY <3>1 DEF Entry
    <3>5. i \in ends /\ Answers(release)[i] = digest
      BY <3>2, <3>4 DEF ends, Stops, Answers, Matches
    <3>6. ASSUME NEW k \in ends, s + 1 <= k PROVE i <= k
      <4>1. SUFFICES ASSUME k < i PROVE FALSE
        BY <1>2, <3>2 DEF ends, Stops
      <4>2. k \in 1 .. n /\ k \in s .. i
        BY <1>1, <2>1, <3>2, <3>6, <4>1 DEF ends, Stops
      <4>3. k \in Sha256Section(release)
        BY <2>1, <2>2, <3>2, <3>3, <3>6, <4>1, <4>2
      <4>4. release[k].path = path /\ release[k].wide
        BY <3>3, <3>6, <4>2 DEF ends, Stops, Matches
      <4> QED
        BY <3>1, <4>1, <4>3, <4>4
    <3> QED
      <4>1. s + 1 \in Nat /\ s + 1 <= i
        BY <2>1, <3>2, <3>3
      <4>2. From(ends, Answers(release), s + 1) = Answers(release)[i]
        <5> HIDE DEF n
        <5> QED
          BY <1>2, <3>5, <3>6, <4>1, FromFirst
      <4> QED
        BY <2>3, <3>5, <4>2
  <2>5. ASSUME HashFromRelease(release, path) = digest
        PROVE  Lists(release, path, digest)
    <3>1. PICK e \in ends : /\ s + 1 <= e /\ digest = Answers(release)[e]
                            /\ \A k \in ends : s + 1 <= k => e <= k
      <4>1. s + 1 \in Nat
        BY <2>1
      <4> QED
        BY <1>2, <2>3, <2>5, <4>1, FromIsAFirst DEF ends
    <3>2. e \in 1 .. n /\ release[e].key = Absent /\ release[e].digest = digest
      BY <1>1, <3>1 DEF ends, Stops, Answers
    <3>3. release[e].wide /\ release[e].path = path
      BY <3>1, <3>2 DEF ends, Stops, Matches
    <3>4. release[e] = Entry(path, digest, TRUE)
      BY <1>1, <3>2, <3>3 DEF IsRelease, Key, Entry
    <3>5. ASSUME NEW k \in (s + 1) .. (e - 1)
          PROVE  /\ release[k].key \in {Absent, "SHA256"}
                 /\ ~Matches(release[k], path)
      <4>1. k \notin ends /\ k \in 1 .. n
        BY <1>1, <2>1, <3>1, <3>2
      <4> QED
        BY <4>1 DEF ends, Stops
    <3>6. e \in Sha256Section(release)
      <4>1. \A k \in s .. e : k = s \/ k = e \/ k \in (s + 1) .. (e - 1)
        BY <2>1, <3>2
      <4> QED
        BY <2>1, <2>2, <3>1, <3>2, <3>5, <4>1
    <3>7. ASSUME NEW k \in Sha256Section(release), k < e
          PROVE  release[k].path # path \/ ~release[k].wide
      <4>1. k \in 1 .. n
        BY <1>1 DEF Sha256Section
      <4>2. k \in (s + 1) .. (e - 1)
        BY <2>1, <2>2, <3>2, <3>7, <4>1
      <4>3. CASE release[k].key = Absent
        BY <3>5, <4>2, <4>3 DEF Matches
      <4>4. CASE release[k].key = "SHA256"
        BY <1>1, <4>1, <4>4 DEF IsRelease, Key, Entry
      <4> QED
        BY <3>5, <4>2, <4>3, <4>4
    <3> QED
      BY <3>4, <3>6, <3>7 DEF Lists
  <2> QED
    BY <2>4, <2>5
<1> QED
  BY <1>3, <1>4

-----------------------------------------------------------------------------
(* However many stanzas an index has, what hashFromPackages returns for a  *)
(* path is the digest of the first that names it (verify-                  *)
(* release.js:74-84).                                                      *)
THEOREM HashFromPackagesIsTheIndexedOne ==
    ASSUME NEW packages, IsPackages(packages), NEW path, NEW digest, digest # Absent
    PROVE  HashFromPackages(packages, path) = digest <=> Indexes(packages, path, digest)
<1> DEFINE named == {i \in DOMAIN packages : packages[i].filename = path}
<1>1. DOMAIN packages = 1 .. Len(packages) /\ Len(packages) \in Nat
  BY DEF IsPackages
<1>2. named \in SUBSET Nat
  BY <1>1
<1>3. ASSUME HashFromPackages(packages, path) = digest
      PROVE  Indexes(packages, path, digest)
  <2>1. named # {} /\ packages[Min(named)].sha256 = digest
    BY <1>3 DEF HashFromPackages
  <2>2. Min(named) \in named /\ \A k \in named : Min(named) <= k
    BY <1>2, <2>1, MinIsLeast
  <2> DEFINE i == Min(named)
  <2> HIDE DEF i
  <2>3. i \in DOMAIN packages /\ packages[i].filename = path /\ packages[i].sha256 = digest
    BY <2>1, <2>2 DEF i
  <2>4. packages[i] = [filename |-> path, sha256 |-> digest]
    BY <2>3 DEF IsPackages
  <2>5. ASSUME NEW k \in 1 .. (i - 1), packages[k].filename = path PROVE FALSE
    <3>1. k \in named /\ k \in Nat /\ i \in Nat /\ k < i
      BY <1>1, <2>3, <2>5
    <3>2. i <= k
      BY <2>2, <3>1 DEF i
    <3> QED
      BY <3>1, <3>2
  <2> QED
    BY <2>3, <2>4, <2>5 DEF Indexes
<1>4. ASSUME NEW i \in DOMAIN packages,
             packages[i] = [filename |-> path, sha256 |-> digest],
             \A k \in 1 .. (i - 1) : packages[k].filename # path
      PROVE  HashFromPackages(packages, path) = digest
  <2>1. i \in named
    BY <1>4
  <2>2. \A m \in named : i <= m
    BY <1>1, <1>4
  <2>3. Min(named) = i
    BY <1>2, <2>1, <2>2, MinUnique
  <2> QED
    BY <1>4, <2>1, <2>3 DEF HashFromPackages
<1> QED
  BY <1>3, <1>4 DEF Indexes

(* Three documents of the shapes the parsers meet                          *)
AreDownloads(got) ==
    /\ IsRelease(got.release) /\ IsPackages(got.packages)
    /\ Sha256(got.packages) # Absent

(* verifyRelease passes exactly the downloads that Datadog's key, the      *)
(* index it signed and the pin prove to be the pinned package: nothing     *)
(* else passes, and nothing that is proven is refused (verify-             *)
(* release.js:108-185).                                                    *)
THEOREM PassedIsProven ==
    ASSUME NEW artifact, NEW got, AreDownloads(got), Absent # "SHA256",
           DatadogKey # Absent, artifact.sha256 # Absent
    PROVE  VerifyRelease(artifact, got).ok <=> Proven(artifact, got)
<1>1. Holds("signature", artifact, got) <=>
        ~got.status.badsig /\ got.status.validsig = DatadogKey
  BY DEF Holds, ReadGpgStatus
<1>2. Holds("index", artifact, got) <=>
        Lists(got.release, IndexPath(artifact), Sha256(got.packages))
  BY HashFromReleaseIsTheListedOne DEF Holds, AreDownloads
<1>3. Holds("pin", artifact, got) <=>
        Indexes(got.packages, artifact.path, artifact.sha256)
  BY HashFromPackagesIsTheIndexedOne DEF Holds, AreDownloads
<1>4. Holds("bytes", artifact, got) <=>
        Sha256(got.deb) = artifact.sha256 /\ SizeOf(got.deb) = artifact.size
  BY DEF Holds
<1>5. VerifyRelease(artifact, got).ok <=> \A step \in Steps : Holds(step, artifact, got)
  BY DEF VerifyRelease, Failures
<1> QED
  BY <1>1, <1>2, <1>3, <1>4, <1>5 DEF Steps, Proven
================================================================================
