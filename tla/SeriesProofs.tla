----------------------------- MODULE SeriesProofs -----------------------------
(***************************************************************************)
(* Proofs about ProcessSeries, for any number of threads, any intervals    *)
(* and any staleness of at least one interval.                             *)
(*                                                                         *)
(* That readings are spaced needs more than the claim: a thread that holds *)
(* it renews it without asking how old it is, so the spacing then rests on *)
(* that thread's own timer, and on there being only one (TimersAreHeld).   *)
(***************************************************************************)
EXTENDS ProcessSeries, TLAPS

(* What the node's last reading, its claim and the holder's timer say of   *)
(* each other's age.                                                       *)
Spacing ==
    /\ claim.holder = NoOne => since = StaleMs
    /\ claim.age <= since
    /\ claim.holder \in Threads =>
          \A s \in Slots :
              timers[claim.holder][s] # Off =>
                  timers[claim.holder][s] + claim.age >= Period(settings.interval)

(* A timer runs only where the settings asked for one.                     *)
AskedFor ==
    \A t \in Threads : \A s \in Slots : timers[t][s] # Off => settings.enabled

IInv == TypeOK /\ TimersAreHeld /\ Spacing /\ AskedFor

-----------------------------------------------------------------------------

(* A timer never waits longer than the interval asked for, and a claim is  *)
(* never stale sooner than that (series.js:245, 275).                      *)
LEMMA PeriodFacts ==
    ASSUME settings \in Settings
    PROVE  /\ StaleMs \in Nat
           /\ Period(settings.interval) \in Nat \ {0}
           /\ Period(settings.interval) <= StaleMs
<1>1. settings.interval \in Intervals
  BY DEF Settings
<1>2. ASSUME NEW i \in Intervals
      PROVE  /\ ClaimStaleMs[i] \in Nat
             /\ Period(i) \in Nat \ {0}
             /\ Period(i) <= ClaimStaleMs[i]
  <2>1. i \in Nat \ {0} /\ ClaimStaleMs[i] \in Nat /\ ClaimStaleMs[i] >= i
    BY SeriesAssumption
  <2>2. TimerMax \in Nat
    BY SeriesAssumption
  <2> QED
    BY <2>1, <2>2 DEF Period
<1> QED
  BY <1>1, <1>2 DEF StaleMs

(* Stopping the previous timer leaves a well-typed slot table.             *)
LEMMA StoppedType ==
    ASSUME TypeOK, NEW t \in Threads
    PROVE  PreviousStopped(t) \in [Slots -> Countdowns]
BY DEF TypeOK, PreviousStopped, Countdowns

(* Once the previous timer is stopped, a thread has none.                  *)
LEMMA NoneLeft ==
    ASSUME TypeOK, TimersAreHeld, NEW t \in Threads, NEW s \in Slots
    PROVE  PreviousStopped(t)[s] = Off
<1>1. timers[t] \in [Slots -> Countdowns]
  BY DEF TypeOK
<1>2. timers[t][s] # Off => series[t] = s
  BY DEF TimersAreHeld
<1>3. s # 0
  BY SeriesAssumption
<1> QED
  BY <1>1, <1>2, <1>3 DEF PreviousStopped

LEMMA InitInv == Init => IInv
<1> SUFFICES ASSUME Init PROVE IInv
  OBVIOUS
<1>1. settings \in Settings
  <2>1. PICK e \in BOOLEAN, i \in Intervals, t \in Typed, m \in BOOLEAN :
            settings = [enabled |-> e, interval |-> i,
                        prefix |-> Prefix(t), measured |-> m]
    BY DEF Init
  <2>2. Prefix(t) \in Prefixes
    BY DEF Prefix, Prefixes
  <2> QED
    BY <2>1, <2>2 DEF Settings
<1>2. StaleMs \in Nat
  BY <1>1, PeriodFacts
<1>3. TypeOK
  <2>1. claim \in [holder : Threads \cup {NoOne}, age : 0..StaleMs]
    BY <1>2 DEF Init
  <2>2. since \in 0..StaleMs
    BY <1>2 DEF Init, StaleMs
  <2>3. sending \in [Threads -> 0..MaxInFlight]
    BY SeriesAssumption DEF Init
  <2>4. timers \in [Threads -> [Slots -> Countdowns]]
    BY DEF Init, NoTimers, Countdowns
  <2> QED
    BY <1>1, <2>1, <2>2, <2>3, <2>4 DEF Init, TypeOK
<1>4. TimersAreHeld
  BY DEF Init, TimersAreHeld, NoTimers
<1>5. Spacing
  BY <1>2, SeriesAssumption DEF Init, Spacing, StaleMs
<1>6. AskedFor
  BY DEF Init, AskedFor, NoTimers
<1> QED
  BY <1>3, <1>4, <1>5, <1>6 DEF IInv

-----------------------------------------------------------------------------
(* Each conjunct across a step.                                            *)

LEMMA TypeStep ==
    ASSUME TypeOK, TimersAreHeld, [Next]_vars
    PROVE  TypeOK'
<1> USE SeriesAssumption
<1>1. /\ StaleMs \in Nat
      /\ Period(settings.interval) \in Nat
  BY PeriodFacts DEF TypeOK
<1>2. CASE Elapse
  <2>1. timers' \in [Threads -> [Slots -> Countdowns]]
    <3>1. \A c \in Countdowns :
              (IF c = Off \/ c = 0 THEN c ELSE c - 1) \in Countdowns
      BY DEF Countdowns
    <3>2. \A t \in Threads : \A s \in Slots : timers[t][s] \in Countdowns
      BY DEF TypeOK
    <3> QED
      BY <1>2, <3>1, <3>2 DEF Elapse
  <2>2. \A age \in 0..StaleMs : Older(age) \in 0..StaleMs
    BY <1>1 DEF Older
  <2>3. claim' \in [holder : Threads \cup {NoOne}, age : 0..StaleMs]
    <3>1. claim.age \in 0..StaleMs /\ claim.holder \in Threads \cup {NoOne}
      BY DEF TypeOK
    <3>2. claim' = [holder |-> claim.holder, age |-> Older(claim.age)]
      BY <1>2 DEF Elapse, TypeOK
    <3> QED
      BY <2>2, <3>1, <3>2
  <2>4. since' \in 0..StaleMs
    BY <1>2, <2>2 DEF Elapse, TypeOK
  <2> QED
    BY <1>2, <2>1, <2>3, <2>4 DEF Elapse, TypeOK, StaleMs
<1>3. CASE ConfigurationChanges
  BY <1>3 DEF ConfigurationChanges, TypeOK, StaleMs
<1>4. ASSUME NEW t \in Threads, ThreadEnds(t) PROVE TypeOK'
  BY <1>4 DEF ThreadEnds, TypeOK, StaleMs, NoTimers, Countdowns
<1>5. ASSUME NEW t \in Threads, ScheduleNothing(t) PROVE TypeOK'
  BY <1>5, StoppedType DEF ScheduleNothing, TypeOK, StaleMs
<1>6. ASSUME NEW t \in Threads, ScheduleTimer(t) PROVE TypeOK'
  <2>1. PICK s \in Slots :
            /\ timers' = [timers EXCEPT ![t] =
                   [PreviousStopped(t) EXCEPT ![s] = Period(settings.interval)]]
            /\ series' = [series EXCEPT ![t] = s]
    BY <1>6 DEF ScheduleTimer
  <2>2. [PreviousStopped(t) EXCEPT ![s] = Period(settings.interval)]
            \in [Slots -> Countdowns]
    BY <1>1, StoppedType DEF Countdowns
  <2>3. timers' \in [Threads -> [Slots -> Countdowns]]
    BY <2>1, <2>2 DEF TypeOK
  <2>4. series' \in [Threads -> Slots \cup {0}]
    BY <2>1 DEF TypeOK
  <2> QED
    BY <1>6, <2>3, <2>4 DEF ScheduleTimer, TypeOK, StaleMs
<1>7. ASSUME NEW t \in Threads, NEW s \in Slots, TickOn(t, s) PROVE TypeOK'
  <2>1. Fires(t, s)
    BY <1>7 DEF TickOn, TickNotOwner, TickUnwritable, TickNothing, TickThrows, TickReads
  <2>2. timers' \in [Threads -> [Slots -> Countdowns]]
    BY <1>1, <2>1 DEF Fires, TypeOK, Countdowns
  <2>3. CASE TickNotOwner(t, s) \/ TickUnwritable(t, s)
    BY <2>2, <2>3 DEF TickNotOwner, TickUnwritable, TypeOK, StaleMs
  <2>4. CASE TickNothing(t, s) \/ TickThrows(t, s)
    BY <1>1, <2>2, <2>4 DEF TickNothing, TickThrows, TakeClaim, TypeOK, StaleMs
  <2>5. CASE TickReads(t, s)
    <3>1. sending' \in [Threads -> 0..MaxInFlight]
      BY <2>5 DEF TickReads, TypeOK
    <3> QED
      BY <1>1, <2>2, <2>5, <3>1 DEF TickReads, TakeClaim, TypeOK, StaleMs
  <2> QED
    BY <1>7, <2>3, <2>4, <2>5 DEF TickOn
<1>8. ASSUME NEW t \in Threads, SendEnds(t) PROVE TypeOK'
  <2>1. /\ sending[t] > 0
        /\ sending' = [sending EXCEPT ![t] = @ - 1]
        /\ UNCHANGED <<settings, configured, timers, series, claim, since>>
    BY <1>8 DEF SendEnds
  <2>2. sending[t] - 1 \in 0..MaxInFlight
    BY <2>1 DEF TypeOK
  <2>3. sending' \in [Threads -> 0..MaxInFlight]
    BY <2>1, <2>2 DEF TypeOK
  <2> QED
    BY <2>1, <2>3 DEF TypeOK, StaleMs
<1>9. CASE UNCHANGED vars
  BY <1>9 DEF vars, TypeOK, StaleMs
<1> QED
  BY <1>2, <1>3, <1>4, <1>5, <1>6, <1>7, <1>8, <1>9 DEF Next, Schedule

LEMMA HeldStep ==
    ASSUME TypeOK, TimersAreHeld, [Next]_vars
    PROVE  TimersAreHeld'
<1> SUFFICES ASSUME NEW u \in Threads, NEW w \in Slots, timers'[u][w] # Off
             PROVE  series'[u] = w
  BY DEF TimersAreHeld
<1> USE SeriesAssumption
<1>1. CASE Elapse
  BY <1>1 DEF Elapse, TypeOK, TimersAreHeld
<1>2. CASE ConfigurationChanges
  BY <1>2 DEF ConfigurationChanges, TimersAreHeld
<1>3. ASSUME NEW t \in Threads, ThreadEnds(t) PROVE series'[u] = w
  BY <1>3 DEF ThreadEnds, TypeOK, TimersAreHeld, NoTimers
<1>4. ASSUME NEW t \in Threads, ScheduleNothing(t) PROVE series'[u] = w
  BY <1>4, NoneLeft DEF ScheduleNothing, TypeOK, TimersAreHeld
<1>5. ASSUME NEW t \in Threads, ScheduleTimer(t) PROVE series'[u] = w
  <2>1. PICK s \in Slots :
            /\ timers' = [timers EXCEPT ![t] =
                   [PreviousStopped(t) EXCEPT ![s] = Period(settings.interval)]]
            /\ series' = [series EXCEPT ![t] = s]
    BY <1>5 DEF ScheduleTimer
  <2>2. CASE u = t
    <3>1. PreviousStopped(t) \in [Slots -> Countdowns] /\ PreviousStopped(t)[w] = Off
      BY StoppedType, NoneLeft
    <3> QED
      BY <2>1, <2>2, <3>1 DEF TypeOK
  <2>3. CASE u # t
    BY <2>1, <2>3 DEF TypeOK, TimersAreHeld
  <2> QED
    BY <2>2, <2>3
<1>6. ASSUME NEW t \in Threads, NEW s \in Slots, TickOn(t, s) PROVE series'[u] = w
  <2>1. Fires(t, s) /\ series' = series
    BY <1>6 DEF TickOn, TickNotOwner, TickUnwritable, TickNothing, TickThrows, TickReads
  <2>2. timers[u][w] # Off
    BY <2>1 DEF Fires, TypeOK
  <2> QED
    BY <2>1, <2>2 DEF TimersAreHeld
<1>7. ASSUME NEW t \in Threads, SendEnds(t) PROVE series'[u] = w
  BY <1>7 DEF SendEnds, TimersAreHeld
<1>8. CASE UNCHANGED vars
  BY <1>8 DEF vars, TimersAreHeld
<1> QED
  BY <1>1, <1>2, <1>3, <1>4, <1>5, <1>6, <1>7, <1>8 DEF Next, Schedule

LEMMA SpacingStep ==
    ASSUME IInv, [Next]_vars
    PROVE  Spacing'
<1> USE SeriesAssumption DEF IInv
<1>0. /\ StaleMs \in Nat
      /\ Period(settings.interval) \in Nat \ {0}
      /\ Period(settings.interval) <= StaleMs
  BY PeriodFacts DEF TypeOK
<1>1. claim.age \in 0..StaleMs /\ since \in 0..StaleMs
  BY DEF TypeOK
<1>2. CASE Elapse
  <2>1. /\ claim'.holder = claim.holder
        /\ claim'.age = Older(claim.age)
        /\ since' = Older(since)
        /\ settings' = settings
    BY <1>2 DEF Elapse, TypeOK
  <2>2. (claim.holder = NoOne => since = StaleMs)' /\ claim'.age <= since'
    BY <1>0, <1>1, <2>1 DEF Spacing, Older, StaleMs
  <2>3. ASSUME claim.holder \in Threads, NEW s \in Slots,
               timers'[claim.holder][s] # Off
        PROVE  timers'[claim.holder][s] + claim'.age >= Period(settings.interval)
    <3>1. timers'[claim.holder][s] =
              IF timers[claim.holder][s] = Off \/ timers[claim.holder][s] = 0
              THEN timers[claim.holder][s] ELSE timers[claim.holder][s] - 1
      BY <1>2, <2>3 DEF Elapse
    <3>2. timers[claim.holder][s] # Off /\ timers[claim.holder][s] \in Nat
      <4>0. timers \in [Threads -> [Slots -> Countdowns]]
        BY DEF TypeOK
      <4>1. timers[claim.holder][s] \in Countdowns
        BY ONLY <2>3, <4>0
      <4>2. timers[claim.holder][s] # Off
        BY <2>3, <3>1
      <4> QED
        BY <4>1, <4>2 DEF Countdowns
    <3>3. timers[claim.holder][s] + claim.age >= Period(settings.interval)
      BY <2>3, <3>2 DEF Spacing
    <3> QED
      BY <1>0, <1>1, <2>1, <3>1, <3>2, <3>3 DEF Older
  <2> QED
    BY <2>1, <2>2, <2>3 DEF Spacing, StaleMs
<1>3. CASE ConfigurationChanges
  BY <1>3 DEF ConfigurationChanges, Spacing, StaleMs
<1>4. ASSUME NEW t \in Threads, ThreadEnds(t) PROVE Spacing'
  BY <1>4 DEF ThreadEnds, TypeOK, NoTimers, Spacing, StaleMs
<1>5. ASSUME NEW t \in Threads, ScheduleNothing(t) PROVE Spacing'
  BY <1>5, NoneLeft DEF ScheduleNothing, TypeOK, Spacing, StaleMs
<1>6. ASSUME NEW t \in Threads, ScheduleTimer(t) PROVE Spacing'
  <2>1. PICK s \in Slots : timers' = [timers EXCEPT ![t] =
                   [PreviousStopped(t) EXCEPT ![s] = Period(settings.interval)]]
    BY <1>6 DEF ScheduleTimer
  <2>2. UNCHANGED <<claim, since, settings>>
    BY <1>6 DEF ScheduleTimer
  <2>3. ASSUME claim.holder \in Threads, NEW w \in Slots,
               timers'[claim.holder][w] # Off
        PROVE  timers'[claim.holder][w] + claim.age >= Period(settings.interval)
    <3>1. CASE claim.holder = t
      <4>1. PreviousStopped(t) \in [Slots -> Countdowns]
            /\ PreviousStopped(t)[w] = Off
        BY StoppedType, NoneLeft
      <4>2. timers'[t][w] = Period(settings.interval)
        BY <2>1, <2>3, <3>1, <4>1 DEF TypeOK
      <4> QED
        BY <1>0, <1>1, <3>1, <4>2
    <3>2. CASE claim.holder # t
      <4>1. timers'[claim.holder] = timers[claim.holder]
        BY <2>1, <2>3, <3>2 DEF TypeOK
      <4> QED
        BY <2>3, <4>1 DEF Spacing
    <3> QED
      BY <3>1, <3>2
  <2> QED
    BY <2>2, <2>3 DEF Spacing, StaleMs
<1>7. ASSUME NEW t \in Threads, NEW s \in Slots, TickOn(t, s) PROVE Spacing'
  <2>0. /\ timers[t][s] = 0
        /\ timers' = [timers EXCEPT ![t][s] = Period(settings.interval)]
        /\ settings' = settings
    BY <1>7 DEF TickOn, TickNotOwner, TickUnwritable, TickNothing, TickThrows, TickReads, Fires
  <2>1. ASSUME NEW w \in Slots, timers'[t][w] # Off
        PROVE  timers'[t][w] = Period(settings.interval)
    \* t's only timer is the one that fired.
    <3>1. w # s => timers[t][w] = Off
      BY <2>0 DEF TimersAreHeld
    <3> QED
      BY <2>0, <2>1, <3>1 DEF TypeOK
  <2>2. CASE TickNotOwner(t, s) \/ TickUnwritable(t, s)
    <3>1. UNCHANGED <<claim, since>>
      BY <2>2 DEF TickNotOwner, TickUnwritable
    <3>2. ASSUME claim.holder \in Threads, NEW w \in Slots,
                 timers'[claim.holder][w] # Off
          PROVE  timers'[claim.holder][w] + claim.age >= Period(settings.interval)
      <4>1. CASE claim.holder = t
        BY <1>0, <1>1, <2>1, <3>2, <4>1
      <4>2. CASE claim.holder # t
        <5>1. timers'[claim.holder] = timers[claim.holder]
          BY <2>0, <3>2, <4>2 DEF TypeOK
        <5> QED
          BY <3>2, <5>1 DEF Spacing
      <4> QED
        BY <4>1, <4>2
    <3> QED
      BY <2>0, <3>1, <3>2 DEF Spacing, StaleMs
  <2>3. CASE TickNothing(t, s) \/ TickThrows(t, s) \/ TickReads(t, s)
    <3>1. /\ claim'.holder = t
          /\ claim'.age = 0
          /\ since' \in {0, since}
      BY <2>3 DEF TickNothing, TickThrows, TickReads, TakeClaim
    <3> QED
      BY <1>0, <1>1, <2>0, <2>1, <3>1 DEF Spacing
  <2> QED
    BY <1>7, <2>2, <2>3 DEF TickOn
<1>8. ASSUME NEW t \in Threads, SendEnds(t) PROVE Spacing'
  BY <1>8 DEF SendEnds, Spacing, StaleMs
<1>9. CASE UNCHANGED vars
  BY <1>9 DEF vars, Spacing, StaleMs
<1> QED
  BY <1>2, <1>3, <1>4, <1>5, <1>6, <1>7, <1>8, <1>9 DEF Next, Schedule

LEMMA AskedStep ==
    ASSUME IInv, [Next]_vars
    PROVE  AskedFor'
<1> SUFFICES ASSUME NEW u \in Threads, NEW w \in Slots, timers'[u][w] # Off
             PROVE  settings'.enabled
  BY DEF AskedFor
<1> USE SeriesAssumption DEF IInv
<1>0. timers \in [Threads -> [Slots -> Countdowns]]
  BY DEF TypeOK
<1>1. settings' = settings
  BY DEF Next, vars, Elapse, ConfigurationChanges, ThreadEnds, Schedule,
         ScheduleNothing, ScheduleTimer, TickOn, TickNotOwner, TickUnwritable,
         TickNothing, TickThrows, TickReads, SendEnds
<1>2. CASE timers[u][w] # Off
  BY <1>1, <1>2 DEF AskedFor
<1>3. CASE timers[u][w] = Off
  \* Only ScheduleTimer fills an empty slot.
  <2>1. CASE Elapse
    BY <1>0, <1>3, <2>1 DEF Elapse
  <2>2. ASSUME NEW t \in Threads, ThreadEnds(t) PROVE FALSE
    BY <1>0, <1>3, <2>2 DEF ThreadEnds, NoTimers
  <2>3. ASSUME NEW t \in Threads, ScheduleNothing(t) PROVE FALSE
    BY <1>0, <1>3, <2>3, NoneLeft DEF ScheduleNothing
  <2>4. ASSUME NEW t \in Threads, ScheduleTimer(t) PROVE settings.enabled
    BY <2>4 DEF ScheduleTimer, Silent
  <2>5. ASSUME NEW t \in Threads, NEW s \in Slots, TickOn(t, s) PROVE FALSE
    <3>1. /\ timers[t][s] = 0
          /\ timers' = [timers EXCEPT ![t][s] = Period(settings.interval)]
      BY <2>5 DEF TickOn, TickNotOwner, TickUnwritable, TickNothing, TickThrows, TickReads, Fires
    <3>2. ~(u = t /\ w = s)
      BY <1>3, <3>1
    <3> QED
      BY <1>0, <1>3, <3>1, <3>2
  <2>6. CASE ConfigurationChanges \/ UNCHANGED vars \/ \E t \in Threads : SendEnds(t)
    BY <1>3, <2>6 DEF ConfigurationChanges, vars, SendEnds
  <2> QED
    BY <1>1, <2>1, <2>2, <2>3, <2>4, <2>5, <2>6 DEF Next, Schedule
<1> QED
  BY <1>2, <1>3

LEMMA InvStep == IInv /\ [Next]_vars => IInv'
BY TypeStep, HeldStep, SpacingStep, AskedStep DEF IInv

LEMMA Invariance == Spec => []IInv
<1>1. Init => IInv
  BY InitInv
<1>2. IInv /\ [Next]_vars => IInv'
  BY InvStep
<1> QED
  BY <1>1, <1>2, PTL DEF Spec

-----------------------------------------------------------------------------

(* Whatever runs on a thread is what state.series can stop, for every      *)
(* number of second startups (series.js:310, 323, 336).                    *)
THEOREM OneTimerPerThread == Spec => [](TypeOK /\ TimersAreHeld)
<1>1. IInv => TypeOK /\ TimersAreHeld
  BY DEF IInv
<1> QED
  BY <1>1, Invariance, PTL

(* In a state of the invariant, a tick that reads is a period from the last *)
(* reading: by the staleness of the claim it takes over, or by the timer of *)
(* the thread that renews it.                                              *)
LEMMA ReadStep ==
    ASSUME IInv, NEW t \in Threads, Reading(t)
    PROVE  since >= Period(settings.interval)
<1>1. PICK s \in Slots : TickReads(t, s)
  BY DEF Reading
<1>2. timers[t][s] = 0 /\ ClaimFree(t)
  BY <1>1 DEF TickReads, Fires
<1>3. /\ StaleMs \in Nat
      /\ Period(settings.interval) \in Nat \ {0}
      /\ Period(settings.interval) <= StaleMs
  BY PeriodFacts DEF IInv, TypeOK
<1>4. claim.age \in 0..StaleMs /\ since \in 0..StaleMs /\ claim.age <= since
  BY DEF IInv, TypeOK, Spacing
<1>5. CASE claim.holder = t
  <2>1. timers[t][s] # Off
    BY <1>2, SeriesAssumption
  <2>2. timers[t][s] + claim.age >= Period(settings.interval)
    BY <1>5, <2>1 DEF IInv, Spacing
  <2> QED
    BY <1>2, <1>3, <1>4, <2>2
<1>6. CASE claim.holder = NoOne
  BY <1>3, <1>4, <1>6 DEF IInv, Spacing
<1>7. CASE claim.age >= StaleMs
  BY <1>3, <1>4, <1>7
<1> QED
  BY <1>2, <1>5, <1>6, <1>7 DEF ClaimFree

(* The node emits one series, whatever the threads do (series.js:239-248). *)
THEOREM OneSeriesPerNode == Spec => ReadingsAreSpaced
<1>1. IInv /\ [Next]_vars =>
          [\A t \in Threads : Reading(t) => since >= Period(settings.interval)]_vars
  BY ReadStep
<1> QED
  BY <1>1, Invariance, PTL DEF Spec, ReadingsAreSpaced

-----------------------------------------------------------------------------
(* The refinement.                                                         *)

(* Time only brings the next reading nearer.                               *)
LEMMA ElapseRefines ==
    ASSUME IInv, Elapse
    PROVE  [Emitter!Next]_(Emitter!node)
<1>1. /\ StaleMs \in Nat
      /\ Period(settings.interval) \in Nat \ {0}
      /\ Period(settings.interval) <= StaleMs
  BY PeriodFacts DEF IInv, TypeOK
<1>2. since \in 0..StaleMs
  BY DEF IInv, TypeOK
<1>3. settings' = settings /\ since' = Older(since)
  BY DEF Elapse
<1>4. CASE since >= Period(settings.interval)
  <2>1. since' >= Period(settings.interval)
    BY <1>1, <1>2, <1>3, <1>4 DEF Older
  <2>2. Wait = 0 /\ Wait' = 0
    BY <1>3, <1>4, <2>1 DEF Wait, Period
  <2> QED
    BY <1>3, <2>2 DEF Emitter!node, Period
<1>5. CASE since < Period(settings.interval)
  <2>1. since' = since + 1
    BY <1>1, <1>2, <1>3, <1>5 DEF Older
  <2>2. Wait = Period(settings.interval) - since /\ Wait > 0
    BY <1>1, <1>2, <1>5 DEF Wait
  <2>3. Wait' = Period(settings.interval) - since - 1
    BY <1>1, <1>2, <1>3, <1>5, <2>1 DEF Wait, Period
  <2>4. Wait' = Wait - 1
    BY <1>1, <1>2, <2>2, <2>3
  <2> QED
    BY <1>3, <2>2, <2>4 DEF Emitter!Next, Emitter!Waits, Period
<1> QED
  BY <1>1, <1>2, <1>4, <1>5

(* A tick that reads is the emitter's reading.                             *)
LEMMA ReadRefines ==
    ASSUME IInv, NEW t \in Threads, NEW s \in Slots, TickReads(t, s)
    PROVE  Emitter!Emits
<1>1. since >= Period(settings.interval)
  BY ReadStep DEF Reading
<1>2. Period(settings.interval) \in Nat \ {0}
  BY PeriodFacts DEF IInv, TypeOK
<1>3. settings' = settings /\ since' = 0 /\ settings.measured /\ timers[t][s] = 0
  BY DEF TickReads, Fires
<1>4. settings.enabled
  BY <1>3, SeriesAssumption DEF IInv, AskedFor
<1>5. Wait = 0 /\ Wait' = Period(settings.interval)
  <2>1. Wait' = Period(settings.interval) - 0
    BY <1>2, <1>3 DEF Wait, Period
  <2> QED
    BY <1>1, <1>2, <2>1 DEF Wait
<1> QED
  BY <1>3, <1>4, <1>5 DEF Emitter!Emits, Period

LEMMA StepRefines == IInv /\ [Next]_vars => [Emitter!Next]_(Emitter!node)
<1> SUFFICES ASSUME IInv, [Next]_vars PROVE [Emitter!Next]_(Emitter!node)
  OBVIOUS
<1>1. CASE Elapse
  BY <1>1, ElapseRefines
<1>2. ASSUME NEW t \in Threads, NEW s \in Slots, TickReads(t, s)
      PROVE  Emitter!Next
  BY <1>2, ReadRefines DEF Emitter!Next
<1>3. CASE UNCHANGED <<settings, since>>
  BY <1>3 DEF Emitter!node, Wait, Period
<1>4. Elapse \/ (\E t \in Threads : \E s \in Slots : TickReads(t, s))
          \/ UNCHANGED <<settings, since>>
  BY DEF Next, vars, ConfigurationChanges, ThreadEnds, Schedule, ScheduleNothing,
         ScheduleTimer, TickOn, TickNotOwner, TickUnwritable, TickNothing,
         TickThrows, SendEnds
<1> QED
  BY <1>1, <1>2, <1>3, <1>4

(* The threads, timers and claim of a node implement one emitter: however  *)
(* many threads run scheduleSeries and tick, and however they interleave.  *)
THEOREM NodeIsOneEmitter == Spec => ImplementsEmitter
<1>1. Init => Emitter!Init
  <2> SUFFICES ASSUME Init PROVE Emitter!Init
    OBVIOUS
  <2>0. settings \in Settings
    BY InitInv DEF IInv, TypeOK
  <2>1. Period(settings.interval) \in {Period(i) : i \in Intervals}
    BY <2>0 DEF Settings
  <2>2. (settings.enabled /\ settings.measured) \in BOOLEAN
    OBVIOUS
  <2>3. /\ since = StaleMs
        /\ StaleMs \in Nat
        /\ Period(settings.interval) \in Nat
        /\ Period(settings.interval) <= StaleMs
    BY <2>0, PeriodFacts DEF Init, StaleMs
  <2>4. Wait = 0
    BY <2>3 DEF Wait
  <2> QED
    BY <2>1, <2>2, <2>4 DEF Emitter!Init
<1> QED
  BY <1>1, StepRefines, Invariance, PTL DEF Spec, ImplementsEmitter, Emitter!Spec

=============================================================================
