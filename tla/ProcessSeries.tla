---------------------------- MODULE ProcessSeries ----------------------------
(***************************************************************************)
(* runtime/series.js on one node: every Harper thread runs a timer, every  *)
(* timer tick asks for the node's claim file, and only the tick that gets  *)
(* it takes a reading and sends it to DogStatsD.                           *)
(*                                                                         *)
(* Time is kept as ages and countdowns, so runs need no clock bound.  A    *)
(* tick is synchronous up to its send; the send ends later.                *)
(***************************************************************************)
EXTENDS Integers

CONSTANTS
    Threads,       \* Harper's threads that may run the component
    NoOne,         \* the claim file is missing
    Off,           \* a timer slot with no timer in it
    Slots,         \* bound: timers one thread can have at once
    Intervals,     \* DD_HARPER_PROCESS_METRICS_INTERVAL values tried
    ClaimStaleMs,  \* the guard's claimStaleMs, on Intervals
    TimerMax,      \* the longest delay setInterval keeps (2^31 - 1 ms)
    Typed,         \* DD_HARPER_PROCESS_METRICS_PREFIX values tried
    MaxInFlight    \* bound: sends of one thread not yet ended

Prefixes == {"system.processes", "private", ""}

ASSUME SeriesAssumption ==
    /\ NoOne \notin Threads
    /\ Off \notin Int
    /\ Slots \subseteq Nat \ {0}
    /\ Intervals \subseteq Nat \ {0}
    /\ TimerMax \in Nat \ {0}
    /\ ClaimStaleMs \in [Intervals -> Nat]
    /\ \A i \in Intervals : ClaimStaleMs[i] >= i
    /\ Typed \subseteq {"blank", "private", "dots"}
    /\ MaxInFlight \in Nat

VARIABLES
    settings,   \* what the environment says; fixed for the process
    configured, \* does conf.d/process.d/conf.yaml (or .yml) exist
    timers,     \* each thread's timer slots: time to the next tick, or Off
    series,     \* state.series: the slot of the timer it can stop, or 0
    claim,      \* the claim file: who holds it, how long since it was renewed
    sending,    \* sends each thread awaits
    since       \* history: time since the node's last reading

vars == <<settings, configured, timers, series, claim, sending, since>>

-----------------------------------------------------------------------------

PrefixUnresolved(typed) == typed

(* seriesSettings: trailing dots are stripped after the test for blank, so *)
(* a prefix of dots alone resolves to nothing and the sender names its     *)
(* readings without one.                                                   *)
Prefix(typed) ==
    IF typed = "blank" THEN "system.processes"
    ELSE IF typed = "dots" THEN "" ELSE "private"

Settings ==
    [enabled : BOOLEAN, interval : Intervals, prefix : Prefixes,
     measured : BOOLEAN]

(* setInterval's own rule: a delay it cannot hold becomes the shortest one. *)
Period(i) == IF i > TimerMax THEN 1 ELSE i

NoTimers == [s \in Slots |-> Off]

(* Which readings survive DD_..._INCLUDE and _EXCLUDE is data: measured    *)
(* says whether any line is left to send.                                  *)
Init ==
    /\ settings \in
           { [enabled |-> e, interval |-> i, prefix |-> Prefix(t), measured |-> m] :
               e \in BOOLEAN, i \in Intervals, t \in Typed, m \in BOOLEAN }
    /\ configured \in BOOLEAN
    /\ timers = [t \in Threads |-> NoTimers]
    /\ series = [t \in Threads |-> 0]
    /\ claim = [holder |-> NoOne, age |-> 0]
    /\ sending = [t \in Threads |-> 0]
    /\ since = ClaimStaleMs[settings.interval]

-----------------------------------------------------------------------------
(* Time, and what happens around the component.                            *)

StaleMs == ClaimStaleMs[settings.interval]

Older(age) == IF age < StaleMs THEN age + 1 ELSE age

Elapse ==
    /\ timers' = [t \in Threads |-> [s \in Slots |->
           IF timers[t][s] = Off \/ timers[t][s] = 0
           THEN timers[t][s] ELSE timers[t][s] - 1]]
    /\ claim' = [claim EXCEPT !.age = Older(@)]
    /\ since' = Older(since)
    /\ UNCHANGED <<settings, configured, series, sending>>

(* The operator adds or removes the Python check's configuration.          *)
ConfigurationChanges ==
    /\ configured' = ~configured
    /\ UNCHANGED <<settings, timers, series, claim, sending, since>>

(* A worker thread ends: its timers are unref'd and go with it.            *)
ThreadEnds(t) ==
    /\ timers' = [timers EXCEPT ![t] = NoTimers]
    /\ series' = [series EXCEPT ![t] = 0]
    /\ sending' = [sending EXCEPT ![t] = 0]
    /\ UNCHANGED <<settings, configured, claim, since>>

-----------------------------------------------------------------------------
(* scheduleSeries.                                                         *)

StandDown == settings.prefix = "system.processes" /\ configured

SilentIfStoodDown == StandDown

(* The two early returns: not asked for, or left to the Python check.      *)
Silent == ~settings.enabled \/ StandDown

PreviousKept(t) == timers[t]

(* previous?.stop()                                                        *)
PreviousStopped(t) ==
    IF series[t] = 0 THEN timers[t] ELSE [timers[t] EXCEPT ![series[t]] = Off]

ScheduleNothing(t) ==
    /\ Silent
    /\ timers' = [timers EXCEPT ![t] = PreviousStopped(t)]
    /\ series' = [series EXCEPT ![t] = 0]
    /\ UNCHANGED <<settings, configured, claim, sending, since>>

ScheduleTimer(t) ==
    /\ ~Silent
    /\ \E s \in Slots :
          /\ PreviousStopped(t)[s] = Off
          /\ timers' = [timers EXCEPT ![t] =
                 [PreviousStopped(t) EXCEPT ![s] = Period(settings.interval)]]
          /\ series' = [series EXCEPT ![t] = s]
    /\ UNCHANGED <<settings, configured, claim, sending, since>>

-----------------------------------------------------------------------------
(* tick().                                                                 *)

(* The timer fires, late or not; setInterval counts from this moment.      *)
Fires(t, s) ==
    /\ timers[t][s] = 0
    /\ timers' = [timers EXCEPT ![t][s] = Period(settings.interval)]

ClaimNeverStale(t) == claim.holder \in {t, NoOne}

ClaimNotAsked(t) == TRUE

(* What tick's claimSingleton call answers, given CLAIM_FILE and staleMs:   *)
(* a free, stale or own claim is taken and renewed.                         *)
ClaimFree(t) == claim.holder \in {t, NoOne} \/ claim.age >= StaleMs

TakeClaim(t) == claim' = [holder |-> t, age |-> 0]

TickNotOwner(t, s) ==
    /\ Fires(t, s)
    /\ ~ClaimFree(t)
    /\ UNCHANGED <<settings, configured, series, claim, sending, since>>

(* The directory cannot be written: the claim is not taken.                *)
TickUnwritable(t, s) ==
    /\ Fires(t, s)
    /\ UNCHANGED <<settings, configured, series, claim, sending, since>>

TickNothing(t, s) ==
    /\ Fires(t, s)
    /\ ClaimFree(t)
    /\ ~settings.measured
    /\ TakeClaim(t)
    /\ UNCHANGED <<settings, configured, series, sending, since>>

(* groups() or processSeries throws, which the timer's callback swallows:  *)
(* the claim was renewed and nothing is sent.                              *)
TickThrows(t, s) ==
    /\ Fires(t, s)
    /\ ClaimFree(t)
    /\ TakeClaim(t)
    /\ UNCHANGED <<settings, configured, series, sending, since>>

TickReads(t, s) ==
    /\ Fires(t, s)
    /\ ClaimFree(t)
    /\ settings.measured
    /\ sending[t] < MaxInFlight
    /\ TakeClaim(t)
    /\ sending' = [sending EXCEPT ![t] = @ + 1]
    /\ since' = 0
    /\ UNCHANGED <<settings, configured, series>>

(* The send resolves, or rejects and is warned of; the tick then resolves. *)
SendEnds(t) ==
    /\ sending[t] > 0
    /\ sending' = [sending EXCEPT ![t] = @ - 1]
    /\ UNCHANGED <<settings, configured, timers, series, claim, since>>

-----------------------------------------------------------------------------

TickOn(t, s) ==
    \/ TickNotOwner(t, s) \/ TickUnwritable(t, s)
    \/ TickNothing(t, s) \/ TickThrows(t, s) \/ TickReads(t, s)

Schedule(t) == ScheduleNothing(t) \/ ScheduleTimer(t)

Next ==
    \/ Elapse
    \/ ConfigurationChanges
    \/ \E t \in Threads :
          \/ ThreadEnds(t)
          \/ Schedule(t)
          \/ \E s \in Slots : TickOn(t, s)
          \/ SendEnds(t)

Spec == Init /\ [][Next]_vars

(* setInterval goes on firing on a thread that lives, a send always ends,  *)
(* the claim directory is not unwritable every time it is asked for, and   *)
(* taking the readings does not throw every time.                          *)
Fairness ==
    /\ WF_vars(Elapse)
    /\ \A t \in Threads :
          /\ SF_vars(\E s \in Slots : TickReads(t, s))
          /\ WF_vars(SendEnds(t))

FairSpec == Spec /\ Fairness

-----------------------------------------------------------------------------

Countdowns == Nat \cup {Off}

(* The timers, the claim and the settings keep their shapes through late   *)
(* ticks, takeovers and second startups.  A shape is no promise about the  *)
(* prefix: of dots alone it resolves to the empty name.                    *)
TypeOK ==
    /\ settings \in Settings
    /\ configured \in BOOLEAN
    /\ timers \in [Threads -> [Slots -> Countdowns]]
    /\ series \in [Threads -> Slots \cup {0}]
    /\ claim \in [holder : Threads \cup {NoOne}, age : 0..StaleMs]
    /\ sending \in [Threads -> 0..MaxInFlight]
    /\ since \in 0..StaleMs

Reading(t) == \E s \in Slots : TickReads(t, s)

(* A second startup cannot leave two timers on a thread, and standing down *)
(* leaves none: whatever runs is what state.series can stop.               *)
TimersAreHeld ==
    \A t \in Threads : \A s \in Slots : timers[t][s] # Off => series[t] = s

(* The node emits one series: two readings, of any threads, are a whole    *)
(* timer period apart, through late ticks, takeovers and second startups.  *)
ReadingsAreSpaced ==
    [][\A t \in Threads :
          Reading(t) => since >= Period(settings.interval)]_vars

Emits(t) == settings.measured /\ series[t] # 0

(* A holder that died, or whose thread ended, does not silence the node:   *)
(* once some thread keeps its timer, readings go on (claimStaleMs).        *)
EmissionResumes ==
    \A t \in Threads :
        <>[]Emits(t) /\ <>[][~ScheduleTimer(t)]_vars => []<>(since = 0)

-----------------------------------------------------------------------------
(* The threads of one node are together one emitter.                       *)

Wait ==
    IF since >= Period(settings.interval) THEN 0
    ELSE Period(settings.interval) - since

Emitter == INSTANCE NodeEmitter WITH
    Periods <- {Period(i) : i \in Intervals},
    period <- Period(settings.interval),
    allowed <- settings.enabled /\ settings.measured,
    wait <- Wait

(* Every step of the threads, their timers and the claim is a step of one  *)
(* emitter or none: what tick and scheduleSeries promise of a node.        *)
ImplementsEmitter == Emitter!Spec

-----------------------------------------------------------------------------
(* What the source says of itself and the code does not do.                *)

(* The status says "every N s", N the interval that was configured.        *)
CadenceIsAsConfigured ==
    [][\A t \in Threads : Reading(t) => since >= settings.interval]_vars

=============================================================================
