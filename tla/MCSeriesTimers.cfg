SPECIFICATION FairSpec
CONSTANTS
    t1 = t1
    t2 = t2
    NoOne = NoOne
    Off = Off
    Threads <- MCThreads
    Slots <- MCSlots
    Intervals = {1, 2, 3}
    ClaimStaleMs <- MCStale
    TimerMax = 2
    Typed = {"blank", "private", "dots"}
    MaxInFlight = 1
INVARIANTS
    TypeOK
    TimersAreHeld
PROPERTIES
    ReadingsAreSpaced
    ImplementsEmitter
    EmissionResumes
