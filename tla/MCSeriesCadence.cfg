SPECIFICATION Spec
CONSTANTS
    t1 = t1
    t2 = t2
    NoOne = NoOne
    Off = Off
    Threads <- MCThreads
    Slots <- MCSlots
    Intervals = {3}
    ClaimStaleMs <- MCStale
    TimerMax = 2
    Typed = {"private"}
    MaxInFlight = 1
PROPERTIES
    CadenceIsAsConfigured
