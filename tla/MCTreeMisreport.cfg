SPECIFICATION Spec
CONSTANTS
    t1 = t1
    t2 = t2
    old = old
    new = new
    cpu = cpu
    disk = disk
    log = log
    Threads = {t1, t2}
    Releases = {old, new}
    Shipped <- MCShipped
    Gated <- MCGated
    WithObjects = {new}
    Settings <- MCSettings
    LogCheck = log
    Order <- MCOrder
    Missing = Missing
    None = None
    Deploys = 1
    Boots = 1
    Faults = 1
SYMMETRY MCSymmetry
INVARIANTS
    WarningIsTrue
CHECK_DEADLOCK FALSE
