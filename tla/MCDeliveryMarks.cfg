SPECIFICATION Spec
CONSTANTS
    t1 = t1
    t2 = t2
    Never = Never
    Threads <- MCThreads
    Recall = 3
    Window = 1
    LogWindow = 2
    ReadTime = 1
    MaxTime = 4
    Occurs = {"stats-accepted", "harper-restarts"}
SYMMETRY ThreadSymmetry
INVARIANTS
    TypeOK
    MarkIsBacked
    MarkIsFresh
PROPERTIES
    NeverItsOwnCorroboration
    RecallReachesEveryThread
