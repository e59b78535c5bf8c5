SPECIFICATION Spec
CONSTANTS
    t1 = t1
    t2 = t2
    Never = Never
    Threads = {t1}
    Recall = 2
    Window = 1
    LogWindow = 1
    ReadTime = 0
    MaxTime = 4
    Occurs = {"client-stats", "stats-accepted", "stats-refused", "trace-accepted", "trace-refused", "log-opens", "log-scrolls", "log-lost", "agent-dies"}
PROPERTIES
    StatsClaimsAreBacked
    QuietNodeIsNotAccused
    RefusalOutranksMemory
