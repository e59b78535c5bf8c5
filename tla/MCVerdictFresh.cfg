SPECIFICATION FairSpec
CONSTANTS
    NoPid = NoPid
    MaxPid = 3
    Kinds = {"trace", "core", "process", "sysprobe", "security", "cluster"}
INVARIANTS
    TypeOK
    FreshVerdictIsEarned
    AccusationIsTrue
    UnstartedVerifiesOnlyAsTheNodes
PROPERTIES
    HealthyAgentIsVerified
CHECK_DEADLOCK FALSE
