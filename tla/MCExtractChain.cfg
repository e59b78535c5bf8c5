SPECIFICATION Spec
CONSTANTS
    dd = dd
    other = other
    first = first
    second = second
    collided = collided
    hollow = hollow
    MaxLines = 3
    DatadogKey = dd
    Absent = Absent
    Missing = Missing
    Partial = Partial
    Sha256 <- MCSha256
    SizeOf <- MCSizeOf
    Targets = {"linux"}
    Pins <- MCPins
    ReleaseFiles <- MCReleaseFiles
    PackagesFiles <- MCPackagesFiles
    Debs <- MCDebs
    Statuses <- MCStatuses
    Readable = {first}
    Objects = {"tracer", "oom", "usm"}
    ObjectsIn <- MCObjectsIn
    Attempts = 1
INVARIANTS
    TypeOK
    VerdictIsTheChain
PROPERTIES
    WritesOnlyTheProven
CHECK_DEADLOCK FALSE
