SPECIFICATION FairSpec
CONSTANTS
    dd = dd
    v1 = v1
    v2 = v2
    deb1 = deb1
    deb2 = deb2
    go1 = go1
    DatadogKey = dd
    Absent = Absent
    Missing = Missing
    Partial = Partial
    Sha256 <- MCSha256
    SizeOf <- MCSizeOf
    Targets = {"linux", "macos", "windows"}
    Pins <- MCPins
    ReleaseFiles <- MCReleaseFiles
    PackagesFiles <- MCPackagesFiles
    Debs = {deb1, deb2}
    Statuses <- MCStatuses
    Readable = {deb1, deb2}
    Objects = {"tracer", "oom", "usm"}
    ObjectsIn <- MCObjectsIn
    Attempts = 2
    Versions = {v1, v2}
    Latest = v2
    VersionOf <- MCVersionOf
    GoPin <- MCGoPin
    Overrides <- MCOverrides
INVARIANTS
    TypeOK
    DoneIsWhole
    BuiltByItsToolchain
    PackedIsAsGated
PROPERTIES
    CompileEnds
    ImplementsExtraction
CHECK_DEADLOCK FALSE
