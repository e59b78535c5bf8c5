-------------------------------- MODULE MCBuild --------------------------------
(* Two releases of Datadog's repository, one with no .go-version.  The pins  *)
(* are each release's .deb, and every download is good or of the other       *)
(* release.                                                                  *)
EXTENDS AgentBuild, TLC

CONSTANTS dd, v1, v2, deb1, deb2, go1

MCPath(deb) == IF deb = deb1 THEN "pool/v1.deb" ELSE "pool/v2.deb"
MCPin(deb) == [path |-> MCPath(deb), debArch |-> "amd64", size |-> 1,
               sha256 |-> [sha |-> deb]]
MCPins == {MCPin(deb1), MCPin(deb2)}
MCSha256(x) == [sha |-> x]
MCSizeOf(deb) == 1
MCIndex(deb) == <<[filename |-> MCPath(deb), sha256 |-> [sha |-> deb]]>>
MCPackagesFiles == {MCIndex(deb1) \o MCIndex(deb2)}
MCReleaseFiles ==
    {<<[key |-> "SHA256", path |-> Absent, digest |-> Absent, wide |-> FALSE],
       [key |-> Absent, path |-> <<"Packages", "amd64">>, digest |-> [sha |-> p],
        wide |-> TRUE]>> : p \in MCPackagesFiles}
MCStatuses == {[badsig |-> FALSE, goodsig |-> TRUE, validsig |-> dd]}
MCObjectsIn(deb) == IF deb = deb1 THEN {"tracer", "oom"} ELSE {"tracer", "usm"}
MCVersionOf(deb) == IF deb = deb1 THEN v1 ELSE v2
MCGoPin(v) == IF v = v2 THEN go1 ELSE Absent
MCOverrides == {{}, {"include-python"}, {"no-build-info"}}
=============================================================================
