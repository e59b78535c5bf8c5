------------------------------- MODULE MCExtract -------------------------------
(* The .debs are the two a pin may name, of which one has no data.tar, and   *)
(* one of the first's digest and another length; any but the pinned one      *)
(* stands for a damaged download.  The first's path was republished as the   *)
(* second.  Release files are every sequence of at most MaxLines lines.      *)
EXTENDS ExtractRelease, TLC

CONSTANTS dd, other, first, second, collided, hollow, MaxLines

Path(deb) == IF deb = hollow THEN "pool/else.deb" ELSE "pool/agent.deb"
MCPin(deb) == [path |-> Path(deb), debArch |-> "amd64",
               sha256 |-> [sha |-> deb], size |-> 1]
MCPins == {MCPin(first), MCPin(hollow)}
MCDebs == {first, collided, hollow}

MCStanza(deb) == [filename |-> Path(deb), sha256 |-> [sha |-> deb]]
Day1 == <<MCStanza(hollow), MCStanza(first)>>
Day2 == <<MCStanza(hollow), MCStanza(second), MCStanza(first)>>
MCPackagesFiles == {Day1, Day2, <<[filename |-> Path(first), sha256 |-> Absent]>>}

MCSha256(x) == [sha |-> IF x = collided THEN first ELSE x]
MCSizeOf(deb) == IF deb = collided THEN 2 ELSE 1

Index == <<"Packages", "amd64">>
Lines == {Key("SHA256"), Key("MD5Sum"),
          Entry(Index, MCSha256(Day1), TRUE), Entry(Index, MCSha256(Day2), TRUE),
          Entry(Index, [sha |-> other], FALSE),
          Entry(<<"Packages", "arm64">>, MCSha256(Day2), TRUE)}
MCReleaseFiles == UNION {[1 .. n -> Lines] : n \in 0 .. MaxLines}

MCStatuses == {[badsig |-> b, goodsig |-> g, validsig |-> v] :
                 b, g \in BOOLEAN, v \in {dd, other, Absent}}

MCObjectsIn(deb) == IF deb \in {first, collided} THEN {"tracer", "oom"} ELSE {"tracer", "usm"}
=============================================================================
