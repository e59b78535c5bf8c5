------------------------------- MODULE Binaries -------------------------------
(***************************************************************************)
(* The binaries this package ships and where each comes from on each       *)
(* system (agent-build/binaries.js).                                       *)
(***************************************************************************)
Systems == {"linux", "macos", "windows"}

\* BINARIES.  buildOn and onlyOn are the systems they name; an absent onlyOn is
\* every system.  tag is the build tag mandatoryArgs exclude, if any.
BINARIES ==
    [agent |-> [from |-> "build", buildOn |-> {}, onlyOn |-> Systems,
                optional |-> FALSE, tag |-> "python"],
     trace |-> [from |-> "build", buildOn |-> {}, onlyOn |-> Systems,
                optional |-> FALSE, tag |-> ""],
     probe |-> [from |-> "release", buildOn |-> {"macos", "windows"},
                onlyOn |-> Systems, optional |-> TRUE, tag |-> ""],
     process |-> [from |-> "release", buildOn |-> {"macos", "windows"},
                  onlyOn |-> Systems, optional |-> TRUE, tag |-> ""],
     security |-> [from |-> "release", buildOn |-> {"windows"},
                   onlyOn |-> {"linux", "windows"}, optional |-> TRUE, tag |-> ""]]

Names == DOMAIN BINARIES

sourceOf(name, os) ==
    IF os \in BINARIES[name].buildOn THEN "build" ELSE BINARIES[name].from

binariesFor(os) == {name \in Names : os \in BINARIES[name].onlyOn}
builtFor(os) == {name \in binariesFor(os) : sourceOf(name, os) = "build"}
extractedFor(os) == {name \in binariesFor(os) : sourceOf(name, os) = "release"}
baseBinaries(os) == {name \in binariesFor(os) : ~BINARIES[name].optional}
probeBinaries(os) == {name \in binariesFor(os) : BINARIES[name].optional}
=============================================================================
