-------------------------------- MODULE MCTree --------------------------------
(* Two threads, two releases of which the new one gates a check off and is   *)
(* beside a probe package, and environments of other probes and another key. *)
EXTENDS RuntimeTree, TLC

CONSTANTS t1, t2, old, new, cpu, disk, log

MCShipped == old :> {cpu, disk} @@ new :> {cpu, disk}
MCGated == old :> {} @@ new :> {disk}
MCOrder == Main \o <<cpu, disk, log>>
MCSettings == {[ports |-> 1, probe |-> FALSE, security |-> FALSE, key |-> "k1"],
               [ports |-> 1, probe |-> TRUE, security |-> TRUE, key |-> "k1"],
               [ports |-> 1, probe |-> TRUE, security |-> TRUE, key |-> "k2"]}

MCSymmetry == Permutations({t1, t2})
=============================================================================
