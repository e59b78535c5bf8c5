------------------------------ MODULE MCSeries ------------------------------
(* Small instances of ProcessSeries for TLC. *)
EXTENDS ProcessSeries

CONSTANTS t1, t2

MCThreads == {t1, t2}

MCSlots == {1, 2}

(* The guard's staleness, for every interval a run tries: a little past one. *)
MCStale == [i \in Intervals |-> i + 1]

=============================================================================
