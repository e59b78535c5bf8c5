------------------------------ MODULE MCDelivery ------------------------------
(* DeliverySignal on a small node: one clock unit is a minute, so the      *)
(* agent's window is 1, STATS_RECALL_MS is 3 and readTraceHop's window 2.  *)
EXTENDS DeliverySignal, TLC

CONSTANTS t1, t2

MCThreads == {t1, t2}
ThreadSymmetry == Permutations(MCThreads)
=============================================================================
