---------------------------- MODULE MCMetrics ----------------------------
(* The instance of Metrics for TLC. *)
EXTENDS Metrics, TLC

Symmetric == Permutations(Slots) \cup Permutations(Observers)
=============================================================================
