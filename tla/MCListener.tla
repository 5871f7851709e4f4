----------------------------- MODULE MCListener -----------------------------
(* Instances of Listener for TLC. *)
EXTENDS Listener, TLC

Symmetric == Permutations(Buffers) \cup Permutations(Readers)
=============================================================================
