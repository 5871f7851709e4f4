---------------------------- MODULE SlotContract ----------------------------
(***************************************************************************)
(* The promise of an accumulator to the listener: a push is one step with  *)
(* one of the PushOutcomes, and the harvest gives back every buffer and is *)
(* the last step.  SlotAccumulator implements it; Listener builds on it.   *)
(***************************************************************************)
EXTENDS PushContract

CONSTANT Buffers

VARIABLES acc, closed

vars == <<acc, closed>>

Init == acc = Empty /\ closed = FALSE

Push(offered, last) ==
  /\ ~closed
  /\ acc' \in PushOutcomes(acc, offered, last)
  /\ UNCHANGED closed

Harvest ==
  /\ ~closed
  /\ acc'.held = {}
  /\ closed' = TRUE

Next ==
  \/ \E last \in BOOLEAN : Push({}, last)
  \/ \E b \in Buffers : Push({b}, FALSE)
  \/ Harvest

Spec == Init /\ [][Next]_vars

=============================================================================
