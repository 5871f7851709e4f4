---------------------------- MODULE PushContract ----------------------------
(***************************************************************************)
(* What pushData and pushCode may leave behind in an accumulator, as the   *)
(* listener sees it: the pool buffers it holds, and whether its slot is    *)
(* complete.                                                               *)
(***************************************************************************)

Empty == [held |-> {}, complete |-> FALSE]

\* A push may keep the buffers offered with the shred, may release any it held before,
\* and takes no other.  A complete slot stays complete; the last shred completes it, and
\* so may the recovery of the last shred.
PushOutcomes(acc, offered, last) ==
  [held : SUBSET (acc.held \cup offered),
   complete : IF acc.complete \/ last THEN {TRUE} ELSE BOOLEAN]

=============================================================================
