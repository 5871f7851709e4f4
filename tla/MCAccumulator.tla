--------------------------- MODULE MCAccumulator ---------------------------
(* Instances of SlotAccumulator for TLC. *)
EXTENDS SlotAccumulator

\* Signatures are cells too large to be a count; 0 is a message cell.
S(n) == 100 + n
Tx(n) == <<S(n), 0>>

D(cells, flags, set) ==
  [cells |-> cells, size |-> 2 + Len(cells), set |-> set,
   bc |-> flags \in {"bc", "last"}, last |-> flags = "last"]

\* Two batches, each an erasure set of its own, and the slot's last shred.  The second
\* entry of the first batch spans two shreds; a shred ends inside a transaction.
MCLedger ==
  [i \in 0..5 |->
     CASE i = 0 -> D(<<2, 1>> \o Tx(1) \o <<2>> \o Tx(2), "", 0)
       [] i = 1 -> D(<<S(3)>>, "", 0)
       [] i = 2 -> D(<<0>>, "bc", 0)
       [] i = 3 -> D(<<1, 1, S(4)>>, "", 3)
       [] i = 4 -> D(<<0>>, "bc", 3)
       [] i = 5 -> D(<<1, 1>> \o Tx(5), "last", 5)]

\* Batches that give decoders trouble: shreds that end right after an entry header, which
\* the streaming decoder takes for an error, a transaction without signature, a batch of
\* ticks only, a malformed transaction, a shred without payload.
TroubleLedger ==
  [i \in 0..6 |->
     CASE i = 0 -> D(<<2, 0, 1>>, "", 0)
       [] i = 1 -> D(Tx(1), "bc", 0)
       [] i = 2 -> D(<<2, 1>> \o Tx(2) \o <<2, NoSig>>, "", 2)
       [] i = 3 -> D(<<0>> \o Tx(3), "bc", 2)
       [] i = 4 -> D(<<1, 0>>, "bc", 4)
       [] i = 5 -> D(<<2, 1>> \o Tx(4) \o <<1, 99, 0>>, "bc", 5)
       [] i = 6 -> D(<<>>, "", 6)]
TroubleLayout == [s \in {2} |-> [nd |-> 2, nc |-> 1]]

\* The slot's last shred is part of an erasure set.
LastLedger ==
  [i \in 0..2 |->
     CASE i = 0 -> D(<<1, 1, S(1)>>, "", 0)
       [] i = 1 -> D(<<0>>, "bc", 0)
       [] i = 2 -> D(<<1, 0>>, "last", 0)]
LastLayout == [s \in {0} |-> [nd |-> 3, nc |-> 1]]

MCFecLayout == [s \in {0, 3} |-> IF s = 0 THEN [nd |-> 3, nc |-> 2] ELSE [nd |-> 2, nc |-> 1]]
MCRawLens == {5, 9}

\* The code shred of the second set may be cut short.
MCCodeLens == [s \in {0, 3} |-> IF s = 3 THEN {5, 9} ELSE {9}]
TroubleCodeLens == [s \in {2} |-> {9}]
LastCodeLens == [s \in {0} |-> {9}]
=============================================================================
