----------------------------- MODULE MCRecovery -----------------------------
(* The instance of FecRecovery for TLC. *)
EXTENDS FecRecovery

\* Three layouts that can be built, and one with more shards than there are bytes.
MCLeader ==
  [s \in {"a", "b", "c", "large"} |->
     CASE s = "a" -> [nd |-> 2, nc |-> 2, data |-> <<<<1, 200>>, <<0, 7>>>>, may |-> 0..3]
       [] s = "b" -> [nd |-> 3, nc |-> 2, data |-> <<<<5, 5>>, <<255, 0>>, <<18, 130>>>>, may |-> 0..4]
       [] s = "c" -> [nd |-> 1, nc |-> 2, data |-> <<<<77, 9>>>>, may |-> 0..2]
       [] s = "large" -> [nd |-> 1, nc |-> 256, data |-> <<<<3, 4>>>>, may |-> {0, 1, 256}]]
MCLayouts == {<<MCLeader[s].nd, MCLeader[s].nc>> : s \in DOMAIN MCLeader}
MCBuild == Evaluated([l \in MCLayouts |-> newReedSolomon(l[1], l[2])])

Bytes(n) == [i \in 1..n |-> <<(37 * i + 11) % 256>>]
Evens(n) == {i \in 0..(n - 1) : i % 2 = 0}
MCLargeCases ==
  {[nd |-> 32, nc |-> 32, data |-> Bytes(32),
    present |-> {32..63, Evens(64), 1..32}],
   [nd |-> 2, nc |-> 254, data |-> Bytes(2),
    present |-> {{i, j} : i \in {0, 1, 2}, j \in {3, 127, 254, 255}}],
   [nd |-> 2, nc |-> 255, data |-> Bytes(2),
    present |-> {{i, j} : i \in {0, 1, 2}, j \in {255, 256}}]}
=============================================================================
