---------------------------- MODULE FecRecovery ----------------------------
(***************************************************************************)
(* Erasure recovery down to the bytes: tryReconstruct of accumulator.go,   *)
(* with the cache and the code it uses.  The erasure sets of many slots    *)
(* share one cache; this module follows one set at a time, from its first  *)
(* shard to its recovery, and then the next one.  SlotAccumulator says     *)
(* when a set is tried; here it may be tried whenever it has enough        *)
(* shards.                                                                 *)
(***************************************************************************)
EXTENDS ReedSolomon, RSCache

CONSTANTS
  Leader,       \* what leaders sent: name of a set -> [nd, nc, data], and in
                \* may which of its shards the network may deliver
  LargeCases    \* large layouts: [nd, nc, data, present], for the code alone

VARIABLES
  set,          \* the set at hand
  arrived,      \* positions of its shards that came; the code shards follow the data
  cut,          \* ... those of datagrams too short to hold a shard
  outcome,      \* what the last tryReconstruct with these shards returned
  recovered     \* ... and the data shards it gave: position -> bytes

recoveryVars == <<cacheVars, set, arrived, cut, outcome, recovered>>

\* All shards of a set.  A leader that exceeds the code's limit sends something else.
Shards(l) ==
  LET rs == Build[<<l.nd, l.nc>>]
  IN  IF rs = NoCode THEN LET Other(i) == l.data[1] IN l.data \o Tuple(l.nc, Other)
      ELSE l.data \o Encode(rs, l.data)
Sent == Evaluated([s \in DOMAIN Leader |-> Shards(Leader[s])])

nd == Leader[set].nd
total == nd + Leader[set].nc

\* Shards that did not come are buffers of zeros.
Gathered ==
  LET Zero(j) == 0
      At(i) == IF i - 1 \in arrived \ cut THEN Sent[set][i]
               ELSE Tuple(Len(Sent[set][1]), Zero)
  IN  Tuple(total, At)
Present == LET At(i) == i - 1 \in arrived \ cut IN Tuple(total, At)

NewSet(s) ==
  /\ set' = s /\ arrived' = {} /\ cut' = {} /\ outcome' = "none" /\ recovered' = <<>>
  /\ UNCHANGED cacheVars

\* A set that has been recovered is deleted; a shard of it that comes later starts anew.
Arrives(p) ==
  /\ outcome # "recovered" /\ p \notin arrived
  /\ arrived' = arrived \cup {p}
  /\ cut' \in {cut, cut \cup {p}}
  /\ outcome' = "none"
  /\ UNCHANGED <<cacheVars, set, recovered>>

\* What tryReconstruct returns, from the result of ReconstructData: the data shards that
\* had not come.
Returned(r) ==
  IF r.err THEN [outcome |-> "failed", shards |-> <<>>]
  ELSE [outcome |-> "recovered", shards |-> [p \in 0..(nd - 1) \ arrived |-> r.shards[p + 1]]]

\* canRecoverWith counts the shreds that were cut short, too; they are not enough then.
tryReconstruct ==
  /\ outcome = "none" /\ Cardinality(arrived) >= nd
  /\ Cardinality(arrived \ cut) >= nd
  /\ GetOrBuild(<<nd, Leader[set].nc>>)
  /\ \E r \in {Returned(IF got' = NoCode THEN Failed ELSE ReconstructData(got', Gathered, Present))} :
       outcome' = r.outcome /\ recovered' = r.shards
  /\ UNCHANGED <<set, arrived, cut>>

RecoveryInit ==
  /\ CacheInit
  /\ set \in DOMAIN Leader /\ arrived = {} /\ cut = {} /\ outcome = "none" /\ recovered = <<>>

RecoveryNext ==
  \/ \E s \in DOMAIN Leader : NewSet(s)
  \/ \E p \in Leader[set].may : Arrives(p)
  \/ tryReconstruct

RecoverySpec == RecoveryInit /\ [][RecoveryNext]_recoveryVars

-----------------------------------------------------------------------------
(* Properties *)

\* The shards that recovery gives are the ones that were lost, byte for byte, whichever
\* others arrived and whatever layouts the cache has seen before.
RecoversWhatWasSent ==
  outcome = "recovered" => recovered = [p \in 0..(nd - 1) \ arrived |-> Sent[set][p + 1]]

\* Any nd usable shards are enough: the matrix is never singular, and recovery fails
\* only for a layout of more than 256 shards.
EnoughShardsSuffice == outcome = "failed" => total > 256

\* What concerns the code alone is looked at before any set is recovered.
AtStart == arrived = {} /\ got = NoCode /\ recency = <<>>

\* The product of a and b as polynomials over GF(2), modulo PrimitivePoly.
PolynomialProduct(a, b) ==
  LET shifted[k \in 0..7] == IF k = 0 THEN a ELSE NextPower(shifted[k - 1])
      low[k \in 0..8] ==
        IF k = 0 THEN 0
        ELSE IF (b \div 2^(k - 1)) % 2 = 1 THEN Xor(low[k - 1], shifted[k - 1]) ELSE low[k - 1]
  IN  low[8]

\* The tables that init builds give the field that leaders encode with: products by
\* logarithms are products of polynomials, for all pairs of bytes, and Div undoes them.
TablesGiveTheField ==
  AtStart =>
    /\ \A a, b \in Byte : Mul(a, b) = PolynomialProduct(a, b)
    /\ \A a \in Byte, b \in Byte \ {0} : Div(Mul(a, b), b) = a

\* rs gives the shards all back when only those in there are at hand.
Restores(rs, nData, all, there) ==
  LET Erased(i) == IF i - 1 \in there THEN all[i] ELSE <<0>>
      At(i) == i - 1 \in there
      r == ReconstructData(rs, Tuple(Len(all), Erased), Tuple(Len(all), At))
  IN  ~r.err /\ SubSeq(r.shards, 1, nData) = SubSeq(all, 1, nData)
RestoresAll(rs, c, all) == \A there \in c.present : Restores(rs, c.nd, all, there)
Withstands(rs, c) == rs # BuildError => RestoresAll(rs, c, c.data \o Encode(rs, c.data))

\* The code alone, at its limits: for the layout of mainnet and for as many shards as
\* there are bytes, the chosen erasures are undone by every code that newReedSolomon builds.
LargeLayoutsRecover ==
  AtStart => \A c \in LargeCases : Withstands(newReedSolomon(c.nd, c.nc), c)

=============================================================================
