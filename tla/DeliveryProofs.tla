--------------------------- MODULE DeliveryProofs ---------------------------
(***************************************************************************)
(* Proofs about what SlotAccumulator delivers, for any ledger and any      *)
(* order, loss, duplication and truncation of the datagrams: a batch that  *)
(* was received or recovered as a whole is delivered as a whole, and the   *)
(* streaming decoder stays aligned with the window.                        *)
(***************************************************************************)
EXTENDS AccumulatorProofs, DecoderProofs

\* The shreds, erasure sets and batch ends have their types.
ShredTypes ==
  /\ \A i \in DOMAIN pending : pending[i] \in Shred /\ pending[i].bc = Ledger[i].bc
  /\ \A s \in DOMAIN fecSets : fecSets[s] \in FecSetBuffer
  /\ \A i \in DOMAIN batchCompleteIdx : batchCompleteIdx[i] \in Nat
  /\ slotComplete \in BOOLEAN
TypesOK ==
  /\ ShredTypes /\ streamingCursor \in Nat /\ batchStart \in Nat
  /\ pc \in {"idle", "stream", "fill", "stream2", "flush", "flushFill", "harvest", "evicted"}

\* What was seen and is not finished is pending; the window begins after the end of a batch;
\* a batch end before the chosen one was recovered after the choice.
HistoryOK ==
  /\ seen \subseteq Indices /\ restoredEnds \subseteq seen
  /\ pc # "evicted" => DOMAIN pending = {i \in seen : i >= batchStart}
  /\ batchStart = 0 \/ (batchStart - 1 \in Indices /\ Ledger[batchStart - 1].bc)
  /\ pc = "flushFill" => \A i \in DOMAIN batchCompleteIdx : i < job.bc => i \in restoredEnds

\* Only a harvest has a tail.
OutOK ==
  /\ out \in Cells /\ job.tail \in Cells /\ yieldedSigs \subseteq Nat
  /\ pc # "harvest" => job.tail = <<>>

\* What streaming counts as delivered is delivered, and the decoder holds the payloads of
\* the shreds before the cursor.
StreamOK ==
  /\ yieldedSigs \subseteq Range(out)
  /\ DecoderOK(streamingDecoder)
  /\ \E i \in batchStart..streamingCursor :
       streamingDecoder.buffer = LedgerCells(i, streamingCursor - 1)

\* The finished batches that were received or recovered as a whole have been delivered, or
\* are in the harvest.
DeliveredOK ==
  ~(pc = "evicted" /\ disableSalvageDelivery) =>
  \A r \in Batches :
    /\ r[1]..r[2] \subseteq seen /\ r[2] < batchStart
    /\ \A e \in restoredEnds : e >= r[1]
    => BatchTxs(r) \subseteq Range(out) \cup Range(job.tail)

DInv == TypesOK /\ HistoryOK /\ OutOK /\ (pc # "evicted" => StreamOK) /\ DeliveredOK

-----------------------------------------------------------------------------
(* Lemmas on the helpers *)

\* Fresh leaves out only what is delivered already or has no signature.
LEMMA FreshFacts ==
  ASSUME NEW txs \in Cells, NEW sigs
  PROVE  /\ Fresh(txs, sigs) \in Cells
         /\ Range(txs) \subseteq Range(Fresh(txs, sigs)) \cup sigs \cup {NoSig}
<1> DEFINE new(n) == txs[n] \notin sigs \cup {NoSig} /\ \A j \in 1..(n - 1) : txs[j] # txs[n]
           f == [n \in DOMAIN txs |-> IF new(n) THEN <<txs[n]>> ELSE <<>>]
           m == Len(txs)
<1>1. m \in Nat /\ DOMAIN txs = 1..m /\ \A n \in 1..m : txs[n] \in Nat
  BY DEF Cells
<1>2. Fresh(txs, sigs) = Joined(f, 1, m)
  BY DEF Fresh
<1>3. ASSUME NEW n \in 1..m PROVE f[n] = IF new(n) THEN <<txs[n]>> ELSE <<>>
  BY <1>1
<1> HIDE DEF new, f, m
<1>4. Chain(Nat, f, 1, m)
  <2>1. ASSUME NEW n \in 1..m PROVE f[n] \in Seq(Nat)
    <3>1. <<txs[n]>> \in Seq(Nat) /\ <<>> \in Seq(Nat)
      BY <1>1
    <3> QED BY <1>3, <3>1
  <2> QED BY <1>1, <2>1 DEF Chain
<1>5. Joined(f, 1, m) \in Seq(Nat)
  BY <1>4, JoinedStep
<1>6. ASSUME NEW x \in Range(txs), x \notin sigs \cup {NoSig} PROVE x \in Range(Joined(f, 1, m))
  <2> DEFINE at == {n \in 1..m : txs[n] = x}
  <2>1. at # {} /\ at \subseteq Nat
    BY <1>1 DEF Range
  <2>2. Min(at) \in at /\ \A n \in at : Min(at) <= n
    BY <2>1, MinOfNats
  <2> DEFINE n == Min(at)
  <2>3. n \in 1..m /\ txs[n] = x /\ \A j \in at : n <= j
    BY <2>2
  <2> HIDE DEF n
  <2>4. \A j \in 1..(n - 1) : txs[j] # txs[n]
    BY <1>1, <2>3
  <2>5. f[n] = <<x>>
    BY <1>3, <1>6, <2>3, <2>4 DEF new
  <2>6. x \in Range(f[n])
    BY <2>5 DEF Range
  <2>7. Range(f[n]) \subseteq Range(Joined(f, 1, m))
    BY <1>4, <2>3, JoinedHas
  <2> QED BY <2>6, <2>7
<1> QED BY <1>2, <1>5, <1>6 DEF Cells

\* The cells that the leader sent in the shreds lo, ..., hi.
LEMMA LedgerStep ==
  ASSUME NEW lo \in Nat, NEW hi \in Int, hi >= lo - 1, lo..hi \subseteq Indices
  PROVE  /\ LedgerCells(lo, hi) \in Cells
         /\ hi < lo => LedgerCells(lo, hi) = <<>>
         /\ lo <= hi => LedgerCells(lo, hi) = LedgerCells(lo, hi - 1) \o Ledger[hi].cells
<1> DEFINE f == [i \in Indices |-> Ledger[i].cells]
<1>1. \A i \in lo..hi : f[i] = Ledger[i].cells /\ f[i] \in Seq(Nat)
  BY AccumulatorAssumption DEF AccumulatorAssumption
<1> HIDE DEF f
<1>2. Chain(Nat, f, lo, hi)
  BY <1>1 DEF Chain
<1>3. lo <= hi => f[hi] = Ledger[hi].cells
  BY <1>1
<1>4. \A h : LedgerCells(lo, h) = Joined(f, lo, h)
  BY DEF LedgerCells, f
<1>5. /\ Joined(f, lo, hi) \in Seq(Nat)
      /\ hi < lo => Joined(f, lo, hi) = <<>>
      /\ lo <= hi => Joined(f, lo, hi) = Joined(f, lo, hi - 1) \o f[hi]
  <2> DEFINE A == Nat
  <2>1. Chain(A, f, lo, hi)
    BY <1>2
  <2> HIDE DEF A
  <2>2. /\ Joined(f, lo, hi) \in Seq(A)
        /\ hi < lo => Joined(f, lo, hi) = <<>>
        /\ lo <= hi => Joined(f, lo, hi) = Joined(f, lo, hi - 1) \o f[hi]
    BY <2>1, JoinedStep
  <2> QED BY <2>2 DEF A
<1> QED BY <1>3, <1>4, <1>5, Zenon DEF Cells

\* The payloads of the shreds lo, ..., hi begin with what the leader sent in lo, ..., m, if
\* those are pending.
LEMMA CombinedFacts ==
  ASSUME ShredsOK, NEW lo \in Nat, NEW hi \in Int, hi >= lo - 1
  PROVE  /\ Combined(lo, hi) \in Cells
         /\ \A m \in (lo - 1)..hi : Contiguous(lo, m) =>
              \E c \in Cells : Combined(lo, hi) = LedgerCells(lo, m) \o c
         /\ Contiguous(lo, hi) => Combined(lo, hi) = LedgerCells(lo, hi)
<1> DEFINE f == [i \in lo..hi |-> IF i \in DOMAIN pending THEN payload(i) ELSE <<>>]
           g == [i \in Indices |-> Ledger[i].cells]
<1>1. ASSUME NEW i \in DOMAIN pending PROVE payload(i) = Ledger[i].cells /\ Ledger[i].cells \in Seq(Nat) /\ i \in Indices
  BY AccumulatorAssumption DEF AccumulatorAssumption, ShredsOK, payload
<1>2. ASSUME NEW i \in lo..hi PROVE f[i] \in Seq(Nat) /\ (i \in DOMAIN pending => f[i] = g[i])
  <2>1. f[i] = IF i \in DOMAIN pending THEN payload(i) ELSE <<>>
    OBVIOUS
  <2>2. i \in DOMAIN pending => g[i] = Ledger[i].cells
    BY <1>1
  <2> HIDE DEF f, g
  <2> QED BY <1>1, <2>1, <2>2
<1>3. Combined(lo, hi) = Joined(f, lo, hi)
  BY DEF Combined
<1>4. \A m : LedgerCells(lo, m) = Joined(g, lo, m)
  BY DEF LedgerCells
<1> HIDE DEF f, g
<1>5. Chain(Nat, f, lo, hi)
  BY <1>2 DEF Chain
<1>6. Joined(f, lo, hi) \in Seq(Nat)
  BY <1>5, JoinedStep
<1>7. ASSUME NEW m \in (lo - 1)..hi, Contiguous(lo, m) PROVE Joined(g, lo, m) = Joined(f, lo, m)
  <2>1. Agree(Nat, f, g, lo, m)
    BY <1>2, <1>7 DEF Agree, Chain, Contiguous
  <2> QED BY <2>1, JoinedSame
<1>8. ASSUME NEW m \in (lo - 1)..hi, Contiguous(lo, m)
      PROVE  \E c \in Cells : Combined(lo, hi) = LedgerCells(lo, m) \o c
  <2>1. Cut(Nat, f, lo, m, hi)
    BY <1>5 DEF Cut
  <2>2. /\ Joined(f, lo, hi) = Joined(f, lo, m) \o Joined(f, m + 1, hi)
        /\ Joined(f, m + 1, hi) \in Cells
    <3> DEFINE A == Nat
    <3>1. Cut(A, f, lo, m, hi)
      BY <2>1
    <3> HIDE DEF A
    <3>2. /\ Joined(f, lo, hi) = Joined(f, lo, m) \o Joined(f, m + 1, hi)
          /\ Joined(f, m + 1, hi) \in Seq(A)
      BY <3>1, JoinedSplit
    <3> QED BY <3>2 DEF A, Cells
  <2>3. Combined(lo, hi) = LedgerCells(lo, m) \o Joined(f, m + 1, hi)
    BY <1>3, <1>4, <1>7, <1>8, <2>2
  <2> QED BY <2>2, <2>3, Zenon
<1>9. hi \in (lo - 1)..hi
  OBVIOUS
<1> QED BY <1>3, <1>4, <1>6, <1>7, <1>8, <1>9 DEF Cells

\* A run of D that begins at i ends in D, and not before a part of D without gap.
LEMMA RunFacts ==
  ASSUME NEW D, D \subseteq Indices, NEW i \in D
  PROVE  /\ Max(D) \in Nat /\ \A j \in D : j <= Max(D)
         /\ runEnd(D, i) \in D /\ i <= runEnd(D, i)
         /\ \A m \in D : i..m \subseteq D => m <= runEnd(D, i)
<1>1. D \subseteq Nat /\ MaxU32 \in Nat /\ \A j \in D : j <= MaxU32
  BY AccumulatorAssumption DEF AccumulatorAssumption
<1>2. Max(D) \in D /\ \A j \in D : j <= Max(D)
  BY <1>1, MaxOfNats
<1> DEFINE M == Max(D)
           ends == {j \in D : i <= j /\ j + 1 \notin D}
<1>3. M \in D /\ \A j \in D : j <= M
  BY <1>2
<1> HIDE DEF M
<1>4. M \in ends
  <2>1. M + 1 \notin D
    BY <1>1, <1>3
  <2> QED BY <1>3, <2>1
<1>5. ends \subseteq Nat /\ ends # {}
  BY <1>1, <1>4
<1>6. Min(ends) \in ends
  BY <1>5, MinOfNats
<1>7. runEnd(D, i) = Min(ends)
  BY DEF runEnd
<1> DEFINE e == runEnd(D, i)
<1>8. e \in D /\ i <= e /\ e + 1 \notin D
  BY <1>6, <1>7
<1> HIDE DEF e
<1>9. ASSUME NEW m \in D, i..m \subseteq D PROVE m <= e
  <2> SUFFICES ASSUME ~(m <= e) PROVE FALSE
    OBVIOUS
  <2>1. e + 1 \in i..m
    BY <1>1, <1>8
  <2> QED BY <1>8, <1>9, <2>1
<1> QED BY <1>1, <1>2, <1>8, <1>9 DEF e

\* Salvage gives at least the batches that begin a run.
LEMMA SalvageFacts ==
  ASSUME ShredsOK, NEW D, D \subseteq DOMAIN pending
  PROVE  /\ salvageContiguousRunsIn(D) \in Cells
         /\ \A lo \in D, hi \in D :
              lo <= hi /\ lo..hi \subseteq D /\ lo - 1 \notin D =>
                Range(DecodeBatch(LedgerCells(lo, hi)).txs)
                  \subseteq Range(salvageContiguousRunsIn(D))
<1>1. CASE D = {}
  BY <1>1 DEF salvageContiguousRunsIn, Cells
<1>2. CASE D # {}
  <2> DEFINE f == [i \in 0..Max(D) |-> runTxs(D, i)]
             M == Max(D)
  <2>0. D \subseteq Indices /\ D \subseteq Nat
    BY IndexFacts DEF ShredsOK
  <2>1. M \in Nat /\ \A j \in D : j <= M
    BY <1>2, <2>0, RunFacts
  <2>2. salvageContiguousRunsIn(D) = Joined(f, 0, M)
    BY <1>2 DEF salvageContiguousRunsIn
  <2>3. ASSUME NEW i \in 0..M PROVE f[i] = runTxs(D, i)
    BY <2>1
  <2> HIDE DEF f, M
  <2>4. ASSUME NEW i \in D
        PROVE  /\ Combined(i, runEnd(D, i)) \in Cells
               /\ \A m \in D : i <= m /\ i..m \subseteq D =>
                    \E c \in Cells : Combined(i, runEnd(D, i)) = LedgerCells(i, m) \o c
    <3> DEFINE e == runEnd(D, i)
    <3>1. e \in D /\ i <= e /\ \A m \in D : i..m \subseteq D => m <= e
      BY <2>0, RunFacts
    <3> HIDE DEF e
    <3>2. e \in Int /\ i \in Nat /\ e >= i - 1
      BY <2>0, <3>1
    <3>3. /\ Combined(i, e) \in Cells
          /\ \A m \in (i - 1)..e : Contiguous(i, m) =>
               \E c \in Cells : Combined(i, e) = LedgerCells(i, m) \o c
      BY <3>2, CombinedFacts
    <3>4. ASSUME NEW m \in D, i <= m, i..m \subseteq D
          PROVE  \E c \in Cells : Combined(i, e) = LedgerCells(i, m) \o c
      <4>1. m \in (i - 1)..e /\ Contiguous(i, m)
        BY <2>0, <3>1, <3>2, <3>4 DEF Contiguous
      <4> QED BY <3>3, <4>1
    <3> QED BY <3>3, <3>4 DEF e
  <2>5. ASSUME NEW i \in 0..M PROVE f[i] \in Cells
    <3>1. <<>> \in Cells
      BY DEF Cells
    <3>2. i \in D => DecodeConcatenated(Combined(i, runEnd(D, i))) \in Cells
      BY <2>4, ConcatenatedFacts
    <3> QED BY <2>3, <3>1, <3>2 DEF runTxs
  <2>6. Chain(Nat, f, 0, M)
    BY <2>1, <2>5 DEF Chain, Cells
  <2>7. Joined(f, 0, M) \in Cells
    BY <2>6, JoinedStep DEF Cells
  <2>8. ASSUME NEW lo \in D, NEW hi \in D, lo <= hi, lo..hi \subseteq D, lo - 1 \notin D
        PROVE  Range(DecodeBatch(LedgerCells(lo, hi)).txs) \subseteq Range(Joined(f, 0, M))
    <3>1. PICK c \in Cells : Combined(lo, runEnd(D, lo)) = LedgerCells(lo, hi) \o c
      BY <2>4, <2>8
    <3>2. LedgerCells(lo, hi) \in Cells
      <4>1. lo \in Nat /\ hi \in Int /\ hi >= lo - 1 /\ lo..hi \subseteq Indices
        BY <2>0, <2>8
      <4> QED BY <4>1, LedgerStep
    <3>3. lo \in 0..M
      BY <2>0, <2>1
    <3>4. f[lo] = DecodeConcatenated(LedgerCells(lo, hi) \o c)
      BY <2>3, <2>8, <3>1, <3>3 DEF runTxs
    <3>5. Range(DecodeBatch(LedgerCells(lo, hi)).txs) \subseteq Range(f[lo])
      BY <3>2, <3>4, BatchInConcatenated
    <3>6. Range(f[lo]) \subseteq Range(Joined(f, 0, M))
      BY <2>6, <3>3, JoinedHas
    <3> QED BY <3>5, <3>6
  <2> QED BY <2>2, <2>7, <2>8
<1> QED BY <1>1, <1>2

-----------------------------------------------------------------------------
(* What finishing a batch delivers *)

\* What is delivered, or goes into the harvest, when batchStart..bcIdx is finished.
Finished(bcIdx) ==
  IF Contiguous(batchStart, bcIdx) THEN DecodedTxs(bcIdx)
  ELSE SalvagedTxs(DOMAIN pending \cap batchStart..bcIdx)

LEMMA BatchFacts ==
  ASSUME NEW r \in Batches
  PROVE  /\ r[1] \in Indices /\ r[2] \in Indices /\ r[1] \in Nat /\ r[2] \in Nat /\ r[1] <= r[2]
         /\ Ledger[r[2]].bc /\ (r[1] = 0 \/ Ledger[r[1] - 1].bc)
         /\ \A i \in r[1]..(r[2] - 1) : ~Ledger[i].bc
BY IndexFacts DEF Batches

\* Its type.
LEMMA FinishedType ==
  ASSUME ShredsOK, CursorOK, NEW bcIdx \in Indices, bcIdx >= batchStart
  PROVE  Finished(bcIdx) \in Cells
<1>1. bcIdx \in Int /\ batchStart \in Nat /\ bcIdx >= batchStart - 1
  BY IndexFacts DEF CursorOK
<1>2. DecodedTxs(bcIdx) \in Cells
  <2>1. Combined(batchStart, bcIdx) \in Cells
    BY <1>1, CombinedFacts
  <2> QED BY <2>1, BatchType, FreshFacts DEF DecodedTxs
<1>3. SalvagedTxs(DOMAIN pending \cap batchStart..bcIdx) \in Cells
  <2> DEFINE D == DOMAIN pending \cap batchStart..bcIdx
  <2>1. D \subseteq DOMAIN pending
    OBVIOUS
  <2> HIDE DEF D
  <2>2. salvageContiguousRunsIn(D) \in Cells
    BY <2>1, SalvageFacts
  <2>3. SalvagedTxs(D) \in Cells
    BY <2>2, FreshFacts DEF SalvagedTxs
  <2> QED BY <2>3 DEF D
<1> QED BY <1>2, <1>3 DEF Finished

\* A batch at the start of the window, all of which is pending up to bcIdx.
LEMMA FrontDelivered ==
  ASSUME ShredsOK, CursorOK, NEW bcIdx \in Indices, Contiguous(batchStart, bcIdx),
         NEW r \in Batches, r[1] = batchStart, r[2] <= bcIdx
  PROVE  BatchTxs(r) \subseteq Range(DecodedTxs(bcIdx)) \cup yieldedSigs
<1> DEFINE lo == batchStart  hi == r[2]  b == LedgerCells(lo, hi)
<1>1. lo \in Nat /\ hi \in Nat /\ bcIdx \in Nat /\ lo <= hi /\ hi <= bcIdx
  BY BatchFacts, IndexFacts
<1>2. lo..hi \subseteq DOMAIN pending /\ lo..hi \subseteq Indices
  BY <1>1 DEF Contiguous, ShredsOK
<1>3. b \in Cells
  <2>1. lo \in Nat /\ hi \in Int /\ hi >= lo - 1
    BY <1>1
  <2> QED BY <1>2, <2>1, LedgerStep
<1>4. PICK c \in Cells : Combined(lo, bcIdx) = b \o c
  <2>1. bcIdx \in Int /\ bcIdx >= lo - 1 /\ hi \in (lo - 1)..bcIdx /\ Contiguous(lo, hi)
    BY <1>1, <1>2 DEF Contiguous
  <2> QED BY <1>1, <2>1, CombinedFacts
<1> DEFINE d == b \o c
<1>5. d \in Cells
  BY <1>3, ConcatProperties DEF Cells
<1>6. Range(DecodeBatch(b).txs) \subseteq Range(DecodeBatch(d).txs)
  BY <1>3, BatchExtends
<1>7. DecodedTxs(bcIdx) = Fresh(DecodeBatch(d).txs, yieldedSigs)
  BY <1>4 DEF DecodedTxs
<1>8. BatchTxs(r) = Range(DecodeBatch(b).txs) \ {NoSig}
  BY DEF BatchTxs
<1> HIDE DEF b, d
<1>9. Range(DecodeBatch(d).txs) \subseteq Range(DecodedTxs(bcIdx)) \cup yieldedSigs \cup {NoSig}
  BY <1>5, <1>7, BatchType, FreshFacts
<1> QED BY <1>6, <1>8, <1>9

\* A batch that was seen as a whole and ends in the part that is finished, when no batch end
\* before it was recovered.
LEMMA InsideDelivered ==
  ASSUME ShredsOK, CursorOK, TypesOK, HistoryOK, pc # "evicted",
         NEW bcIdx \in DOMAIN batchCompleteIdx,
         \A i \in DOMAIN batchCompleteIdx : i < bcIdx => i \in restoredEnds,
         NEW r \in Batches, r[1]..r[2] \subseteq seen, batchStart <= r[2], r[2] <= bcIdx,
         \A e \in restoredEnds : e >= r[1]
  PROVE  BatchTxs(r) \subseteq Range(Finished(bcIdx)) \cup yieldedSigs
<1> DEFINE lo == r[1]  hi == r[2]
<1>1. /\ lo \in Nat /\ hi \in Nat /\ lo <= hi /\ (lo = 0 \/ Ledger[lo - 1].bc)
      /\ \A i \in lo..(hi - 1) : ~Ledger[i].bc
  BY BatchFacts
<1>2. bcIdx \in DOMAIN pending /\ bcIdx \in Indices /\ bcIdx \in Nat
  BY IndexFacts DEF ShredsOK
<1>3. batchStart \in Nat /\ (batchStart = 0 \/ Ledger[batchStart - 1].bc)
  BY DEF CursorOK, HistoryOK
<1>4. lo >= batchStart
  <2> SUFFICES ASSUME lo < batchStart PROVE FALSE
    BY <1>1, <1>3
  <2>1. batchStart - 1 \in lo..(hi - 1) /\ batchStart # 0
    BY <1>1, <1>3
  <2> QED BY <1>1, <1>3, <2>1
<1>5. lo..hi \subseteq DOMAIN pending
  <2>1. \A i \in lo..hi : i \in seen /\ i >= batchStart
    BY <1>1, <1>3, <1>4
  <2> QED BY <2>1 DEF HistoryOK
<1>6. lo - 1 \notin DOMAIN pending \cap batchStart..bcIdx
  <2> SUFFICES ASSUME lo - 1 \in DOMAIN pending, lo - 1 \in batchStart..bcIdx PROVE FALSE
    OBVIOUS
  <2>1. lo # 0 /\ Ledger[lo - 1].bc /\ pending[lo - 1].bc = Ledger[lo - 1].bc
    BY <1>1, <1>3 DEF TypesOK, ShredTypes
  <2>2. lo - 1 \in DOMAIN batchCompleteIdx /\ lo - 1 < bcIdx
    <3>1. lo - 1 < bcIdx
      BY <1>1, <1>2
    <3>2. lo - 1 \in {i \in DOMAIN pending : pending[i].bc}
      BY <2>1
    <3> QED BY <3>1, <3>2 DEF ShredsOK
  <2>3. lo - 1 \in restoredEnds
    BY <2>2
  <2> QED BY <1>1, <2>3
<1>7. CASE Contiguous(batchStart, bcIdx)
  <2>1. lo = batchStart
    <3> SUFFICES ASSUME lo # batchStart PROVE FALSE
      OBVIOUS
    <3>1. lo - 1 \in batchStart..bcIdx
      BY <1>1, <1>2, <1>3, <1>4
    <3> QED BY <1>6, <1>7, <3>1 DEF Contiguous
  <2> QED BY <1>2, <1>7, <2>1, FrontDelivered DEF Finished
<1>8. CASE ~Contiguous(batchStart, bcIdx)
  <2> DEFINE D == DOMAIN pending \cap batchStart..bcIdx
             b == LedgerCells(lo, hi)
  <2>1. D \subseteq DOMAIN pending /\ lo..hi \subseteq D /\ lo \in D /\ hi \in D /\ lo - 1 \notin D
    <3>1. lo..hi \subseteq batchStart..bcIdx /\ lo \in lo..hi /\ hi \in lo..hi
      BY <1>1, <1>2, <1>3, <1>4
    <3> QED BY <1>5, <1>6, <3>1
  <2>2. Finished(bcIdx) = Fresh(salvageContiguousRunsIn(D), yieldedSigs)
    BY <1>8 DEF Finished, SalvagedTxs
  <2>3. BatchTxs(r) = Range(DecodeBatch(b).txs) \ {NoSig}
    BY DEF BatchTxs
  <2> HIDE DEF D
  <2>4. /\ salvageContiguousRunsIn(D) \in Cells
        /\ Range(DecodeBatch(b).txs) \subseteq Range(salvageContiguousRunsIn(D))
    <3>1. \A x \in D, y \in D :
            x <= y /\ x..y \subseteq D /\ x - 1 \notin D =>
              Range(DecodeBatch(LedgerCells(x, y)).txs) \subseteq Range(salvageContiguousRunsIn(D))
      BY <2>1, SalvageFacts
    <3>2. salvageContiguousRunsIn(D) \in Cells
      BY <2>1, SalvageFacts
    <3> QED BY <1>1, <2>1, <3>1, <3>2
  <2>5. Range(salvageContiguousRunsIn(D)) \subseteq Range(Finished(bcIdx)) \cup yieldedSigs \cup {NoSig}
    BY <2>2, <2>4, FreshFacts
  <2> HIDE DEF b
  <2> QED BY <2>3, <2>4, <2>5
<1> QED BY <1>7, <1>8

-----------------------------------------------------------------------------
(* The parts of a step *)

\* tryFecFill: the shreds it adds are new, and the batch ends among them are recovered.
LEMMA FillTypes ==
  ASSUME NEW hint, ShredsOK, CursorOK, ShredTypes, HistoryOK, pc # "evicted", tryFecFill(hint),
         UNCHANGED <<streamingCursor, batchStart>>
  PROVE  /\ ShredTypes'
         /\ seen \subseteq seen' /\ seen' \subseteq Indices
         /\ restoredEnds \subseteq restoredEnds' /\ restoredEnds' \subseteq seen'
         /\ \A i \in seen' : i \in seen \/ i >= batchStart
         /\ DOMAIN pending' = {i \in seen' : i >= batchStart'}
         /\ \A i \in DOMAIN batchCompleteIdx' : i \in DOMAIN batchCompleteIdx \/ i \in restoredEnds'
<1>1. CASE selectRecoverableSet(hint) = {}
  <2>1. UNCHANGED shreds
    BY <1>1 DEF tryFecFill
  <2> QED BY <2>1 DEF shreds, ShredTypes, HistoryOK
<1>2. CASE selectRecoverableSet(hint) # {}
  <2>1. PICK s \in selectRecoverableSet(hint) :
          /\ pending' = [x \in DOMAIN pending \cup Restored(s) |->
                           IF x \in Restored(s) THEN RecoveredShred(x, s) ELSE pending[x]]
          /\ batchCompleteIdx' = [x \in DOMAIN batchCompleteIdx \cup {i \in Restored(s) : Ledger[i].bc} |->
                                    IF x \in {i \in Restored(s) : Ledger[i].bc} THEN 0
                                    ELSE batchCompleteIdx[x]]
          /\ fecSets' = IF Restored(s) = {} THEN fecSets ELSE Keep(fecSets, DOMAIN fecSets \ {s})
          /\ MarkComplete(s)
          /\ seen' = seen \cup Restored(s)
          /\ restoredEnds' = restoredEnds \cup {i \in Restored(s) : Ledger[i].bc}
    BY <1>2 DEF tryFecFill, With
  <2>2. s \in DOMAIN fecSets
    <3>1. AtCursor \subseteq Nat /\ AtCursor \subseteq DOMAIN fecSets
      BY AccumulatorAssumption DEF AccumulatorAssumption, ShredsOK, AtCursor
    <3>2. (s = hint /\ hint \in DOMAIN fecSets) \/ (AtCursor # {} /\ s = Min(AtCursor))
      BY <2>1 DEF selectRecoverableSet
    <3> QED BY <3>1, <3>2, MinOfNats
  <2>3. s \in Nat
    BY <2>2, AccumulatorAssumption DEF AccumulatorAssumption, ShredsOK
  <2>4. \A i \in Restored(s) : i >= batchStart /\ i \notin DOMAIN pending
    BY DEF Restored
  <2>5. Restored(s) \subseteq Indices
    <3>1. ShredsOK'
      BY FillInv
    <3>2. Restored(s) \subseteq DOMAIN pending'
      BY <2>1
    <3> QED BY <3>1, <3>2 DEF ShredsOK
  <2>6. \A i \in Indices : RecoveredShred(i, s) \in Shred /\ RecoveredShred(i, s).bc = Ledger[i].bc
    BY <2>3, AccumulatorAssumption DEF AccumulatorAssumption, RecoveredShred, PayloadEnd, Shred
  <2> HIDE DEF RecoveredShred, Restored
  <2>7. ShredTypes'
    <3>1. ASSUME NEW i \in DOMAIN pending'
          PROVE  pending'[i] \in Shred /\ pending'[i].bc = Ledger[i].bc
      <4>1. CASE i \in Restored(s)
        BY <2>1, <2>5, <2>6, <4>1
      <4>2. CASE i \notin Restored(s)
        BY <2>1, <4>2 DEF ShredTypes
      <4> QED BY <4>1, <4>2
    <3>2. \A t \in DOMAIN fecSets' : t \in DOMAIN fecSets /\ fecSets'[t] = fecSets[t]
      BY <2>1 DEF Keep
    <3>3. \A i \in DOMAIN batchCompleteIdx' : batchCompleteIdx'[i] \in Nat
      BY <2>1 DEF ShredTypes
    <3>4. slotComplete' \in BOOLEAN
      BY <2>1 DEF ShredTypes, MarkComplete, RestoresLast
    <3> QED BY <3>1, <3>2, <3>3, <3>4 DEF ShredTypes
  <2>8. DOMAIN pending' = {i \in seen' : i >= batchStart'}
    <3>1. DOMAIN pending' = DOMAIN pending \cup Restored(s)
      BY <2>1
    <3> QED BY <2>1, <2>4, <3>1 DEF HistoryOK
  <2>9. \A i \in DOMAIN batchCompleteIdx' : i \in DOMAIN batchCompleteIdx \/ i \in restoredEnds'
    BY <2>1
  <2> QED BY <2>1, <2>4, <2>5, <2>7, <2>8, <2>9 DEF HistoryOK
<1> QED BY <1>1, <1>2

\* completeBatch: the window begins after a batch end, with a new decoder.
LEMMA CompleteTypes ==
  ASSUME NEW bcIdx \in DOMAIN pending, pending[bcIdx].bc, ShredsOK, CursorOK, ShredTypes, HistoryOK,
         pc # "evicted", completeBatch(bcIdx)
  PROVE  /\ ShredTypes' /\ seen' = seen /\ restoredEnds' = restoredEnds
         /\ DOMAIN pending' = {i \in seen' : i >= batchStart'}
         /\ batchStart' = bcIdx + 1 /\ batchStart' - 1 = bcIdx /\ Ledger[bcIdx].bc /\ bcIdx \in Indices
         /\ streamingDecoder' = NewStreamingDecoder /\ yieldedSigs' = {}
         /\ bcIdx >= batchStart /\ bcIdx \in Nat
<1> DEFINE after == {i \in DOMAIN pending : i >= bcIdx + 1}
<1>1. bcIdx \in Nat /\ saturatingAddU32(bcIdx, 1) = bcIdx + 1 /\ bcIdx \in Indices /\ bcIdx >= batchStart
  BY IndexFacts DEF ShredsOK
<1>2. /\ pending' = [x \in DOMAIN pending \cap after |-> pending[x]]
      /\ batchCompleteIdx' = [x \in DOMAIN batchCompleteIdx \cap after |-> batchCompleteIdx[x]]
      /\ batchStart' = bcIdx + 1
      /\ UNCHANGED <<slotComplete, seen, restoredEnds>>
      /\ streamingDecoder' = NewStreamingDecoder /\ yieldedSigs' = {}
  BY <1>1 DEF completeBatch, Keep, pruneEnds, ResetStream
<1>3. /\ DOMAIN fecSets' \subseteq DOMAIN fecSets
      /\ \A s \in DOMAIN fecSets' : fecSets'[s] = fecSets[s]
  BY DEF completeBatch, Keep
<1>4. DOMAIN pending' = after /\ \A i \in after : pending'[i] = pending[i]
  BY <1>2
<1>5. ShredTypes'
  BY <1>2, <1>3, <1>4 DEF ShredTypes
<1>6. DOMAIN pending' = {i \in seen' : i >= batchStart'}
  <2>1. DOMAIN pending = {i \in seen : i >= batchStart} /\ seen \subseteq Nat /\ batchStart \in Nat
    BY IndexFacts DEF HistoryOK, CursorOK
  <2>2. after = {i \in seen : i >= bcIdx + 1}
    <3>1. \A i \in seen : i >= bcIdx + 1 => i >= batchStart
      BY <1>1, <2>1
    <3> QED BY <2>1, <3>1
  <2> QED BY <1>2, <1>4, <2>2
<1>7. Ledger[bcIdx].bc
  BY DEF ShredTypes
<1> QED BY <1>1, <1>2, <1>5, <1>6, <1>7

\* A step that finishes no batch: shreds are seen only in the window, and what was delivered
\* or harvested still is.
LEMMA DeliveredKept ==
  ASSUME DeliveredOK, pc # "evicted", pc' # "evicted", batchStart' = batchStart, batchStart \in Nat,
         \A i \in seen' : i \in seen \/ i >= batchStart,
         restoredEnds \subseteq restoredEnds',
         Range(out) \cup Range(job.tail) \subseteq Range(out') \cup Range(job'.tail)
  PROVE  DeliveredOK'
<1> SUFFICES ASSUME NEW r \in Batches, r[1]..r[2] \subseteq seen', r[2] < batchStart,
                    \A e \in restoredEnds' : e >= r[1]
             PROVE  BatchTxs(r) \subseteq Range(out') \cup Range(job'.tail)
  BY DEF DeliveredOK
<1>1. r[1] \in Nat /\ r[2] \in Nat
  BY BatchFacts
<1>2. \A i \in r[1]..r[2] : ~(i >= batchStart)
  BY <1>1
<1>3. r[1]..r[2] \subseteq seen
  BY <1>2
<1>4. BatchTxs(r) \subseteq Range(out) \cup Range(job.tail)
  BY <1>3 DEF DeliveredOK
<1> QED BY <1>4

\* A step that finishes the batches up to bcIdx, and delivers or harvests what Finished says.
LEMMA FinishInv ==
  ASSUME IInv, DInv, pc # "evicted", NEW bcIdx \in DOMAIN batchCompleteIdx,
         \A i \in DOMAIN batchCompleteIdx : i < bcIdx => i \in restoredEnds,
         completeBatch(bcIdx), pc' \in {"flush", "harvest"},
         out' \in Cells, job'.tail \in Cells, pc' = "flush" => job'.tail = <<>>,
         Range(out) \cup Range(job.tail) \cup Range(Finished(bcIdx))
           \subseteq Range(out') \cup Range(job'.tail)
  PROVE  DInv'
<1>1. ShredsOK /\ CursorOK /\ TypesOK /\ HistoryOK /\ ShredTypes /\ StreamOK /\ DeliveredOK
  BY DEF IInv, DInv, TypesOK
<1>2. bcIdx \in DOMAIN pending /\ pending[bcIdx].bc
  BY <1>1 DEF ShredsOK
<1>3. /\ ShredTypes' /\ seen' = seen /\ restoredEnds' = restoredEnds
      /\ DOMAIN pending' = {i \in seen' : i >= batchStart'}
      /\ batchStart' = bcIdx + 1 /\ batchStart' - 1 = bcIdx /\ Ledger[bcIdx].bc /\ bcIdx \in Indices
      /\ streamingDecoder' = NewStreamingDecoder /\ yieldedSigs' = {}
      /\ bcIdx >= batchStart /\ bcIdx \in Nat
  BY <1>1, <1>2, CompleteTypes
<1>4. CursorOK'
  BY <1>1, <1>3, CompleteInv
<1>5. TypesOK'
  BY <1>3, <1>4 DEF TypesOK, CursorOK
<1>6. HistoryOK'
  BY <1>1, <1>3 DEF HistoryOK
<1>7. OutOK'
  BY <1>3 DEF OutOK
<1>8. StreamOK'
  <2> DEFINE c == streamingCursor'
  <2>1. c \in Nat /\ c \in batchStart'..c
    BY <1>4 DEF CursorOK
  <2>2. LedgerCells(c, c - 1) = <<>>
    <3> HIDE DEF c
    <3>1. c - 1 \in Int /\ c - 1 >= c - 1 /\ c..(c - 1) \subseteq Indices /\ c - 1 < c
      BY <2>1
    <3> QED BY <2>1, <3>1, LedgerStep
  <2> QED BY <1>3, <2>1, <2>2, NewDecoderOK DEF StreamOK
<1>9. DeliveredOK'
  <2> SUFFICES ASSUME NEW r \in Batches, r[1]..r[2] \subseteq seen, r[2] < bcIdx + 1,
                      \A e \in restoredEnds : e >= r[1]
               PROVE  BatchTxs(r) \subseteq Range(out') \cup Range(job'.tail)
    BY <1>3 DEF DeliveredOK
  <2>1. r[2] \in Nat /\ r[2] <= bcIdx /\ batchStart \in Nat
    BY <1>1, <1>3, BatchFacts DEF CursorOK
  <2>2. CASE r[2] < batchStart
    <3>1. BatchTxs(r) \subseteq Range(out) \cup Range(job.tail)
      BY <1>1, <2>2 DEF DeliveredOK
    <3> QED BY <3>1
  <2>3. CASE batchStart <= r[2]
    <3>1. BatchTxs(r) \subseteq Range(Finished(bcIdx)) \cup yieldedSigs
      BY <1>1, <2>1, <2>3, InsideDelivered
    <3>2. yieldedSigs \subseteq Range(out)
      BY <1>1 DEF StreamOK
    <3> QED BY <3>1, <3>2
  <2> QED BY <2>1, <2>2, <2>3
<1> QED BY <1>5, <1>6, <1>7, <1>8, <1>9 DEF DInv

\* Streaming takes the payload at the cursor.
LEMMA StreamingInv ==
  ASSUME IInv, DInv, advanceStreaming
  PROVE  DInv'
<1>1. /\ ShredsOK /\ CursorOK /\ TypesOK /\ HistoryOK /\ StreamOK /\ DeliveredOK /\ OutOK
      /\ pc \in {"stream", "stream2"} /\ pc # "evicted"
  BY DEF IInv, DInv, advanceStreaming
<1>2. CASE StreamStops
  <2>1. UNCHANGED <<shreds, stream, job>> /\ pc' \in {"fill", "flush"}
    BY <1>2 DEF StreamStops, AfterStream
  <2>2. TypesOK' /\ HistoryOK'
    BY <1>1, <2>1 DEF shreds, stream, TypesOK, ShredTypes, HistoryOK
  <2>3. OutOK' /\ StreamOK' /\ DeliveredOK'
    BY <1>1, <2>1 DEF shreds, stream, OutOK, StreamOK, DeliveredOK
  <2> QED BY <2>2, <2>3 DEF DInv
<1>3. CASE streamingCursor \in DOMAIN pending /\ ~PayloadNil(streamingCursor) /\ StreamPayload
  <2> DEFINE c == streamingCursor
             r == PushPayload(streamingDecoder, payload(c))
             new == Fresh(r.txs, yieldedSigs)
  <2>1. /\ streamingCursor' = c + 1
        /\ streamingDecoder' = IF r.err THEN NewStreamingDecoder ELSE r.dec
        /\ out' = out \o new /\ yieldedSigs' = yieldedSigs \cup Range(new)
        /\ pc' \in {"stream", "stream2", "fill", "flush"}
        /\ UNCHANGED <<shreds, batchStart, job>>
    BY <1>1, <1>3 DEF StreamPayload, Deliver, AfterStream
  <2>2. c \in Nat /\ batchStart \in Nat /\ batchStart <= c /\ batchStart..(c - 1) \subseteq DOMAIN pending
        /\ c \in Indices /\ DOMAIN pending \subseteq Indices
    BY <1>1, <1>3 DEF CursorOK, Contiguous, ShredsOK
  <2>3. payload(c) = Ledger[c].cells /\ payload(c) \in Cells
    BY <1>3, <2>2, AccumulatorAssumption DEF AccumulatorAssumption, payload, Cells
  <2>4. /\ r.txs \in Cells /\ r.dec.buffer = streamingDecoder.buffer \o Ledger[c].cells
        /\ ~r.err => DecoderOK(r.dec)
    BY <1>1, <2>3, PushPayloadFacts DEF StreamOK
  <2> HIDE DEF r
  <2>5. new \in Cells
    BY <2>4, FreshFacts
  <2> HIDE DEF new
  <2>6. out' \in Cells /\ Range(out') = Range(out) \cup Range(new)
    BY <1>1, <2>1, <2>5, ConcatProperties, RangeConcatenation DEF OutOK, Cells
  <2>7. Range(new) \subseteq Nat
    BY <2>5, RangeOfSeq DEF Cells
  <2>8. StreamOK'
    <3>1. yieldedSigs' \subseteq Range(out')
      BY <1>1, <2>1, <2>6 DEF StreamOK
    <3>2. CASE r.err
      <4> DEFINE d == c + 1
      <4>1. d \in Nat /\ d \in batchStart..d /\ d..(d - 1) \subseteq Indices /\ d - 1 < d /\ d - 1 \in Int
            /\ d - 1 >= d - 1
        BY <2>2
      <4> HIDE DEF d
      <4>2. LedgerCells(d, d - 1) = <<>>
        BY <4>1, LedgerStep
      <4>3. streamingDecoder' = NewStreamingDecoder /\ batchStart' = batchStart /\ streamingCursor' = d
        BY <2>1, <3>2 DEF d
      <4> QED BY <3>1, <4>1, <4>2, <4>3, NewDecoderOK DEF StreamOK
    <3>3. CASE ~r.err
      <4>1. PICK i \in batchStart..c : streamingDecoder.buffer = LedgerCells(i, c - 1)
        BY <1>1 DEF StreamOK
      <4>2. i \in Nat /\ c \in Int /\ c >= i - 1 /\ i <= c /\ i \in batchStart..(c + 1) /\ (c + 1) - 1 = c
        BY <2>2
      <4>3. i..c \subseteq Indices
        <5>1. \A j \in i..c : j = c \/ j \in batchStart..(c - 1)
          BY <2>2, <4>2
        <5> QED BY <2>2, <5>1
      <4>4. LedgerCells(i, c) = LedgerCells(i, c - 1) \o Ledger[c].cells
        BY <4>2, <4>3, LedgerStep
      <4>5. streamingDecoder' = r.dec /\ r.dec.buffer = LedgerCells(i, c)
        BY <2>1, <2>4, <3>3, <4>1, <4>4
      <4>6. streamingDecoder'.buffer = LedgerCells(i, streamingCursor' - 1)
            /\ i \in batchStart'..streamingCursor'
        BY <2>1, <4>2, <4>5
      <4>7. DecoderOK(streamingDecoder')
        BY <2>4, <3>3, <4>5
      <4> QED BY <3>1, <4>6, <4>7 DEF StreamOK
    <3> QED BY <3>2, <3>3
  <2>9. TypesOK' /\ HistoryOK'
    <3>1. c + 1 \in Nat
      BY <2>2
    <3> QED BY <1>1, <2>1, <3>1 DEF shreds, TypesOK, ShredTypes, HistoryOK
  <2>10. OutOK'
    BY <1>1, <2>1, <2>6, <2>7 DEF OutOK
  <2>11. DeliveredOK'
    <3>1. pc' # "evicted" /\ seen' = seen /\ restoredEnds' = restoredEnds /\ job' = job /\ batchStart' = batchStart
      BY <2>1 DEF shreds
    <3> QED BY <1>1, <2>2, <2>6, <3>1, DeliveredKept
  <2> QED BY <2>8, <2>9, <2>10, <2>11 DEF DInv
<1>4. CASE streamingCursor \in DOMAIN pending /\ PayloadNil(streamingCursor)
  BY <1>1, <1>4 DEF ShredsOK
<1> QED BY <1>2, <1>3, <1>4 DEF advanceStreaming

\* The places between the beginning of a push or harvest and its end.
Places == {"idle", "stream", "fill", "stream2", "flush", "flushFill", "harvest"}

\* A step that sees no shred and delivers nothing.
LEMMA KeptInv ==
  ASSUME DInv, pc # "evicted", pc' \in Places, job'.tail = job.tail, pc = "harvest" => pc' = "harvest",
         UNCHANGED <<seen, restoredEnds, stream>>, DOMAIN pending' = DOMAIN pending, ShredTypes',
         pc' = "flushFill" => \A i \in DOMAIN batchCompleteIdx' : i < job'.bc => i \in restoredEnds
  PROVE  DInv'
<1>1. TypesOK' /\ HistoryOK'
  BY DEF DInv, TypesOK, HistoryOK, Places, stream
<1>2. OutOK' /\ StreamOK'
  BY DEF DInv, OutOK, StreamOK, Places, stream
<1>3. DeliveredOK'
  BY DEF DInv, DeliveredOK, Places, stream
<1> QED BY <1>1, <1>2, <1>3 DEF DInv

\* A step that sees shreds, in the window only, and delivers nothing.
LEMMA SeenInv ==
  ASSUME DInv, pc # "evicted", pc' \in Places, job'.tail = job.tail, pc = "harvest" => pc' = "harvest",
         UNCHANGED stream, ShredTypes', seen' \subseteq Indices,
         restoredEnds \subseteq restoredEnds', restoredEnds' \subseteq seen',
         \A i \in seen' : i \in seen \/ i >= batchStart,
         DOMAIN pending' = {i \in seen' : i >= batchStart'},
         pc' = "flushFill" => \A i \in DOMAIN batchCompleteIdx' : i < job'.bc => i \in restoredEnds'
  PROVE  DInv'
<1>1. TypesOK' /\ HistoryOK'
  BY DEF DInv, TypesOK, HistoryOK, Places, stream
<1>2. OutOK' /\ StreamOK'
  BY DEF DInv, OutOK, StreamOK, Places, stream
<1>3. DeliveredOK'
  <2>1. /\ DeliveredOK /\ pc' # "evicted" /\ batchStart' = batchStart /\ batchStart \in Nat
        /\ out' = out
    BY DEF DInv, TypesOK, Places, stream
  <2> QED BY <2>1, DeliveredKept
<1> QED BY <1>1, <1>2, <1>3 DEF DInv

\* A step that recovers shreds.
LEMMA FillsInv ==
  ASSUME IInv, DInv, NEW hint, tryFecFill(hint), UNCHANGED stream, pc # "evicted", pc' \in Places,
         pc = "harvest" => pc' = "harvest", job'.tail = job.tail, job'.bc = job.bc,
         pc' = "flushFill" => pc = "flushFill"
  PROVE  DInv'
<1>1. ShredsOK /\ CursorOK /\ ShredTypes /\ HistoryOK /\ UNCHANGED <<streamingCursor, batchStart>>
  BY DEF IInv, DInv, TypesOK, stream
<1>2. /\ ShredTypes'
      /\ seen \subseteq seen' /\ seen' \subseteq Indices
      /\ restoredEnds \subseteq restoredEnds' /\ restoredEnds' \subseteq seen'
      /\ \A i \in seen' : i \in seen \/ i >= batchStart
      /\ DOMAIN pending' = {i \in seen' : i >= batchStart'}
      /\ \A i \in DOMAIN batchCompleteIdx' : i \in DOMAIN batchCompleteIdx \/ i \in restoredEnds'
  BY <1>1, FillTypes
<1>3. pc' = "flushFill" => \A i \in DOMAIN batchCompleteIdx' : i < job'.bc => i \in restoredEnds'
  BY <1>1, <1>2 DEF HistoryOK
<1> QED BY <1>2, <1>3, SeenInv

\* Nothing is delivered by a new accumulator.
LEMMA InitDInv == Init => DInv
<1> SUFFICES ASSUME Init PROVE DInv
  OBVIOUS
<1>1. TypesOK /\ HistoryOK /\ OutOK
  <2>1. DOMAIN pending = {} /\ DOMAIN fecSets = {} /\ DOMAIN batchCompleteIdx = {} /\ job.tail = <<>>
    BY DEF Init, NoJob
  <2>2. ShredTypes /\ TypesOK
    BY <2>1 DEF Init, TypesOK, ShredTypes
  <2>3. HistoryOK
    BY <2>1 DEF Init, HistoryOK
  <2> QED BY <2>1, <2>2, <2>3 DEF Init, OutOK, Cells
<1>2. LedgerCells(0, 0 - 1) = <<>>
  <2>1. 0 \in Nat /\ 0 - 1 \in Int /\ 0 - 1 >= 0 - 1 /\ 0..(0 - 1) \subseteq Indices /\ 0 - 1 < 0
    OBVIOUS
  <2> QED BY <2>1, LedgerStep
<1>3. 0 \in 0..0
  OBVIOUS
<1>4. StreamOK
  BY <1>2, <1>3, NewDecoderOK DEF Init, StreamOK
<1>5. DeliveredOK
  <2>1. \A r \in Batches : r[2] \in Nat
    BY BatchFacts
  <2> QED BY <2>1 DEF Init, DeliveredOK
<1> QED BY <1>1, <1>4, <1>5 DEF DInv

\* The beginning of a push.
LEMMA PushesInv ==
  ASSUME IInv, DInv, NEW i \in Indices, NEW L \in RawLens,
         PushLast(i, L) \/ PushIgnored(i, L) \/ PushStored(i, L)
  PROVE  DInv'
<1>1. ShredTypes /\ HistoryOK /\ ShredsOK /\ DOMAIN job = DOMAIN NoJob /\ pc = "idle"
  BY DEF IInv, DInv, TypesOK, PushLast, PushIgnored, PushStored
<1>2. CASE PushLast(i, L)
  <2>1. /\ pc' = "flush" /\ job'.tail = job.tail
        /\ UNCHANGED <<pending, fecSets, batchCompleteIdx, seen, restoredEnds, stream>>
    BY <1>1, <1>2 DEF PushLast, Begun, NoJob
  <2>2. ShredTypes'
    BY <1>1, <1>2, <2>1 DEF ShredTypes, PushLast
  <2> QED BY <1>1, <2>1, <2>2, KeptInv DEF Places
<1>3. CASE PushIgnored(i, L)
  <2>1. UNCHANGED vars
    BY <1>3 DEF PushIgnored
  <2>2. UNCHANGED <<shreds, stream, pc, job>>
    BY <2>1 DEF vars
  <2> QED BY <2>2 DEF shreds, stream, DInv, TypesOK, ShredTypes, HistoryOK, OutOK, StreamOK, DeliveredOK
<1>4. CASE PushStored(i, L)
  <2>1. /\ pending' = [x \in DOMAIN pending \cup {i} |->
                         IF x \in {i} THEN PoolShred(x, L) ELSE pending[x]]
        /\ batchCompleteIdx' = IF Ledger[i].bc
                               THEN [x \in DOMAIN batchCompleteIdx \cup {i} |->
                                       IF x \in {i} THEN 0 ELSE batchCompleteIdx[x]]
                               ELSE batchCompleteIdx
        /\ seen' = seen \cup {i} /\ i >= batchStart /\ i \notin DOMAIN pending
        /\ pc' = "stream" /\ UNCHANGED <<fecSets, slotComplete, restoredEnds, stream>>
    BY <1>4 DEF PushStored, With
  <2>2. job'.tail = job.tail
    BY <1>1, <1>4 DEF PushStored, Begun, NoJob
  <2>3. PoolShred(i, L) \in Shred /\ PoolShred(i, L).bc = Ledger[i].bc
    <3>1. Ledger[i].size \in Nat /\ Ledger[i].bc \in BOOLEAN /\ Ledger[i].set \in Nat /\ L \in Nat
      BY AccumulatorAssumption DEF AccumulatorAssumption
    <3> QED BY <3>1 DEF PoolShred, PayloadEnd, Shred
  <2> HIDE DEF PoolShred
  <2>4. DOMAIN pending' = DOMAIN pending \cup {i} /\ pending'[i] = PoolShred(i, L)
        /\ \A j \in DOMAIN pending : pending'[j] = pending[j]
    BY <2>1
  <2>5. ShredTypes'
    <3>1. \A j \in DOMAIN pending' : pending'[j] \in Shred /\ pending'[j].bc = Ledger[j].bc
      BY <1>1, <2>3, <2>4 DEF ShredTypes
    <3>2. \A j \in DOMAIN batchCompleteIdx' : batchCompleteIdx'[j] \in Nat
      BY <1>1, <2>1 DEF ShredTypes
    <3> QED BY <1>1, <2>1, <3>1, <3>2 DEF ShredTypes
  <2>6. DOMAIN pending' = {j \in seen' : j >= batchStart'}
    BY <1>1, <2>1, <2>4 DEF HistoryOK, stream
  <2>7. restoredEnds \subseteq restoredEnds' /\ restoredEnds' \subseteq seen' /\ seen' \subseteq Indices
        /\ \A j \in seen' : j \in seen \/ j >= batchStart
    BY <1>1, <2>1 DEF HistoryOK
  <2>8. pc # "evicted" /\ pc' \in Places /\ pc' # "flushFill" /\ pc # "harvest" /\ UNCHANGED stream
    BY <1>1, <2>1 DEF Places
  <2> QED BY <2>2, <2>5, <2>6, <2>7, <2>8, SeenInv
<1> QED BY <1>2, <1>3, <1>4

LEMMA CodesInv ==
  ASSUME IInv, DInv, NEW s \in Sets, NEW position \in 0..(FecLayout[s].nc - 1),
         NEW L \in CodeLens[s], PushCode(s, position, L)
  PROVE  DInv'
<1>1. ShredTypes /\ DOMAIN job = DOMAIN NoJob /\ pc = "idle"
  BY DEF IInv, DInv, TypesOK, PushCode
<1>2. /\ pc' = "fill" /\ job'.tail = job.tail
      /\ UNCHANGED <<pending, batchCompleteIdx, slotComplete, seen, restoredEnds, stream>>
  BY <1>1 DEF PushCode, Begun, NoJob
<1>3. /\ DOMAIN Room(s) \subseteq DOMAIN fecSets
      /\ \A t \in DOMAIN Room(s) : Room(s)[t] = fecSets[t]
  BY DEF Room, Keep
<1>4. recordCode(s, position, L) \in FecSetBuffer
  BY <1>1, RecordFacts DEF ShredTypes
<1>5. fecSets' = [x \in DOMAIN Room(s) \cup {s} |->
                    IF x \in {s} THEN recordCode(x, position, L) ELSE Room(s)[x]]
  BY DEF PushCode, With
<1> HIDE DEF Room, recordCode
<1>6. \A t \in DOMAIN fecSets' : fecSets'[t] \in FecSetBuffer
  BY <1>1, <1>3, <1>4, <1>5 DEF ShredTypes
<1>7. ShredTypes'
  BY <1>1, <1>2, <1>6 DEF ShredTypes
<1> QED BY <1>1, <1>2, <1>7, KeptInv DEF Places

\* The steps that finish a batch, and what they deliver or harvest.
LEMMA FlushFinishes ==
  ASSUME IInv, DInv, FlushBatch \/ FlushTimeout
  PROVE  /\ pc = "flushFill" /\ pc' = "flush" /\ job' = job /\ job.tail = <<>>
         /\ job.bc \in DOMAIN batchCompleteIdx /\ completeBatch(job.bc)
         /\ out' \in Cells /\ Range(out) \cup Range(Finished(job.bc)) = Range(out')
<1>1. /\ pc = "flushFill" /\ pc' = "flush" /\ job' = job /\ completeBatch(job.bc)
      /\ out' = out \o Finished(job.bc)
  BY DEF FlushBatch, FlushTimeout, Finished
<1>2. /\ job.bc \in DOMAIN batchCompleteIdx /\ job.bc \in Indices /\ job.bc >= batchStart
      /\ ShredsOK /\ CursorOK
  BY <1>1 DEF IInv, PlaceOK, ShredsOK
<1>3. out \in Cells /\ Finished(job.bc) \in Cells /\ job.tail = <<>>
  BY <1>1, <1>2, FinishedType DEF DInv, OutOK
<1> HIDE DEF Finished
<1>4. out' \in Cells /\ Range(out') = Range(out) \cup Range(Finished(job.bc))
  BY <1>1, <1>3, RangeConcatenation DEF Cells
<1> QED BY <1>1, <1>2, <1>3, <1>4

LEMMA HarvestFinishes ==
  ASSUME IInv, DInv, HarvestBatch
  PROVE  LET bcIdx == Min(Boundaries)
         IN  /\ pc = "harvest" /\ pc' = "harvest" /\ out' = out
             /\ bcIdx \in DOMAIN batchCompleteIdx /\ completeBatch(bcIdx)
             /\ \A i \in DOMAIN batchCompleteIdx : ~(i < bcIdx)
             /\ job'.tail \in Cells
             /\ Range(job.tail) \cup Range(Finished(bcIdx)) = Range(job'.tail)
<1> DEFINE bcIdx == Min(Boundaries)
<1>1. /\ pc = "harvest" /\ pc' = "harvest" /\ out' = out /\ Boundaries # {} /\ completeBatch(bcIdx)
      /\ job' = [job EXCEPT !.tail = @ \o Finished(bcIdx)]
  BY DEF HarvestBatch, Finished
<1>2. Boundaries = DOMAIN batchCompleteIdx /\ Boundaries \subseteq Indices /\ Boundaries \subseteq Nat
      /\ ShredsOK /\ CursorOK
  BY <1>1, IndexFacts DEF Boundaries, IInv, ShredsOK
<1>3. bcIdx \in Boundaries /\ \A i \in Boundaries : bcIdx <= i
  BY <1>1, <1>2, MinOfNats
<1> HIDE DEF bcIdx
<1>4. bcIdx \in Indices /\ bcIdx >= batchStart
  BY <1>2, <1>3 DEF Boundaries
<1>5. job.tail \in Cells /\ Finished(bcIdx) \in Cells
  BY <1>2, <1>4, FinishedType DEF DInv, OutOK
<1>6. job'.tail = job.tail \o Finished(bcIdx)
  BY <1>1 DEF IInv, NoJob
<1>7. job'.tail \in Cells /\ Range(job'.tail) = Range(job.tail) \cup Range(Finished(bcIdx))
  BY <1>5, <1>6, RangeConcatenation DEF Cells
<1>8. \A i \in DOMAIN batchCompleteIdx : ~(i < bcIdx)
  BY <1>2, <1>3
<1>9. bcIdx \in DOMAIN batchCompleteIdx
  BY <1>2, <1>3
<1> QED BY <1>1, <1>7, <1>8, <1>9 DEF bcIdx

\* The end of a harvest.
LEMMA TailInv ==
  ASSUME IInv, DInv, HarvestTail
  PROVE  DInv'
<1> DEFINE txs == SalvagedTxs(DOMAIN pending)
<1>1. /\ pc = "harvest" /\ pc' = "evicted" /\ job' = NoJob
      /\ out' = IF disableSalvageDelivery THEN out ELSE out \o job.tail \o txs
      /\ yieldedSigs' = yieldedSigs \cup Range(txs)
      /\ pending' = <<>> /\ fecSets' = <<>> /\ batchCompleteIdx' = <<>>
      /\ UNCHANGED <<slotComplete, seen, restoredEnds, streamingCursor, batchStart>>
  BY DEF HarvestTail
<1>2. TypesOK /\ HistoryOK /\ OutOK /\ DeliveredOK /\ ShredsOK
  BY DEF DInv, IInv
<1>3. txs \in Cells
  <2>1. DOMAIN pending \subseteq DOMAIN pending
    OBVIOUS
  <2>2. salvageContiguousRunsIn(DOMAIN pending) \in Cells
    BY <1>2, <2>1, SalvageFacts
  <2> QED BY <2>2, FreshFacts DEF SalvagedTxs
<1> HIDE DEF txs
<1>4. out \in Cells /\ job.tail \in Cells /\ out \o job.tail \in Cells
  BY <1>2 DEF OutOK, Cells
<1>5. /\ out \o job.tail \o txs \in Cells
      /\ Range(out \o job.tail \o txs) = Range(out) \cup Range(job.tail) \cup Range(txs)
  <2> DEFINE tail == job.tail  both == out \o tail
  <2> HIDE DEF tail
  <2>1. both \in Cells /\ Range(both) = Range(out) \cup Range(tail)
    BY <1>4, RangeConcatenation DEF Cells, tail
  <2> HIDE DEF both
  <2>2. both \o txs \in Cells /\ Range(both \o txs) = Range(both) \cup Range(txs)
    BY <1>3, <2>1, RangeConcatenation DEF Cells
  <2> QED BY <2>1, <2>2 DEF both, tail
<1>6. job'.tail = <<>> /\ DOMAIN pending' = {} /\ DOMAIN fecSets' = {} /\ DOMAIN batchCompleteIdx' = {}
  BY <1>1 DEF NoJob
<1>7. TypesOK' /\ HistoryOK'
  <2>1. ShredTypes'
    BY <1>1, <1>2, <1>6 DEF TypesOK, ShredTypes
  <2> QED BY <1>1, <1>2, <2>1 DEF TypesOK, HistoryOK
<1>8. OutOK'
  <2>1. Range(txs) \subseteq Nat /\ <<>> \in Cells
    BY <1>3 DEF Range, Cells
  <2> QED BY <1>1, <1>2, <1>4, <1>5, <1>6, <2>1 DEF OutOK
<1>9. DeliveredOK'
  <2> SUFFICES ASSUME ~disableSalvageDelivery, NEW r \in Batches,
                      r[1]..r[2] \subseteq seen, r[2] < batchStart,
                      \A e \in restoredEnds : e >= r[1]
               PROVE  BatchTxs(r) \subseteq Range(out')
    BY <1>1 DEF DeliveredOK
  <2>1. BatchTxs(r) \subseteq Range(out) \cup Range(job.tail)
    BY <1>1, <1>2 DEF DeliveredOK
  <2> QED BY <1>1, <1>5, <2>1
<1> QED BY <1>1, <1>7, <1>8, <1>9 DEF DInv

-----------------------------------------------------------------------------

\* DInv is inductive relative to IInv.
LEMMA NextDInv ==
  ASSUME IInv, DInv, [Next]_vars
  PROVE  DInv'
<1>0. ShredTypes /\ HistoryOK /\ OutOK /\ ShredsOK /\ DOMAIN job = DOMAIN NoJob
  BY DEF IInv, DInv, TypesOK
<1>1. CASE UNCHANGED vars
  <2>1. UNCHANGED <<shreds, stream, pc, job>>
    BY <1>1 DEF vars
  <2> QED BY <2>1 DEF shreds, stream, DInv, TypesOK, ShredTypes, HistoryOK, OutOK, StreamOK, DeliveredOK
<1>2. ASSUME NEW i \in Indices, NEW L \in RawLens,
             PushLast(i, L) \/ PushIgnored(i, L) \/ PushStored(i, L)
      PROVE  DInv'
  BY <1>2, PushesInv
<1>3. ASSUME NEW s \in Sets, NEW position \in 0..(FecLayout[s].nc - 1), NEW L \in CodeLens[s],
             PushCode(s, position, L)
      PROVE  DInv'
  BY <1>3, CodesInv
<1>4. CASE HarvestBegins
  <2>1. pc = "idle" /\ pc' = "harvest" /\ job'.tail = job.tail /\ UNCHANGED <<shreds, stream>>
    BY <1>0, <1>4 DEF HarvestBegins, Begun, NoJob
  <2>2. ShredTypes'
    BY <1>0, <2>1 DEF shreds, ShredTypes
  <2>3. UNCHANGED <<seen, restoredEnds, stream>> /\ DOMAIN pending' = DOMAIN pending
    BY <2>1 DEF shreds
  <2> QED BY <2>1, <2>2, <2>3, KeptInv DEF Places
<1>5. CASE Tick
  <2>1. /\ DOMAIN batchCompleteIdx' = DOMAIN batchCompleteIdx
        /\ UNCHANGED <<pending, fecSets, slotComplete, seen, restoredEnds, stream, pc, job>>
    BY <1>5 DEF Tick
  <2>2. \A i \in DOMAIN batchCompleteIdx' : batchCompleteIdx'[i] \in Nat
    <3> SUFFICES ASSUME NEW i \in DOMAIN batchCompleteIdx PROVE batchCompleteIdx'[i] \in Nat
      BY <2>1
    <3> DEFINE S == {batchCompleteIdx[i] + 1, StuckBatchTimeout}
    <3>1. S \subseteq Nat /\ S # {}
      BY <1>0, AccumulatorAssumption DEF AccumulatorAssumption, ShredTypes
    <3>2. batchCompleteIdx'[i] = Min(S)
      BY <1>5 DEF Tick
    <3> HIDE DEF S
    <3> QED BY <3>1, <3>2, MinOfNats
  <2>3. ShredTypes'
    BY <1>0, <2>1, <2>2 DEF ShredTypes
  <2> QED BY <2>1, <2>3 DEF stream, DInv, TypesOK, HistoryOK, OutOK, StreamOK, DeliveredOK
<1>6. CASE advanceStreaming
  BY <1>6, StreamingInv
<1>7. CASE PushFills
  <2>1. /\ pc = "fill" /\ pc' \in {"stream2", "flush"} /\ tryFecFill(job.hint)
        /\ UNCHANGED stream /\ UNCHANGED job
    BY <1>7 DEF PushFills
  <2> QED BY <2>1, FillsInv DEF Places
<1>8. CASE FlushNothing \/ FlushWaits
  <2>1. /\ pc \in {"flush", "flushFill"} /\ pc' = "idle" /\ job' = NoJob
        /\ UNCHANGED <<shreds, stream>>
    BY <1>8 DEF FlushNothing, FlushWaits
  <2>2. job'.tail = job.tail
    BY <1>0, <2>1 DEF OutOK, NoJob
  <2>3. ShredTypes' /\ UNCHANGED <<seen, restoredEnds, stream>> /\ DOMAIN pending' = DOMAIN pending
    BY <1>0, <2>1 DEF shreds, ShredTypes
  <2> QED BY <2>1, <2>2, <2>3, KeptInv DEF Places
<1>9. CASE FlushNext
  <2> DEFINE ends == {i \in DOMAIN batchCompleteIdx : i >= batchStart}
  <2>1. ends \subseteq Nat /\ ends # {} /\ smallestBatchCompleteIdx = Min(ends)
    BY <1>9, IndexFacts DEF FlushNext, IInv, ShredsOK, smallestBatchCompleteIdx
  <2>2. ends = DOMAIN batchCompleteIdx
    BY <1>0 DEF ShredsOK
  <2> HIDE DEF ends
  <2>3. Min(ends) \in ends /\ \A x \in ends : Min(ends) <= x
    BY <2>1, MinOfNats
  <2>4. /\ pc = "flush" /\ pc' = "flushFill" /\ UNCHANGED <<shreds, stream>>
        /\ job' = [job EXCEPT !.bc = Min(ends), !.hints = Hints(Min(ends))]
    BY <1>9, <2>1 DEF FlushNext, TurnTo
  <2>5. job'.bc = Min(ends) /\ job'.tail = job.tail
    BY <1>0, <2>4 DEF NoJob
  <2>6. ShredTypes' /\ UNCHANGED <<seen, restoredEnds, stream, batchCompleteIdx>>
        /\ DOMAIN pending' = DOMAIN pending
    BY <1>0, <2>4 DEF shreds, ShredTypes
  <2>7. \A i \in DOMAIN batchCompleteIdx' : ~(i < job'.bc)
    BY <2>1, <2>2, <2>3, <2>5, <2>6
  <2> QED BY <2>4, <2>5, <2>6, <2>7, KeptInv DEF Places
<1>10. CASE FlushFills \/ HarvestFills
  <2>1. PICK h \in job.hints : tryFecFill(h) /\ job' = [job EXCEPT !.hints = @ \ {h}]
    BY <1>10 DEF FlushFills, HarvestFills
  <2>2. pc \in {"flushFill", "harvest"} /\ pc' = pc /\ UNCHANGED stream
    BY <1>10 DEF FlushFills, HarvestFills
  <2>3. job'.bc = job.bc /\ job'.tail = job.tail
    BY <1>0, <2>1 DEF NoJob
  <2> QED BY <2>1, <2>2, <2>3, FillsInv DEF Places
<1>11. CASE FlushBatch \/ FlushTimeout
  <2>1. /\ pc = "flushFill" /\ pc' = "flush" /\ job' = job /\ job.tail = <<>>
        /\ job.bc \in DOMAIN batchCompleteIdx /\ completeBatch(job.bc)
        /\ out' \in Cells /\ Range(out) \cup Range(Finished(job.bc)) = Range(out')
    BY <1>11, FlushFinishes
  <2>2. \A i \in DOMAIN batchCompleteIdx : i < job.bc => i \in restoredEnds
    BY <1>0, <2>1 DEF HistoryOK
  <2>3. job'.tail \in Cells /\ job'.tail = <<>> /\ Range(job.tail) \subseteq Range(job'.tail)
    BY <1>0, <2>1 DEF OutOK
  <2> QED BY <2>1, <2>2, <2>3, FinishInv
<1>12. CASE HarvestBatch
  <2> DEFINE bcIdx == Min(Boundaries)
  <2>1. /\ pc = "harvest" /\ pc' = "harvest" /\ out' = out
        /\ bcIdx \in DOMAIN batchCompleteIdx /\ completeBatch(bcIdx)
        /\ \A i \in DOMAIN batchCompleteIdx : ~(i < bcIdx)
        /\ job'.tail \in Cells
        /\ Range(job.tail) \cup Range(Finished(bcIdx)) = Range(job'.tail)
    BY <1>12, HarvestFinishes
  <2>2. out' \in Cells
    BY <1>0, <2>1 DEF OutOK
  <2> HIDE DEF bcIdx
  <2> QED BY <2>1, <2>2, FinishInv
<1>13. CASE HarvestTail
  BY <1>13, TailInv
<1> QED BY <1>1, <1>2, <1>3, <1>4, <1>5, <1>6, <1>7, <1>8, <1>9, <1>10, <1>11, <1>12, <1>13
        DEF Next, Work

\* The invariant of every run.
THEOREM DeliveryInv == Spec => [](IInv /\ DInv)
<1>1. Init => IInv /\ DInv
  BY InitInv, InitDInv
<1>2. IInv /\ DInv /\ [Next]_vars => IInv' /\ DInv'
  BY NextInv, NextDInv
<1> QED BY <1>1, <1>2, PTL DEF Spec

\* The fields of slotAccumulator keep their types, through every handler and every loop.
THEOREM TypeCorrect == Spec => []TypeOK
<1>1. ASSUME IInv, DInv PROVE TypeOK
  <2>1. ShredTypes /\ TypesOK /\ HistoryOK /\ OutOK /\ ShredsOK
    BY <1>1 DEF IInv, DInv, TypesOK
  <2>2. held \subseteq Indices /\ DOMAIN batchCompleteIdx \subseteq Indices
    BY <2>1 DEF ShredsOK, BuffersAccounted
  <2> QED BY <2>1, <2>2 DEF ShredTypes, TypesOK, HistoryOK, OutOK, ShredsOK, TypeOK, Cells
<1> QED BY <1>1, DeliveryInv, PTL

\* A batch that was received or recovered as a whole has been delivered as a whole once the
\* accumulator is past it, for any ledger and whatever mix of streaming, decoding of whole
\* batches and salvage it took, unless recovery brought back the end of a batch before it.
THEOREM BatchesDelivered == Spec => []ReceivedBatchDelivered
<1>1. ASSUME IInv, DInv PROVE ReceivedBatchDelivered
  <2> SUFFICES ASSUME pc \in {"idle", "evicted"}, ~disableSalvageDelivery,
                      NEW r \in Batches, r[1]..r[2] \subseteq seen, r[2] < batchStart,
                      \A e \in restoredEnds : e >= r[1]
               PROVE  BatchTxs(r) \subseteq Range(out)
    BY DEF ReceivedBatchDelivered, DeliveredUnlessEndRestored
  <2>1. BatchTxs(r) \subseteq Range(out) \cup Range(job.tail)
    BY <1>1 DEF DInv, DeliveredOK
  <2>2. job.tail = <<>>
    BY <1>1 DEF DInv, OutOK
  <2>3. Range(job.tail) = {}
    BY <2>2 DEF Range
  <2> QED BY <2>1, <2>3
<1> QED BY <1>1, DeliveryInv, PTL

\* Between pushes the streaming decoder holds the payloads of consecutive shreds of the
\* unfinished batch, up to the cursor.
THEOREM StreamingAligned == Spec => []DecoderAligned
<1>1. ASSUME IInv, DInv PROVE DecoderAligned
  <2> SUFFICES ASSUME pc = "idle"
               PROVE  \E i \in batchStart..streamingCursor :
                        streamingDecoder.buffer = Combined(i, streamingCursor - 1)
    BY DEF DecoderAligned
  <2>1. ShredsOK /\ CursorOK /\ StreamOK
    BY <1>1 DEF IInv, DInv
  <2>2. PICK i \in batchStart..streamingCursor :
               streamingDecoder.buffer = LedgerCells(i, streamingCursor - 1)
    BY <2>1 DEF StreamOK
  <2> DEFINE hi == streamingCursor - 1
  <2>3. i \in Nat /\ hi \in Int /\ hi >= i - 1 /\ i..hi \subseteq batchStart..hi
    BY <2>1, <2>2 DEF CursorOK
  <2>4. Contiguous(i, hi)
    BY <2>1, <2>3 DEF CursorOK, Contiguous
  <2>5. Combined(i, hi) = LedgerCells(i, hi)
    <3> HIDE DEF hi
    <3> QED BY <2>1, <2>3, <2>4, CombinedFacts
  <2> QED BY <2>2, <2>5
<1> QED BY <1>1, DeliveryInv, PTL

\* batchStart moves only when tryFlushBatches or the harvest finishes a batch.
LEMMA WindowMoves ==
  ASSUME IInv, [Next]_vars, batchStart' # batchStart
  PROVE  FlushBatch \/ FlushTimeout \/ HarvestBatch
<1>1. ~advanceStreaming
  <2> SUFFICES ASSUME advanceStreaming PROVE FALSE
    OBVIOUS
  <2>1. StreamStops \/ StreamPayload
    BY DEF advanceStreaming, IInv, ShredsOK
  <2> QED BY <2>1 DEF StreamStops, StreamPayload, stream
<1>2. \A i \in Indices, L \in RawLens : ~(PushLast(i, L) \/ PushIgnored(i, L) \/ PushStored(i, L))
  BY DEF PushLast, PushIgnored, PushStored, stream, vars
<1>3. \A s \in Sets : \A position \in 0..(FecLayout[s].nc - 1) : \A L \in CodeLens[s] :
        ~PushCode(s, position, L)
  BY DEF PushCode, stream
<1>4. ~(HarvestBegins \/ Tick \/ HarvestTail \/ UNCHANGED vars)
  BY DEF HarvestBegins, Tick, HarvestTail, stream, vars
<1>5. ~(PushFills \/ FlushFills \/ HarvestFills \/ FlushNothing \/ FlushNext \/ FlushWaits)
  BY DEF PushFills, FlushFills, HarvestFills, FlushNothing, FlushNext, FlushWaits, stream
<1> QED BY <1>1, <1>2, <1>3, <1>4, <1>5 DEF Next, Work

\* A step that finishes one batch with no shred missing delivers, or puts into the harvest,
\* whatever streaming has not delivered of it.
THEOREM FinishingDelivers == Spec => FinishDelivers
<1> DEFINE Delivers ==
      batchStart' # batchStart =>
        LET last == batchStart' - 1
        IN  (<<batchStart, last>> \in Batches /\ Contiguous(batchStart, last))
              => BatchTxs(<<batchStart, last>>) \subseteq Range(out') \cup Range(job'.tail)
<1>1. ASSUME IInv, DInv, [Next]_vars PROVE Delivers
  <2> DEFINE last == batchStart' - 1  r == <<batchStart, last>>
  <2> SUFFICES ASSUME batchStart' # batchStart, r \in Batches, Contiguous(batchStart, last)
               PROVE  BatchTxs(r) \subseteq Range(out') \cup Range(job'.tail)
    OBVIOUS
  <2>1. PICK bcIdx \in DOMAIN batchCompleteIdx :
          /\ completeBatch(bcIdx) /\ pc # "evicted"
          /\ Range(out) \cup Range(Finished(bcIdx)) \subseteq Range(out') \cup Range(job'.tail)
    <3>1. CASE FlushBatch \/ FlushTimeout
      BY <1>1, <3>1, FlushFinishes
    <3>2. CASE HarvestBatch
      <4> DEFINE m == Min(Boundaries)
      <4>1. /\ m \in DOMAIN batchCompleteIdx /\ completeBatch(m) /\ pc = "harvest" /\ out' = out
            /\ Range(job.tail) \cup Range(Finished(m)) = Range(job'.tail)
        BY <1>1, <3>2, HarvestFinishes
      <4> HIDE DEF m
      <4> QED BY <4>1
    <3> QED BY <1>1, <3>1, <3>2, WindowMoves
  <2>2. ShredsOK /\ CursorOK /\ StreamOK /\ bcIdx \in Indices
    BY <1>1, <2>1 DEF IInv, DInv, ShredsOK
  <2>3. batchStart' = bcIdx + 1 /\ bcIdx \in Nat
    BY <2>1, <2>2, IndexFacts DEF completeBatch
  <2>4. last = bcIdx
    BY <2>3
  <2> HIDE DEF last
  <2>5. r[1] = batchStart /\ r[2] = last /\ last <= bcIdx
    BY <2>3, <2>4
  <2>6. BatchTxs(r) \subseteq Range(DecodedTxs(bcIdx)) \cup yieldedSigs
    <3> HIDE DEF r
    <3> QED BY <2>2, <2>4, <2>5, FrontDelivered
  <2>7. Finished(bcIdx) = DecodedTxs(bcIdx) /\ yieldedSigs \subseteq Range(out)
    BY <2>2, <2>4 DEF Finished, StreamOK
  <2> QED BY <2>1, <2>6, <2>7
<1>2. IInv /\ DInv /\ [Next]_vars => [Delivers]_vars
  BY <1>1
<1>3. Spec => [][Delivers]_vars
  <2> HIDE DEF Delivers
  <2> QED BY <1>2, DeliveryInv, PTL DEF Spec
<1> QED BY <1>3 DEF FinishDelivers

=============================================================================
