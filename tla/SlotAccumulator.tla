-------------------------- MODULE SlotAccumulator --------------------------
(***************************************************************************)
(* accumulator.go: the accumulator of one slot.  Data and code shreds are  *)
(* pushed in the order the network delivers them; transactions come out    *)
(* by streaming (as the shreds of a batch arrive in order), by decoding a  *)
(* finished batch as a whole, or by salvage (from a batch that is given up *)
(* after a timeout, or from what is left when the slot is evicted).        *)
(*                                                                         *)
(* The listener's mutex is held during a whole push.  A push is a run of   *)
(* steps from pc = "idle" back to "idle": the step that stores the shred,  *)
(* then one step per turn of the loops that pushData and pushCode end      *)
(* with.  pc forces that run, and nothing else happens before it ends.     *)
(*                                                                         *)
(* Ledger is what the leader sent: shreds by index, with the cells of      *)
(* EntryDecoder as payload.  The network loses, duplicates, reorders and   *)
(* truncates.  FecLayout gives the numbers of data and code shreds of the  *)
(* erasure sets; reconstruction gives back the leader's shreds.            *)
(***************************************************************************)
EXTENDS EntryDecoder, PushContract

CONSTANTS
  Ledger,                  \* [indices -> [cells, size, bc, last, set]]
  FecLayout,               \* [first index of a set -> [nd, nc]]
  RawLens,                 \* lengths of the datagrams that carry a data shred
  CodeLens,                \* [set -> lengths of the datagrams that carry its code shreds]
  DataHeaderSize, CodeHeaderSize,
  DataShredPayloadLen,     \* length of a reconstructed shred
  ShardEnd, CodeShardEnd,  \* where the part of a data or code shred that is a shard ends
  MaxTotalShards,          \* the most shards newReedSolomon accepts
  MaxFECSetsPerSlot,
  StuckBatchTimeout,
  disableSalvageDelivery,
  MaxU32                   \* the largest index; additions saturate there

Indices == DOMAIN Ledger
Sets == DOMAIN FecLayout

ASSUME AccumulatorAssumption ==
  /\ DataHeaderSize \in Nat /\ DataShredPayloadLen \in Nat /\ MaxU32 \in Nat
  /\ CodeHeaderSize \in Nat /\ CodeShardEnd \in Nat
  /\ ShardEnd \in 0..DataShredPayloadLen
  /\ MaxTotalShards \in Nat /\ MaxFECSetsPerSlot \in Nat
  /\ StuckBatchTimeout \in Nat
  /\ disableSalvageDelivery \in BOOLEAN
  /\ RawLens \subseteq Nat /\ \A s \in Sets : CodeLens[s] \subseteq Nat
  /\ Indices \subseteq 0..(MaxU32 - 1)
  /\ \A i \in Indices :
       /\ Ledger[i].cells \in Seq(Nat) /\ Ledger[i].size \in Nat
       /\ Ledger[i].bc \in BOOLEAN /\ Ledger[i].last \in BOOLEAN
       /\ Ledger[i].set \in Nat
       /\ DataHeaderSize <= Ledger[i].size /\ Ledger[i].size <= DataShredPayloadLen
  /\ Sets \subseteq Nat
  /\ \A s \in Sets :
       /\ FecLayout[s].nd \in Nat /\ FecLayout[s].nc \in Nat
       /\ \A p \in 0..(FecLayout[s].nd - 1) : s + p \in Indices /\ Ledger[s + p].set = s

VARIABLES
  pending,            \* index -> shred that waits for its batch
  fecSets,            \* erasure set -> [nd, nc, code, cut]: the positions of the code
                      \* shreds that are kept, and of those among them cut short
  batchCompleteIdx,   \* index of a pending last-of-batch shred -> time since it was first
                      \* seen, which is only told apart up to StuckBatchTimeout
  streamingCursor, streamingDecoder, yieldedSigs, batchStart, slotComplete,
  tally,              \* how finished batches were counted
  pc, job,            \* where the push in progress is, and its local variables
  held,               \* indices whose pool buffer has been handed over and not released
  seen,               \* history: indices that were ever pending
  restoredEnds,       \* history: batch ends that were pending as a recovered shred
  out                 \* history: signatures of the delivered transactions

shreds == <<pending, fecSets, batchCompleteIdx, slotComplete, held, seen, restoredEnds>>
stream == <<streamingCursor, streamingDecoder, yieldedSigs, batchStart, tally, out>>
vars == <<shreds, stream, pc, job>>

-----------------------------------------------------------------------------
(* Helpers *)

saturatingAddU32(a, b) == IF a > MaxU32 - b THEN MaxU32 ELSE a + b

Keep(f, S) == [x \in DOMAIN f \cap S |-> f[x]]
With(f, S, v(_)) == [x \in DOMAIN f \cup S |-> IF x \in S THEN v(x) ELSE f[x]]

\* Faulty variant: the size field is not compared with the datagram.
ParseOk_Unchecked(i, L) == L >= DataHeaderSize

\* What the parser gives for the datagram of data shred i, L bytes long.
ParseOk(i, L) == L >= DataHeaderSize /\ Ledger[i].size <= L
PayloadEnd(i) == Ledger[i].size

PoolShred(i, L) ==
  [recovered |-> FALSE, end |-> PayloadEnd(i), len |-> L,
   bc |-> Ledger[i].bc, set |-> Ledger[i].set]
RecoveredShred(i, s) ==
  [recovered |-> TRUE, end |-> PayloadEnd(i), len |-> DataShredPayloadLen,
   bc |-> Ledger[i].bc, set |-> s]

PayloadNil(i) == pending[i].end < DataHeaderSize \/ pending[i].end > pending[i].len
payload(i) == IF PayloadNil(i) THEN <<>> ELSE Ledger[i].cells

\* The payloads of the shreds lo, lo + 1, ..., hi, put together.
Combined(lo, hi) ==
  Joined([i \in lo..hi |-> IF i \in DOMAIN pending THEN payload(i) ELSE <<>>], lo, hi)

\* Faulty variant: what streaming delivered is forgotten.
Fresh_Forgets(txs, sigs) == SelectSeq(txs, LAMBDA x : x # NoSig)

\* recordSig over txs in order: those that are new and have a signature.
Fresh(txs, sigs) ==
  LET new(n) == txs[n] \notin sigs \cup {NoSig} /\ \A j \in 1..(n - 1) : txs[j] # txs[n]
  IN  Joined([n \in DOMAIN txs |-> IF new(n) THEN <<txs[n]>> ELSE <<>>], 1, Len(txs))

\* The transactions of the contiguous runs of pending shreds in D, in index order.
runEnd(D, i) == Min({j \in D : i <= j /\ j + 1 \notin D})
runTxs(D, i) ==
  IF i \in D /\ i - 1 \notin D THEN DecodeConcatenated(Combined(i, runEnd(D, i))) ELSE <<>>
salvageContiguousRunsIn(D) ==
  IF D = {} THEN <<>> ELSE Joined([i \in 0..Max(D) |-> runTxs(D, i)], 0, Max(D))

\* Faulty variant: the last known batch end.
smallestBatchCompleteIdx_Largest == Max({i \in DOMAIN batchCompleteIdx : i >= batchStart})

smallestBatchCompleteIdx == Min({i \in DOMAIN batchCompleteIdx : i >= batchStart})
Contiguous(lo, hi) == lo..hi \subseteq DOMAIN pending

-----------------------------------------------------------------------------
(* Erasure recovery *)

\* The data shreds of set s that are pending, and those not cut short before ShardEnd.
DataRefs(s) == {i \in DOMAIN pending : i \in s..(s + fecSets[s].nd - 1) /\ pending[i].set = s}
Usable(s) == {i \in DataRefs(s) : pending[i].len >= ShardEnd}

\* A shred cut short, data or code, counts here, and not when it comes to reconstruct.
canRecover(s) ==
  fecSets[s].nd > 0 /\ Cardinality(DataRefs(s)) + Cardinality(fecSets[s].code) >= fecSets[s].nd

AtCursor ==
  {s \in DOMAIN fecSets :
     s <= streamingCursor /\ streamingCursor < s + fecSets[s].nd /\ canRecover(s)}

\* The set to reconstruct, as a set of at most one element: the hinted one, or the
\* first one that covers the streaming cursor.
selectRecoverableSet(hint) ==
  IF hint \in DOMAIN fecSets /\ canRecover(hint) THEN {hint}
  ELSE IF AtCursor = {} THEN {} ELSE {Min(AtCursor)}

UsableCode(s) == fecSets[s].code \ fecSets[s].cut
enoughShards(s) == Cardinality(Usable(s)) + Cardinality(UsableCode(s)) >= fecSets[s].nd

\* The missing shreds of set s that reconstruction gives: none when too few shards are
\* usable, or when the set is too large for the code.
tryReconstruct(s) ==
  IF ~enoughShards(s) \/ fecSets[s].nd + fecSets[s].nc > MaxTotalShards THEN {}
  ELSE s..(s + fecSets[s].nd - 1) \ DataRefs(s)

\* The shreds that tryFecFill puts into pending for set s.
Restored(s) ==
  {i \in tryReconstruct(s) : i >= batchStart /\ i \notin DOMAIN pending /\ ~Ledger[i].last}

\* A reconstructed last shred of the slot is not kept; it only marks the slot complete.
RestoresLast(s) ==
  \E i \in tryReconstruct(s) : i >= batchStart /\ i \notin DOMAIN pending /\ Ledger[i].last

FillGains(hint) == \E s \in selectRecoverableSet(hint) : Restored(s) # {}

\* Faulty variant: a recovery without the last shred makes the slot incomplete again.
MarkComplete_Resets(s) == slotComplete' = RestoresLast(s)
MarkComplete(s) == slotComplete' = (slotComplete \/ RestoresLast(s))

tryFecFill(hint) ==
  IF selectRecoverableSet(hint) = {} THEN UNCHANGED shreds
  ELSE \E s \in selectRecoverableSet(hint) :
         LET new == Restored(s)
             At(i) == RecoveredShred(i, s)
             Age(i) == 0
         IN  /\ pending' = With(pending, new, At)
             /\ batchCompleteIdx' = With(batchCompleteIdx, {i \in new : Ledger[i].bc}, Age)
             /\ fecSets' = IF new = {} THEN fecSets ELSE Keep(fecSets, DOMAIN fecSets \ {s})
             /\ MarkComplete(s)
             /\ seen' = seen \cup new
             /\ restoredEnds' = restoredEnds \cup {i \in new : Ledger[i].bc}
             /\ UNCHANGED held

-----------------------------------------------------------------------------
(* Finishing a batch *)

\* Faulty variant: the buffers are not released.
releaseBefore_Leaks(after) == held' = held
releaseBefore(after) == held' = held \cap after

\* Faulty variant: the batch ends before the next batch stay.
pruneEnds_Stale(after) == batchCompleteIdx' = batchCompleteIdx
pruneEnds(after) == batchCompleteIdx' = Keep(batchCompleteIdx, after)

\* Faulty variant: the decoder goes on with the bytes of the finished batch.
ResetStream_KeepsDecoder == streamingDecoder' = streamingDecoder /\ yieldedSigs' = {}
ResetStream == streamingDecoder' = NewStreamingDecoder /\ yieldedSigs' = {}

\* Drop everything before the batch that follows bcIdx.
completeBatch(bcIdx) ==
  LET nextStart == saturatingAddU32(bcIdx, 1)
      after == {i \in DOMAIN pending : i >= nextStart}
  IN  /\ pending' = Keep(pending, after)
      /\ releaseBefore(after)
      /\ pruneEnds(after)
      /\ fecSets' = Keep(fecSets, {s \in DOMAIN fecSets :
                                     ~(fecSets[s].nd > 0 /\ s + fecSets[s].nd <= nextStart)})
      /\ batchStart' = nextStart
      /\ streamingCursor' = Max({streamingCursor, nextStart})
      /\ ResetStream
      /\ UNCHANGED <<slotComplete, seen, restoredEnds>>

Count(c) == tally' = [tally EXCEPT ![c] = @ + 1]
CountForced(c, why) == tally' = [tally EXCEPT ![c] = @ + 1, ![why] = @ + 1]

\* Faulty variant: streaming is taken to have delivered what its cursor has passed.
DecodedTxs_TrustsCursor(bcIdx) ==
  IF streamingCursor > bcIdx THEN <<>>
  ELSE Fresh(DecodeBatch(Combined(batchStart, bcIdx)).txs, yieldedSigs)

\* Decode batchStart..bcIdx as one batch: the new transactions.
DecodedTxs(bcIdx) == Fresh(DecodeBatch(Combined(batchStart, bcIdx)).txs, yieldedSigs)

CountDecoded(bcIdx) ==
  Count(IF DecodeBatch(Combined(batchStart, bcIdx)).st = "err" THEN "skipped"
        ELSE IF DecodedTxs(bcIdx) # <<>> THEN "fallback" ELSE "streaming")

SalvagedTxs(D) == Fresh(salvageContiguousRunsIn(D), yieldedSigs)
SalvageCount(txs) == IF txs # <<>> THEN "fallback" ELSE "skipped"

-----------------------------------------------------------------------------
(* pushData, pushCode *)

\* before, offered and last are history: what the push began with.
NoJob == [index |-> 0, hint |-> 0, bc |-> 0, hints |-> {}, tail |-> <<>>,
          before |-> Empty, offered |-> {}, last |-> FALSE]
Begun(offered, last) ==
  [job EXCEPT !.before = [held |-> held, complete |-> slotComplete],
              !.offered = offered, !.last = last]

\* The slot's last shred: its buffer goes back at once, its payload is not kept.
PushLast(i, L) ==
  /\ pc = "idle" /\ ParseOk(i, L) /\ Ledger[i].last
  /\ slotComplete' = TRUE
  /\ job' = Begun({}, TRUE)
  /\ pc' = "flush"
  /\ UNCHANGED <<pending, fecSets, batchCompleteIdx, held, seen, restoredEnds, stream>>

\* A shred of a finished batch, or a duplicate: its buffer goes back at once.
PushIgnored(i, L) ==
  /\ pc = "idle" /\ ParseOk(i, L) /\ ~Ledger[i].last
  /\ i < batchStart \/ i \in DOMAIN pending
  /\ UNCHANGED vars

PushStored(i, L) ==
  /\ pc = "idle" /\ ParseOk(i, L) /\ ~Ledger[i].last
  /\ i >= batchStart /\ i \notin DOMAIN pending
  /\ LET Shred(j) == PoolShred(j, L)
         Age(j) == 0
     IN  /\ pending' = With(pending, {i}, Shred)
         /\ batchCompleteIdx' = IF Ledger[i].bc THEN With(batchCompleteIdx, {i}, Age)
                                ELSE batchCompleteIdx
  /\ held' = held \cup {i}
  /\ seen' = seen \cup {i}
  /\ job' = [Begun({i}, FALSE) EXCEPT !.index = i, !.hint = Ledger[i].set]
  /\ pc' = "stream"
  /\ UNCHANGED <<fecSets, slotComplete, restoredEnds, stream>>

\* The erasure sets after the one with the smallest index made room for s.  When s
\* is smaller than all of them none makes room, and s is added all the same.
Room(s) ==
  IF /\ Cardinality(DOMAIN fecSets) >= MaxFECSetsPerSlot
     /\ s \notin DOMAIN fecSets
     /\ \E t \in DOMAIN fecSets : t < s
  THEN Keep(fecSets, DOMAIN fecSets \ {Min(DOMAIN fecSets)})
  ELSE fecSets

SetBuffer(s) ==
  IF s \in DOMAIN fecSets THEN fecSets[s]
  ELSE [nd |-> FecLayout[s].nd, nc |-> FecLayout[s].nc, code |-> {}, cut |-> {}]

\* Faulty variant: positions are taken to start at 1.
recordCode_OneBased(s, position, L) ==
  [SetBuffer(s) EXCEPT !.code = @ \cup {position - 1}]

\* The first copy of a code shred is kept, also when it is cut short.
recordCode(s, position, L) ==
  IF position \in SetBuffer(s).code THEN SetBuffer(s)
  ELSE [SetBuffer(s) EXCEPT !.code = @ \cup {position},
                            !.cut = IF L < CodeShardEnd THEN @ \cup {position} ELSE @]

PushCode(s, position, L) ==
  /\ pc = "idle" /\ L >= CodeHeaderSize
  /\ LET Set(t) == recordCode(t, position, L) IN fecSets' = With(Room(s), {s}, Set)
  /\ job' = [Begun({}, FALSE) EXCEPT !.hint = s]
  /\ pc' = "fill"
  /\ UNCHANGED <<pending, batchCompleteIdx, slotComplete, held, seen, restoredEnds, stream>>

-----------------------------------------------------------------------------
(* advanceStreaming, one shred per step, and tryFecFill between its two calls *)

Deliver(txs) ==
  /\ out' = out \o Fresh(txs, yieldedSigs)
  /\ yieldedSigs' = yieldedSigs \cup Range(Fresh(txs, yieldedSigs))

\* Where a push goes when streaming stops at cursor.
AfterStream(cursor) == IF pc = "stream" /\ cursor <= job.index THEN "fill" ELSE "flush"

StreamStops ==
  /\ pc' = AfterStream(streamingCursor)
  /\ UNCHANGED <<shreds, stream, job>>

StreamPayload ==
  LET r == PushPayload(streamingDecoder, payload(streamingCursor))
  IN  /\ streamingCursor' = streamingCursor + 1
      /\ streamingDecoder' = IF r.err THEN NewStreamingDecoder ELSE r.dec
      /\ Deliver(r.txs)
      /\ pc' = IF r.err \/ pending[streamingCursor].bc
               THEN AfterStream(streamingCursor + 1) ELSE pc
      /\ UNCHANGED <<shreds, batchStart, tally, job>>

\* A shred without payload is dropped, and its batch given up if it was the last one.
StreamCorrupted ==
  LET dropped == streamingCursor
      others  == DOMAIN pending \ {dropped}
      txs     == SalvagedTxs(DOMAIN pending \cap batchStart..(dropped - 1))
  IN  IF pending[dropped].bc /\ dropped > batchStart
      THEN /\ out' = out \o txs
           /\ CountForced(SalvageCount(txs), "corrupted")
           /\ completeBatch(dropped)
           /\ UNCHANGED <<pc, job>>
      ELSE /\ pending' = Keep(pending, others)
           /\ batchCompleteIdx' = Keep(batchCompleteIdx, others)
           /\ held' = held \ {dropped}
           /\ streamingCursor' = streamingCursor + 1
           /\ UNCHANGED <<fecSets, slotComplete, seen, restoredEnds, streamingDecoder,
                          yieldedSigs, batchStart, tally, out, pc, job>>

advanceStreaming ==
  /\ pc \in {"stream", "stream2"}
  /\ IF streamingCursor \notin DOMAIN pending THEN StreamStops
     ELSE IF pending[streamingCursor].recovered THEN StreamStops
     ELSE IF PayloadNil(streamingCursor) THEN StreamCorrupted
     ELSE StreamPayload

PushFills ==
  /\ pc = "fill"
  /\ tryFecFill(job.hint)
  /\ pc' = IF FillGains(job.hint) THEN "stream2" ELSE "flush"
  /\ UNCHANGED <<stream, job>>

-----------------------------------------------------------------------------
(* tryFlushBatches: each turn takes the first known batch end, fills gaps from the *)
(* erasure sets that overlap the batch, then decodes, gives up or waits.            *)

FlushNothing ==
  /\ pc = "flush"
  /\ \A i \in DOMAIN batchCompleteIdx : i < batchStart
  /\ pc' = "idle" /\ job' = NoJob
  /\ UNCHANGED <<shreds, stream>>

Overlapping(lo, hi) ==
  {s \in DOMAIN fecSets : fecSets[s].nd # 0 /\ s + fecSets[s].nd > lo /\ s <= hi}

\* Faulty variant: erasure sets are not tried before a batch is given up.
Hints_None(bcIdx) == {}
Hints(bcIdx) ==
  IF Contiguous(batchStart, bcIdx) THEN {} ELSE Overlapping(batchStart, bcIdx)

TurnTo(bcIdx) == pc' = "flushFill" /\ job' = [job EXCEPT !.bc = bcIdx, !.hints = Hints(bcIdx)]

\* Faulty variant: the time of a batch end is that of the last look at it.
FlushNext_Restamps ==
  /\ pc = "flush" /\ \E i \in DOMAIN batchCompleteIdx : i >= batchStart
  /\ TurnTo(smallestBatchCompleteIdx)
  /\ batchCompleteIdx' = [batchCompleteIdx EXCEPT ![smallestBatchCompleteIdx] = 0]
  /\ UNCHANGED <<pending, fecSets, slotComplete, held, seen, restoredEnds, stream>>

FlushNext ==
  /\ pc = "flush" /\ \E i \in DOMAIN batchCompleteIdx : i >= batchStart
  /\ TurnTo(smallestBatchCompleteIdx)
  /\ UNCHANGED <<shreds, stream>>

FlushFills ==
  /\ pc = "flushFill"
  /\ \E h \in job.hints : tryFecFill(h) /\ job' = [job EXCEPT !.hints = @ \ {h}]
  /\ UNCHANGED <<stream, pc>>

FlushBatch ==
  /\ pc = "flushFill" /\ job.hints = {}
  /\ Contiguous(batchStart, job.bc)
  /\ out' = out \o DecodedTxs(job.bc)
  /\ CountDecoded(job.bc)
  /\ completeBatch(job.bc)
  /\ pc' = "flush"
  /\ UNCHANGED job

TimedOut == batchCompleteIdx[job.bc] >= StuckBatchTimeout

FlushTimeout ==
  /\ pc = "flushFill" /\ job.hints = {}
  /\ ~Contiguous(batchStart, job.bc) /\ TimedOut
  /\ LET txs == SalvagedTxs(DOMAIN pending \cap batchStart..job.bc)
     IN  out' = out \o txs /\ CountForced(SalvageCount(txs), "timeout")
  /\ completeBatch(job.bc)
  /\ pc' = "flush"
  /\ UNCHANGED job

\* Faulty variant: the loop goes on instead of returning, whatever the time.
FlushWaits_Spins ==
  /\ pc = "flushFill" /\ job.hints = {}
  /\ ~Contiguous(batchStart, job.bc)
  /\ pc' = "flush" /\ UNCHANGED job
  /\ UNCHANGED <<shreds, stream>>

FlushWaits ==
  /\ pc = "flushFill" /\ job.hints = {}
  /\ ~Contiguous(batchStart, job.bc) /\ ~TimedOut
  /\ pc' = "idle" /\ job' = NoJob
  /\ UNCHANGED <<shreds, stream>>

-----------------------------------------------------------------------------
(* tryHarvestTail and release, when the listener evicts the slot *)

HarvestBegins ==
  /\ pc = "idle"
  /\ job' = [Begun({}, FALSE) EXCEPT !.hints = DOMAIN fecSets]
  /\ pc' = "harvest"
  /\ UNCHANGED <<shreds, stream>>

HarvestFills ==
  /\ pc = "harvest"
  /\ \E h \in job.hints : tryFecFill(h) /\ job' = [job EXCEPT !.hints = @ \ {h}]
  /\ UNCHANGED <<stream, pc>>

Boundaries == {i \in DOMAIN pending : pending[i].bc /\ i >= batchStart}

HarvestBatch ==
  /\ pc = "harvest" /\ job.hints = {} /\ Boundaries # {}
  /\ LET bcIdx == Min(Boundaries)
         whole == Contiguous(batchStart, bcIdx)
         runs  == SalvagedTxs(DOMAIN pending \cap batchStart..bcIdx)
     IN  /\ job' = [job EXCEPT !.tail = @ \o (IF whole THEN DecodedTxs(bcIdx) ELSE runs)]
         /\ IF whole THEN CountDecoded(bcIdx) ELSE Count(SalvageCount(runs))
         /\ completeBatch(bcIdx)
  /\ UNCHANGED <<out, pc>>

HarvestTail ==
  /\ pc = "harvest" /\ job.hints = {} /\ Boundaries = {}
  /\ out' = IF disableSalvageDelivery THEN out
            ELSE out \o job.tail \o SalvagedTxs(DOMAIN pending)
  /\ yieldedSigs' = yieldedSigs \cup Range(SalvagedTxs(DOMAIN pending))
  /\ pending' = <<>> /\ fecSets' = <<>> /\ batchCompleteIdx' = <<>>
  /\ held' = {}
  /\ pc' = "evicted" /\ job' = NoJob
  /\ UNCHANGED <<slotComplete, seen, restoredEnds, streamingCursor, streamingDecoder,
                 batchStart, tally>>

-----------------------------------------------------------------------------

\* Time passes for the batches that wait for a shred.
Tick ==
  /\ \E i \in DOMAIN batchCompleteIdx : batchCompleteIdx[i] < StuckBatchTimeout
  /\ batchCompleteIdx' = [i \in DOMAIN batchCompleteIdx |->
                            Min({batchCompleteIdx[i] + 1, StuckBatchTimeout})]
  /\ UNCHANGED <<pending, fecSets, slotComplete, held, seen, restoredEnds, stream, pc, job>>

Init ==
  /\ pending = <<>> /\ fecSets = <<>> /\ batchCompleteIdx = <<>>
  /\ streamingCursor = 0 /\ streamingDecoder = NewStreamingDecoder
  /\ yieldedSigs = {} /\ batchStart = 0 /\ slotComplete = FALSE
  /\ tally = [c \in {"streaming", "fallback", "skipped", "corrupted", "timeout"} |-> 0]
  /\ pc = "idle" /\ job = NoJob
  /\ held = {} /\ seen = {} /\ restoredEnds = {} /\ out = <<>>

\* The rest of a push or of a harvest, once it has begun.
Work ==
  \/ advanceStreaming \/ PushFills
  \/ FlushNothing \/ FlushNext \/ FlushFills \/ FlushBatch \/ FlushTimeout \/ FlushWaits
  \/ HarvestFills \/ HarvestBatch \/ HarvestTail

Next ==
  \/ \E i \in Indices, L \in RawLens : PushLast(i, L) \/ PushIgnored(i, L) \/ PushStored(i, L)
  \/ \E s \in Sets : \E position \in 0..(FecLayout[s].nc - 1) : \E L \in CodeLens[s] :
       PushCode(s, position, L)
  \/ HarvestBegins
  \/ Tick
  \/ Work

Spec == Init /\ [][Next]_vars

\* The goroutine that holds the listener's mutex keeps running, and time passes.  Work
\* is enabled exactly when a push or a harvest is in progress; besides it only Tick can
\* be taken then, and not for ever.  So the second conjunct is WF_vars(Work) without its
\* ENABLED, which TLC is slow to evaluate for these actions.
Idle == pc \in {"idle", "evicted"}
FairSpec ==
  /\ Spec
  /\ []<>Idle \/ []<><<TRUE>>_vars
  /\ WF_vars(Tick)

-----------------------------------------------------------------------------
(* Properties *)

FecSetBuffer == [nd : Nat, nc : Nat, code : SUBSET Nat, cut : SUBSET Nat]
Shred == [recovered : BOOLEAN, end : Nat, len : Nat, bc : BOOLEAN, set : Nat]

\* Type invariant of the accumulator's state.
TypeOK ==
  /\ DOMAIN pending \subseteq Indices
  /\ \A i \in DOMAIN pending : pending[i] \in Shred
  /\ DOMAIN fecSets \subseteq Sets
  /\ \A s \in DOMAIN fecSets : fecSets[s] \in FecSetBuffer
  /\ DOMAIN batchCompleteIdx \subseteq Indices
  /\ \A i \in DOMAIN batchCompleteIdx : batchCompleteIdx[i] \in Nat
  /\ streamingCursor \in Nat /\ batchStart \in Nat
  /\ yieldedSigs \subseteq Nat /\ slotComplete \in BOOLEAN
  /\ held \subseteq Indices /\ restoredEnds \subseteq seen /\ seen \subseteq Indices /\ out \in Seq(Nat)
  /\ pc \in {"idle", "stream", "fill", "stream2", "flush", "flushFill", "harvest", "evicted"}

\* Pool buffers: the accumulator holds exactly the buffers of the pending shreds that
\* came from the network.  None is kept after its shred is dropped, by any of the early
\* returns of pushData, by completeBatch or by release.
BuffersAccounted == held = {i \in DOMAIN pending : ~pending[i].recovered}

\* The window: nothing pending lies before batchStart, the known batch ends are those of
\* the pending shreds, and every shred from batchStart to the streaming cursor is pending.
\* Between pushes the cursor has not run past the end of the unfinished batch: streaming
\* into the next batch would decode it with the wrong decoder and the wrong yieldedSigs.
StreamingWindow ==
  /\ \A i \in DOMAIN pending : i >= batchStart
  /\ DOMAIN batchCompleteIdx = {i \in DOMAIN pending : pending[i].bc}
  /\ pc # "evicted" =>
       /\ batchStart <= streamingCursor
       /\ Contiguous(batchStart, streamingCursor - 1)
  /\ pc = "idle" => \A i \in DOMAIN batchCompleteIdx : i >= streamingCursor

\* Between pushes the streaming decoder has been fed the payloads of consecutive shreds of
\* the unfinished batch, ending right before the cursor: completeBatch and the error path
\* reset it in time, and nothing is fed twice or out of order.  Where the run of shreds
\* begins is left open, since an error restarts the decoder inside a batch.
DecoderAligned ==
  pc = "idle" => \E i \in batchStart..streamingCursor :
                    streamingDecoder.buffer = Combined(i, streamingCursor - 1)

\* What the leader sent: the cells of the shreds lo..hi, and the transactions in order.
LedgerCells(lo, hi) == Joined([i \in Indices |-> Ledger[i].cells], lo, hi)
LedgerTxs == SelectSeq(DecodeConcatenated(LedgerCells(0, Max(Indices))), LAMBDA x : x # NoSig)

Position(sig) == Min({n \in DOMAIN LedgerTxs : LedgerTxs[n] = sig})

\* Delivery: only transactions of the ledger, in ledger order and none twice, whatever
\* mix of streaming, whole-batch decoding and salvage delivered them.
DeliveredInLedgerOrder ==
  /\ Range(out) \subseteq Range(LedgerTxs)
  /\ \A m, n \in DOMAIN out : m < n => Position(out[m]) < Position(out[n])

\* The batches of the ledger and their transactions.
Batches == {r \in Indices \X Indices :
              /\ r[1] <= r[2] /\ Ledger[r[2]].bc
              /\ r[1] = 0 \/ Ledger[r[1] - 1].bc
              /\ \A i \in r[1]..(r[2] - 1) : ~Ledger[i].bc}
BatchTxs(r) == Range(DecodeBatch(LedgerCells(r[1], r[2])).txs) \ {NoSig}

\* A batch all of whose shreds were received or recovered has been delivered completely
\* once the accumulator has moved past it, unless the end of a batch before it came back
\* by recovery: whatever the order of arrival, the losses elsewhere and the timeouts.
DeliveredUnlessEndRestored(exempt) ==
  pc \in {"idle", "evicted"} /\ ~disableSalvageDelivery =>
    \A r \in Batches :
      /\ r[1]..r[2] \subseteq seen /\ r[2] < batchStart
      /\ \A e \in exempt : e >= r[1]
      => BatchTxs(r) \subseteq Range(out)
ReceivedBatchDelivered == DeliveredUnlessEndRestored(restoredEnds)

\* A step that finishes exactly one batch with no shred missing delivers what streaming
\* has not delivered of it: fallback decoding and yieldedSigs lose nothing.
FinishDelivers ==
  [][batchStart' # batchStart =>
       LET last == batchStart' - 1
       IN  (<<batchStart, last>> \in Batches /\ Contiguous(batchStart, last))
             => BatchTxs(<<batchStart, last>>) \subseteq Range(out') \cup Range(job'.tail)]_vars

\* A pending shred always has a payload: what the parser lets through lies within the
\* buffer until the shred is dropped, so the branch of advanceStreaming that gives up a
\* batch because of a corrupted shred is never taken.
NeverCorrupted == \A i \in DOMAIN pending : ~PayloadNil(i)

\* A batch is given up for its timeout only when a shred of it is missing, and no missing
\* one could be had: of every erasure set at hand that covers it too few shards are usable,
\* or the set is too large for newReedSolomon, or it is the slot's last shred.
GivesUpOnlyUnrecoverable ==
  [][tally'["timeout"] # tally["timeout"] =>
       /\ ~Contiguous(batchStart, job.bc)
       /\ \A i \in (batchStart..job.bc) \ DOMAIN pending : \A s \in DOMAIN fecSets :
            i \in s..(s + fecSets[s].nd - 1) =>
              \/ ~enoughShards(s)
              \/ fecSets[s].nd + fecSets[s].nc > MaxTotalShards
              \/ Ledger[i].last]_vars

\* The accumulator as the listener sees it: a push in progress has not happened yet.
SlotView == IF Idle THEN [held |-> held, complete |-> slotComplete] ELSE job.before

Contract == INSTANCE SlotContract WITH
  Buffers <- Indices, acc <- SlotView, closed <- pc = "evicted"

\* The accumulator keeps its promise to the listener: however many loops a push runs
\* through, it keeps no buffer but those it held or was offered, a complete slot stays
\* complete, and the harvest leaves no buffer behind.
KeepsContract == Contract!Spec

\* Every push and every harvest comes to an end: the loops of advanceStreaming,
\* tryFlushBatches and tryHarvestTail terminate.
PushReturns == ~Idle ~> Idle

Overdue(i) ==
  Idle /\ i \in DOMAIN batchCompleteIdx /\ batchCompleteIdx[i] >= StuckBatchTimeout
PastBatch(i) == batchStart > i \/ pc = "evicted"

\* A batch that has waited for StuckBatchTimeout is finished, with all the batches
\* before it, provided pushes that reach tryFlushBatches keep coming for the slot.
OverdueFinishedByPushes ==
  []<>(pc = "flush") => \A i \in Indices : Overdue(i) ~> PastBatch(i)

-----------------------------------------------------------------------------
(* What the documentation says, against the code *)

\* MaxFECSetsPerSlot is a cap on the erasure sets a slot buffers.
FecCapRespected == Cardinality(DOMAIN fecSets) <= MaxFECSetsPerSlot

\* When a slot is harvested, no data shred is missing from an erasure set of which
\* enough shards arrived, the slot's last shred included.
EnoughShardsRecover ==
  (pc = "harvest" /\ job.hints = {}) =>
    \A s \in DOMAIN fecSets :
      LET set == s..(s + fecSets[s].nd - 1)
          got == {i \in set : i \in seen \/ (Ledger[i].last /\ slotComplete)}
      IN  Cardinality(got) + Cardinality(UsableCode(s)) >= fecSets[s].nd
            => \A i \in set : i \in seen \/ Ledger[i].last

\* Recovery only helps: a batch all of whose shreds were received or recovered has been
\* delivered completely once the accumulator has moved past it.
RecoveredBatchDelivered == DeliveredUnlessEndRestored({})

\* A batch that is stuck for StuckBatchTimeout is finalized.
StuckBatchFinalized == \A i \in Indices : Overdue(i) ~> PastBatch(i)

=============================================================================
