------------------------- MODULE AccumulatorProofs -------------------------
(***************************************************************************)
(* Proofs about SlotAccumulator, for any ledger, any layout of erasure     *)
(* sets and any order, loss and truncation of the datagrams: the buffers   *)
(* are accounted for, the streaming window is sound, the branch for        *)
(* corrupted shreds is dead, a batch is given up only when erasure sets    *)
(* cannot help, and the accumulator keeps its contract.  The decoders stay *)
(* opaque.                                                                 *)
(***************************************************************************)
EXTENDS SlotAccumulator, FiniteSetTheorems, Facts, TLAPS

\* What is pending: shreds of the ledger from batchStart on, with a payload within their
\* buffer; the known batch ends are theirs; erasure sets have the leader's sizes.
ShredsOK ==
  /\ DOMAIN pending \subseteq Indices
  /\ \A i \in DOMAIN pending : pending[i].recovered \in BOOLEAN /\ pending[i].bc \in BOOLEAN
  /\ \A i \in DOMAIN pending : ~PayloadNil(i)
  /\ BuffersAccounted
  /\ \A i \in DOMAIN pending : i >= batchStart
  /\ DOMAIN batchCompleteIdx = {i \in DOMAIN pending : pending[i].bc}
  /\ DOMAIN fecSets \subseteq Sets
  /\ \A s \in DOMAIN fecSets : fecSets[s].nd = FecLayout[s].nd

\* Every shred from batchStart to the streaming cursor is pending.
CursorOK ==
  /\ batchStart \in Nat /\ streamingCursor \in Nat /\ batchStart <= streamingCursor
  /\ Contiguous(batchStart, streamingCursor - 1)

\* Between pushes no batch end lies before the cursor.  When tryFlushBatches decides about
\* the batch end it chose, smaller ones that it recovered meanwhile lie after the cursor.
PlaceOK ==
  /\ pc = "idle" => \A i \in DOMAIN batchCompleteIdx : i >= streamingCursor
  /\ pc = "flushFill" =>
       /\ job.bc \in DOMAIN batchCompleteIdx
       /\ \A i \in DOMAIN batchCompleteIdx : i < job.bc => i >= streamingCursor

IInv == ShredsOK /\ (pc # "evicted" => CursorOK) /\ PlaceOK /\ DOMAIN job = DOMAIN NoJob

-----------------------------------------------------------------------------

\* Indices are naturals below MaxU32, so nothing saturates.
LEMMA IndexFacts ==
  /\ Indices \subseteq Nat
  /\ \A i \in Indices : saturatingAddU32(i, 1) = i + 1
<1>1. Indices \subseteq 0..(MaxU32 - 1) /\ MaxU32 \in Nat
  BY AccumulatorAssumption DEF AccumulatorAssumption
<1> QED BY <1>1 DEF saturatingAddU32

\* tryFecFill adds recovered shreds at places where none is pending.
LEMMA FillInv ==
  ASSUME NEW hint, ShredsOK, CursorOK, tryFecFill(hint),
         UNCHANGED <<streamingCursor, batchStart>>
  PROVE  /\ ShredsOK' /\ CursorOK'
         /\ DOMAIN batchCompleteIdx \subseteq DOMAIN batchCompleteIdx'
         /\ \A i \in DOMAIN batchCompleteIdx' \ DOMAIN batchCompleteIdx : i >= streamingCursor
<1>1. CASE selectRecoverableSet(hint) = {}
  <2>1. UNCHANGED shreds
    BY <1>1 DEF tryFecFill
  <2> QED BY <2>1 DEF shreds, ShredsOK, CursorOK, Contiguous, BuffersAccounted, PayloadNil
<1>2. CASE selectRecoverableSet(hint) # {}
  <2>1. PICK s \in selectRecoverableSet(hint) :
          /\ pending' = [x \in DOMAIN pending \cup Restored(s) |->
                           IF x \in Restored(s) THEN RecoveredShred(x, s) ELSE pending[x]]
          /\ batchCompleteIdx' = [x \in DOMAIN batchCompleteIdx \cup {i \in Restored(s) : Ledger[i].bc} |->
                                    IF x \in {i \in Restored(s) : Ledger[i].bc} THEN 0
                                    ELSE batchCompleteIdx[x]]
          /\ fecSets' = IF Restored(s) = {} THEN fecSets ELSE Keep(fecSets, DOMAIN fecSets \ {s})
          /\ UNCHANGED held
    BY <1>2 DEF tryFecFill, With
  <2>2. s \in DOMAIN fecSets
    <3>1. AtCursor \subseteq Nat /\ AtCursor \subseteq DOMAIN fecSets
      BY AccumulatorAssumption DEF AccumulatorAssumption, ShredsOK, AtCursor
    <3>2. (s = hint /\ hint \in DOMAIN fecSets) \/ (AtCursor # {} /\ s = Min(AtCursor))
      BY <2>1 DEF selectRecoverableSet
    <3> QED BY <3>1, <3>2, MinOfNats
  <2>3. \A i \in Restored(s) : i \in Indices /\ i >= batchStart /\ i \notin DOMAIN pending
    <3> SUFFICES ASSUME NEW i \in Restored(s) PROVE i \in Indices
      BY DEF Restored
    <3>1. s \in Nat /\ FecLayout[s].nd \in Nat /\ fecSets[s].nd = FecLayout[s].nd
      BY <2>2, AccumulatorAssumption DEF AccumulatorAssumption, ShredsOK
    <3>2. i \in s..(s + FecLayout[s].nd - 1)
      BY <3>1 DEF Restored, tryReconstruct
    <3>3. \A p \in 0..(FecLayout[s].nd - 1) : s + p \in Indices
      BY <2>2, AccumulatorAssumption DEF AccumulatorAssumption, ShredsOK
    <3>4. i - s \in 0..(FecLayout[s].nd - 1) /\ s + (i - s) = i
      BY <3>1, <3>2
    <3> QED BY <3>3, <3>4
  <2>4. \A i \in Indices : /\ RecoveredShred(i, s).recovered = TRUE
                           /\ RecoveredShred(i, s).bc = Ledger[i].bc /\ Ledger[i].bc \in BOOLEAN
                           /\ ~(RecoveredShred(i, s).end < DataHeaderSize)
                           /\ ~(RecoveredShred(i, s).end > RecoveredShred(i, s).len)
    BY AccumulatorAssumption DEF AccumulatorAssumption, RecoveredShred, PayloadEnd
  <2> HIDE DEF RecoveredShred, Restored
  <2>5. DOMAIN pending' = DOMAIN pending \cup Restored(s)
    BY <2>1
  <2>6. \A i \in Restored(s) : pending'[i] = RecoveredShred(i, s)
    BY <2>1
  <2>7. \A i \in DOMAIN pending : pending'[i] = pending[i]
    BY <2>1, <2>3
  <2>8. DOMAIN batchCompleteIdx' = DOMAIN batchCompleteIdx \cup {i \in Restored(s) : Ledger[i].bc}
    BY <2>1
  <2>9. ShredsOK'
    <3>1. DOMAIN pending' \subseteq Indices
      BY <2>3, <2>5 DEF ShredsOK
    <3>2. \A i \in DOMAIN pending' :
             pending'[i].recovered \in BOOLEAN /\ pending'[i].bc \in BOOLEAN /\ i >= batchStart'
      BY <2>3, <2>4, <2>5, <2>6, <2>7 DEF ShredsOK
    <3>3. \A i \in DOMAIN pending' : ~PayloadNil(i)'
      BY <2>3, <2>4, <2>5, <2>6, <2>7 DEF ShredsOK, PayloadNil
    <3>4. BuffersAccounted'
      BY <2>1, <2>3, <2>4, <2>5, <2>6, <2>7 DEF ShredsOK, BuffersAccounted
    <3>5. DOMAIN batchCompleteIdx' = {i \in DOMAIN pending' : pending'[i].bc}
      BY <2>3, <2>4, <2>5, <2>6, <2>7, <2>8 DEF ShredsOK
    <3>6. /\ DOMAIN fecSets' \subseteq Sets
          /\ \A t \in DOMAIN fecSets' : fecSets'[t].nd = FecLayout[t].nd
      BY <2>1 DEF ShredsOK, Keep
    <3> QED BY <3>1, <3>2, <3>3, <3>4, <3>5, <3>6 DEF ShredsOK
  <2>10. CursorOK'
    BY <2>5 DEF CursorOK, Contiguous
  <2>11. \A i \in Restored(s) : i >= streamingCursor
    <3> SUFFICES ASSUME NEW i \in Restored(s), ~(i >= streamingCursor) PROVE FALSE
      OBVIOUS
    <3>1. i \in Nat /\ i >= batchStart /\ i \notin DOMAIN pending
      BY <2>3, IndexFacts
    <3>2. i \in batchStart..(streamingCursor - 1)
      BY <3>1 DEF CursorOK
    <3> QED BY <3>1, <3>2 DEF CursorOK, Contiguous
  <2> QED BY <2>8, <2>9, <2>10, <2>11
<1> QED BY <1>1, <1>2

\* completeBatch drops the shreds before the next batch and moves the window to it.
LEMMA CompleteInv ==
  ASSUME NEW bcIdx \in Indices, bcIdx >= batchStart, ShredsOK, CursorOK, completeBatch(bcIdx)
  PROVE  ShredsOK' /\ CursorOK'
<1> DEFINE after == {i \in DOMAIN pending : i >= bcIdx + 1}
<1>1. bcIdx \in Nat /\ saturatingAddU32(bcIdx, 1) = bcIdx + 1
  BY IndexFacts
<1>2. /\ pending' = [x \in DOMAIN pending \cap after |-> pending[x]]
      /\ held' = held \cap after
      /\ batchCompleteIdx' = [x \in DOMAIN batchCompleteIdx \cap after |-> batchCompleteIdx[x]]
      /\ batchStart' = bcIdx + 1
      /\ streamingCursor' = Max({streamingCursor, bcIdx + 1})
  BY <1>1 DEF completeBatch, Keep, releaseBefore, pruneEnds
<1>3. /\ DOMAIN pending' = after
      /\ \A i \in after : pending'[i] = pending[i]
      /\ DOMAIN batchCompleteIdx' = DOMAIN batchCompleteIdx \cap after
  BY <1>2
<1>4. /\ DOMAIN fecSets' \subseteq DOMAIN fecSets
      /\ \A s \in DOMAIN fecSets' : fecSets'[s] = fecSets[s]
  BY DEF completeBatch, Keep
<1>5. ShredsOK'
  <2>1. /\ DOMAIN pending' \subseteq Indices
        /\ \A i \in DOMAIN pending' :
             pending'[i].recovered \in BOOLEAN /\ pending'[i].bc \in BOOLEAN /\ i >= batchStart'
    BY <1>2, <1>3 DEF ShredsOK
  <2>2. \A i \in DOMAIN pending' : ~PayloadNil(i)'
    BY <1>3 DEF ShredsOK, PayloadNil
  <2>3. BuffersAccounted'
    BY <1>2, <1>3 DEF ShredsOK, BuffersAccounted
  <2>4. DOMAIN batchCompleteIdx' = {i \in DOMAIN pending' : pending'[i].bc}
    BY <1>3 DEF ShredsOK
  <2>5. /\ DOMAIN fecSets' \subseteq Sets
        /\ \A s \in DOMAIN fecSets' : fecSets'[s].nd = FecLayout[s].nd
    BY <1>4 DEF ShredsOK
  <2> QED BY <2>1, <2>2, <2>3, <2>4, <2>5 DEF ShredsOK
<1>6. CursorOK'
  <2>1. streamingCursor' = IF streamingCursor >= bcIdx + 1 THEN streamingCursor ELSE bcIdx + 1
    BY <1>1, <1>2, MaxOfTwo DEF CursorOK
  <2>2. ASSUME NEW i \in (bcIdx + 1)..(streamingCursor' - 1) PROVE i \in DOMAIN pending'
    <3>1. i \in Nat /\ i >= bcIdx + 1 /\ i < streamingCursor
      BY <1>1, <2>1, <2>2 DEF CursorOK
    <3>2. i \in batchStart..(streamingCursor - 1)
      BY <1>1, <3>1 DEF CursorOK
    <3> QED BY <1>3, <3>1, <3>2 DEF CursorOK, Contiguous
  <2>3. batchStart' \in Nat /\ streamingCursor' \in Nat /\ batchStart' <= streamingCursor'
    BY <1>1, <1>2, <2>1 DEF CursorOK
  <2>4. batchStart'..(streamingCursor' - 1) \subseteq DOMAIN pending'
    BY <1>2, <2>2
  <2> QED BY <2>3, <2>4 DEF CursorOK, Contiguous
<1> QED BY <1>5, <1>6

\* A push that stores a shred at a free place of the window.
LEMMA StoreInv ==
  ASSUME NEW i \in Indices, NEW L \in RawLens, ShredsOK, CursorOK, PushStored(i, L)
  PROVE  ShredsOK' /\ CursorOK'
<1>1. /\ pending' = [x \in DOMAIN pending \cup {i} |->
                       IF x \in {i} THEN PoolShred(x, L) ELSE pending[x]]
      /\ batchCompleteIdx' = IF Ledger[i].bc
                             THEN [x \in DOMAIN batchCompleteIdx \cup {i} |->
                                     IF x \in {i} THEN 0 ELSE batchCompleteIdx[x]]
                             ELSE batchCompleteIdx
      /\ held' = held \cup {i}
      /\ i >= batchStart /\ i \notin DOMAIN pending
      /\ UNCHANGED <<fecSets, streamingCursor, batchStart>>
  BY DEF PushStored, With, stream
<1>2. /\ PoolShred(i, L).recovered = FALSE
      /\ PoolShred(i, L).bc = Ledger[i].bc /\ Ledger[i].bc \in BOOLEAN
      /\ ~(PoolShred(i, L).end < DataHeaderSize)
      /\ ~(PoolShred(i, L).end > PoolShred(i, L).len)
  <2>1. Ledger[i].size \in Nat /\ DataHeaderSize <= Ledger[i].size /\ Ledger[i].bc \in BOOLEAN
    BY AccumulatorAssumption DEF AccumulatorAssumption
  <2>2. Ledger[i].size <= L /\ L \in Nat /\ DataHeaderSize \in Nat
    BY AccumulatorAssumption DEF AccumulatorAssumption, PushStored, ParseOk
  <2> QED BY <2>1, <2>2 DEF PoolShred, PayloadEnd
<1> HIDE DEF PoolShred
<1>3. /\ DOMAIN pending' = DOMAIN pending \cup {i}
      /\ pending'[i] = PoolShred(i, L)
      /\ \A j \in DOMAIN pending : pending'[j] = pending[j]
  BY <1>1
<1>4. DOMAIN batchCompleteIdx' = DOMAIN batchCompleteIdx \cup IF Ledger[i].bc THEN {i} ELSE {}
  BY <1>1
<1>5. /\ DOMAIN pending' \subseteq Indices
      /\ \A j \in DOMAIN pending' :
           pending'[j].recovered \in BOOLEAN /\ pending'[j].bc \in BOOLEAN /\ j >= batchStart'
  BY <1>1, <1>2, <1>3 DEF ShredsOK
<1>6. \A j \in DOMAIN pending' : ~PayloadNil(j)'
  BY <1>2, <1>3 DEF ShredsOK, PayloadNil
<1>7. BuffersAccounted'
  BY <1>1, <1>2, <1>3 DEF ShredsOK, BuffersAccounted
<1>8. DOMAIN batchCompleteIdx' = {j \in DOMAIN pending' : pending'[j].bc}
  BY <1>1, <1>2, <1>3, <1>4 DEF ShredsOK
<1>9. ShredsOK'
  BY <1>1, <1>5, <1>6, <1>7, <1>8 DEF ShredsOK
<1>10. CursorOK'
  BY <1>1, <1>3 DEF CursorOK, Contiguous
<1> QED BY <1>9, <1>10

\* A push of a code shred only touches the erasure sets.
LEMMA CodeInv ==
  ASSUME NEW s \in Sets, NEW position \in 0..(FecLayout[s].nc - 1), NEW L \in CodeLens[s],
         ShredsOK, PushCode(s, position, L)
  PROVE  ShredsOK'
<1>1. /\ DOMAIN Room(s) \subseteq DOMAIN fecSets
      /\ \A t \in DOMAIN Room(s) : Room(s)[t] = fecSets[t]
  BY DEF Room, Keep
<1>2. recordCode(s, position, L).nd = FecLayout[s].nd
  <2>1. CASE s \in DOMAIN fecSets
    BY <2>1 DEF recordCode, SetBuffer, ShredsOK
  <2>2. CASE s \notin DOMAIN fecSets
    BY <2>2 DEF recordCode, SetBuffer
  <2> QED BY <2>1, <2>2
<1>3. fecSets' = [x \in DOMAIN Room(s) \cup {s} |->
                    IF x \in {s} THEN recordCode(x, position, L) ELSE Room(s)[x]]
  BY DEF PushCode, With
<1> HIDE DEF Room, recordCode
<1>4. /\ DOMAIN fecSets' \subseteq Sets
      /\ \A t \in DOMAIN fecSets' : fecSets'[t].nd = FecLayout[t].nd
  BY <1>1, <1>2, <1>3 DEF ShredsOK
<1>5. UNCHANGED <<pending, batchCompleteIdx, held, batchStart>>
  BY DEF PushCode, stream
<1> QED BY <1>4, <1>5 DEF ShredsOK, BuffersAccounted, PayloadNil

-----------------------------------------------------------------------------

\* The local variables of a push stay a record of the same fields.
LEMMA JobShape ==
  ASSUME DOMAIN job = DOMAIN NoJob, [Next]_vars
  PROVE  DOMAIN job' = DOMAIN NoJob
<1>1. CASE UNCHANGED vars
  BY <1>1 DEF vars
<1>2. ASSUME NEW i \in Indices, NEW L \in RawLens,
             PushLast(i, L) \/ PushIgnored(i, L) \/ PushStored(i, L)
      PROVE  DOMAIN job' = DOMAIN NoJob
  BY <1>2 DEF PushLast, PushIgnored, PushStored, Begun, NoJob, vars
<1>3. ASSUME NEW s \in Sets, NEW position \in 0..(FecLayout[s].nc - 1), NEW L \in CodeLens[s],
             PushCode(s, position, L)
      PROVE  DOMAIN job' = DOMAIN NoJob
  BY <1>3 DEF PushCode, Begun, NoJob
<1>4. CASE HarvestBegins \/ Tick \/ PushFills \/ FlushNothing \/ FlushNext \/ FlushFills
  BY <1>4 DEF HarvestBegins, Begun, NoJob, Tick, PushFills, FlushNothing, FlushNext, TurnTo, FlushFills
<1>5. CASE FlushBatch \/ FlushTimeout \/ FlushWaits \/ HarvestFills \/ HarvestBatch \/ HarvestTail
  BY <1>5 DEF FlushBatch, FlushTimeout, FlushWaits, HarvestFills, HarvestBatch, HarvestTail
<1>6. CASE advanceStreaming
  BY <1>6 DEF advanceStreaming, StreamStops, StreamPayload, StreamCorrupted
<1> QED BY <1>1, <1>2, <1>3, <1>4, <1>5, <1>6 DEF Next, Work

\* A new accumulator is empty.
LEMMA InitInv == Init => IInv
BY DEF Init, IInv, ShredsOK, CursorOK, PlaceOK, Contiguous, BuffersAccounted, NoJob

\* A step that leaves the shreds and the window alone and does not end a push.
LEMMA NoChange ==
  ASSUME IInv, UNCHANGED <<pending, fecSets, held, streamingCursor, batchStart>>,
         DOMAIN batchCompleteIdx' = DOMAIN batchCompleteIdx,
         pc # "evicted",
         pc' = "idle" => pc = "idle", pc' = "flushFill" => pc = "flushFill" /\ job'.bc = job.bc,
         DOMAIN job' = DOMAIN NoJob
  PROVE  IInv'
<1>1. ShredsOK'
  BY DEF IInv, ShredsOK, BuffersAccounted, PayloadNil
<1>2. CursorOK'
  BY DEF IInv, CursorOK, Contiguous
<1>3. PlaceOK'
  BY DEF IInv, PlaceOK
<1> QED BY <1>1, <1>2, <1>3 DEF IInv

\* Streaming moves the cursor over a pending shred, or stops.
LEMMA StreamInv ==
  ASSUME IInv, advanceStreaming, DOMAIN job' = DOMAIN NoJob
  PROVE  IInv'
<1>1. pc \in {"stream", "stream2"} /\ ShredsOK /\ CursorOK
  BY DEF advanceStreaming, IInv
<1>2. CASE StreamStops
  <2>1. UNCHANGED <<shreds, stream, job>> /\ pc' \in {"fill", "flush"}
    BY <1>2 DEF StreamStops, AfterStream
  <2> QED BY <1>1, <2>1, NoChange DEF shreds, stream
<1>3. CASE streamingCursor \in DOMAIN pending /\ StreamPayload
  <2>1. /\ UNCHANGED <<shreds, batchStart>> /\ streamingCursor' = streamingCursor + 1
        /\ pc' \in {"stream", "stream2", "fill", "flush"}
    BY <1>1, <1>3 DEF StreamPayload, AfterStream
  <2>2. ShredsOK'
    BY <1>1, <2>1 DEF shreds, ShredsOK, BuffersAccounted, PayloadNil
  <2>3. CursorOK'
    BY <1>1, <1>3, <2>1 DEF shreds, CursorOK, Contiguous
  <2> QED BY <2>1, <2>2, <2>3 DEF IInv, PlaceOK
<1>4. CASE streamingCursor \in DOMAIN pending /\ PayloadNil(streamingCursor)
  BY <1>1, <1>4 DEF ShredsOK
<1> QED BY <1>2, <1>3, <1>4 DEF advanceStreaming

\* A push, a harvest or time passing.
LEMMA NextInv ==
  ASSUME IInv, [Next]_vars
  PROVE  IInv'
<1>0. DOMAIN job' = DOMAIN NoJob
  BY JobShape DEF IInv
<1>1. CASE UNCHANGED vars
  BY <1>1 DEF vars, shreds, stream, IInv, ShredsOK, CursorOK, PlaceOK, Contiguous,
              BuffersAccounted, PayloadNil
<1>2. ASSUME NEW i \in Indices, NEW L \in RawLens, PushLast(i, L) PROVE IInv'
  BY <1>0, <1>2, NoChange DEF PushLast, stream
<1>3. ASSUME NEW i \in Indices, NEW L \in RawLens, PushIgnored(i, L) PROVE IInv'
  BY <1>1, <1>3 DEF PushIgnored
<1>4. ASSUME NEW i \in Indices, NEW L \in RawLens, PushStored(i, L) PROVE IInv'
  <2>1. pc = "idle" /\ pc' = "stream"
    BY <1>4 DEF PushStored
  <2> QED BY <1>0, <1>4, <2>1, StoreInv DEF IInv, PlaceOK
<1>5. ASSUME NEW s \in Sets, NEW position \in 0..(FecLayout[s].nc - 1), NEW L \in CodeLens[s],
             PushCode(s, position, L)
      PROVE  IInv'
  <2>1. pc = "idle" /\ pc' = "fill" /\ UNCHANGED <<pending, stream>>
    BY <1>5 DEF PushCode
  <2>2. CursorOK'
    BY <2>1 DEF IInv, CursorOK, Contiguous, stream
  <2> QED BY <1>0, <1>5, <2>1, <2>2, CodeInv DEF IInv, PlaceOK
<1>6. CASE HarvestBegins
  BY <1>0, <1>6, NoChange DEF HarvestBegins, shreds, stream
<1>7. CASE Tick
  <2>1. DOMAIN batchCompleteIdx' = DOMAIN batchCompleteIdx
    BY <1>7 DEF Tick
  <2>2. CASE pc # "evicted"
    BY <1>0, <1>7, <2>1, <2>2, NoChange DEF Tick, stream
  <2>3. CASE pc = "evicted"
    BY <1>0, <1>7, <2>1, <2>3
       DEF Tick, stream, IInv, ShredsOK, PlaceOK, BuffersAccounted, PayloadNil
  <2> QED BY <2>2, <2>3
<1>8. CASE advanceStreaming
  BY <1>0, <1>8, StreamInv
<1>9. CASE PushFills
  <2>1. pc = "fill" /\ pc' \in {"stream2", "flush"} /\ UNCHANGED <<streamingCursor, batchStart>>
    BY <1>9 DEF PushFills, stream
  <2>2. ShredsOK' /\ CursorOK'
    BY <1>9, <2>1, FillInv DEF PushFills, IInv
  <2> QED BY <1>0, <2>1, <2>2 DEF IInv, PlaceOK
<1>10. CASE FlushNothing
  <2>1. \A i \in DOMAIN batchCompleteIdx : i >= batchStart /\ i < batchStart /\ i \in Nat
    BY <1>10, IndexFacts DEF FlushNothing, IInv, ShredsOK
  <2>2. batchStart \in Nat
    BY <1>10 DEF FlushNothing, IInv, CursorOK
  <2>3. \A i \in DOMAIN batchCompleteIdx : FALSE
    BY <2>1, <2>2
  <2> QED BY <1>0, <1>10, <2>3
          DEF FlushNothing, shreds, stream, IInv, ShredsOK, CursorOK, PlaceOK, Contiguous,
              BuffersAccounted, PayloadNil
<1>11. CASE FlushNext
  <2> DEFINE ends == {i \in DOMAIN batchCompleteIdx : i >= batchStart}
  <2>1. ends \subseteq Nat /\ ends # {} /\ smallestBatchCompleteIdx = Min(ends)
    BY <1>11, IndexFacts DEF FlushNext, IInv, ShredsOK, smallestBatchCompleteIdx
  <2> HIDE DEF ends
  <2>2. Min(ends) \in ends /\ \A x \in ends : Min(ends) <= x
    BY <2>1, MinOfNats
  <2>3. UNCHANGED <<shreds, stream>> /\ pc' = "flushFill" /\ pc = "flush"
    BY <1>11 DEF FlushNext, TurnTo
  <2>4. job' = [job EXCEPT !.bc = Min(ends), !.hints = Hints(Min(ends))]
    BY <1>11, <2>1 DEF FlushNext, TurnTo
  <2>5. job'.bc = Min(ends)
    BY <2>4 DEF IInv, NoJob
  <2>6. Min(ends) \in DOMAIN batchCompleteIdx /\ \A i \in DOMAIN batchCompleteIdx : Min(ends) <= i
    BY <2>2 DEF IInv, ShredsOK, ends
  <2>7. \A i \in DOMAIN batchCompleteIdx : i \in Nat
    BY IndexFacts DEF IInv, ShredsOK
  <2>8. PlaceOK'
    BY <2>3, <2>5, <2>6, <2>7 DEF PlaceOK, shreds, stream
  <2> QED BY <1>0, <2>3, <2>8
          DEF shreds, stream, IInv, ShredsOK, CursorOK, Contiguous, BuffersAccounted, PayloadNil
<1>12. CASE FlushFills
  <2>1. PICK h \in job.hints : tryFecFill(h) /\ job' = [job EXCEPT !.hints = @ \ {h}]
    BY <1>12 DEF FlushFills
  <2>2. pc = "flushFill" /\ pc' = "flushFill" /\ UNCHANGED <<streamingCursor, batchStart>>
    BY <1>12 DEF FlushFills, stream
  <2>3. job'.bc = job.bc
    BY <2>1 DEF IInv, NoJob
  <2>4. /\ ShredsOK' /\ CursorOK'
        /\ DOMAIN batchCompleteIdx \subseteq DOMAIN batchCompleteIdx'
        /\ \A i \in DOMAIN batchCompleteIdx' \ DOMAIN batchCompleteIdx : i >= streamingCursor
    BY <2>1, <2>2, FillInv DEF IInv
  <2>5. PlaceOK'
    BY <2>2, <2>3, <2>4 DEF IInv, PlaceOK
  <2> QED BY <1>0, <2>4, <2>5 DEF IInv
<1>13. CASE FlushBatch \/ FlushTimeout
  <2>1. pc = "flushFill" /\ pc' = "flush" /\ completeBatch(job.bc)
    BY <1>13 DEF FlushBatch, FlushTimeout
  <2>2. job.bc \in Indices /\ job.bc >= batchStart
    BY <2>1 DEF IInv, PlaceOK, ShredsOK
  <2>3. ShredsOK' /\ CursorOK'
    BY <2>1, <2>2, CompleteInv DEF IInv
  <2> QED BY <1>0, <2>1, <2>3 DEF IInv, PlaceOK
<1>14. CASE FlushWaits
  <2>1. /\ pc = "flushFill" /\ pc' = "idle" /\ ~Contiguous(batchStart, job.bc)
        /\ UNCHANGED <<shreds, stream>>
    BY <1>14 DEF FlushWaits
  <2>2. job.bc \in Nat /\ \A i \in DOMAIN batchCompleteIdx : i \in Nat
    BY <2>1, IndexFacts DEF IInv, PlaceOK, ShredsOK
  <2>3. CursorOK
    BY <2>1 DEF IInv
  <2>4. job.bc >= streamingCursor
    <3> SUFFICES ASSUME job.bc < streamingCursor PROVE Contiguous(batchStart, job.bc)
      BY <2>1, <2>2, <2>3 DEF CursorOK
    <3>1. batchStart..job.bc \subseteq batchStart..(streamingCursor - 1)
      BY <2>2, <2>3 DEF CursorOK
    <3> QED BY <2>3, <3>1 DEF CursorOK, Contiguous
  <2>5. \A i \in DOMAIN batchCompleteIdx : i >= streamingCursor
    BY <2>1, <2>2, <2>3, <2>4 DEF IInv, PlaceOK, CursorOK
  <2> QED BY <1>0, <2>1, <2>3, <2>5
          DEF shreds, stream, IInv, ShredsOK, CursorOK, PlaceOK, Contiguous,
              BuffersAccounted, PayloadNil
<1>15. CASE HarvestFills
  <2>1. PICK h \in job.hints : tryFecFill(h)
    BY <1>15 DEF HarvestFills
  <2>2. pc = "harvest" /\ pc' = "harvest" /\ UNCHANGED <<streamingCursor, batchStart>>
    BY <1>15 DEF HarvestFills, stream
  <2>3. ShredsOK' /\ CursorOK'
    BY <2>1, <2>2, FillInv DEF IInv
  <2> QED BY <1>0, <2>2, <2>3 DEF IInv, PlaceOK
<1>16. CASE HarvestBatch
  <2>1. /\ pc = "harvest" /\ pc' = "harvest" /\ Boundaries # {}
        /\ completeBatch(Min(Boundaries))
    BY <1>16 DEF HarvestBatch
  <2>2. Boundaries \subseteq Indices /\ \A i \in Boundaries : i >= batchStart
    BY DEF IInv, ShredsOK, Boundaries
  <2>3. Min(Boundaries) \in Boundaries
    BY <2>1, <2>2, IndexFacts, MinOfNats
  <2>4. ShredsOK' /\ CursorOK'
    BY <2>1, <2>2, <2>3, CompleteInv DEF IInv
  <2> QED BY <1>0, <2>1, <2>4 DEF IInv, PlaceOK
<1>17. CASE HarvestTail
  <2>1. /\ pending' = <<>> /\ fecSets' = <<>> /\ batchCompleteIdx' = <<>>
        /\ held' = {} /\ pc' = "evicted"
    BY <1>17 DEF HarvestTail
  <2> QED BY <1>0, <2>1 DEF IInv, ShredsOK, PlaceOK, BuffersAccounted
<1> QED BY <1>1, <1>2, <1>3, <1>4, <1>5, <1>6, <1>7, <1>8, <1>9, <1>10, <1>11, <1>12,
           <1>13, <1>14, <1>15, <1>16, <1>17 DEF Next, Work

\* The invariant of every run.
THEOREM InductiveInv == Spec => []IInv
<1>1. IInv /\ [Next]_vars => IInv'
  BY NextInv
<1> QED BY <1>1, InitInv, PTL DEF Spec

\* Whatever arrives in whatever order, the accumulator holds exactly the pool buffers of
\* the pending shreds that came from the network: no path of accumulator.go leaks one or
\* releases one twice.
THEOREM BuffersExact == Spec => []BuffersAccounted
<1>1. IInv => BuffersAccounted
  BY DEF IInv, ShredsOK
<1> QED BY <1>1, InductiveInv, PTL

\* The window of the unfinished batch is sound, and the streaming cursor never runs past
\* its end between pushes.
THEOREM WindowSound == Spec => []StreamingWindow
<1>1. IInv => StreamingWindow
  BY DEF IInv, ShredsOK, CursorOK, PlaceOK, StreamingWindow
<1> QED BY <1>1, InductiveInv, PTL

\* A pending shred always has a payload: the corrupted-shred branch of advanceStreaming is
\* dead code, for any lengths of the datagrams.
THEOREM CorruptedBranchDead == Spec => []NeverCorrupted
<1>1. IInv => NeverCorrupted
  BY DEF IInv, ShredsOK, NeverCorrupted
<1> QED BY <1>1, InductiveInv, PTL

-----------------------------------------------------------------------------
(* Giving up a batch *)

\* Set s gives none of the shreds that are missing from the window.
Exhausted(s) ==
  \A i \in s..(s + fecSets[s].nd - 1) :
    i >= batchStart /\ i \notin DOMAIN pending =>
      \/ ~enoughShards(s)
      \/ fecSets[s].nd + fecSets[s].nc > MaxTotalShards
      \/ Ledger[i].last

\* When tryFlushBatches decides about a batch with a gap, the erasure sets that overlap it and
\* are not waiting to be tried are exhausted.
TriedOK ==
  pc = "flushFill" /\ ~Contiguous(batchStart, job.bc) =>
    \A s \in Overlapping(batchStart, job.bc) \ job.hints : Exhausted(s)

FecOK ==
  /\ \A s \in DOMAIN fecSets : /\ fecSets[s] \in FecSetBuffer
                               /\ IsFiniteSet(fecSets[s].code)
  /\ "timeout" \in DOMAIN tally
RInv == FecOK /\ TriedOK

\* A set that canRecover refuses has too few shards.
LEMMA RefusedExhausted ==
  ASSUME ShredsOK, FecOK, NEW s \in DOMAIN fecSets, fecSets[s].nd # 0, ~canRecover(s)
  PROVE  ~enoughShards(s)
<1>1. s \in Nat /\ fecSets[s].nd \in Nat /\ fecSets[s].nd > 0
  <2>1. s \in Sets /\ fecSets[s].nd = FecLayout[s].nd
    BY DEF ShredsOK
  <2>2. s \in Nat /\ FecLayout[s].nd \in Nat
    BY <2>1, AccumulatorAssumption DEF AccumulatorAssumption
  <2> QED BY <2>1, <2>2
<1> DEFINE all == s..(s + fecSets[s].nd - 1)
           cd == Cardinality(fecSets[s].code)  cw == Cardinality(UsableCode(s))
           cu == Cardinality(Usable(s))  cr == Cardinality(DataRefs(s))
<1>2. IsFiniteSet(all)
  BY <1>1, FS_Interval
<1>3. DataRefs(s) \subseteq all /\ Usable(s) \subseteq DataRefs(s)
  BY DEF DataRefs, Usable
<1>4. IsFiniteSet(DataRefs(s))
  BY <1>2, <1>3, FS_Subset
<1>5. cr \in Nat /\ IsFiniteSet(Usable(s)) /\ cu <= cr
  BY <1>3, <1>4, FS_Subset, FS_CardinalityType
<1>6. cu \in Nat /\ cd \in Nat /\ cw \in Nat /\ cw <= cd
  <2>1. UsableCode(s) \subseteq fecSets[s].code /\ IsFiniteSet(fecSets[s].code)
    BY DEF UsableCode, FecOK
  <2> QED BY <1>5, <2>1, FS_Subset, FS_CardinalityType
<1>7. ~(cr + cd >= fecSets[s].nd)
  BY <1>1 DEF canRecover
<1> HIDE DEF cr, cu, cd, cw
<1>8. ~(cu + cw >= fecSets[s].nd)
  BY <1>1, <1>5, <1>6, <1>7
<1> QED BY <1>8 DEF enoughShards, cu, cw

\* tryFecFill exhausts the set it is hinted at, or uses it up, and a set that was exhausted
\* stays so: recovered shreds belong to the set that is used up.
LEMMA FillExhausts ==
  ASSUME ShredsOK, FecOK, UNCHANGED batchStart, NEW hint, tryFecFill(hint)
  PROVE  /\ \A s \in DOMAIN fecSets' : s \in DOMAIN fecSets /\ fecSets'[s] = fecSets[s]
         /\ DOMAIN pending \subseteq DOMAIN pending'
         /\ \A s \in DOMAIN fecSets' :
              fecSets[s].nd # 0 /\ (s = hint \/ Exhausted(s)) => Exhausted(s)'
<1>0. ASSUME hint \in DOMAIN fecSets, fecSets[hint].nd # 0, ~canRecover(hint) PROVE Exhausted(hint)
  BY <1>0, RefusedExhausted DEF Exhausted
<1>1. CASE selectRecoverableSet(hint) = {}
  <2>1. UNCHANGED shreds
    BY <1>1 DEF tryFecFill
  <2>2. UNCHANGED <<pending, fecSets>>
    BY <2>1 DEF shreds
  <2>3. \A s : Exhausted(s) => Exhausted(s)'
    BY <2>2 DEF Exhausted, enoughShards, UsableCode, Usable, DataRefs
  <2>4. hint \in DOMAIN fecSets => ~canRecover(hint)
    BY <1>1 DEF selectRecoverableSet
  <2> QED BY <1>0, <2>2, <2>3, <2>4
<1>2. CASE selectRecoverableSet(hint) # {}
  <2>1. PICK t \in selectRecoverableSet(hint) :
          /\ pending' = [x \in DOMAIN pending \cup Restored(t) |->
                           IF x \in Restored(t) THEN RecoveredShred(x, t) ELSE pending[x]]
          /\ fecSets' = IF Restored(t) = {} THEN fecSets ELSE Keep(fecSets, DOMAIN fecSets \ {t})
    BY <1>2 DEF tryFecFill, With
  <2>2. t = hint \/ (hint \in DOMAIN fecSets => ~canRecover(hint))
    BY <2>1 DEF selectRecoverableSet
  <2>3. /\ DOMAIN pending' = DOMAIN pending \cup Restored(t)
        /\ \A i \in Restored(t) : pending'[i] = RecoveredShred(i, t) /\ i \notin DOMAIN pending
    BY <2>1 DEF Restored
  <2>4. \A i \in DOMAIN pending : pending'[i] = pending[i]
    BY <2>1, <2>3
  <2>5. \A s \in DOMAIN fecSets' : s \in DOMAIN fecSets /\ fecSets'[s] = fecSets[s]
    BY <2>1 DEF Keep
  <2>6. \A s \in DOMAIN fecSets' : s = t => Restored(t) = {}
    BY <2>1 DEF Keep
  <2>7. ASSUME NEW s \in DOMAIN fecSets', Exhausted(s) PROVE Exhausted(s)'
    <3>1. \A i \in DOMAIN pending' \ DOMAIN pending : pending'[i].set # s
      BY <2>3, <2>6 DEF RecoveredShred
    <3>2. DataRefs(s)' = DataRefs(s)
      BY <2>3, <2>4, <2>5, <3>1 DEF DataRefs
    <3>3. \A i \in DataRefs(s) : i \in DOMAIN pending /\ pending'[i] = pending[i]
      BY <2>4 DEF DataRefs
    <3>4. Usable(s)' = Usable(s)
      BY <3>2, <3>3 DEF Usable
    <3>5. enoughShards(s)' <=> enoughShards(s)
      BY <2>5, <3>4 DEF enoughShards, UsableCode
    <3> QED BY <2>3, <2>5, <2>7, <3>5 DEF Exhausted
  <2>8. ASSUME hint \in DOMAIN fecSets', fecSets[hint].nd # 0 PROVE Exhausted(hint)
    <3>1. CASE t = hint
      <4>1. Restored(hint) = {}
        BY <2>6, <2>8, <3>1
      <4> QED BY <4>1 DEF Restored, tryReconstruct, Exhausted, DataRefs
    <3>2. CASE t # hint
      BY <1>0, <2>2, <2>5, <2>8, <3>2
    <3> QED BY <3>1, <3>2
  <2> QED BY <2>3, <2>5, <2>7, <2>8
<1> QED BY <1>1, <1>2

\* What recordCode makes of an erasure set.
LEMMA RecordFacts ==
  ASSUME NEW s \in Sets, NEW position \in 0..(FecLayout[s].nc - 1), NEW L,
         s \in DOMAIN fecSets => fecSets[s] \in FecSetBuffer
  PROVE  /\ recordCode(s, position, L) \in FecSetBuffer
         /\ SetBuffer(s) \in FecSetBuffer
         /\ recordCode(s, position, L).code \subseteq SetBuffer(s).code \cup {position}
<1>1. position \in Nat /\ FecLayout[s].nd \in Nat /\ FecLayout[s].nc \in Nat
  BY AccumulatorAssumption DEF AccumulatorAssumption
<1>2. SetBuffer(s) \in FecSetBuffer
  BY <1>1 DEF SetBuffer, FecSetBuffer
<1>3. recordCode(s, position, L) \in
        {SetBuffer(s), [SetBuffer(s) EXCEPT !.code = @ \cup {position}, !.cut = @ \cup {position}],
         [SetBuffer(s) EXCEPT !.code = @ \cup {position}, !.cut = @]}
  BY DEF recordCode
<1> DEFINE old == SetBuffer(s)  new == recordCode(s, position, L)
<1> HIDE DEF old, new
<1>4. old \in [nd : Nat, nc : Nat, code : SUBSET Nat, cut : SUBSET Nat]
  BY <1>2 DEF old, FecSetBuffer
<1>5. \/ new = old
      \/ new = [old EXCEPT !.code = old.code \cup {position}, !.cut = old.cut \cup {position}]
      \/ new = [old EXCEPT !.code = old.code \cup {position}, !.cut = old.cut]
  BY <1>3 DEF old, new
<1>6. /\ new \in [nd : Nat, nc : Nat, code : SUBSET Nat, cut : SUBSET Nat]
      /\ new.code \subseteq old.code \cup {position}
  <2>1. CASE new = old
    BY <1>4, <2>1
  <2>2. CASE new = [old EXCEPT !.code = old.code \cup {position}, !.cut = old.cut \cup {position}]
    BY <1>1, <1>4, <2>2
  <2>3. CASE new = [old EXCEPT !.code = old.code \cup {position}, !.cut = old.cut]
    BY <1>1, <1>4, <2>3
  <2> QED BY <1>5, <2>1, <2>2, <2>3
<1> QED BY <1>2, <1>6 DEF old, new, FecSetBuffer

\* No step gives an erasure set infinitely many shards or drops a counter.
LEMMA FecTypes ==
  ASSUME IInv, FecOK, [Next]_vars
  PROVE  FecOK'
<1> DEFINE Kept == \A s \in DOMAIN fecSets' : s \in DOMAIN fecSets /\ fecSets'[s] = fecSets[s]
<1>1. DOMAIN tally' = DOMAIN tally
  <2>1. ASSUME NEW i \in Indices, NEW L \in RawLens,
               PushLast(i, L) \/ PushIgnored(i, L) \/ PushStored(i, L)
        PROVE  UNCHANGED tally
    BY <2>1 DEF PushLast, PushIgnored, PushStored, stream, vars
  <2>2. ASSUME NEW s \in Sets, NEW position \in 0..(FecLayout[s].nc - 1), NEW L \in CodeLens[s],
               PushCode(s, position, L)
        PROVE  UNCHANGED tally
    BY <2>2 DEF PushCode, stream
  <2>3. CASE HarvestBegins \/ Tick \/ HarvestTail \/ UNCHANGED vars
    BY <2>3 DEF HarvestBegins, Tick, HarvestTail, stream, vars
  <2>4. CASE PushFills \/ FlushFills \/ HarvestFills \/ FlushNothing \/ FlushNext \/ FlushWaits
    BY <2>4 DEF PushFills, FlushFills, HarvestFills, FlushNothing, FlushNext, FlushWaits, stream
  <2>5. CASE advanceStreaming
    <3>1. StreamStops \/ StreamPayload
      BY <2>5 DEF advanceStreaming, IInv, ShredsOK
    <3> QED BY <3>1 DEF StreamStops, StreamPayload, stream
  <2>6. CASE FlushBatch \/ FlushTimeout \/ HarvestBatch
    BY <2>6 DEF FlushBatch, FlushTimeout, HarvestBatch, CountDecoded, CountForced, Count
  <2> QED BY <2>1, <2>2, <2>3, <2>4, <2>5, <2>6 DEF Next, Work
<1>2. ASSUME NEW s \in Sets, NEW position \in 0..(FecLayout[s].nc - 1), NEW L \in CodeLens[s],
             PushCode(s, position, L)
      PROVE  FecOK'
  <2>1. fecSets' = [x \in DOMAIN Room(s) \cup {s} |->
                      IF x \in {s} THEN recordCode(x, position, L) ELSE Room(s)[x]]
    BY <1>2 DEF PushCode, With
  <2>2. \A t \in DOMAIN Room(s) : t \in DOMAIN fecSets /\ Room(s)[t] = fecSets[t]
    BY DEF Room, Keep
  <2>3. /\ recordCode(s, position, L) \in FecSetBuffer
        /\ recordCode(s, position, L).code \subseteq SetBuffer(s).code \cup {position}
    BY RecordFacts DEF FecOK
  <2>4. IsFiniteSet(SetBuffer(s).code)
    BY FS_EmptySet DEF SetBuffer, FecOK
  <2>5. IsFiniteSet(recordCode(s, position, L).code)
    BY <2>3, <2>4, FS_AddElement, FS_Subset
  <2> HIDE DEF recordCode, Room
  <2>6. \A t \in DOMAIN fecSets' : fecSets'[t] \in FecSetBuffer /\ IsFiniteSet(fecSets'[t].code)
    BY <2>1, <2>2, <2>3, <2>5 DEF FecOK
  <2> QED BY <1>1, <2>6 DEF FecOK
<1>3. CASE ~\E s \in Sets : \E position \in 0..(FecLayout[s].nc - 1) : \E L \in CodeLens[s] :
             PushCode(s, position, L)
  <2> SUFFICES Kept
    BY <1>1 DEF FecOK
  <2>1. ASSUME NEW i \in Indices, NEW L \in RawLens,
               PushLast(i, L) \/ PushIgnored(i, L) \/ PushStored(i, L)
        PROVE  UNCHANGED fecSets
    BY <2>1 DEF PushLast, PushIgnored, PushStored, shreds, vars
  <2>2. CASE HarvestBegins \/ Tick \/ UNCHANGED vars \/ FlushNothing \/ FlushNext \/ FlushWaits
    BY <2>2 DEF HarvestBegins, Tick, vars, FlushNothing, FlushNext, FlushWaits, shreds
  <2>3. CASE HarvestTail
    BY <2>3 DEF HarvestTail
  <2>4. CASE PushFills \/ FlushFills \/ HarvestFills
    <3>1. \E hint : tryFecFill(hint) /\ UNCHANGED batchStart
      BY <2>4 DEF PushFills, FlushFills, HarvestFills, stream
    <3> QED BY <3>1, FillExhausts DEF IInv
  <2>5. CASE advanceStreaming
    <3>1. StreamStops \/ StreamPayload
      BY <2>5 DEF advanceStreaming, IInv, ShredsOK
    <3> QED BY <3>1 DEF StreamStops, StreamPayload, shreds
  <2>6. CASE FlushBatch \/ FlushTimeout \/ HarvestBatch
    <3>1. \E bcIdx : completeBatch(bcIdx)
      BY <2>6 DEF FlushBatch, FlushTimeout, HarvestBatch
    <3> QED BY <3>1 DEF completeBatch, Keep
  <2> QED BY <1>3, <2>1, <2>2, <2>3, <2>4, <2>5, <2>6 DEF Next, Work
<1> QED BY <1>2, <1>3

\* RInv is inductive relative to IInv.
LEMMA NextRInv ==
  ASSUME IInv, RInv, [Next]_vars
  PROVE  RInv'
<1>1. FecOK /\ FecOK' /\ ShredsOK /\ DOMAIN job = DOMAIN NoJob
  BY FecTypes DEF RInv, IInv
<1> SUFFICES ASSUME pc' = "flushFill", ~Contiguous(batchStart, job.bc)',
                    NEW s \in (Overlapping(batchStart, job.bc) \ job.hints)'
             PROVE  Exhausted(s)'
  BY <1>1 DEF RInv, TriedOK
<1>2. CASE UNCHANGED vars
  <2>1. UNCHANGED <<pending, fecSets, batchStart, pc, job>>
    BY <1>2 DEF vars, shreds, stream
  <2> QED BY <2>1 DEF RInv, TriedOK, Contiguous, Overlapping, Exhausted, enoughShards, UsableCode,
           Usable, DataRefs
<1>3. CASE Tick
  <2>1. UNCHANGED <<pending, fecSets, batchStart, pc, job>>
    BY <1>3 DEF Tick, stream
  <2> QED BY <2>1 DEF RInv, TriedOK, Contiguous, Overlapping, Exhausted, enoughShards, UsableCode,
           Usable, DataRefs
<1>4. CASE FlushNext
  <2>1. UNCHANGED <<pending, fecSets, batchStart>> /\ TurnTo(smallestBatchCompleteIdx)
    BY <1>4 DEF FlushNext, shreds, stream
  <2>2. job'.bc = smallestBatchCompleteIdx /\ job'.hints = Hints(job'.bc)
    BY <1>1, <2>1 DEF TurnTo, NoJob
  <2>3. job'.hints = Overlapping(batchStart, job'.bc)
    BY <2>1, <2>2 DEF Hints, Contiguous
  <2>4. Overlapping(batchStart, job.bc)' = Overlapping(batchStart, job'.bc)
    BY <2>1 DEF Overlapping
  <2> QED BY <2>3, <2>4
<1>5. CASE FlushFills
  <2>1. PICK h \in job.hints : tryFecFill(h) /\ job' = [job EXCEPT !.hints = @ \ {h}]
    BY <1>5 DEF FlushFills
  <2>2. pc = "flushFill" /\ UNCHANGED batchStart
    BY <1>5 DEF FlushFills, stream
  <2>3. job'.bc = job.bc /\ job'.hints = job.hints \ {h}
    BY <1>1, <2>1 DEF NoJob
  <2>4. /\ \A t \in DOMAIN fecSets' : t \in DOMAIN fecSets /\ fecSets'[t] = fecSets[t]
        /\ DOMAIN pending \subseteq DOMAIN pending'
        /\ \A t \in DOMAIN fecSets' :
             fecSets[t].nd # 0 /\ (t = h \/ Exhausted(t)) => Exhausted(t)'
    BY <1>1, <2>1, <2>2, FillExhausts
  <2>5. s \in DOMAIN fecSets' /\ s \in Overlapping(batchStart, job.bc) /\ fecSets[s].nd # 0
    BY <2>2, <2>3, <2>4 DEF Overlapping
  <2>6. s = h \/ s \notin job.hints
    BY <2>3
  <2>7. ~Contiguous(batchStart, job.bc)
    BY <2>2, <2>3, <2>4 DEF Contiguous
  <2>8. s # h => Exhausted(s)
    BY <2>2, <2>5, <2>6, <2>7 DEF RInv, TriedOK
  <2> QED BY <2>4, <2>5, <2>8
<1>6. ASSUME NEW i \in Indices, NEW L \in RawLens PROVE ~(PushLast(i, L) \/ PushIgnored(i, L) \/ PushStored(i, L))
  BY DEF PushLast, PushIgnored, PushStored, vars
<1>7. ASSUME NEW t \in Sets, NEW position \in 0..(FecLayout[t].nc - 1), NEW L \in CodeLens[t]
      PROVE  ~PushCode(t, position, L)
  BY DEF PushCode
<1>8. ~(HarvestBegins \/ HarvestFills \/ HarvestBatch \/ HarvestTail)
  BY DEF HarvestBegins, HarvestFills, HarvestBatch, HarvestTail
<1>9. ~(PushFills \/ FlushNothing \/ FlushBatch \/ FlushTimeout \/ FlushWaits)
  BY DEF PushFills, FlushNothing, FlushBatch, FlushTimeout, FlushWaits
<1>10. ~advanceStreaming
  <2> SUFFICES ASSUME advanceStreaming PROVE FALSE
    OBVIOUS
  <2>1. (StreamStops \/ StreamPayload) /\ pc \in {"stream", "stream2"}
    BY DEF advanceStreaming, IInv, ShredsOK
  <2> QED BY <2>1 DEF StreamStops, StreamPayload, AfterStream
<1> QED BY <1>2, <1>3, <1>4, <1>5, <1>6, <1>7, <1>8, <1>9, <1>10 DEF Next, Work

\* A batch is given up for its timeout only when a shred of it is missing and no missing one
\* can be had from the erasure sets at hand, in whatever order tryFlushBatches tried them.
THEOREM GivesUpLast == Spec => GivesUpOnlyUnrecoverable
<1> DEFINE GivesUp ==
      tally'["timeout"] # tally["timeout"] =>
        /\ ~Contiguous(batchStart, job.bc)
        /\ \A i \in (batchStart..job.bc) \ DOMAIN pending : \A s \in DOMAIN fecSets :
             i \in s..(s + fecSets[s].nd - 1) =>
               \/ ~enoughShards(s)
               \/ fecSets[s].nd + fecSets[s].nc > MaxTotalShards
               \/ Ledger[i].last
<1>1. ASSUME IInv, RInv, [Next]_vars PROVE GivesUp
  <2>1. CASE FlushTimeout
    <3>1. pc = "flushFill" /\ job.hints = {} /\ ~Contiguous(batchStart, job.bc)
      BY <2>1 DEF FlushTimeout
    <3>2. job.bc \in Nat /\ batchStart \in Nat
      BY <1>1, <3>1, IndexFacts DEF IInv, PlaceOK, ShredsOK, CursorOK
    <3>3. ASSUME NEW i \in (batchStart..job.bc) \ DOMAIN pending, NEW s \in DOMAIN fecSets,
                 i \in s..(s + fecSets[s].nd - 1)
          PROVE  \/ ~enoughShards(s)
                 \/ fecSets[s].nd + fecSets[s].nc > MaxTotalShards
                 \/ Ledger[i].last
      <4>1. s \in Nat /\ fecSets[s].nd \in Nat
        <5>1. s \in Sets
          BY <1>1 DEF IInv, ShredsOK
        <5> QED BY <1>1, <5>1, AccumulatorAssumption
               DEF AccumulatorAssumption, RInv, FecOK, FecSetBuffer
      <4>2. s \in Overlapping(batchStart, job.bc) \ job.hints
        BY <3>1, <3>2, <3>3, <4>1 DEF Overlapping
      <4>3. Exhausted(s)
        BY <1>1, <3>1, <4>2 DEF RInv, TriedOK
      <4> QED BY <3>2, <3>3, <4>3 DEF Exhausted
    <3> QED BY <3>1, <3>3
  <2>2. CASE ~FlushTimeout
    <3> SUFFICES tally'["timeout"] = tally["timeout"]
      OBVIOUS
    <3>1. ASSUME NEW i \in Indices, NEW L \in RawLens,
                 PushLast(i, L) \/ PushIgnored(i, L) \/ PushStored(i, L)
          PROVE  UNCHANGED tally
      BY <3>1 DEF PushLast, PushIgnored, PushStored, stream, vars
    <3>2. ASSUME NEW s \in Sets, NEW position \in 0..(FecLayout[s].nc - 1), NEW L \in CodeLens[s],
                 PushCode(s, position, L)
          PROVE  UNCHANGED tally
      BY <3>2 DEF PushCode, stream
    <3>3. CASE HarvestBegins \/ Tick \/ HarvestTail \/ UNCHANGED vars
      BY <3>3 DEF HarvestBegins, Tick, HarvestTail, stream, vars
    <3>4. CASE PushFills \/ FlushFills \/ HarvestFills \/ FlushNothing \/ FlushNext \/ FlushWaits
      BY <3>4 DEF PushFills, FlushFills, HarvestFills, FlushNothing, FlushNext, FlushWaits, stream
    <3>5. CASE advanceStreaming
      <4>1. StreamStops \/ StreamPayload
        BY <1>1, <3>5 DEF advanceStreaming, IInv, ShredsOK
      <4> QED BY <4>1 DEF StreamStops, StreamPayload, stream
    <3>6. CASE FlushBatch \/ HarvestBatch
      <4>1. PICK c \in {"skipped", "fallback", "streaming"} : Count(c)
        BY <3>6 DEF FlushBatch, HarvestBatch, CountDecoded, SalvageCount
      <4> QED BY <1>1, <4>1 DEF Count, RInv, FecOK
    <3> QED BY <1>1, <2>2, <3>1, <3>2, <3>3, <3>4, <3>5, <3>6 DEF Next, Work
  <2> QED BY <2>1, <2>2
<1>2. Init => RInv
  BY DEF Init, RInv, FecOK, TriedOK
<1>3. IInv /\ RInv /\ [Next]_vars => RInv' /\ [GivesUp]_vars
  BY <1>1, NextRInv
<1>4. Spec => [][GivesUp]_vars
  <2> HIDE DEF GivesUp
  <2> QED BY <1>2, <1>3, InductiveInv, PTL DEF Spec
<1> QED BY <1>4 DEF GivesUpOnlyUnrecoverable

-----------------------------------------------------------------------------
(* The refinement of SlotContract *)

\* What the push in progress may still do to its caller's view: it holds no buffer but
\* those it began with or was offered, and a slot that was or became complete still is.
InProgress ==
  /\ held \subseteq job.before.held \cup job.offered
  /\ job.last \in BOOLEAN
  /\ job.before.complete \/ job.last => slotComplete
  /\ job.offered = {} \/ (~job.last /\ \E b \in Indices : job.offered = {b})
ContractInv == slotComplete \in BOOLEAN /\ (~Idle => InProgress)

\* The steps inside a push: buffers only go back, and a complete slot stays complete.
Inside ==
  /\ ~Idle /\ ~Idle' /\ held' \subseteq held
  /\ slotComplete' \in BOOLEAN /\ (slotComplete => slotComplete')
  /\ job'.before = job.before /\ job'.offered = job.offered /\ job'.last = job.last

\* tryFecFill takes no buffer, and completes the slot or leaves it as it is.
LEMMA FillContract ==
  ASSUME NEW hint, slotComplete \in BOOLEAN, tryFecFill(hint)
  PROVE  held' = held /\ slotComplete' \in BOOLEAN /\ (slotComplete => slotComplete')
<1>1. CASE selectRecoverableSet(hint) = {}
  BY <1>1 DEF tryFecFill, shreds
<1>2. CASE selectRecoverableSet(hint) # {}
  <2>1. PICK s \in selectRecoverableSet(hint) : MarkComplete(s) /\ UNCHANGED held
    BY <1>2 DEF tryFecFill
  <2>2. RestoresLast(s) \in BOOLEAN
    BY DEF RestoresLast
  <2> QED BY <2>1, <2>2 DEF MarkComplete
<1> QED BY <1>1, <1>2

\* Every step of the loops of a push or a harvest but the last one is inside it.
LEMMA InsideSteps ==
  ASSUME ContractInv, DOMAIN job = DOMAIN NoJob, Work, ~FlushNothing, ~FlushWaits, ~HarvestTail
  PROVE  Inside
<1>1. ASSUME NEW b, completeBatch(b) PROVE held' \subseteq held /\ slotComplete' = slotComplete
  BY <1>1 DEF completeBatch, releaseBefore
<1>2. CASE advanceStreaming
  <2>1. job' = job /\ ~Idle /\ ~Idle'
    BY <1>2 DEF advanceStreaming, StreamStops, StreamPayload, StreamCorrupted, AfterStream, Idle
  <2>2. held' \subseteq held /\ slotComplete' = slotComplete
    BY <1>1, <1>2 DEF advanceStreaming, StreamStops, StreamPayload, StreamCorrupted, shreds
  <2> QED BY <2>1, <2>2 DEF Inside, ContractInv
<1>3. CASE PushFills
  BY <1>3, FillContract DEF PushFills, Inside, ContractInv, Idle
<1>4. CASE FlushNext
  BY <1>4 DEF FlushNext, TurnTo, Inside, ContractInv, Idle, NoJob, shreds
<1>5. CASE FlushFills \/ HarvestFills
  <2>1. PICK h \in job.hints : tryFecFill(h) /\ job' = [job EXCEPT !.hints = @ \ {h}]
    BY <1>5 DEF FlushFills, HarvestFills
  <2>2. pc' = pc /\ ~Idle
    BY <1>5 DEF FlushFills, HarvestFills, Idle
  <2> QED BY <2>1, <2>2, FillContract DEF Inside, ContractInv, Idle, NoJob
<1>6. CASE FlushBatch \/ FlushTimeout
  BY <1>1, <1>6 DEF FlushBatch, FlushTimeout, Inside, ContractInv, Idle
<1>7. CASE HarvestBatch
  <2>1. \E t : job' = [job EXCEPT !.tail = t]
    BY <1>7 DEF HarvestBatch
  <2>2. pc' = pc /\ ~Idle /\ completeBatch(Min(Boundaries))
    BY <1>7 DEF HarvestBatch, Idle
  <2> QED BY <1>1, <2>1, <2>2 DEF Inside, ContractInv, Idle, NoJob
<1> QED BY <1>2, <1>3, <1>4, <1>5, <1>6, <1>7 DEF Work

\* A step inside a push keeps what is in progress, and the listener sees nothing of it.
LEMMA InsideStutters ==
  ASSUME ContractInv, Inside
  PROVE  ContractInv' /\ SlotView' = SlotView /\ pc # "evicted" /\ pc' # "evicted"
BY DEF ContractInv, Inside, InProgress, SlotView, Idle

\* A step of the accumulator keeps the invariant and is a step of the contract, or none.
LEMMA ContractStep ==
  ASSUME ContractInv, DOMAIN job = DOMAIN NoJob, [Next]_vars
  PROVE  ContractInv' /\ [Contract!Next]_(Contract!vars)
<1> DEFINE Stutter == SlotView' = SlotView /\ (pc' = "evicted") = (pc = "evicted")
<1>0. ASSUME ContractInv', Stutter PROVE ContractInv' /\ [Contract!Next]_(Contract!vars)
  BY <1>0 DEF Contract!vars
<1>1. CASE UNCHANGED vars
  <2>1. UNCHANGED <<pc, job, held, slotComplete>>
    BY <1>1 DEF vars, shreds
  <2> QED BY <1>0, <2>1 DEF ContractInv, InProgress, SlotView, Idle
<1>2. ASSUME NEW offered, NEW last \in BOOLEAN, pc = "idle", ~Idle',
             DOMAIN job' = DOMAIN NoJob,
             job'.before = [held |-> held, complete |-> slotComplete],
             job'.offered = offered, job'.last = last,
             held' \subseteq held \cup offered,
             slotComplete' = (slotComplete \/ last),
             offered = {} \/ (~last /\ \E b \in Indices : offered = {b})
      PROVE  ContractInv' /\ [Contract!Next]_(Contract!vars)
  <2>1. ContractInv'
    BY <1>2 DEF ContractInv, InProgress
  <2>2. Stutter
    BY <1>2 DEF SlotView, Idle
  <2> QED BY <1>0, <2>1, <2>2
<1>3. ASSUME NEW i \in Indices, NEW L \in RawLens,
             PushLast(i, L) \/ PushIgnored(i, L) \/ PushStored(i, L)
      PROVE  ContractInv' /\ [Contract!Next]_(Contract!vars)
  <2>1. CASE PushLast(i, L)
    BY <1>2, <2>1 DEF PushLast, Begun, Idle, NoJob, ContractInv
  <2>2. CASE PushIgnored(i, L)
    BY <1>1, <2>2 DEF PushIgnored
  <2>3. CASE PushStored(i, L)
    BY <1>2, <2>3 DEF PushStored, Begun, Idle, NoJob, ContractInv
  <2> QED BY <1>3, <2>1, <2>2, <2>3
<1>4. ASSUME NEW s \in Sets, NEW position \in 0..(FecLayout[s].nc - 1), NEW L \in CodeLens[s],
             PushCode(s, position, L)
      PROVE  ContractInv' /\ [Contract!Next]_(Contract!vars)
  BY <1>2, <1>4 DEF PushCode, Begun, Idle, NoJob, ContractInv
<1>5. CASE HarvestBegins
  BY <1>2, <1>5 DEF HarvestBegins, Begun, Idle, NoJob, ContractInv, shreds
<1>6. CASE Tick
  <2>1. UNCHANGED <<pc, job, held, slotComplete>>
    BY <1>6 DEF Tick
  <2> QED BY <1>0, <2>1 DEF ContractInv, InProgress, SlotView, Idle
<1>7. CASE FlushNothing \/ FlushWaits
  <2>1. /\ ~Idle /\ Idle' /\ pc # "evicted" /\ pc' # "evicted"
        /\ UNCHANGED <<held, slotComplete>>
    BY <1>7 DEF FlushNothing, FlushWaits, Idle, shreds
  <2>2. SlotView = job.before /\ SlotView' = [held |-> held, complete |-> slotComplete]
    BY <2>1 DEF SlotView
  <2>3. SlotView' \in PushOutcomes(SlotView, job.offered, job.last)
    BY <2>1, <2>2 DEF PushOutcomes, ContractInv, InProgress
  <2>4. \/ job.offered = {} /\ job.last \in BOOLEAN
        \/ ~job.last /\ \E b \in Indices : job.offered = {b}
    BY <2>1 DEF ContractInv, InProgress
  <2>5. Contract!Push(job.offered, job.last)
    BY <2>1, <2>3 DEF Contract!Push, Contract!PushOutcomes, PushOutcomes
  <2>6. Contract!Next
    BY <2>1, <2>4, <2>5 DEF Contract!Next, ContractInv, InProgress
  <2> QED BY <2>1, <2>6 DEF ContractInv
<1>8. CASE HarvestTail
  <2>1. pc = "harvest" /\ pc' = "evicted" /\ held' = {} /\ slotComplete' = slotComplete
    BY <1>8 DEF HarvestTail
  <2>2. SlotView' = [held |-> {}, complete |-> slotComplete]
    BY <2>1 DEF SlotView, Idle
  <2>3. Contract!Harvest
    BY <2>1, <2>2 DEF Contract!Harvest
  <2> QED BY <2>1, <2>3 DEF Contract!Next, ContractInv, Idle
<1>9. CASE Work /\ ~FlushNothing /\ ~FlushWaits /\ ~HarvestTail
  BY <1>0, <1>9, InsideSteps, InsideStutters
<1> QED BY <1>1, <1>3, <1>4, <1>5, <1>6, <1>7, <1>8, <1>9 DEF Next

\* The accumulator implements the contract that the listener is verified against: each
\* push is one step of it, whatever the loops inside do, and the harvest is the last one.
THEOREM AccumulatorKeepsContract == Spec => KeepsContract
<1>1. Init => ContractInv /\ Contract!Init
  BY DEF Init, ContractInv, Contract!Init, Contract!Empty, Empty, SlotView, Idle
<1>2. IInv => DOMAIN job = DOMAIN NoJob
  BY DEF IInv
<1>3. ContractInv /\ DOMAIN job = DOMAIN NoJob /\ [Next]_vars
        => ContractInv' /\ [Contract!Next]_(Contract!vars)
  BY ContractStep
<1> QED BY <1>1, <1>2, <1>3, InductiveInv, PTL DEF Spec, KeepsContract, Contract!Spec

=============================================================================
