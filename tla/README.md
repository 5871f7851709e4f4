# A TLA+ model of shredstream-sdk-go

The SDK receives Solana shreds over UDP, puts the shreds of each slot in order, recovers
lost ones from erasure codes and yields the transactions of the slot as early as it can.
This directory models it from the datagram to the transaction, checks the models with TLC on
small instances and proves part of it with TLAPS for all values of the constants.

## 1. The system

| Part | Source | State | Operations |
|------|--------|-------|------------|
| Slot accumulator | `accumulator.go` | pending shreds, erasure sets, batch ends with the time they were first seen, streaming cursor and decoder, delivered signatures, start of the unfinished batch | `pushData`, `pushCode`, `tryHarvestTail`, `release` |
| Decoder | `decoder.go` | streaming buffer, its cursor, entry count | `Push`, `Reset`, `DecodeBatch`, `DecodeConcatenated` |
| Listener | `listener.go` | live slots, blacklist `recentlySeenSlots`, queue `pendingBatches`, `lastSlot`, counters | `HandlePacket`, `recvOne`, `evictOldSlots`, `forceEvictOldestSlot`, `Close`, getters |
| Iterators | `listener.go` | `done`, the socket | `TransactionIter.Next`, `ShredIter.Next` |
| Buffer pool | `pool.go` | free list, buffers, handles | `acquire`, `release` |
| Parser, variants | `parser.go`, `variant.go` | none | `ParseKind`, `ParseShred`, `ClassifyVariant` |
| Reed-Solomon | `fec.go`, `internal/galois` | LRU cache of codes | `GetOrBuild`, `ReconstructData` |
| Options, errors, tuning, examples | the rest | none | validation, system calls, printing |

How they interact.  A goroutine in `TransactionIter.Next` takes a buffer from the pool
with the listener's mutex held, reads and parses a datagram without it, locks it again
and hands the buffer to the accumulator of the shred's slot.  The accumulator keeps the
buffer until the shred's batch is finished.  When a newer slot arrives, or the pool is empty, old
slots are evicted: their accumulators are harvested, the harvest is queued for the
iterators, the buffers go back and the slot is blacklisted.

What is hard: shreds arrive in any order, duplicated, truncated or not at all; a
batch is delivered by a mix of streaming, whole-batch decoding and salvage, each of which
may fail half-way; recovery adds shreds and batch ends in the middle of a decision;
several goroutines share buffers and slots and use what they parsed before the
lock; timeouts are only looked at when something else happens; counters are
read while slots are evicted.  `PROJECT.json` lists these hazards line by line.

## 2. The modules

| Module | Models |
|--------|--------|
| `PushContract`, `SlotContract` | what an accumulator promises to the listener |
| `SlotAccumulator` | one slot of `accumulator.go`; implements `SlotContract` |
| `EntryDecoder` | batches and entries of `decoder.go`, over cells; used by `SlotAccumulator` |
| `TransactionDecoder` | transactions and messages of `decoder.go`, over bytes |
| `Listener` | `listener.go` and the pool, seen from the goroutines; uses `PushContract` |
| `ShredParser` | `parser.go`, `variant.go` |
| `ReceivePath` | `pool.go`, `recvOne` and the counters of datagrams, with the bytes; uses `ShredParser` |
| `Metrics` | the getters that add a total and the live slots |
| `RSCache` | `reedSolomonCache` of `fec.go` |
| `Galois`, `ReedSolomon` | `internal/galois` and the code of `fec.go` |
| `FecRecovery` | `tryReconstruct` on the bytes; composes `RSCache` and `ReedSolomon` |
| `MCAccumulator`, `MCListener`, `MCMetrics`, `MCReceive`, `MCRecovery`, `MCWire` | instances for TLC |
| `Facts` | lemmas on minimum and maximum, induction and recursive functions |
| `AccumulatorProofs`, `DeliveryProofs` | the theorems on `SlotAccumulator` |
| `DecoderProofs` | lemmas on `EntryDecoder`, for `DeliveryProofs` |
| `ListenerProofs`, `MetricsProofs`, `ReceiveProofs`, `RSCacheProofs` | the theorems on these modules |

No single model could hold everything from bytes to goroutines, so the system is cut where the
code has an interface, and what one model takes for granted another one shows:

* `Listener` knows an accumulator only by its buffers and its `complete` flag, and lets a push
  have any of the `PushOutcomes`.  `SlotAccumulator` implements just that (`KeepsContract`).
* `Listener` has a set of free buffers.  `ReceivePath` has the stack of indices and the contents of the
  buffers, and shows that it behaves as a set and that nobody's bytes are overwritten.
* `SlotAccumulator` takes shreds whose payload lies in their buffer.  `ReceivePath` shows that what
  the parser lets through is like that.
* `SlotAccumulator` lets recovery give back the leader's shreds as soon as enough usable shards are
  there.  `FecRecovery` shows it of the arithmetic and of the cache.
* `EntryDecoder` takes a transaction for two cells, of which one may be missing.
  `TransactionDecoder` shows of the bytes that a part is never taken for the whole nor for an error.

### EntryDecoder

Payload bytes are cells: one for an entry count, one for an entry header (its value is
the transaction count), two for a transaction.  A cell read at the wrong place is
read for its number, so misaligned decoding misreads instead of failing by decree.
Shreds may end between any two cells.  The partial-input cases of `decodeMessage` are the
status `"more"`, its errors the cells in `Malformed`.

### TransactionDecoder

A stream of transactions is encoded to bytes, which arrive one after the other; decoding starts at
any place of the stream and is tried again after each byte.  It works on a cursor: a status, a
position, the count just read and the values so far.  `Count` reads a compact-u16 number, and `Array`
and `Items` are the loops.  A transaction is the sequence of its fields; the sixth, the
lookups, marks version 0.

### SlotAccumulator

The variables are the fields of `slotAccumulator`.  The maps are functions;
`batchCompleteIdx` holds the age of a batch end up to `StuckBatchTimeout` instead of the time.
`held` is the set of buffers not released yet, `seen`, `out` and `restoredEnds` are history, `job` holds
the local variables of the push in progress and, as history, what the caller saw before it.

A push is a run of steps from `pc = "idle"` back to `"idle"`; while it lasts, only
time may pass.  The steps are:

* `PushLast`, `PushIgnored`, `PushStored` (`pushData`) and `PushCode`;
* `advanceStreaming`, one shred per step (`StreamStops`, `StreamPayload`, `StreamCorrupted`);
* `PushFills`, the `tryFecFill` between the two calls of `advanceStreaming`;
* `FlushNothing`, `FlushNext`, `FlushFills`, `FlushBatch`, `FlushTimeout`, `FlushWaits`: the
  turns of `tryFlushBatches`, with the hints in any order, as Go traverses a map;
* `HarvestBegins`, `HarvestFills`, `HarvestBatch`, `HarvestTail`: `tryHarvestTail`, `release`.

The environment sends any datagram of the ledger, of any length in `RawLens` (data shreds) or
`CodeLens` (code shreds), any number of times.  Data and code shreds cut short are kept and counted by
`canRecover`, but are no usable shards (`Usable`, `UsableCode`): reconstruction gives back the leader's
shreds if enough usable shards are at hand.  A set of legacy code shreds, which the code never
reconstructs, behaves like one whose code shreds are all cut short.

### Listener

`l` is the record of what the mutex guards, and `socket` and `cancelled` are the outside.
A critical section is one step, written as the set of outcomes it may have.
A reader goes through `next`, `read` (or `dummy`, without a buffer), `parsed` and back; what
happens between `read` and `parsed` interleaves with the other readers and with injected packets.
An accumulator is the set of buffers it holds and its `complete` flag; `Push` gives it any of the
`PushOutcomes`.  An eviction may or may not leave a tail.  `retired` is history: the slots ever
evicted.  An error of the socket other than a deadline may end an iterator at any time.
`ShredReaders` are goroutines in `ShredIter.Next`: they read the same socket without the mutex.

### ReceivePath and ShredParser

A datagram is its length, its variant byte, slot, index and erasure set, and the six bytes
at offsets 83 to 88, which are the header of a data or of a code shred, as the variant says.  Offsets,
sizes and limits are those of the code.  A reader acquires an index of the free list, reads a
datagram into its buffer (cut to the size of the buffer), parses the buffer without the mutex and then
hands it over.  Data shreds stay in the buffer, of code shreds a copy is kept.  Which slot is
accepted is left open here, and kept shreds may be dropped at any time.  Every handler
bumps its counter, and a call of `UnparseablePackets` loads four of them one by one.

### Metrics

One counter: the total, the counts of the live slots, a slot in the middle of its eviction
(the mutex is held from `Evicts` to `rollupAccumulator`), and observers that load the total
without the mutex and then sum with it.

### RSCache, Galois, ReedSolomon, FecRecovery

`RSCache` has the two slices `keys` and `values` and moves their elements as `GetOrBuild` does;
`recency` is history.  `Galois` builds the exponent and logarithm tables as `init` does, with exclusive or by
halves of a byte, and has the matrix operations; `ReedSolomon` builds the code, encodes, and reconstructs data shards.
`FecRecovery` follows one erasure set after the other: shards arrive in any order, some cut
short, and `tryReconstruct` goes through the cache they all share.

## 3. What the runs check

| Run | Checks | States |
|-----|--------|--------|
| `accumulator` | buffers, window, dead branch, received batches are delivered, giving up only what is unrecoverable, the contract with the listener, termination, overdue batches | 222,000 |
| `trouble` | decoder alignment, ledger order without duplicates, nothing lost when a batch is finished | 30,000 |
| `listener` | ownership of buffers, blacklist, bound on slots, what may be evicted | 130,000 |
| `listener_live` | iterators end, tails are delivered | 57,000 |
| `metrics` | a counter never shows too much, and too little only when an eviction overlaps | 205,000 |
| `receive` | the free list, bytes not overwritten, payloads in their buffers, every datagram counted, leaders' shreds parsed | 288,000 |
| `wire` | transactions decoded to what was sent, nothing decided too early, numbers | 120,000 |
| `recovery` | recovered shards are those that were sent, enough shards suffice, the cache, the field | 13,000 |

Four runs show where the code and what is said of it part; each ends in a counterexample.

* `stale_end`: `tryFlushBatches` picks a batch end, recovers an earlier one, and decodes both
  batches as one.  The transactions of the second are lost although every shred was there.
* `fec_cap`: the cap on erasure sets is exceeded by code shreds older than all buffered sets.
* `last_shred`: the last shred of a slot is not kept and does not count for its erasure set.
* `stuck`: a stuck batch is only finalized when another shred of its slot arrives.

`ReceivedBatchDelivered` and `RecoveredBatchDelivered` are one formula.  The first leaves out batches
that lie behind a batch end which recovery restored, and holds; the second leaves out none, and is what
`stale_end` refutes.  So in a well-formed ledger a restored batch end is the only way to lose a batch that is there.

Two more disagreements follow from the models at once and have no run of their own.  `Close` only closes the
socket (the action `Close` leaves `l` alone), while `src/README.md:93` has it "Release the socket and pool": the buffers of
live slots stay with them.  And the "Lock-free atomic counters" of `src/README.md:118` that add a total and the live slots take the
mutex for the second part; a slot evicted between the two is in neither, so a counter that is read twice may go
back.  `ExactWithoutEviction` says that this takes an eviction during the call.

What concerns pure functions only is looked at in initial states (`AtStart`): `TablesGiveTheField` (all
pairs of bytes), `LargeLayoutsRecover`, `NumbersReadBack` (all 16-bit numbers), `LeadersShredsParse`,
`ShardsFitDatagrams` (all variants).

Each property of a passing run has a faulty variant of a definition (named
`Definition_WhatIsWrong`, next to the definition) that breaks it.

### Bounds

* `MCLedger`: two batches of three and two shreds, each with an erasure set, and the last
  shred of the slot.  An entry spans shreds and a shred ends inside a transaction.  Two batches
  are what it takes for one to be finished while the other waits, and for recovery to
  uncover an earlier batch end.  One datagram length truncates a data shred below
  the shard size, and another one a code shred of the second set.
* `TroubleLedger`: shreds that end right after an entry header (which the streaming decoder
  takes for an error), a transaction without signature, a batch of ticks only, a malformed transaction,
  an empty shred.
* `StuckBatchTimeout = 1`: a batch end is young or overdue; nothing else is told apart.
* `MCListener`: three buffers and two readers plus injection, so that the pool runs dry with
  and without live slots; slots 0, 1, 3, 5 with `maxAge = 2` (1 for a
  complete slot), a jump limit of 2, a bootstrap limit of 2, a plausible maximum of 4 and room for
  two slots reach every branch of `acceptSlot`, both expiries, the blacklist and its floor.
  `MaxPending = 1` bounds the queue, which the code does not.
* The liveness run has one buffer for two readers, so that one of them always meets an empty pool,
  and a shred iterator.  A shred iterator touches nothing that the safety properties are about.
* `MaxEvents = 4` in `Metrics`: enough for a count before, between and after two readings.
* `MCReceive`: two readers, two buffers and three datagrams read: a buffer is used again while the
  other reader parses.  Six kinds of datagram reach each outcome of the parser, among them one cut short, one
  longer than a buffer and one that only the legacy fallback takes.
* `MCWire`: transactions of both versions with the real sizes (64, 32, 256), with and without signatures,
  lookups and two-byte numbers, cut at every byte and decoded from every byte on.
* `MCRecovery`: layouts of 2+2, 3+2 and 1+2 shards with every choice of arrived and cut shards, 1+256, which
  cannot be built, and room for two codes in the cache, so that the third evicts one.  `LargeLayoutsRecover` adds 32+32,
  the layout of mainnet, 2+254, the largest there is, and 2+255.

The ends of the integer types are out of the accumulator's range: indices stay below `MaxU32`.

Deadlock is not checked for the accumulator, where an evicted one is done, nor for `wire`, where a
stream ends.

### Fairness

* `SlotAccumulator!FairSpec`: the goroutine inside a push keeps running, and time passes.
  It is not assumed that shreds keep coming; `OverdueFinishedByPushes` states it as a
  hypothesis and `stuck` shows that it is needed.
* `Listener!FairSpec`: a goroutine that is not blocked in `ReadFrom` takes its next step (Go's
  mutex is starvation free), and `ReadFrom` returns once the socket is closed.  Nothing
  is assumed of an open socket.
* `ReadsReturn` is a hypothesis of two properties: `ReadFrom` returns, with a datagram or by a
  read deadline.  Without it a cancelled context ends no reader that is blocked, as in the code.

## 4. What is proved

`AccumulatorProofs`, from `AccumulatorAssumption` (shreds lie within their buffers, erasure sets
cover indices of the ledger, indices are below `MaxU32`), for every ledger and arrival order:

* `BuffersExact`: `[]BuffersAccounted`;
* `WindowSound`: `[]StreamingWindow`;
* `CorruptedBranchDead`: `[]NeverCorrupted`;
* `GivesUpLast`: the action property `GivesUpOnlyUnrecoverable`;
* `AccumulatorKeepsContract`: `KeepsContract`, the refinement of `SlotContract`.

The inductive invariant `IInv` has three parts.  `ShredsOK` says what is pending and that the
known batch ends are those of pending shreds.  `CursorOK` says that all shreds
from `batchStart` to the cursor are pending.  `PlaceOK` is what makes the window inductive:
when `tryFlushBatches` is about to decide about `job.bc`, that shred is pending, and a smaller batch end
can only be one that was recovered meanwhile, at or after the cursor, because everything before the cursor
was pending and recovery only fills gaps.  If it then waits, there is a gap before
`job.bc`, so the cursor has not reached it either.  `FillInv` and `CompleteInv` are the lemmas about
`tryFecFill` and `completeBatch`; the decoders stay opaque here.

For `GivesUpLast` the invariant `RInv` says that, while `tryFlushBatches` tries the erasure sets of a batch
with a gap, those that it has tried are `Exhausted`: they hold too few usable shards, or are too large for
`newReedSolomon`, or miss nothing in the window but the slot's last shred.  That a set stays exhausted is the
point: a set that gives something is dropped, and what it gives belongs to it and counts for no other
(`FillExhausts`).  `canRecover` counts shreds cut short, so a set it refuses has too few usable ones, too
(`RefusedExhausted`).

The refinement maps an accumulator in the middle of a push to what its caller saw before
(`SlotView`, from the history `job.before`, `job.offered`, `job.last`).  `ContractInv` says what the push may
still do: it holds nothing but what it began with and was offered, and a slot that was complete
still is.  So every step inside a push stutters (`InsideStutters`) and the one that returns is a `Push` of the contract.

`DeliveryProofs`, from `AccumulatorAssumption` and `DecoderAssumption`, with the decoders no longer opaque:

* `TypeCorrect`: `[]TypeOK`;
* `BatchesDelivered`: `[]ReceivedBatchDelivered`;
* `StreamingAligned`: `[]DecoderAligned`;
* `FinishingDelivers`: the action property `FinishDelivers`.

Beside `IInv` the invariant `DInv` has five parts.  `TypesOK` and `OutOK` are types.  `HistoryOK` says that all that was
seen and is not finished is pending, that the window begins after a batch end of the ledger, and that a batch end smaller
than the one `tryFlushBatches` has chosen was recovered after the choice.  `StreamOK` says that
the decoder's buffer is what the leader sent between some place in the window and the cursor, and that `yieldedSigs`, which later
deliveries leave out, were delivered in fact.  `DeliveredOK` is `ReceivedBatchDelivered` in the middle of pushes, when what a harvest
has gathered is not delivered yet.

The argument (`InsideDelivered`).  A batch that was received as a whole and is now finished lies inside the window, all of
it pending.  The end of the batch before it is not pending: a pending end smaller than the chosen one would have been restored, and
`ReceivedBatchDelivered` excludes batches after a restored end.  So if the window has no gap, it begins with this
batch, which is at the front of what is decoded, and a batch decodes to the same transactions whatever
follows (`BatchExtends`).  If it has a gap, the batch begins a run of shreds, and salvage decodes it there (`SalvageFacts`,
`BatchInConcatenated`).  In both cases what is not delivered now is in `yieldedSigs` (`FreshFacts`), hence was delivered before.

`DecoderProofs` has what this needs of `EntryDecoder`: that joined sequences can be cut anywhere (`JoinedSplit`), that an entry, a run
of entries and a batch that are whole stay the same when cells follow, that `DecodeConcatenated` gives at least the first
batch, and the types.  These are statements about recursive functions for every input.  The library's induction
theorems cannot be instantiated by the provers, so `Facts` states induction with a set in the place of the predicate
(`Induction`) and recursion with functions in the place of operators (`Recursion`, `Iteration`).

`MetricsProofs`, from `MetricsAssumption` (finitely many slots), for any observers and events: `NeverTooMuch` and
`NothingMissed`.  `MInv` says that every event is in the total, in the slot being evicted or in a live slot, and that
what an observer has loaded is at most the total, and equal to it as long as no eviction came.  The lemmas on sums
(`SumsExist`, `SumsSplit`, `SumWithout`) are by induction on the size of the domain.

`ListenerProofs`, from `ListenerAssumption` and `NoneAssumption` (a finite pool, slots within
64 bits), for any number of goroutines, slots and buffers:

* `TypeCorrect`, `BuffersOwned`, `EvictedClosed`, `NewestSlot`, `LiveBounded`;
* `OnlyOldEvicted`: the action property `EvictsOnlyOld`.

A critical section is a set of outcomes, so the invariant is split.  `LInv(m, away)` speaks of a value
`m` of the guarded record and of the buffers `away` with readers: `Partition` says that free, held
and away buffers partition the pool, `Lifecycle` relates live slots, the blacklist and `lastSlot`.
Each helper has a lemma (`EvictInv`, `AcquireInv`, `PushInv`, `HandleInv`, ...) that it preserves
`LInv`, which then chain as the code's calls do.  `ReadersOK` says that the buffers of readers are distinct.
For `OnlyOldEvicted` a second chain (`EvictOldOnly`, `ForceEvictOnly`, `AcquireOnly`, `HandleOnly`) says which slots
each helper takes away.  It needs that `lastSlot` fits 64 bits: only then is a slot that exceeds the saturated
sum older than its threshold.  `HandlePacket` evicts twice in one critical section; what was too old the
first time still is, because `lastSlot` only rises and thresholds of live slots do not change.

`ReceiveProofs`, from `ReceiveAssumption` (buffers shorter than 65,536 bytes), for any datagrams,
buffers and goroutines:

* `ParsedWithinDatagram`: what `ParseKind` accepts lies within the datagram, for every datagram;
* `PoolSound`, `BytesSafe`, `PayloadsSafe`: the invariants `FreelistSound`, `BytesAsReceived`, `PayloadInBuffer`;
* `AllCounted`, `UnparseableSum`: the invariants `EveryDatagramCounted`, `SumWithinCall`.

`ReceiveInv` joins the soundness of the free list to `BytesInv`: a reader has an index exactly while it is not
at `next`, and what it parsed is what its buffer holds.  A read only writes to
the reader's own buffer, which is neither free nor kept, so nobody else's bytes change.  The sum is bounded by
`SumInv`: after each load the value lies between what the loaded counters were at the call and what they are now.

`RSCacheProofs`, from `CacheAssumption` (room for one code), for any layouts and calls: `SlicesInStep` and
`LeastRecentlyUsed`.  `CacheInv` adds that the history has no layout twice; a hit and a miss then move
the same element in the slices and at the end of the history.

Only model-checked:

* all liveness properties (`PushReturns`, `OverdueFinishedByPushes` and those of `listener_live`): out of the prover's reach;
* `DeliveredInLedgerOrder`: it depends on the ledger.  Salvage may begin to decode in the middle of a batch, and what it then
  takes for a transaction is one of the ledger only if the ledger's cells do not happen to look like a batch there;
* the run `wire`, whose encodings are read back field by field;
* the run `recovery`, except for the cache: matrices over a field of 256 elements;
* `LeadersShredsParse` and `ShardsFitDatagrams`: TLC goes through all variants there are, and for the first through four sizes
  of a data shred (the bounds 88 and 1203 and two between them) and three layouts of code shreds, at their first and last position.

## 5. What is not modelled

* Options: defaults and their validation.  The values are constants of the models, taken as valid.
* Socket options and thread pinning (system calls), error texts, the examples.
* Getters that are one atomic load.  `LastIOErrorKind` is read without the mutex; nothing depends on it.
* The reconstruction of code shards, `Inv` and `Clone`, `saturatingSubU32`: nothing in the SDK calls them.
* Loops that end at the largest 32-bit index: leaders send no such index.
* In `Listener` and `ReceivePath` the bytes of payloads, and in `SlotAccumulator` those of transactions, beyond what
  tells them apart.
