------------------------------ MODULE Listener ------------------------------
(***************************************************************************)
(* listener.go and pool.go: slots that open and are evicted, the buffers   *)
(* of the pool that move between the pool, the goroutines and the slots,   *)
(* and the goroutines that read from the socket or inject packets.         *)
(*                                                                         *)
(* The fields that Listener.mu guards are one record, l; a critical        *)
(* section is one step.  Between the two critical sections of recvOne the  *)
(* goroutine reads from the socket and parses without the mutex, holding a *)
(* buffer.  An accumulator is seen from outside: the buffers it holds and  *)
(* whether its slot is complete.  What a push does to them is any of the   *)
(* PushOutcomes, the contract that SlotAccumulator keeps.                  *)
(***************************************************************************)
EXTENDS Integers, Sequences, FiniteSetsExt, PushContract

CONSTANTS
  Buffers,                  \* the buffers of the pool
  Readers,                  \* goroutines that run TransactionIter.Next
  ShredReaders,             \* goroutines that run ShredIter.Next
  SlotNumbers,              \* the slots of arriving shreds
  maxAge, enableFEC, disableSalvageDelivery,               \* ListenerOptions
  maxLiveSlots, completedRetentionSlots, blacklistExtraSlots,
  maxPlausibleSlot, maxBootstrapSlot, maxSlotJumpForward,
  MaxU64,                   \* the largest slot; sums saturate there
  MaxPending,               \* bound on pendingBatches, which the code does not bound
  Injects,                  \* whether the program also calls HandlePacket
  NoBuffer, NoPacket        \* a reader holds none

ASSUME ListenerAssumption ==
  /\ IsFiniteSet(Buffers) /\ Readers \cap ShredReaders = {} /\ SlotNumbers \subseteq Nat
  /\ maxAge \in Nat /\ maxLiveSlots \in Nat
  /\ completedRetentionSlots \in Nat /\ blacklistExtraSlots \in Nat
  /\ maxPlausibleSlot \in Nat /\ maxBootstrapSlot \in Nat /\ maxSlotJumpForward \in Nat
  /\ MaxPending \in Nat /\ MaxU64 \in Nat /\ \A s \in SlotNumbers : s <= MaxU64
  /\ enableFEC \in BOOLEAN /\ disableSalvageDelivery \in BOOLEAN
  /\ Injects \in BOOLEAN

\* A parsed shred: a data shred, the last data shred of its slot, or a code shred.
Packets == [slot : SlotNumbers, kind : {"data", "last", "code"}]

ASSUME NoneAssumption == NoBuffer \notin Buffers /\ NoPacket \notin Packets

VARIABLES
  l,          \* [free, slots, recentlySeenSlots, pendingBatches, lastSlot, retired]
  pc,         \* iterator -> where it is in Next and recvOne
  buf,        \* reader -> the pool buffer it holds
  pkt,        \* reader -> the parsed shred it holds
  socket,     \* "open", "closed", or "none" for a listener made by Offline
  cancelled   \* the context of the iterators is done

vars == <<l, pc, buf, pkt, socket, cancelled>>

-----------------------------------------------------------------------------
(* Steps of the critical sections, as the set of their outcomes on m, a value of l *)

saturatingAddU64(a, b) == IF a > MaxU64 - b THEN MaxU64 ELSE a + b
saturatingSubU64(a, b) == IF a < b THEN 0 ELSE a - b

Live(m) == DOMAIN m.slots
Held(m, S) == UNION {m.slots[s].held : s \in S}

\* Faulty variant: one slot too many is let in.
acceptSlot_OneMore(m, slot) ==
  /\ slot <= maxPlausibleSlot
  /\ m.lastSlot = 0 => slot <= maxBootstrapSlot
  /\ m.lastSlot > 0 /\ slot > m.lastSlot => slot - m.lastSlot <= maxSlotJumpForward
  /\ slot \notin Live(m) => Cardinality(Live(m)) <= maxLiveSlots

acceptSlot(m, slot) ==
  /\ slot <= maxPlausibleSlot
  /\ m.lastSlot = 0 => slot <= maxBootstrapSlot
  /\ m.lastSlot > 0 /\ slot > m.lastSlot => slot - m.lastSlot <= maxSlotJumpForward
  /\ slot \notin Live(m) => Cardinality(Live(m)) < maxLiveSlots

\* The slots whose harvest gives transactions, in the order they are queued: the map
\* is traversed in any order.
Tails(m, E) ==
  IF disableSalvageDelivery THEN {<<>>}
  ELSE {t \in UNION {[1..n -> E] : n \in 0..(MaxPending - Len(m.pendingBatches))} :
          \A i, j \in DOMAIN t : t[i] = t[j] => i = j}

\* The slots E are harvested, released and blacklisted.
Evict(m, E, tails) ==
  [m EXCEPT !.slots = [s \in DOMAIN @ \ E |-> @[s]],
            !.free = @ \cup Held(m, E),
            !.pendingBatches = @ \o tails,
            !.recentlySeenSlots = @ \cup E,
            !.retired = @ \cup E]

Threshold(m, s) == IF m.slots[s].complete THEN completedRetentionSlots ELSE maxAge
Expired(m) == {s \in Live(m) : m.lastSlot > saturatingAddU64(s, Threshold(m, s))}
Floor(last) == saturatingSubU64(last, saturatingAddU64(maxAge, blacklistExtraSlots))

evictOldSlots(m) ==
  {[Evict(m, Expired(m), tails) EXCEPT
      !.recentlySeenSlots = {s \in @ : s >= Floor(m.lastSlot)}] : tails \in Tails(m, Expired(m))}

\* Faulty variant: the newest slot is evicted.
forceEvictOldestSlot_Newest(m) ==
  IF Live(m) = {} THEN {m}
  ELSE {Evict(m, {Max(Live(m))}, tails) : tails \in Tails(m, {Max(Live(m))})}

forceEvictOldestSlot(m) ==
  IF Live(m) = {} THEN {m}
  ELSE {Evict(m, {Min(Live(m))}, tails) : tails \in Tails(m, {Min(Live(m))})}

\* What acquireBufferWithFallback evicts before it takes a buffer, or finds none.
acquireBufferWithFallback(m) ==
  IF m.free # {} THEN {m}
  ELSE UNION {IF n.free # {} THEN {n} ELSE forceEvictOldestSlot(n) : n \in evictOldSlots(m)}

\* The slot is left as r; what it had at hand and did not keep goes back to the pool.
Pushed(m, slot, all, r) ==
  [m EXCEPT !.slots = [s \in DOMAIN @ \cup {slot} |-> IF s = slot THEN r ELSE @[s]],
            !.free = @ \cup (all \ r.held)]

\* pushData or pushCode of the accumulator of p.slot.  The buffer b is offered with a data
\* shred that is not the last one; otherwise it is released at once.
Push(m, p, b) ==
  LET acc == IF p.slot \in Live(m) THEN m.slots[p.slot] ELSE Empty
      offered == IF p.kind = "data" THEN {b} ELSE {}
  IN  {Pushed(m, p.slot, acc.held \cup {b}, r) : r \in PushOutcomes(acc, offered, p.kind = "last")}

\* Faulty variant: a refused shred keeps its buffer.
handlePacketParsed_Leaks(m, p, b) ==
  IF ~acceptSlot(m, p.slot) \/ p.slot \in m.recentlySeenSlots \/ (p.kind = "code" /\ ~enableFEC)
  THEN {m}
  ELSE UNION {Push(n, p, b) :
                n \in IF p.slot > m.lastSlot THEN evictOldSlots([m EXCEPT !.lastSlot = p.slot])
                      ELSE {m}}

\* Faulty variant: the blacklist is not looked at.
handlePacketParsed_Reopens(m, p, b) ==
  IF ~acceptSlot(m, p.slot) \/ (p.kind = "code" /\ ~enableFEC)
  THEN {[m EXCEPT !.free = @ \cup {b}]}
  ELSE UNION {Push(n, p, b) :
                n \in IF p.slot > m.lastSlot THEN evictOldSlots([m EXCEPT !.lastSlot = p.slot])
                      ELSE {m}}

\* Faulty variant: lastSlot is the slot seen last.
handlePacketParsed_AnySlot(m, p, b) ==
  IF ~acceptSlot(m, p.slot) \/ p.slot \in m.recentlySeenSlots \/ (p.kind = "code" /\ ~enableFEC)
  THEN {[m EXCEPT !.free = @ \cup {b}]}
  ELSE UNION {Push(n, p, b) :
                n \in evictOldSlots([m EXCEPT !.lastSlot = p.slot])}

handlePacketParsed(m, p, b) ==
  IF ~acceptSlot(m, p.slot) \/ p.slot \in m.recentlySeenSlots \/ (p.kind = "code" /\ ~enableFEC)
  THEN {[m EXCEPT !.free = @ \cup {b}]}
  ELSE UNION {Push(n, p, b) :
                n \in IF p.slot > m.lastSlot THEN evictOldSlots([m EXCEPT !.lastSlot = p.slot])
                      ELSE {m}}

Take(m, b) == [m EXCEPT !.free = @ \ {b}]

-----------------------------------------------------------------------------
(* TransactionIter.Next and recvOne *)

Goto(g, place) == pc' = [pc EXCEPT ![g] = place]
DropBuffer(g) ==
  /\ l' = [l EXCEPT !.free = @ \cup {buf[g]}]
  /\ buf' = [buf EXCEPT ![g] = NoBuffer]

\* Faulty variant: the context is never looked at.
ContextDone_Never(g) == FALSE

\* What the iterator of g finds when it polls its context, at the top of Next's loop.
ContextDone(g) == cancelled

NextCancelled(g) ==
  /\ pc[g] = "next" /\ ContextDone(g)
  /\ Goto(g, "done")
  /\ UNCHANGED <<l, buf, pkt, socket, cancelled>>

\* Faulty variant: the batch stays in the queue.
RecvPending_Keeps(g) ==
  /\ pc[g] = "next" /\ ~ContextDone(g) /\ l.pendingBatches # <<>>
  /\ l' = [l EXCEPT !.pendingBatches = @]
  /\ UNCHANGED <<pc, buf, pkt, socket, cancelled>>

\* The first critical section: a queued batch goes first.
RecvPending(g) ==
  /\ pc[g] = "next" /\ ~ContextDone(g) /\ l.pendingBatches # <<>>
  /\ l' = [l EXCEPT !.pendingBatches = Tail(@)]
  /\ UNCHANGED <<pc, buf, pkt, socket, cancelled>>

RecvOffline(g) ==
  /\ pc[g] = "next" /\ ~ContextDone(g) /\ l.pendingBatches = <<>> /\ socket = "none"
  /\ Goto(g, "done")
  /\ UNCHANGED <<l, buf, pkt, socket, cancelled>>

RecvAcquires(g) ==
  /\ pc[g] = "next" /\ ~ContextDone(g) /\ l.pendingBatches = <<>> /\ socket # "none"
  /\ \E m \in acquireBufferWithFallback(l) :
       \/ /\ m.free = {}
          /\ l' = m
          /\ Goto(g, "dummy")
          /\ UNCHANGED buf
       \/ \E b \in m.free :
            /\ l' = Take(m, b)
            /\ Goto(g, "read")
            /\ buf' = [buf EXCEPT ![g] = b]
  /\ UNCHANGED <<pkt, socket, cancelled>>

\* Faulty variant: a buffer that was not acquired is released.
RecvDummy_Releases(g) ==
  /\ pc[g] = "dummy"
  /\ DropBuffer(g)
  /\ Goto(g, "next")
  /\ UNCHANGED <<pkt, socket, cancelled>>

\* Without a buffer one datagram is read and dropped; an error is dropped with it.
RecvDummy(g) ==
  /\ pc[g] = "dummy"
  /\ Goto(g, "next")
  /\ UNCHANGED <<l, buf, pkt, socket, cancelled>>

\* ReadFrom gives a datagram: it parses to p, or not at all.
RecvParsed(g, p) ==
  /\ pc[g] = "read" /\ socket = "open"
  /\ pkt' = [pkt EXCEPT ![g] = p]
  /\ Goto(g, "parsed")
  /\ UNCHANGED <<l, buf, socket, cancelled>>

\* An unparseable datagram, or an error isRecoverableIOError accepts (a deadline).
RecvNothing(g) ==
  /\ pc[g] = "read" /\ socket = "open"
  /\ DropBuffer(g)
  /\ Goto(g, "next")
  /\ UNCHANGED <<pkt, socket, cancelled>>

\* Faulty variant: the error of a closed socket is taken for a recoverable one.
RecvFails_Retries(g) ==
  /\ pc[g] = "read"
  /\ DropBuffer(g)
  /\ Goto(g, "next")
  /\ UNCHANGED <<pkt, socket, cancelled>>

\* Any other error ends the iterator: the socket is closed, or the connection fails.
RecvFails(g) ==
  /\ pc[g] = "read"
  /\ DropBuffer(g)
  /\ Goto(g, "done")
  /\ UNCHANGED <<pkt, socket, cancelled>>

\* The second critical section.
RecvHandles(g) ==
  /\ pc[g] = "parsed"
  /\ l' \in handlePacketParsed(l, pkt[g], buf[g])
  /\ buf' = [buf EXCEPT ![g] = NoBuffer]
  /\ pkt' = [pkt EXCEPT ![g] = NoPacket]
  /\ Goto(g, "next")
  /\ UNCHANGED <<socket, cancelled>>

-----------------------------------------------------------------------------
(* ShredIter.Next reads from the same socket into a buffer of its own, without the *)
(* mutex; what it reads no TransactionIter sees.                                    *)

ShredCancelled(h) ==
  /\ pc[h] = "next" /\ ContextDone(h)
  /\ Goto(h, "done")
  /\ UNCHANGED <<l, buf, pkt, socket, cancelled>>

ShredOffline(h) ==
  /\ pc[h] = "next" /\ ~ContextDone(h) /\ socket = "none"
  /\ Goto(h, "done")
  /\ UNCHANGED <<l, buf, pkt, socket, cancelled>>

ShredReads(h) ==
  /\ pc[h] = "next" /\ ~ContextDone(h) /\ socket # "none"
  /\ Goto(h, "read")
  /\ UNCHANGED <<l, buf, pkt, socket, cancelled>>

\* A data shred is yielded and Next is called again; anything else ParseShred gives, and
\* a recoverable error, only goes round the loop.
ShredReturns(h) ==
  /\ pc[h] = "read" /\ socket = "open"
  /\ Goto(h, "next")
  /\ UNCHANGED <<l, buf, pkt, socket, cancelled>>

ShredFails(h) ==
  /\ pc[h] = "read"
  /\ Goto(h, "done")
  /\ UNCHANGED <<l, buf, pkt, socket, cancelled>>

-----------------------------------------------------------------------------
(* HandlePacket, Close, and the context *)

\* An injected datagram that parses to p; it is lost when there is no buffer for it.
HandlePacket(p) ==
  /\ Injects
  /\ \E m \in acquireBufferWithFallback(l) :
       \/ m.free = {} /\ l' = m
       \/ \E b \in m.free : l' \in handlePacketParsed(Take(m, b), p, b)
  /\ UNCHANGED <<pc, buf, pkt, socket, cancelled>>

\* An injected datagram that does not parse takes a buffer and gives it back.
HandleUnparseable ==
  /\ Injects
  /\ l' \in acquireBufferWithFallback(l)
  /\ UNCHANGED <<pc, buf, pkt, socket, cancelled>>

Close ==
  /\ socket # "none"
  /\ socket' = "closed"
  /\ UNCHANGED <<l, pc, buf, pkt, cancelled>>

Cancel ==
  /\ cancelled' = TRUE
  /\ UNCHANGED <<l, pc, buf, pkt, socket>>

-----------------------------------------------------------------------------

Init ==
  /\ l = [free |-> Buffers, slots |-> <<>>, recentlySeenSlots |-> {}, pendingBatches |-> <<>>,
          lastSlot |-> 0, retired |-> {}]
  /\ pc = [g \in Readers \cup ShredReaders |-> "next"]
  /\ buf = [g \in Readers |-> NoBuffer]
  /\ pkt = [g \in Readers |-> NoPacket]
  /\ socket \in {"open", "none"}
  /\ cancelled = FALSE

ReaderStep(g) ==
  \/ NextCancelled(g) \/ RecvPending(g) \/ RecvOffline(g) \/ RecvAcquires(g)
  \/ RecvDummy(g) \/ RecvNothing(g) \/ RecvFails(g) \/ RecvHandles(g)
  \/ \E p \in Packets : RecvParsed(g, p)

ShredStep(h) ==
  ShredCancelled(h) \/ ShredOffline(h) \/ ShredReads(h) \/ ShredReturns(h) \/ ShredFails(h)

Next ==
  \/ \E g \in Readers : ReaderStep(g)
  \/ \E h \in ShredReaders : ShredStep(h)
  \/ \E p \in Packets : HandlePacket(p)
  \/ HandleUnparseable
  \/ Close
  \/ Cancel

Spec == Init /\ [][Next]_vars

\* A goroutine that is not blocked in ReadFrom keeps running, and gets the mutex in its
\* turn; ReadFrom returns when the socket is closed.
Runs(g) ==
  \/ NextCancelled(g) \/ RecvPending(g) \/ RecvOffline(g) \/ RecvAcquires(g)
  \/ RecvHandles(g)
  \/ socket = "closed" /\ (RecvDummy(g) \/ RecvFails(g))

\* ReadFrom returns, with a datagram or because of its deadline.
ReadReturns(g) == RecvDummy(g) \/ RecvNothing(g) \/ \E p \in Packets : RecvParsed(g, p)

ShredRuns(h) ==
  \/ ShredCancelled(h) \/ ShredOffline(h) \/ ShredReads(h)
  \/ socket = "closed" /\ ShredFails(h)

FairSpec ==
  /\ Spec
  /\ \A g \in Readers : WF_vars(Runs(g))
  /\ \A h \in ShredReaders : WF_vars(ShredRuns(h))

-----------------------------------------------------------------------------
(* Properties *)

Accumulator == [held : SUBSET Buffers, complete : BOOLEAN]
Places == {"next", "read", "dummy", "parsed", "done"}

\* Type invariant.
TypeOK ==
  /\ DOMAIN l = {"free", "slots", "recentlySeenSlots", "pendingBatches", "lastSlot", "retired"}
  /\ l.free \subseteq Buffers
  /\ Live(l) \subseteq SlotNumbers
  /\ l.slots \in [Live(l) -> Accumulator]
  /\ l.recentlySeenSlots \subseteq SlotNumbers /\ l.retired \subseteq SlotNumbers
  /\ l.pendingBatches \in Seq(SlotNumbers)
  /\ l.lastSlot \in Nat
  /\ pc \in [Readers \cup ShredReaders -> Places]
  /\ buf \in [Readers -> Buffers \cup {NoBuffer}]
  /\ pkt \in [Readers -> Packets \cup {NoPacket}]
  /\ \A g \in Readers : pc[g] = "parsed" => pkt[g] \in Packets
  /\ socket \in {"open", "closed", "none"} /\ cancelled \in BOOLEAN

\* Every buffer of the pool has exactly one owner: the free list, a live slot, or a reader
\* between its two critical sections.  None is leaked by an early return or an eviction,
\* none is given out twice.
BufferOwnership ==
  /\ \A b \in Buffers : b \in l.free \/ b \in Held(l, Live(l)) \/ \E g \in Readers : buf[g] = b
  /\ l.free \cap Held(l, Live(l)) = {}
  /\ \A s, t \in Live(l) : s # t => l.slots[s].held \cap l.slots[t].held = {}
  /\ \A g \in Readers : /\ buf[g] \notin l.free \cup Held(l, Live(l))
                         /\ pc[g] \in {"read", "parsed"} <=> buf[g] # NoBuffer
  /\ \A g, h \in Readers : g # h /\ buf[g] # NoBuffer => buf[g] # buf[h]

\* A slot that was evicted stays closed while the blacklist covers it: its late shreds,
\* also those read before the eviction, cannot open a second accumulator that would
\* deliver its transactions again.
EvictedStaysClosed ==
  /\ Live(l) \cap l.recentlySeenSlots = {}
  /\ \A s \in l.retired : s >= Floor(l.lastSlot) => s \in l.recentlySeenSlots

\* lastSlot is the newest slot that was ever let in, so that the blacklist and the age of
\* a slot are measured from it.
LastSlotNewest == \A s \in Live(l) \cup l.retired : s <= l.lastSlot

\* No more than maxLiveSlots accumulators exist.
LiveSlotsBounded == Cardinality(Live(l)) <= maxLiveSlots

TooOld(last, s) == last > s + Threshold(l, s)
EvictionsDue ==
  \A s \in Live(l) \ Live(l') :
    \/ TooOld(l'.lastSlot, s)
    \/ l.free = {} /\ \A t \in Live(l) : t < s => TooOld(l'.lastSlot, t)

\* A slot is evicted only when it is too old for lastSlot or, when the pool is empty, as
\* the oldest one that is not.
EvictsOnlyOld == [][EvictionsDue]_vars

\* Close ends the iterators: a blocked ReadFrom fails and the error is not recoverable,
\* and a reader without a buffer, whose read error is dropped, gets one in the end.
CloseEndsIterators ==
  \A g \in Readers \cup ShredReaders : socket = "closed" ~> pc[g] = "done"

ReadsReturn ==
  /\ \A g \in Readers : WF_vars(ReadReturns(g))
  /\ \A h \in ShredReaders : WF_vars(ShredReturns(h))

\* A done context ends the iterators, provided ReadFrom returns now and then.
CancelEndsIterators ==
  ReadsReturn => \A g \in Readers \cup ShredReaders : cancelled ~> pc[g] = "done"

\* The tails of evicted slots are delivered while an iterator runs and ReadFrom returns
\* now and then: the queue is drained, unless the context is done or every iterator has
\* ended.
TailsDelivered ==
  ReadsReturn =>
    (l.pendingBatches # <<>>) ~>
      (l.pendingBatches = <<>> \/ cancelled \/ \A g \in Readers : pc[g] = "done")

=============================================================================
