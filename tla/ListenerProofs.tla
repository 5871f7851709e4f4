--------------------------- MODULE ListenerProofs ---------------------------
(***************************************************************************)
(* Proofs about Listener, for any pool, any number of readers and any      *)
(* limits.  The steps of the critical sections are operators on a value m  *)
(* of the state that the mutex guards; the lemmas say what each of them    *)
(* does to LInv, the part of the invariant that is about that state.       *)
(***************************************************************************)
EXTENDS Listener, FiniteSetTheorems, Facts, TLAPS

Fields == {"free", "slots", "recentlySeenSlots", "pendingBatches", "lastSlot", "retired"}

\* The type of the state that the mutex guards.
LTypeOK(m) ==
  /\ DOMAIN m = Fields
  /\ m.free \subseteq Buffers
  /\ Live(m) \subseteq SlotNumbers
  /\ m.slots \in [Live(m) -> Accumulator]
  /\ m.recentlySeenSlots \subseteq SlotNumbers
  /\ m.retired \subseteq SlotNumbers
  /\ m.pendingBatches \in Seq(SlotNumbers)
  /\ m.lastSlot \in Nat

\* Every buffer has one owner: the free list, a live slot, or away, the buffers that
\* readers and the step in progress have.
Partition(m, away) ==
  /\ \A b \in Buffers : b \in m.free \/ b \in away \/ \E s \in Live(m) : b \in m.slots[s].held
  /\ \A s \in Live(m) : m.free \cap m.slots[s].held = {}
  /\ \A s, t \in Live(m) : s # t => m.slots[s].held \cap m.slots[t].held = {}
  /\ away \cap m.free = {}
  /\ \A s \in Live(m) : away \cap m.slots[s].held = {}

\* Evicted slots are blacklisted, lastSlot is the newest slot, the live slots are bounded.
Lifecycle(m) ==
  /\ Live(m) \cap m.recentlySeenSlots = {}
  /\ \A s \in m.retired : s >= Floor(m.lastSlot) => s \in m.recentlySeenSlots
  /\ \A s \in Live(m) \cup m.retired : s <= m.lastSlot
  /\ m.lastSlot <= MaxU64
  /\ IsFiniteSet(Live(m)) /\ Cardinality(Live(m)) <= maxLiveSlots

LInv(m, away) == LTypeOK(m) /\ Partition(m, away) /\ Lifecycle(m)

-----------------------------------------------------------------------------
(* Evictions *)

\* Saturating sums lie between their first operand and MaxU64, and the floor of the
\* blacklist rises with lastSlot.
LEMMA SaturatingFacts ==
  /\ \A a, b \in Nat : saturatingAddU64(a, b) \in Nat
  /\ \A a, b \in Nat : a <= MaxU64 => a <= saturatingAddU64(a, b)
  /\ \A a, b \in Nat : a <= b => Floor(a) <= Floor(b)
  /\ \A a \in Nat : Floor(a) \in Nat
<1>1. /\ \A a, b \in Nat : saturatingAddU64(a, b) \in Nat
      /\ \A a, b \in Nat : a <= MaxU64 => a <= saturatingAddU64(a, b)
  BY ListenerAssumption DEF ListenerAssumption, saturatingAddU64
<1>2. saturatingAddU64(maxAge, blacklistExtraSlots) \in Nat
  BY <1>1, ListenerAssumption DEF ListenerAssumption
<1>3. /\ \A a, b \in Nat : a <= b => Floor(a) <= Floor(b)
      /\ \A a \in Nat : Floor(a) \in Nat
  BY <1>2 DEF Floor, saturatingSubU64
<1> QED BY <1>1, <1>3

\* The queued tails are slots of the evicted ones.
LEMMA TailsType ==
  ASSUME NEW m, NEW E, LTypeOK(m), E \subseteq SlotNumbers, NEW tails \in Tails(m, E)
  PROVE  tails \in Seq(SlotNumbers)
<1>1. CASE disableSalvageDelivery
  BY <1>1 DEF Tails
<1>2. CASE ~disableSalvageDelivery
  <2>1. PICK n \in 0..(MaxPending - Len(m.pendingBatches)) : tails \in [1..n -> E]
    BY <1>2 DEF Tails
  <2>2. n \in Nat
    BY <2>1, ListenerAssumption DEF ListenerAssumption, LTypeOK
  <2>3. tails \in [1..n -> SlotNumbers]
    BY <2>1
  <2> QED BY <2>2, <2>3
<1> QED BY <1>1, <1>2

\* An eviction keeps the invariant: the buffers of the evicted slots go to the free list,
\* and the slots to the blacklist.
LEMMA EvictInv ==
  ASSUME NEW m, NEW away, NEW E, NEW tails \in Seq(SlotNumbers),
         LInv(m, away), E \subseteq Live(m)
  PROVE  LInv(Evict(m, E, tails), away)
<1> DEFINE n == Evict(m, E, tails)
<1>1. /\ DOMAIN n = Fields
      /\ n.slots = [s \in Live(m) \ E |-> m.slots[s]]
      /\ n.free = m.free \cup Held(m, E)
      /\ n.pendingBatches = m.pendingBatches \o tails
      /\ n.recentlySeenSlots = m.recentlySeenSlots \cup E
      /\ n.retired = m.retired \cup E
      /\ n.lastSlot = m.lastSlot
  <2>1. DOMAIN m = Fields
    BY DEF LInv, LTypeOK
  <2> QED BY <2>1 DEF Evict, Fields, Live
<1>2. Live(n) = Live(m) \ E /\ \A s \in Live(n) : n.slots[s] = m.slots[s]
  BY <1>1 DEF Live
<1>3. \A b : b \in Held(m, E) <=> \E s \in E : b \in m.slots[s].held
  BY DEF Held
<1>4. \A s \in Live(m) : m.slots[s].held \subseteq Buffers
  BY DEF LInv, LTypeOK, Accumulator
<1> HIDE DEF n
<1>5. LTypeOK(n)
  <2>1. n.free \subseteq Buffers
    BY <1>1, <1>3, <1>4 DEF LInv, LTypeOK
  <2>2. n.slots \in [Live(n) -> Accumulator]
    BY <1>1, <1>2 DEF LInv, LTypeOK
  <2>3. n.pendingBatches \in Seq(SlotNumbers)
    BY <1>1 DEF LInv, LTypeOK
  <2> QED BY <2>1, <2>2, <2>3, <1>1, <1>2 DEF LInv, LTypeOK
<1>6. Partition(n, away)
  <2>1. \A b \in Buffers : b \in n.free \/ b \in away \/ \E s \in Live(n) : b \in n.slots[s].held
    BY <1>1, <1>2, <1>3 DEF LInv, Partition
  <2>2. \A s \in Live(n) : n.free \cap n.slots[s].held = {}
    BY <1>1, <1>2, <1>3 DEF LInv, Partition
  <2>3. away \cap n.free = {}
    BY <1>1, <1>3 DEF LInv, Partition
  <2> QED BY <2>1, <2>2, <2>3, <1>2 DEF LInv, Partition
<1>7. Lifecycle(n)
  <2>1. IsFiniteSet(Live(n)) /\ Cardinality(Live(n)) <= Cardinality(Live(m))
    BY <1>2, FS_Subset DEF LInv, Lifecycle
  <2>2. Cardinality(Live(n)) \in Nat /\ Cardinality(Live(m)) \in Nat
    BY <2>1, FS_CardinalityType DEF LInv, Lifecycle
  <2>3. Cardinality(Live(n)) <= maxLiveSlots
    BY <2>1, <2>2, ListenerAssumption DEF LInv, Lifecycle, ListenerAssumption
  <2> QED BY <1>1, <1>2, <2>1, <2>3 DEF LInv, Lifecycle
<1> QED BY <1>5, <1>6, <1>7 DEF LInv, n

\* evictOldSlots keeps the invariant, lastSlot, and the slots as new as lastSlot.  It
\* takes from the blacklist only slots below the floor.
LEMMA EvictOldInv ==
  ASSUME NEW m, NEW away, LInv(m, away), NEW n \in evictOldSlots(m)
  PROVE  /\ LInv(n, away)
         /\ n.lastSlot = m.lastSlot
         /\ Live(n) \subseteq Live(m)
         /\ \A s \in Live(m) : s >= m.lastSlot => s \in Live(n)
         /\ n.recentlySeenSlots \subseteq m.recentlySeenSlots \cup (Live(m) \ Live(n))
<1> DEFINE E == Expired(m)
<1>1. E \subseteq Live(m) /\ E \subseteq SlotNumbers
  BY DEF Expired, LInv, LTypeOK
<1>2. PICK tails \in Tails(m, E) :
        n = [Evict(m, E, tails) EXCEPT
               !.recentlySeenSlots = {s \in @ : s >= Floor(m.lastSlot)}]
  BY DEF evictOldSlots
<1>3. tails \in Seq(SlotNumbers)
  BY <1>1, <1>2, TailsType DEF LInv
<1>4. PICK e : e = Evict(m, E, tails)
  OBVIOUS
<1>5. LInv(e, away)
  BY <1>1, <1>3, <1>4, EvictInv
<1>6. /\ e.lastSlot = m.lastSlot
      /\ e.recentlySeenSlots = m.recentlySeenSlots \cup E
      /\ Live(e) = Live(m) \ E
  <2>1. DOMAIN m = Fields
    BY DEF LInv, LTypeOK
  <2> QED BY <2>1, <1>4 DEF Evict, Fields, Live
<1>7. /\ DOMAIN n = Fields
      /\ n.slots = e.slots /\ n.free = e.free /\ n.pendingBatches = e.pendingBatches
      /\ n.lastSlot = e.lastSlot /\ n.retired = e.retired
      /\ n.recentlySeenSlots = {s \in e.recentlySeenSlots : s >= Floor(m.lastSlot)}
  <2>1. DOMAIN e = Fields
    BY <1>5 DEF LInv, LTypeOK
  <2>2. n = [e EXCEPT !.recentlySeenSlots = {s \in @ : s >= Floor(m.lastSlot)}]
    BY <1>2, <1>4
  <2> QED BY <2>1, <2>2 DEF Fields
<1>8. Live(n) = Live(e)
  BY <1>7 DEF Live
<1>9. LInv(n, away)
  <2>1. LTypeOK(n)
    BY <1>5, <1>7, <1>8 DEF LInv, LTypeOK
  <2>2. Partition(n, away)
    BY <1>5, <1>7, <1>8 DEF LInv, Partition
  <2>3. Lifecycle(n)
    BY <1>5, <1>6, <1>7, <1>8 DEF LInv, Lifecycle
  <2> QED BY <2>1, <2>2, <2>3 DEF LInv
<1>10. \A s \in Live(m) : s >= m.lastSlot => s \in Live(n)
  <2> SUFFICES ASSUME NEW s \in Live(m), s >= m.lastSlot PROVE s \notin E
    BY <1>6, <1>8
  <2>1. s \in Nat /\ s <= MaxU64 /\ m.lastSlot \in Nat
    BY ListenerAssumption DEF LInv, LTypeOK, ListenerAssumption
  <2>2. Threshold(m, s) \in Nat
    BY ListenerAssumption DEF Threshold, ListenerAssumption
  <2>3. saturatingAddU64(s, Threshold(m, s)) \in Nat /\ s <= saturatingAddU64(s, Threshold(m, s))
    BY <2>1, <2>2, SaturatingFacts
  <2> QED BY <2>1, <2>3 DEF Expired
<1>11. n.recentlySeenSlots \subseteq m.recentlySeenSlots \cup (Live(m) \ Live(n))
  BY <1>1, <1>6, <1>7, <1>8
<1> QED BY <1>6, <1>7, <1>8, <1>9, <1>10, <1>11

\* forceEvictOldestSlot keeps the invariant.
LEMMA ForceEvictInv ==
  ASSUME NEW m, NEW away, LInv(m, away), NEW n \in forceEvictOldestSlot(m)
  PROVE  LInv(n, away)
<1>1. CASE Live(m) = {}
  BY <1>1 DEF forceEvictOldestSlot
<1>2. CASE Live(m) # {}
  <2> DEFINE E == {Min(Live(m))}
  <2>1. Live(m) \subseteq Nat
    BY ListenerAssumption DEF LInv, LTypeOK, ListenerAssumption
  <2>2. Min(Live(m)) \in Live(m)
    BY <1>2, <2>1, MinOfNats
  <2>3. PICK tails \in Tails(m, E) : n = Evict(m, E, tails)
    BY <1>2 DEF forceEvictOldestSlot
  <2>4. E \subseteq Live(m) /\ E \subseteq SlotNumbers
    BY <2>2 DEF LInv, LTypeOK
  <2>5. tails \in Seq(SlotNumbers)
    BY <2>3, <2>4, TailsType DEF LInv
  <2> QED BY <2>3, <2>4, <2>5, EvictInv
<1> QED BY <1>1, <1>2

\* What acquireBufferWithFallback evicts leaves the invariant intact.
LEMMA AcquireInv ==
  ASSUME NEW m, NEW away, LInv(m, away), NEW n \in acquireBufferWithFallback(m)
  PROVE  LInv(n, away)
<1>1. CASE m.free # {}
  BY <1>1 DEF acquireBufferWithFallback
<1>2. CASE m.free = {}
  <2>1. PICK k \in evictOldSlots(m) : n \in IF k.free # {} THEN {k} ELSE forceEvictOldestSlot(k)
    BY <1>2 DEF acquireBufferWithFallback
  <2>2. LInv(k, away)
    BY <2>1, EvictOldInv
  <2> QED BY <2>1, <2>2, ForceEvictInv
<1> QED BY <1>1, <1>2

-----------------------------------------------------------------------------
(* Handling a packet *)

\* A buffer taken from the free list is away.
LEMMA TakeInv ==
  ASSUME NEW m, NEW away, LInv(m, away), NEW b \in m.free
  PROVE  LInv(Take(m, b), away \cup {b})
<1> DEFINE n == Take(m, b)
<1>1. DOMAIN m = Fields
  BY DEF LInv, LTypeOK
<1>2. /\ DOMAIN n = Fields
      /\ n.free = m.free \ {b} /\ n.slots = m.slots
      /\ n.recentlySeenSlots = m.recentlySeenSlots /\ n.retired = m.retired
      /\ n.pendingBatches = m.pendingBatches /\ n.lastSlot = m.lastSlot
  BY <1>1 DEF Take, Fields
<1> HIDE DEF n
<1>3. Live(n) = Live(m)
  BY <1>2 DEF Live
<1>4. LTypeOK(n) /\ Lifecycle(n)
  BY <1>2, <1>3 DEF LInv, LTypeOK, Lifecycle
<1>5. Partition(n, away \cup {b})
  BY <1>2, <1>3 DEF LInv, Partition
<1> QED BY <1>4, <1>5 DEF LInv, n

\* A buffer that is given back is no longer away.
LEMMA ReleaseInv ==
  ASSUME NEW m, NEW away, LInv(m, away), NEW b \in away, b \in Buffers
  PROVE  LInv([m EXCEPT !.free = @ \cup {b}], away \ {b})
<1> DEFINE n == [m EXCEPT !.free = @ \cup {b}]
<1>1. DOMAIN m = Fields
  BY DEF LInv, LTypeOK
<1>2. /\ DOMAIN n = Fields
      /\ n.free = m.free \cup {b} /\ n.slots = m.slots
      /\ n.recentlySeenSlots = m.recentlySeenSlots /\ n.retired = m.retired
      /\ n.pendingBatches = m.pendingBatches /\ n.lastSlot = m.lastSlot
  BY <1>1 DEF Fields
<1> HIDE DEF n
<1>3. Live(n) = Live(m)
  BY <1>2 DEF Live
<1>4. LTypeOK(n) /\ Lifecycle(n)
  BY <1>2, <1>3 DEF LInv, LTypeOK, Lifecycle
<1>5. Partition(n, away \ {b})
  BY <1>2, <1>3 DEF LInv, Partition
<1> QED BY <1>4, <1>5 DEF LInv, n

\* lastSlot may rise: the floor of the blacklist rises with it.
LEMMA RaiseInv ==
  ASSUME NEW m, NEW away, LInv(m, away), NEW last \in Nat, last >= m.lastSlot,
         last <= MaxU64
  PROVE  LInv([m EXCEPT !.lastSlot = last], away)
<1> DEFINE n == [m EXCEPT !.lastSlot = last]
<1>1. DOMAIN m = Fields /\ m.lastSlot \in Nat
  BY DEF LInv, LTypeOK
<1>2. /\ DOMAIN n = Fields
      /\ n.free = m.free /\ n.slots = m.slots
      /\ n.recentlySeenSlots = m.recentlySeenSlots /\ n.retired = m.retired
      /\ n.pendingBatches = m.pendingBatches /\ n.lastSlot = last
  BY <1>1 DEF Fields
<1> HIDE DEF n
<1>3. Live(n) = Live(m)
  BY <1>2 DEF Live
<1>4. LTypeOK(n) /\ Partition(n, away)
  BY <1>2, <1>3 DEF LInv, LTypeOK, Partition
<1>5. Lifecycle(n)
  <2>1. Floor(m.lastSlot) <= Floor(last) /\ Floor(m.lastSlot) \in Nat /\ Floor(last) \in Nat
    BY <1>1, SaturatingFacts
  <2>2. Live(m) \subseteq Nat /\ m.retired \subseteq Nat
    BY ListenerAssumption DEF LInv, LTypeOK, ListenerAssumption
  <2>3. \A s \in n.retired : s >= Floor(n.lastSlot) => s \in n.recentlySeenSlots
    BY <1>2, <2>1, <2>2 DEF LInv, Lifecycle
  <2>4. \A s \in Live(n) \cup n.retired : s <= n.lastSlot
    BY <1>1, <1>2, <1>3, <2>2 DEF LInv, Lifecycle
  <2> QED BY <1>2, <1>3, <2>3, <2>4 DEF LInv, Lifecycle
<1> QED BY <1>4, <1>5 DEF LInv, n

\* A push gives the buffer to the slot or to the free list; the slot may be a new one.
LEMMA PushInv ==
  ASSUME NEW m, NEW away, LInv(m, away), NEW b \in away, b \in Buffers,
         NEW p \in Packets, NEW n \in Push(m, p, b),
         p.slot \notin m.recentlySeenSlots, p.slot <= m.lastSlot,
         p.slot \notin Live(m) => Cardinality(Live(m)) < maxLiveSlots
  PROVE  LInv(n, away \ {b})
<1> DEFINE acc == IF p.slot \in Live(m) THEN m.slots[p.slot] ELSE Empty
           all == acc.held \cup {b}
           offered == IF p.kind = "data" THEN {b} ELSE {}
<1>1. DOMAIN m = Fields /\ p.slot \in SlotNumbers
  BY DEF LInv, LTypeOK, Packets
<1>2. acc \in Accumulator
  BY DEF LInv, LTypeOK, Accumulator, Empty
<1>3. PICK r \in PushOutcomes(acc, offered, p.kind = "last") : n = Pushed(m, p.slot, all, r)
  <2>1. n \in {Pushed(m, p.slot, all, r) : r \in PushOutcomes(acc, offered, p.kind = "last")}
    BY Zenon DEF Push
  <2> HIDE DEF acc, all, offered
  <2> QED BY <2>1
<1> DEFINE k == r.held
           c == r.complete
<1>r. r = [held |-> k, complete |-> c] /\ k \subseteq all /\ c \in BOOLEAN
  <2>1. r \in [held : SUBSET (acc.held \cup offered), complete : BOOLEAN]
    BY <1>3 DEF PushOutcomes
  <2>2. offered \subseteq {b}
    OBVIOUS
  <2> HIDE DEF acc, offered
  <2> QED BY <2>1, <2>2
<1> HIDE DEF k, c
<1>4. /\ DOMAIN n = Fields
      /\ n.slots = [s \in Live(m) \cup {p.slot} |->
                       IF s = p.slot THEN [held |-> k, complete |-> c] ELSE m.slots[s]]
      /\ n.free = m.free \cup (all \ k)
      /\ n.recentlySeenSlots = m.recentlySeenSlots /\ n.retired = m.retired
      /\ n.pendingBatches = m.pendingBatches /\ n.lastSlot = m.lastSlot
  <2>1. r.held = k
    BY DEF k
  <2> HIDE DEF acc
  <2> QED BY <1>1, <1>3, <1>r, <2>1 DEF Pushed, Fields, Live
<1>5. /\ Live(n) = Live(m) \cup {p.slot}
      /\ n.slots[p.slot] = [held |-> k, complete |-> c]
      /\ \A s \in Live(m) : s # p.slot => n.slots[s] = m.slots[s]
  BY <1>4 DEF Live
<1>6. /\ acc.held \subseteq Buffers
      /\ k \subseteq all /\ c \in BOOLEAN
      /\ p.slot \in Live(m) => acc.held = m.slots[p.slot].held
      /\ p.slot \notin Live(m) => acc.held = {}
  BY <1>2, <1>r DEF Accumulator, Empty
<1> HIDE DEF acc
<1>7. LTypeOK(n)
  <2>1. [held |-> k, complete |-> c] \in Accumulator
    BY <1>6 DEF Accumulator
  <2>2. n.slots \in [Live(n) -> Accumulator]
    BY <1>4, <1>5, <2>1 DEF LInv, LTypeOK
  <2>3. n.free \subseteq Buffers
    BY <1>4, <1>6 DEF LInv, LTypeOK
  <2> QED BY <1>1, <1>4, <1>5, <2>2, <2>3 DEF LInv, LTypeOK
<1>8. Partition(n, away \ {b})
  <2>1. n.slots[p.slot].held = k
    BY <1>5
  <2>2. \A s \in Live(m) : s # p.slot => n.slots[s].held = m.slots[s].held
    BY <1>5
  <2>3. \A s \in Live(m) : s # p.slot => all \cap m.slots[s].held = {}
    BY <1>6 DEF LInv, Partition
  <2>4. all \cap m.free = {} /\ all \cap (away \ {b}) = {}
    BY <1>6 DEF LInv, Partition
  <2>5. \A x \in Buffers : \/ x \in n.free \/ x \in away \ {b}
                            \/ \E s \in Live(n) : x \in n.slots[s].held
    <3> SUFFICES ASSUME NEW x \in Buffers
                 PROVE  \/ x \in n.free \/ x \in away \ {b}
                        \/ \E s \in Live(n) : x \in n.slots[s].held
      OBVIOUS
    <3>1. CASE x \in all
      BY <3>1, <1>4, <1>5, <2>1
    <3>2. CASE x \notin all
      <4>1. x # b
        BY <3>2
      <4>2. x \in m.free \/ x \in away \/ \E s \in Live(m) : x \in m.slots[s].held
        BY DEF LInv, Partition
      <4>3. ASSUME NEW s \in Live(m), x \in m.slots[s].held
            PROVE  s \in Live(n) /\ x \in n.slots[s].held
        BY <4>3, <3>2, <1>5, <1>6, <2>2
      <4> QED BY <4>1, <4>2, <4>3, <1>4
    <3> QED BY <3>1, <3>2
  <2>6. \A s \in Live(n) : n.free \cap n.slots[s].held = {}
    BY <1>4, <1>5, <1>6, <2>1, <2>2, <2>3, <2>4 DEF LInv, Partition
  <2>7. \A s, t \in Live(n) : s # t => n.slots[s].held \cap n.slots[t].held = {}
    BY <1>5, <1>6, <2>1, <2>2, <2>3 DEF LInv, Partition
  <2>8. (away \ {b}) \cap n.free = {}
    BY <1>4, <2>4 DEF LInv, Partition
  <2>9. \A s \in Live(n) : (away \ {b}) \cap n.slots[s].held = {}
    BY <1>5, <1>6, <2>1, <2>2, <2>4 DEF LInv, Partition
  <2> QED BY <2>5, <2>6, <2>7, <2>8, <2>9 DEF Partition
<1>9. Lifecycle(n)
  <2>1. IsFiniteSet(Live(m)) /\ Cardinality(Live(m)) \in Nat
    BY FS_CardinalityType DEF LInv, Lifecycle
  <2>2. IsFiniteSet(Live(n)) /\ Cardinality(Live(n)) <= maxLiveSlots
    <3>1. CASE p.slot \in Live(m)
      <4>1. Live(n) = Live(m)
        BY <3>1, <1>5
      <4> QED BY <4>1 DEF LInv, Lifecycle
    <3>2. CASE p.slot \notin Live(m)
      <4>1. /\ IsFiniteSet(Live(m) \cup {p.slot})
            /\ Cardinality(Live(m) \cup {p.slot}) =
                 IF p.slot \in Live(m) THEN Cardinality(Live(m)) ELSE Cardinality(Live(m)) + 1
        BY <2>1, FS_AddElement, Zenon
      <4> QED BY <4>1, <3>2, <1>5, <2>1, ListenerAssumption DEF ListenerAssumption
    <3> QED BY <3>1, <3>2
  <2> QED BY <1>4, <1>5, <2>2 DEF LInv, Lifecycle
<1> QED BY <1>7, <1>8, <1>9 DEF LInv

\* handlePacketParsed keeps the invariant, whatever it does with the shred; the buffer is
\* no longer away.
LEMMA HandleInv ==
  ASSUME NEW m, NEW away, LInv(m, away), NEW b \in away, b \in Buffers,
         NEW p \in Packets, NEW n \in handlePacketParsed(m, p, b)
  PROVE  LInv(n, away \ {b})
<1> DEFINE refused == \/ ~acceptSlot(m, p.slot) \/ p.slot \in m.recentlySeenSlots
                      \/ p.kind = "code" /\ ~enableFEC
           raised == [m EXCEPT !.lastSlot = p.slot]
<1>1. CASE refused
  <2>1. n = [m EXCEPT !.free = @ \cup {b}]
    BY <1>1 DEF handlePacketParsed
  <2> QED BY <2>1, ReleaseInv
<1>2. CASE ~refused
  <2>1. /\ p.slot \notin m.recentlySeenSlots
        /\ p.slot \notin Live(m) => Cardinality(Live(m)) < maxLiveSlots
    BY <1>2 DEF acceptSlot
  <2>2. p.slot \in Nat /\ p.slot <= MaxU64 /\ m.lastSlot \in Nat /\ DOMAIN m = Fields
    BY ListenerAssumption DEF LInv, LTypeOK, Packets, ListenerAssumption
  <2>3. CASE p.slot > m.lastSlot
    <3>1. PICK k \in evictOldSlots(raised) : n \in Push(k, p, b)
      BY <1>2, <2>3 DEF handlePacketParsed
    <3>2. LInv(raised, away)
      BY <2>2, <2>3, RaiseInv
    <3>3. /\ raised.lastSlot = p.slot /\ Live(raised) = Live(m)
          /\ raised.recentlySeenSlots = m.recentlySeenSlots
      BY <2>2 DEF Fields, Live
    <3> HIDE DEF raised
    <3>4. /\ LInv(k, away)
          /\ k.lastSlot = p.slot
          /\ Live(k) \subseteq Live(m)
          /\ p.slot \in Live(m) => p.slot \in Live(k)
          /\ k.recentlySeenSlots \subseteq m.recentlySeenSlots \cup (Live(m) \ Live(k))
      <4>1. /\ LInv(k, away)
            /\ k.lastSlot = raised.lastSlot
            /\ Live(k) \subseteq Live(raised)
            /\ \A s \in Live(raised) : s >= raised.lastSlot => s \in Live(k)
            /\ k.recentlySeenSlots \subseteq raised.recentlySeenSlots \cup (Live(raised) \ Live(k))
        BY <3>1, <3>2, EvictOldInv
      <4> QED BY <4>1, <3>3, <2>2
    <3>5. p.slot \notin k.recentlySeenSlots /\ p.slot <= k.lastSlot
      BY <2>1, <2>2, <3>4
    <3>6. p.slot \notin Live(k) => Cardinality(Live(k)) < maxLiveSlots
      <4>1. IsFiniteSet(Live(m))
        BY DEF LInv, Lifecycle
      <4>2. /\ IsFiniteSet(Live(k)) /\ Cardinality(Live(k)) <= Cardinality(Live(m))
            /\ Cardinality(Live(k)) \in Nat /\ Cardinality(Live(m)) \in Nat
        BY <4>1, <3>4, FS_Subset, FS_CardinalityType
      <4> QED BY <4>2, <2>1, <3>4, ListenerAssumption DEF ListenerAssumption
    <3> QED BY <3>1, <3>4, <3>5, <3>6, PushInv
  <2>4. CASE ~(p.slot > m.lastSlot)
    <3>1. n \in Push(m, p, b)
      BY <1>2, <2>4 DEF handlePacketParsed
    <3> QED BY <3>1, <2>1, <2>2, <2>4, PushInv
  <2> QED BY <2>3, <2>4
<1> QED BY <1>1, <1>2

-----------------------------------------------------------------------------
(* The inductive invariant *)

\* The buffers that the readers have.
Away == {buf[g] : g \in Readers} \ {NoBuffer}

\* A reader has a buffer exactly between its two critical sections, and one of its own.
ReadersOK ==
  /\ pc \in [Readers \cup ShredReaders -> Places]
  /\ buf \in [Readers -> Buffers \cup {NoBuffer}]
  /\ pkt \in [Readers -> Packets \cup {NoPacket}]
  /\ socket \in {"open", "closed", "none"} /\ cancelled \in BOOLEAN
  /\ \A g \in Readers : pc[g] = "parsed" => pkt[g] \in Packets
  /\ \A g \in Readers : pc[g] \in {"read", "parsed"} <=> buf[g] # NoBuffer
  /\ \A g, h \in Readers : g # h /\ buf[g] # NoBuffer => buf[g] # buf[h]

IInv == LInv(l, Away) /\ ReadersOK

\* The inductive invariant holds initially.
LEMMA InitInv == Init => IInv
<1> SUFFICES ASSUME Init PROVE IInv
  OBVIOUS
<1>1. /\ DOMAIN l = Fields /\ l.free = Buffers /\ l.slots = <<>> /\ l.recentlySeenSlots = {}
      /\ l.pendingBatches = <<>> /\ l.lastSlot = 0 /\ l.retired = {}
  BY DEF Init, Fields
<1>2. Live(l) = {}
  BY <1>1 DEF Live
<1>3. Away = {}
  BY DEF Init, Away
<1>4. l.slots \in [Live(l) -> Accumulator]
  BY <1>1, <1>2
<1>5. LTypeOK(l)
  BY <1>1, <1>2, <1>4 DEF LTypeOK
<1>6. Partition(l, Away)
  BY <1>1, <1>2, <1>3 DEF Partition
<1>7. IsFiniteSet({}) /\ Cardinality({}) = 0
  BY FS_EmptySet
<1>8. Lifecycle(l)
  BY <1>1, <1>2, <1>7, ListenerAssumption DEF Lifecycle, ListenerAssumption
<1>9. ReadersOK
  BY DEF Init, ReadersOK, Places
<1> QED BY <1>5, <1>6, <1>8, <1>9 DEF IInv, LInv

\* A reader that gives its buffer away.
LEMMA AwayDrops ==
  ASSUME ReadersOK, NEW g \in Readers, buf[g] # NoBuffer,
         buf' = [buf EXCEPT ![g] = NoBuffer]
  PROVE  Away' = Away \ {buf[g]} /\ buf[g] \in Away /\ buf[g] \in Buffers
  BY DEF ReadersOK, Away

\* Every step keeps the inductive invariant.
LEMMA NextInv == IInv /\ [Next]_vars => IInv'
<1> SUFFICES ASSUME IInv, [Next]_vars PROVE IInv'
  OBVIOUS
<1>0. LInv(l, Away) /\ ReadersOK
  BY DEF IInv
<1>u. ASSUME UNCHANGED buf PROVE Away' = Away
  BY <1>u DEF Away
<1>1. ASSUME NEW g \in Readers, NextCancelled(g) PROVE IInv'
  <2>1. LInv(l', Away')
    BY <1>0, <1>1, <1>u DEF NextCancelled
  <2>2. ReadersOK'
    BY <1>0, <1>1 DEF NextCancelled, Goto, ReadersOK, Places
  <2> QED BY <2>1, <2>2 DEF IInv
<1>2. ASSUME NEW g \in Readers, RecvPending(g) PROVE IInv'
  <2>1. Away' = Away
    BY <1>2, <1>u DEF RecvPending
  <2>2. /\ DOMAIN l' = Fields
        /\ l'.free = l.free /\ l'.slots = l.slots /\ l'.lastSlot = l.lastSlot
        /\ l'.recentlySeenSlots = l.recentlySeenSlots /\ l'.retired = l.retired
        /\ l'.pendingBatches = Tail(l.pendingBatches)
    <3>1. DOMAIN l = Fields
      BY <1>0 DEF LInv, LTypeOK
    <3> QED BY <3>1, <1>2 DEF RecvPending, Fields
  <2>3. l'.pendingBatches \in Seq(SlotNumbers)
    BY <1>0, <1>2, <2>2 DEF RecvPending, LInv, LTypeOK
  <2>4. Live(l') = Live(l)
    BY <2>2 DEF Live
  <2>5. LInv(l', Away)
    BY <1>0, <2>2, <2>3, <2>4 DEF LInv, LTypeOK, Partition, Lifecycle
  <2>6. ReadersOK'
    BY <1>0, <1>2 DEF RecvPending, ReadersOK
  <2> QED BY <2>1, <2>5, <2>6 DEF IInv
<1>3. ASSUME NEW g \in Readers, RecvOffline(g) PROVE IInv'
  <2>1. LInv(l', Away')
    BY <1>0, <1>3, <1>u DEF RecvOffline
  <2>2. ReadersOK'
    BY <1>0, <1>3 DEF RecvOffline, Goto, ReadersOK, Places
  <2> QED BY <2>1, <2>2 DEF IInv
<1>4. ASSUME NEW g \in Readers, RecvAcquires(g) PROVE IInv'
  <2>1. PICK m \in acquireBufferWithFallback(l) :
          \/ m.free = {} /\ l' = m /\ Goto(g, "dummy") /\ UNCHANGED buf
          \/ \E b \in m.free : l' = Take(m, b) /\ Goto(g, "read") /\ buf' = [buf EXCEPT ![g] = b]
    BY <1>4 DEF RecvAcquires
  <2>2. LInv(m, Away)
    BY <1>0, <2>1, AcquireInv
  <2>3. CASE m.free = {} /\ l' = m /\ Goto(g, "dummy") /\ UNCHANGED buf
    <3>1. LInv(l', Away')
      BY <2>2, <2>3, <1>u
    <3>2. ReadersOK'
      BY <1>0, <1>4, <2>3 DEF RecvAcquires, Goto, ReadersOK, Places
    <3> QED BY <3>1, <3>2 DEF IInv
  <2>4. ASSUME NEW b \in m.free,
               l' = Take(m, b) /\ Goto(g, "read") /\ buf' = [buf EXCEPT ![g] = b]
        PROVE  IInv'
    <3>1. b \in Buffers /\ b # NoBuffer /\ b \notin Away
      BY <2>2, NoneAssumption DEF LInv, LTypeOK, Partition, NoneAssumption
    <3>2. buf[g] = NoBuffer
      BY <1>0, <1>4 DEF RecvAcquires, ReadersOK
    <3>3. Away' = Away \cup {b}
      BY <1>0, <2>4, <3>1, <3>2 DEF Away, ReadersOK
    <3>4. LInv(l', Away')
      BY <2>2, <2>4, <3>3, TakeInv
    <3>5. \A h \in Readers : buf[h] # b
      BY <3>1 DEF Away
    <3>6. ReadersOK'
      BY <1>0, <1>4, <2>4, <3>1, <3>5 DEF RecvAcquires, Goto, ReadersOK, Places
    <3> QED BY <3>4, <3>6 DEF IInv
  <2> QED BY <2>1, <2>3, <2>4
<1>5. ASSUME NEW g \in Readers, RecvDummy(g) PROVE IInv'
  <2>1. LInv(l', Away')
    BY <1>0, <1>5, <1>u DEF RecvDummy
  <2>2. ReadersOK'
    BY <1>0, <1>5 DEF RecvDummy, Goto, ReadersOK, Places
  <2> QED BY <2>1, <2>2 DEF IInv
<1>6. ASSUME NEW g \in Readers, NEW p \in Packets, RecvParsed(g, p) PROVE IInv'
  <2>1. LInv(l', Away')
    BY <1>0, <1>6, <1>u DEF RecvParsed
  <2>2. ReadersOK'
    BY <1>0, <1>6 DEF RecvParsed, Goto, ReadersOK, Places
  <2> QED BY <2>1, <2>2 DEF IInv
<1>7. ASSUME NEW g \in Readers, RecvNothing(g) \/ RecvFails(g) PROVE IInv'
  <2>1. /\ pc[g] = "read" /\ DropBuffer(g)
        /\ Goto(g, "next") \/ Goto(g, "done")
        /\ UNCHANGED <<pkt, socket, cancelled>>
    BY <1>7 DEF RecvNothing, RecvFails
  <2>2. buf[g] # NoBuffer
    BY <1>0, <2>1 DEF ReadersOK
  <2>3. LInv(l', Away')
    <3>1. Away' = Away \ {buf[g]} /\ buf[g] \in Away /\ buf[g] \in Buffers
      BY <1>0, <2>1, <2>2, AwayDrops DEF DropBuffer
    <3>2. LInv([l EXCEPT !.free = @ \cup {buf[g]}], Away \ {buf[g]})
      BY <1>0, <3>1, ReleaseInv
    <3> QED BY <2>1, <3>1, <3>2 DEF DropBuffer
  <2>4. ReadersOK'
    BY <1>0, <2>1 DEF DropBuffer, Goto, ReadersOK, Places
  <2> QED BY <2>3, <2>4 DEF IInv
<1>8. ASSUME NEW g \in Readers, RecvHandles(g) PROVE IInv'
  <2>1. buf[g] # NoBuffer /\ pkt[g] \in Packets
    BY <1>0, <1>8 DEF RecvHandles, ReadersOK
  <2>2. LInv(l', Away')
    <3>1. l' \in handlePacketParsed(l, pkt[g], buf[g])
      BY <1>8 DEF RecvHandles
    <3>2. Away' = Away \ {buf[g]} /\ buf[g] \in Away /\ buf[g] \in Buffers
      BY <1>0, <1>8, <2>1, AwayDrops DEF RecvHandles
    <3> QED BY <1>0, <2>1, <3>1, <3>2, HandleInv
  <2>3. ReadersOK'
    BY <1>0, <1>8 DEF RecvHandles, Goto, ReadersOK, Places
  <2> QED BY <2>2, <2>3 DEF IInv
<1>9. ASSUME NEW p \in Packets, HandlePacket(p) PROVE IInv'
  <2>1. Away' = Away /\ ReadersOK'
    BY <1>0, <1>9, <1>u DEF HandlePacket, ReadersOK
  <2>2. PICK m \in acquireBufferWithFallback(l) :
          \/ m.free = {} /\ l' = m
          \/ \E b \in m.free : l' \in handlePacketParsed(Take(m, b), p, b)
    BY <1>9 DEF HandlePacket
  <2>3. LInv(m, Away)
    BY <1>0, <2>2, AcquireInv
  <2>4. ASSUME NEW b \in m.free, l' \in handlePacketParsed(Take(m, b), p, b)
        PROVE  LInv(l', Away)
    <3>1. LInv(Take(m, b), Away \cup {b})
      BY <2>3, TakeInv
    <3>2. b \in Buffers /\ b \notin Away
      BY <2>3 DEF LInv, LTypeOK, Partition
    <3>3. LInv(l', (Away \cup {b}) \ {b})
      BY <2>4, <3>1, <3>2, HandleInv
    <3>4. (Away \cup {b}) \ {b} = Away
      BY <3>2
    <3> QED BY <3>3, <3>4
  <2> QED BY <2>1, <2>2, <2>3, <2>4 DEF IInv
<1>10. ASSUME HandleUnparseable PROVE IInv'
  <2>1. Away' = Away /\ ReadersOK'
    BY <1>0, <1>10, <1>u DEF HandleUnparseable, ReadersOK
  <2>2. LInv(l', Away)
    BY <1>0, <1>10, AcquireInv DEF HandleUnparseable
  <2> QED BY <2>1, <2>2 DEF IInv
<1>11. ASSUME Close \/ Cancel \/ UNCHANGED vars PROVE IInv'
  <2>1. LInv(l', Away')
    BY <1>0, <1>11, <1>u DEF Close, Cancel, vars
  <2>2. ReadersOK'
    BY <1>0, <1>11 DEF Close, Cancel, vars, ReadersOK
  <2> QED BY <2>1, <2>2 DEF IInv
<1>12. ASSUME NEW h \in ShredReaders, ShredStep(h) PROVE IInv'
  <2>1. PICK place \in {"next", "read", "done"} :
          Goto(h, place) /\ UNCHANGED <<l, buf, pkt, socket, cancelled>>
    BY <1>12 DEF ShredStep, ShredCancelled, ShredOffline, ShredReads, ShredReturns, ShredFails
  <2>2. LInv(l', Away')
    BY <1>0, <2>1, <1>u
  <2>3. h \notin Readers
    BY ListenerAssumption DEF ListenerAssumption
  <2>4. pc' \in [Readers \cup ShredReaders -> Places] /\ \A g \in Readers : pc'[g] = pc[g]
    BY <1>0, <2>1, <2>3 DEF Goto, ReadersOK, Places
  <2>5. ReadersOK'
    BY <1>0, <2>1, <2>4 DEF ReadersOK
  <2> QED BY <2>2, <2>5 DEF IInv
<1> QED
  BY <1>1, <1>2, <1>3, <1>4, <1>5, <1>6, <1>7, <1>8, <1>9, <1>10, <1>11, <1>12
  DEF Next, ReaderStep

-----------------------------------------------------------------------------
(* Which slots are evicted *)

\* The slot s of m is too old for last.
OldIn(m, last, s) == last > s + Threshold(m, s)

\* What is left of the slots of m in n is as it was.
Survive(m, n) == Live(n) \subseteq Live(m) /\ \A s \in Live(n) : n.slots[s] = m.slots[s]

\* Old stays old when lastSlot rises, and its threshold is that of any m with the slot.
LEMMA OldFacts ==
  ASSUME NEW m, NEW away, LInv(m, away), NEW s \in Live(m)
  PROVE  /\ s \in Nat /\ Threshold(m, s) \in Nat
         /\ \A a, b \in Nat : OldIn(m, a, s) /\ a <= b => OldIn(m, b, s)
         /\ \A last \in Nat :
              last <= MaxU64 /\ last > saturatingAddU64(s, Threshold(m, s)) => OldIn(m, last, s)
<1>1. s \in Nat /\ Threshold(m, s) \in Nat /\ MaxU64 \in Nat
  BY ListenerAssumption DEF LInv, LTypeOK, Threshold, ListenerAssumption
<1> QED BY <1>1 DEF OldIn, saturatingAddU64

\* evictOldSlots evicts only slots too old for lastSlot.
LEMMA EvictOldOnly ==
  ASSUME NEW m, NEW away, LInv(m, away), NEW n \in evictOldSlots(m)
  PROVE  /\ Survive(m, n) /\ n.lastSlot = m.lastSlot
         /\ \A s \in Live(m) \ Live(n) : OldIn(m, m.lastSlot, s)
<1> DEFINE E == Expired(m)
<1>1. PICK tails \in Tails(m, E) :
        n = [Evict(m, E, tails) EXCEPT
               !.recentlySeenSlots = {s \in @ : s >= Floor(m.lastSlot)}]
  BY DEF evictOldSlots
<1>2. DOMAIN m = Fields /\ m.lastSlot \in Nat /\ m.lastSlot <= MaxU64
  BY DEF LInv, LTypeOK, Lifecycle
<1>3. n.lastSlot = m.lastSlot /\ n.slots = [s \in Live(m) \ E |-> m.slots[s]]
  BY <1>1, <1>2 DEF Evict, Fields, Live
<1>4. Live(n) = Live(m) \ E /\ \A s \in Live(n) : n.slots[s] = m.slots[s]
  BY <1>3 DEF Live
<1>5. \A s \in E : OldIn(m, m.lastSlot, s)
  BY <1>2, OldFacts DEF Expired
<1> QED BY <1>3, <1>4, <1>5 DEF Survive

\* forceEvictOldestSlot evicts the oldest slot.
LEMMA ForceEvictOnly ==
  ASSUME NEW m, NEW away, LInv(m, away), NEW n \in forceEvictOldestSlot(m)
  PROVE  /\ Survive(m, n) /\ n.lastSlot = m.lastSlot
         /\ \A s \in Live(m) \ Live(n), t \in Live(m) : s <= t
<1>1. CASE Live(m) = {}
  BY <1>1 DEF forceEvictOldestSlot, Survive
<1>2. CASE Live(m) # {}
  <2> DEFINE E == {Min(Live(m))}
  <2>1. Live(m) \subseteq Nat
    BY ListenerAssumption DEF LInv, LTypeOK, ListenerAssumption
  <2>2. \A t \in Live(m) : Min(Live(m)) <= t
    BY <1>2, <2>1, MinOfNats
  <2>3. PICK tails \in Tails(m, E) : n = Evict(m, E, tails)
    BY <1>2 DEF forceEvictOldestSlot
  <2>4. DOMAIN m = Fields
    BY DEF LInv, LTypeOK
  <2>5. n.lastSlot = m.lastSlot /\ n.slots = [s \in Live(m) \ E |-> m.slots[s]]
    BY <2>3, <2>4 DEF Evict, Fields, Live
  <2>6. Live(n) = Live(m) \ E /\ \A s \in Live(n) : n.slots[s] = m.slots[s]
    BY <2>5 DEF Live
  <2> QED BY <2>2, <2>5, <2>6 DEF Survive
<1> QED BY <1>1, <1>2

\* What a step from m to n evicts is due: too old, or the oldest but for slots that are
\* too old themselves, and then only when no buffer is free.
Due(m, n) ==
  \A s \in Live(m) \ Live(n) :
    \/ OldIn(m, n.lastSlot, s)
    \/ m.free = {} /\ \A t \in Live(m) : t < s => OldIn(m, n.lastSlot, t)

\* acquireBufferWithFallback evicts what is due.
LEMMA AcquireOnly ==
  ASSUME NEW m, NEW away, LInv(m, away), NEW n \in acquireBufferWithFallback(m)
  PROVE  Survive(m, n) /\ n.lastSlot = m.lastSlot /\ Due(m, n)
<1>1. CASE m.free # {}
  BY <1>1 DEF acquireBufferWithFallback, Survive, Due
<1>2. CASE m.free = {}
  <2>1. PICK k \in evictOldSlots(m) : n \in IF k.free # {} THEN {k} ELSE forceEvictOldestSlot(k)
    BY <1>2 DEF acquireBufferWithFallback
  <2>2. LInv(k, away)
    BY <2>1, EvictOldInv
  <2>3. /\ Survive(m, k) /\ k.lastSlot = m.lastSlot
        /\ \A s \in Live(m) \ Live(k) : OldIn(m, m.lastSlot, s)
    BY <2>1, EvictOldOnly
  <2>4. /\ Survive(k, n) /\ n.lastSlot = k.lastSlot
        /\ \A s \in Live(k) \ Live(n), t \in Live(k) : s <= t
    <3>1. CASE n = k
      BY <3>1 DEF Survive
    <3>2. CASE n \in forceEvictOldestSlot(k)
      BY <3>2, <2>2, ForceEvictOnly
    <3> QED BY <2>1, <3>1, <3>2
  <2>5. Live(m) \subseteq Nat
    BY ListenerAssumption DEF LInv, LTypeOK, ListenerAssumption
  <2>6. Survive(m, n) /\ n.lastSlot = m.lastSlot
    BY <2>3, <2>4 DEF Survive
  <2>7. ASSUME NEW s \in Live(m) \ Live(n), s \in Live(k), NEW t \in Live(m), t < s
        PROVE  OldIn(m, n.lastSlot, t)
    <3>1. t \notin Live(k)
      BY <2>4, <2>5, <2>7
    <3> QED BY <3>1, <2>3, <2>6
  <2>8. ASSUME NEW s \in Live(m) \ Live(n), s \notin Live(k)
        PROVE  OldIn(m, n.lastSlot, s)
    BY <2>8, <2>3, <2>6
  <2> QED BY <1>2, <2>6, <2>7, <2>8 DEF Due
<1> QED BY <1>1, <1>2

\* A push opens a slot or changes its own, and evicts none.
LEMMA PushOnly ==
  ASSUME NEW m, NEW away, LInv(m, away), NEW p \in Packets, NEW b, NEW n \in Push(m, p, b)
  PROVE  Live(m) \subseteq Live(n) /\ n.lastSlot = m.lastSlot
<1>1. DOMAIN m = Fields
  BY DEF LInv, LTypeOK
<1>2. PICK all, r : n = Pushed(m, p.slot, all, r)
  BY DEF Push
<1>3. /\ n.slots = [s \in Live(m) \cup {p.slot} |-> IF s = p.slot THEN r ELSE m.slots[s]]
      /\ n.lastSlot = m.lastSlot
  BY <1>1, <1>2 DEF Pushed, Fields, Live
<1> QED BY <1>3 DEF Live

\* handlePacketParsed evicts only slots too old for the lastSlot it leaves.
LEMMA HandleOnly ==
  ASSUME NEW m, NEW away, LInv(m, away), NEW p \in Packets, NEW b,
         NEW n \in handlePacketParsed(m, p, b)
  PROVE  /\ n.lastSlot \in Nat /\ m.lastSlot <= n.lastSlot
         /\ \A s \in Live(m) \ Live(n) : OldIn(m, n.lastSlot, s)
<1> DEFINE refused == \/ ~acceptSlot(m, p.slot) \/ p.slot \in m.recentlySeenSlots
                      \/ p.kind = "code" /\ ~enableFEC
           raised == [m EXCEPT !.lastSlot = p.slot]
<1>0. p.slot \in Nat /\ p.slot <= MaxU64 /\ m.lastSlot \in Nat /\ DOMAIN m = Fields
  BY ListenerAssumption DEF LInv, LTypeOK, Packets, ListenerAssumption
<1>1. CASE refused
  <2>1. n = [m EXCEPT !.free = @ \cup {b}]
    BY <1>1 DEF handlePacketParsed
  <2>2. n.slots = m.slots /\ n.lastSlot = m.lastSlot
    BY <2>1, <1>0 DEF Fields
  <2> QED BY <1>0, <2>2 DEF Live
<1>2. CASE ~refused /\ p.slot > m.lastSlot
  <2>1. PICK k \in evictOldSlots(raised) : n \in Push(k, p, b)
    BY <1>2 DEF handlePacketParsed
  <2>2. LInv(raised, away)
    BY <1>0, <1>2, RaiseInv
  <2>3. raised.lastSlot = p.slot /\ raised.slots = m.slots
    BY <1>0 DEF Fields
  <2> HIDE DEF raised
  <2>4. LInv(k, away)
    BY <2>1, <2>2, EvictOldInv
  <2>5. /\ k.lastSlot = raised.lastSlot
        /\ \A s \in Live(raised) \ Live(k) : OldIn(raised, raised.lastSlot, s)
    BY <2>1, <2>2, EvictOldOnly
  <2>6. Live(k) \subseteq Live(n) /\ n.lastSlot = k.lastSlot
    BY <2>1, <2>4, PushOnly
  <2>7. Live(raised) = Live(m) /\ \A s : Threshold(raised, s) = Threshold(m, s)
    BY <2>3 DEF Live, Threshold
  <2> QED BY <1>0, <1>2, <2>3, <2>5, <2>6, <2>7 DEF OldIn
<1>3. CASE ~refused /\ ~(p.slot > m.lastSlot)
  <2>1. n \in Push(m, p, b)
    BY <1>3 DEF handlePacketParsed
  <2> QED BY <1>0, <2>1, PushOnly
<1> QED BY <1>1, <1>2, <1>3

\* Every step evicts only what is due.
LEMMA StepEvicts == IInv /\ [Next]_vars => EvictionsDue
<1> SUFFICES ASSUME IInv, [Next]_vars PROVE Due(l, l')
  BY DEF EvictionsDue, TooOld, Due, OldIn
<1>0. LInv(l, Away) /\ ReadersOK /\ DOMAIN l = Fields
  BY DEF IInv, LInv, LTypeOK
<1>u. ASSUME l'.slots = l.slots PROVE Due(l, l')
  BY <1>u DEF Due, Live
<1>1. ASSUME NEW g \in Readers, RecvPending(g) PROVE Due(l, l')
  <2>1. l'.slots = l.slots
    BY <1>0, <1>1 DEF RecvPending, Fields
  <2> QED BY <2>1, <1>u
<1>2. ASSUME NEW g \in Readers, RecvAcquires(g) PROVE Due(l, l')
  <2>1. PICK m \in acquireBufferWithFallback(l) : l' = m \/ \E b \in m.free : l' = Take(m, b)
    BY <1>2 DEF RecvAcquires
  <2>2. Due(l, m) /\ LInv(m, Away)
    BY <1>0, <2>1, AcquireOnly, AcquireInv
  <2>3. l'.slots = m.slots /\ l'.lastSlot = m.lastSlot
    BY <2>1, <2>2 DEF Take, LInv, LTypeOK, Fields
  <2> QED BY <2>2, <2>3 DEF Due, Live
<1>3. ASSUME NEW g \in Readers, RecvNothing(g) \/ RecvFails(g) PROVE Due(l, l')
  <2>1. l'.slots = l.slots
    BY <1>0, <1>3 DEF RecvNothing, RecvFails, DropBuffer, Fields
  <2> QED BY <2>1, <1>u
<1>4. ASSUME NEW g \in Readers, RecvHandles(g) PROVE Due(l, l')
  <2>1. pkt[g] \in Packets /\ l' \in handlePacketParsed(l, pkt[g], buf[g])
    BY <1>0, <1>4 DEF RecvHandles, ReadersOK
  <2>2. \A s \in Live(l) \ Live(l') : OldIn(l, l'.lastSlot, s)
    BY <1>0, <2>1, HandleOnly
  <2> QED BY <2>2 DEF Due
<1>5. ASSUME NEW p \in Packets, HandlePacket(p) PROVE Due(l, l')
  <2>1. PICK m \in acquireBufferWithFallback(l) :
          \/ m.free = {} /\ l' = m
          \/ \E b \in m.free : l' \in handlePacketParsed(Take(m, b), p, b)
    BY <1>5 DEF HandlePacket
  <2>2. LInv(m, Away) /\ Survive(l, m) /\ m.lastSlot = l.lastSlot /\ Due(l, m)
    BY <1>0, <2>1, AcquireInv, AcquireOnly
  <2>3. ASSUME NEW b \in m.free, l' \in handlePacketParsed(Take(m, b), p, b)
        PROVE  Due(l, l')
    <3> DEFINE k == Take(m, b)
    <3>1. LInv(k, Away \cup {b})
      BY <2>2, TakeInv
    <3>2. k.slots = m.slots /\ k.lastSlot = m.lastSlot
      BY <2>2 DEF Take, LInv, LTypeOK, Fields
    <3>3. l' \in handlePacketParsed(k, p, b)
      BY <2>3
    <3> HIDE DEF k
    <3>4. /\ l'.lastSlot \in Nat /\ k.lastSlot <= l'.lastSlot
          /\ \A s \in Live(k) \ Live(l') : OldIn(k, l'.lastSlot, s)
      BY <3>1, <3>3, HandleOnly
    <3>5. Live(k) = Live(m) /\ \A s \in Live(m) : Threshold(k, s) = Threshold(l, s)
      BY <2>2, <3>2 DEF Live, Survive, Threshold
    <3>6. \A s \in Live(m) \ Live(l') : OldIn(l, l'.lastSlot, s)
      BY <3>4, <3>5 DEF OldIn
    <3>7. \A s \in Live(l) : OldIn(l, m.lastSlot, s) => OldIn(l, l'.lastSlot, s)
      <4>1. l.lastSlot \in Nat
        BY <1>0 DEF LInv, LTypeOK
      <4> QED BY <1>0, <2>2, <3>2, <3>4, <4>1, OldFacts
    <3>8. ASSUME NEW s \in Live(l) \ Live(l'), s \notin Live(m)
          PROVE  \/ OldIn(l, l'.lastSlot, s)
                 \/ l.free = {} /\ \A t \in Live(l) : t < s => OldIn(l, l'.lastSlot, t)
      BY <3>8, <2>2, <3>7 DEF Due
    <3> QED BY <3>6, <3>8 DEF Due
  <2> QED BY <2>1, <2>2, <2>3
<1>6. ASSUME HandleUnparseable PROVE Due(l, l')
  BY <1>0, <1>6, AcquireOnly DEF HandleUnparseable
<1>7. ASSUME l' = l PROVE Due(l, l')
  BY <1>7, <1>u
<1>8. ASSUME NEW g \in Readers, NextCancelled(g) \/ RecvOffline(g) \/ RecvDummy(g)
                                  \/ \E p \in Packets : RecvParsed(g, p)
      PROVE  l' = l
  BY <1>8 DEF NextCancelled, RecvOffline, RecvDummy, RecvParsed
<1>9. ASSUME NEW h \in ShredReaders, ShredStep(h) PROVE l' = l
  BY <1>9 DEF ShredStep, ShredCancelled, ShredOffline, ShredReads, ShredReturns, ShredFails
<1>10. ASSUME Close \/ Cancel \/ UNCHANGED vars PROVE l' = l
  BY <1>10 DEF Close, Cancel, vars
<1> QED
  BY <1>1, <1>2, <1>3, <1>4, <1>5, <1>6, <1>7, <1>8, <1>9, <1>10 DEF Next, ReaderStep

-----------------------------------------------------------------------------
(* Theorems *)

\* The inductive invariant holds in every reachable state.
LEMMA InductiveInv == Spec => []IInv
  BY InitInv, NextInv, PTL DEF Spec

\* The type invariant of the listener and of its readers.
THEOREM TypeCorrect == Spec => []TypeOK
<1>1. IInv => TypeOK
  BY DEF IInv, LInv, LTypeOK, ReadersOK, TypeOK, Fields
<1> QED BY <1>1, InductiveInv, PTL

\* Every buffer of the pool has exactly one owner, however many readers interleave their
\* critical sections with evictions and injected packets.
THEOREM BuffersOwned == Spec => []BufferOwnership
<1>1. IInv => BufferOwnership
  <2> SUFFICES ASSUME IInv PROVE BufferOwnership
    OBVIOUS
  <2>0. Partition(l, Away) /\ ReadersOK
    BY DEF IInv, LInv
  <2>1. \A b : b \in Held(l, Live(l)) <=> \E s \in Live(l) : b \in l.slots[s].held
    BY DEF Held
  <2>2. \A b : b \in Away <=> b # NoBuffer /\ \E g \in Readers : buf[g] = b
    BY DEF Away
  <2>3. \A b \in Buffers : b \in l.free \/ b \in Held(l, Live(l)) \/ \E g \in Readers : buf[g] = b
    BY <2>0, <2>1, <2>2 DEF Partition
  <2>4. l.free \cap Held(l, Live(l)) = {}
    BY <2>0, <2>1 DEF Partition
  <2>5. ASSUME NEW g \in Readers PROVE buf[g] \notin l.free \cup Held(l, Live(l))
    <3>1. CASE buf[g] = NoBuffer
      <4>1. l.free \subseteq Buffers /\ \A s \in Live(l) : l.slots[s].held \subseteq Buffers
        BY DEF IInv, LInv, LTypeOK, Accumulator
      <4> QED BY <3>1, <4>1, <2>1, NoneAssumption DEF NoneAssumption
    <3>2. CASE buf[g] # NoBuffer
      BY <3>2, <2>0, <2>1, <2>2 DEF Partition
    <3> QED BY <3>1, <3>2
  <2> QED BY <2>0, <2>3, <2>4, <2>5 DEF Partition, ReadersOK, BufferOwnership
<1> QED BY <1>1, InductiveInv, PTL

\* An evicted slot cannot be opened again while the blacklist covers it, and the blacklist
\* covers every evicted slot down to its floor.
THEOREM EvictedClosed == Spec => []EvictedStaysClosed
<1>1. IInv => EvictedStaysClosed
  BY DEF IInv, LInv, Lifecycle, EvictedStaysClosed
<1> QED BY <1>1, InductiveInv, PTL

\* lastSlot is the newest slot that was ever let in.
THEOREM NewestSlot == Spec => []LastSlotNewest
<1>1. IInv => LastSlotNewest
  BY DEF IInv, LInv, Lifecycle, LastSlotNewest
<1> QED BY <1>1, InductiveInv, PTL

\* There are never more than maxLiveSlots accumulators, although the limit is looked at
\* before the evictions and the insertion.
THEOREM LiveBounded == Spec => []LiveSlotsBounded
<1>1. IInv => LiveSlotsBounded
  BY DEF IInv, LInv, Lifecycle, LiveSlotsBounded
<1> QED BY <1>1, InductiveInv, PTL

\* A slot leaves the listener only when lastSlot has left it behind by its threshold, or
\* when a buffer is needed and every older slot goes too: evictOldSlots and
\* forceEvictOldestSlot never take a slot that is still wanted, whatever the saturating
\* sums do at the end of the range.
THEOREM OnlyOldEvicted == Spec => EvictsOnlyOld
<1>1. IInv /\ [Next]_vars => [EvictionsDue]_vars
  BY StepEvicts
<1> QED BY <1>1, InductiveInv, PTL DEF Spec, EvictsOnlyOld

=============================================================================
