--------------------------- MODULE MetricsProofs ---------------------------
(***************************************************************************)
(* Proofs about Metrics, for any slots, observers and number of events:    *)
(* the methods that add a total and the live slots never overcount, and    *)
(* miss nothing unless an eviction overlaps the call.                      *)
(***************************************************************************)
EXTENDS Metrics, Facts, FiniteSetTheorems, TLAPS

(* The sum of a function, as SumFunction computes it: by recursion over the subsets of the *)
(* domain, taking out one element after the other.                                         *)

Pick(s) == CHOOSE x \in s : TRUE
Sums(g, f, D) ==
  g = [s \in SUBSET D |-> IF s = {} THEN 0 ELSE f[Pick(s)] + g[s \ {Pick(s)}]]
Summable(f) == IsFiniteSet(DOMAIN f) /\ \A x \in DOMAIN f : f[x] \in Nat

LEMMA PickFacts ==
  ASSUME NEW D, IsFiniteSet(D), NEW s \in SUBSET D, s # {}
  PROVE  /\ Pick(s) \in s
         /\ IsFiniteSet(s) /\ Cardinality(s) \in Nat
         /\ \A x \in s : s \ {x} \in SUBSET D /\ Cardinality(s \ {x}) = Cardinality(s) - 1
<1>1. Pick(s) \in s
  BY DEF Pick
<1>2. IsFiniteSet(s)
  BY FS_Subset
<1> QED BY <1>1, <1>2, FS_CardinalityType, FS_RemoveElement

\* The recursion has a solution.
LEMMA SumsExist ==
  ASSUME NEW f, Summable(f)
  PROVE  \E g : Sums(g, f, DOMAIN f)
<1> DEFINE D == DOMAIN f
           Small(n) == {s \in SUBSET D : Cardinality(s) <= n}
           Rec(g, s) == IF s = {} THEN 0 ELSE f[Pick(s)] + g[s \ {Pick(s)}]
           S == {n \in Nat : \E g : g = [s \in Small(n) |-> Rec(g, s)]}
<1>1. IsFiniteSet(D) /\ Cardinality(D) \in Nat
  BY FS_CardinalityType DEF Summable
<1>2. \A s \in SUBSET D : Cardinality(s) \in Nat /\ Cardinality(s) <= Cardinality(D)
  BY <1>1, FS_Subset, FS_CardinalityType
<1>3. \A s \in SUBSET D : Cardinality(s) = 0 => s = {}
  BY <1>1, FS_Subset, FS_EmptySet
<1>4. \A s \in SUBSET D : s # {} =>
        s \ {Pick(s)} \in SUBSET D /\ Cardinality(s \ {Pick(s)}) = Cardinality(s) - 1
  BY <1>1, PickFacts
<1> HIDE DEF D
<1>5. 0 \in S
  <2> DEFINE g == [s \in Small(0) |-> 0]
  <2>1. \A s \in Small(0) : s = {}
    BY <1>2, <1>3
  <2>2. \A s \in Small(0) : Rec(g, s) = 0
    BY <2>1
  <2> HIDE DEF Rec, Small
  <2>3. g = [s \in Small(0) |-> Rec(g, s)]
    BY <2>2
  <2> QED BY <2>3
<1>6. ASSUME NEW n \in Nat, n \in S PROVE n + 1 \in S
  <2>1. PICK g : g = [s \in Small(n) |-> Rec(g, s)]
    BY <1>6
  <2> DEFINE h == [s \in Small(n + 1) |-> Rec(g, s)]
  <2>2. \A s \in Small(n) : s \in Small(n + 1)
    BY <1>2
  <2>3. \A s \in Small(n) : h[s] = g[s]
    <3> HIDE DEF Rec, Small
    <3> QED BY <2>1, <2>2
  <2>4. \A s \in Small(n + 1) : s # {} => s \ {Pick(s)} \in Small(n)
    BY <1>2, <1>4
  <2> HIDE DEF h
  <2>5. \A s \in Small(n + 1) : Rec(g, s) = Rec(h, s)
    <3> HIDE DEF Small
    <3> QED BY <2>3, <2>4
  <2>6. h = [s \in Small(n + 1) |-> Rec(h, s)]
    <3> HIDE DEF Rec, Small
    <3> QED BY <2>5 DEF h
  <2> HIDE DEF Rec, Small
  <2> QED BY <2>6
<1>7. Cardinality(D) \in S
  <2> HIDE DEF S
  <2> QED BY <1>1, <1>5, <1>6, Induction
<1>8. Small(Cardinality(D)) = SUBSET D
  BY <1>2
<1>9. PICK g : g = [s \in SUBSET D |-> Rec(g, s)]
  <2> HIDE DEF Rec, Small
  <2> QED BY <1>7, <1>8
<1> QED BY <1>9 DEF Sums, D

\* So SumFunction is one of them.
LEMMA SumIsSums ==
  ASSUME NEW f, Summable(f)
  PROVE  \E g : Sums(g, f, DOMAIN f) /\ SumFunction(f) = g[DOMAIN f]
<1> DEFINE P(g) == g = [s \in SUBSET DOMAIN f |->
                          IF s = {} THEN 0
                          ELSE LET x == CHOOSE x \in s : TRUE IN f[x] + g[s \ {x}]]
           iter == CHOOSE g : P(g)
<1>1. \A g : P(g) <=> Sums(g, f, DOMAIN f)
  BY DEF Sums, Pick
<1>2. SumFunction(f) = iter[DOMAIN f]
  BY DEF SumFunction, SumFunctionOnSet, FoldFunctionOnSet, MapThenFoldSet
<1>3. P(iter)
  <2> HIDE DEF P
  <2>1. \E g : P(g)
    BY <1>1, SumsExist
  <2> QED BY <2>1, Zenon
<1> HIDE DEF P, iter
<1> QED BY <1>1, <1>2, <1>3

\* Any element can be taken out first.
LEMMA SumsSplit ==
  ASSUME NEW f, Summable(f), NEW g, Sums(g, f, DOMAIN f)
  PROVE  \A s \in SUBSET DOMAIN f : g[s] \in Nat /\ \A x \in s : g[s] = f[x] + g[s \ {x}]
<1> DEFINE D == DOMAIN f
           Good(s) == g[s] \in Nat /\ \A x \in s : g[s] = f[x] + g[s \ {x}]
           S == {n \in Nat : \A s \in SUBSET D : Cardinality(s) <= n => Good(s)}
<1>1. IsFiniteSet(D) /\ \A x \in D : f[x] \in Nat
  BY DEF Summable
<1>2. \A s \in SUBSET D : g[s] = IF s = {} THEN 0 ELSE f[Pick(s)] + g[s \ {Pick(s)}]
  <2> DEFINE val(s) == IF s = {} THEN 0 ELSE f[Pick(s)] + g[s \ {Pick(s)}]
  <2>1. g = [s \in SUBSET D |-> val(s)]
    BY DEF Sums
  <2> HIDE DEF val
  <2>2. \A s \in SUBSET D : g[s] = val(s)
    BY <2>1
  <2> QED BY <2>2 DEF val
<1>3. \A s \in SUBSET D : Cardinality(s) \in Nat /\ (Cardinality(s) = 0 => s = {})
  BY <1>1, FS_Subset, FS_CardinalityType, FS_EmptySet
<1>4. \A s \in SUBSET D : s # {} =>
        /\ Pick(s) \in s
        /\ \A x \in s : s \ {x} \in SUBSET D /\ Cardinality(s \ {x}) = Cardinality(s) - 1
  BY <1>1, PickFacts
<1> HIDE DEF D
<1>5. 0 \in S
  <2> SUFFICES ASSUME NEW s \in SUBSET D, Cardinality(s) <= 0 PROVE Good(s)
    OBVIOUS
  <2> QED BY <1>2, <1>3
<1>6. ASSUME NEW n \in Nat, n \in S PROVE n + 1 \in S
  <2> SUFFICES ASSUME NEW s \in SUBSET D, Cardinality(s) = n + 1 PROVE Good(s)
    BY <1>3, <1>6
  <2>0. \A u \in SUBSET D : Cardinality(u) <= n => Good(u)
    BY <1>6
  <2> HIDE DEF Good
  <2>1. s # {}
    <3>1. Cardinality({}) = 0
      BY FS_EmptySet
    <3> QED BY <3>1
  <2> DEFINE c == Pick(s)  rest == s \ {c}
  <2>2. c \in s /\ rest \in SUBSET D /\ Cardinality(rest) = n
    BY <1>4, <2>1
  <2>3. Good(rest)
    BY <2>0, <2>2
  <2>4. g[s] = f[c] + g[rest] /\ f[c] \in Nat
    BY <1>1, <1>2, <2>1, <2>2
  <2>5. ASSUME NEW x \in s PROVE g[s] = f[x] + g[s \ {x}]
    <3>1. CASE x = c
      BY <2>4, <3>1
    <3>2. CASE x # c
      <4> DEFINE other == s \ {x}  both == rest \ {x}
      <4>1. other \in SUBSET D /\ Cardinality(other) = n /\ c \in other /\ x \in rest
        BY <1>4, <2>1, <2>2, <3>2
      <4>2. other \ {c} = both
        OBVIOUS
      <4>3. Good(other)
        BY <2>0, <4>1
      <4>4. g[other] = f[c] + g[both] /\ g[rest] = f[x] + g[both] /\ g[rest] \in Nat /\ g[other] \in Nat
        BY <2>3, <4>1, <4>2, <4>3 DEF Good
      <4>5. both \in SUBSET D /\ f[x] \in Nat
        BY <1>1
      <4>6. g[both] \in Nat
        <5>1. Cardinality(both) = n - 1
          BY <1>4, <2>2, <4>1
        <5>2. Good(both)
          BY <2>0, <4>5, <5>1
        <5> QED BY <5>2 DEF Good
      <4> HIDE DEF c, rest, other, both
      <4> QED BY <2>4, <4>4, <4>5, <4>6 DEF other
    <3> QED BY <3>1, <3>2
  <2>6. g[s] \in Nat
    <3> HIDE DEF c, rest
    <3> QED BY <2>3, <2>4 DEF Good
  <2> QED BY <2>5, <2>6 DEF Good
<1>7. \A n \in Nat : n \in S
  <2> HIDE DEF S
  <2> QED BY <1>5, <1>6, Induction
<1> QED BY <1>3, <1>7 DEF D

\* The sum depends on the values only.
LEMMA SumsSame ==
  ASSUME NEW D, NEW E, NEW f, NEW e, NEW g, Sums(g, f, D), NEW h, Sums(h, e, E),
         NEW A, A \subseteq D, A \subseteq E, IsFiniteSet(A), \A x \in A : f[x] = e[x]
  PROVE  g[A] = h[A]
<1> DEFINE S == {n \in Nat : \A s \in SUBSET A : Cardinality(s) <= n => g[s] = h[s]}
<1>1. \A s \in SUBSET D : g[s] = IF s = {} THEN 0 ELSE f[Pick(s)] + g[s \ {Pick(s)}]
  <2> DEFINE val(s) == IF s = {} THEN 0 ELSE f[Pick(s)] + g[s \ {Pick(s)}]
  <2>1. g = [s \in SUBSET D |-> val(s)]
    BY DEF Sums
  <2> HIDE DEF val
  <2>2. \A s \in SUBSET D : g[s] = val(s)
    BY <2>1
  <2> QED BY <2>2 DEF val
<1>2. \A s \in SUBSET E : h[s] = IF s = {} THEN 0 ELSE e[Pick(s)] + h[s \ {Pick(s)}]
  <2> DEFINE val(s) == IF s = {} THEN 0 ELSE e[Pick(s)] + h[s \ {Pick(s)}]
  <2>1. h = [s \in SUBSET E |-> val(s)]
    BY DEF Sums
  <2> HIDE DEF val
  <2>2. \A s \in SUBSET E : h[s] = val(s)
    BY <2>1
  <2> QED BY <2>2 DEF val
<1>3. \A s \in SUBSET A : Cardinality(s) \in Nat /\ (Cardinality(s) = 0 => s = {})
  BY FS_Subset, FS_CardinalityType, FS_EmptySet
<1>4. \A s \in SUBSET A : s # {} =>
        Pick(s) \in s /\ s \ {Pick(s)} \in SUBSET A /\ Cardinality(s \ {Pick(s)}) = Cardinality(s) - 1
  BY PickFacts
<1>5. 0 \in S
  <2> SUFFICES ASSUME NEW s \in SUBSET A, Cardinality(s) <= 0 PROVE g[s] = h[s]
    OBVIOUS
  <2>1. s = {}
    BY <1>3
  <2> QED BY <1>1, <1>2, <2>1
<1>6. ASSUME NEW n \in Nat, n \in S PROVE n + 1 \in S
  <2> SUFFICES ASSUME NEW s \in SUBSET A, Cardinality(s) = n + 1 PROVE g[s] = h[s]
    BY <1>3, <1>6
  <2>1. s # {}
    BY FS_EmptySet
  <2> DEFINE c == Pick(s)  rest == s \ {c}
  <2>2. c \in s /\ rest \in SUBSET A /\ Cardinality(rest) = n
    BY <1>4, <2>1
  <2>3. g[rest] = h[rest] /\ f[c] = e[c]
    BY <1>6, <2>2
  <2>4. g[s] = f[c] + g[rest] /\ h[s] = e[c] + h[rest]
    BY <1>1, <1>2, <2>1
  <2> QED BY <2>3, <2>4
<1>7. \A n \in Nat : n \in S
  <2> HIDE DEF S
  <2> QED BY <1>5, <1>6, Induction
<1>8. Cardinality(A) \in Nat
  BY FS_CardinalityType
<1> QED BY <1>7, <1>8

LEMMA SumType ==
  ASSUME NEW f, Summable(f)
  PROVE  SumFunction(f) \in Nat
<1>1. PICK g : Sums(g, f, DOMAIN f) /\ SumFunction(f) = g[DOMAIN f]
  BY SumIsSums
<1>2. DOMAIN f \in SUBSET DOMAIN f
  OBVIOUS
<1> QED BY <1>1, <1>2, SumsSplit

\* e is f without x.
Without(e, f, x) ==
  x \in DOMAIN f /\ DOMAIN e = DOMAIN f \ {x} /\ \A y \in DOMAIN e : e[y] = f[y]

LEMMA SumWithout ==
  ASSUME NEW f, Summable(f), NEW e, NEW x, Without(e, f, x)
  PROVE  Summable(e) /\ SumFunction(f) = f[x] + SumFunction(e)
<1>1. Summable(e)
  BY FS_RemoveElement DEF Summable, Without
<1>2. PICK g : Sums(g, f, DOMAIN f) /\ SumFunction(f) = g[DOMAIN f]
  BY SumIsSums
<1>3. PICK h : Sums(h, e, DOMAIN e) /\ SumFunction(e) = h[DOMAIN e]
  BY <1>1, SumIsSums
<1>4. g[DOMAIN f] = f[x] + g[DOMAIN f \ {x}]
  <2>1. DOMAIN f \in SUBSET DOMAIN f /\ x \in DOMAIN f
    BY DEF Without
  <2> QED BY <1>2, <2>1, SumsSplit
<1>5. g[DOMAIN e] = h[DOMAIN e]
  <2> DEFINE A == DOMAIN e
  <2>1. A \subseteq DOMAIN f /\ A \subseteq DOMAIN e /\ IsFiniteSet(A) /\ \A y \in A : f[y] = e[y]
    BY <1>1 DEF Summable, Without
  <2> HIDE DEF A
  <2>2. g[A] = h[A]
    BY <1>2, <1>3, <2>1, SumsSame
  <2> QED BY <2>2 DEF A
<1> QED BY <1>1, <1>2, <1>3, <1>4, <1>5 DEF Without

-----------------------------------------------------------------------------
(* The counter *)

InHand == IF evicting = NoSlot THEN 0 ELSE evicting

\* Every event is in the total, in the slot being evicted or in a live slot.
CountsOK ==
  /\ total \in Nat /\ events \in Nat /\ (evicting # NoSlot => evicting \in Nat)
  /\ DOMAIN slots \subseteq Slots /\ \A s \in DOMAIN slots : slots[s] \in Nat
  /\ events = total + InHand + SumFunction(slots)

\* What an observer loaded was the total at that time, and still is if no eviction came.
ObserversOK ==
  /\ t \in [Observers -> Nat] /\ reading \in [Observers -> Nat] /\ began \in [Observers -> Nat]
  /\ DOMAIN at = Observers /\ DOMAIN overlaps = Observers
  /\ \A o \in Observers :
       /\ t[o] <= total /\ reading[o] <= events /\ began[o] <= events
       /\ (at[o] = "loaded" /\ ~overlaps[o]) => (evicting = NoSlot /\ t[o] = total)

MInv == CountsOK /\ ObserversOK

LEMMA LiveSummable ==
  ASSUME CountsOK
  PROVE  Summable(slots) /\ SumFunction(slots) \in Nat
<1>1. Summable(slots)
  BY MetricsAssumption, FS_Subset DEF MetricsAssumption, CountsOK, Summable
<1> QED BY <1>1, SumType

LEMMA InitMInv == Init => MInv
<1> SUFFICES ASSUME Init PROVE MInv
  OBVIOUS
<1>1. DOMAIN slots = {}
  BY DEF Init
<1>2. SumFunction(slots) = 0
  <2>1. Summable(slots)
    BY <1>1, FS_EmptySet DEF Summable
  <2>2. PICK g : Sums(g, slots, DOMAIN slots) /\ SumFunction(slots) = g[DOMAIN slots]
    BY <2>1, SumIsSums
  <2> DEFINE val(s) == IF s = {} THEN 0 ELSE slots[Pick(s)] + g[s \ {Pick(s)}]
  <2>3. g = [s \in SUBSET {} |-> val(s)]
    BY <1>1, <2>2 DEF Sums
  <2> HIDE DEF val
  <2>4. g[{}] = val({})
    BY <2>3
  <2>5. g[{}] = 0
    BY <2>4 DEF val
  <2> QED BY <1>1, <2>2, <2>5
<1>3. CountsOK
  BY <1>1, <1>2 DEF Init, CountsOK, InHand
<1>4. ObserversOK
  BY DEF Init, ObserversOK
<1> QED BY <1>3, <1>4 DEF MInv

LEMMA NextMInv ==
  ASSUME MInv, [Next]_vars
  PROVE  MInv'
<1> USE DEF MInv
<1>0. Summable(slots) /\ SumFunction(slots) \in Nat /\ InHand \in Nat
  BY LiveSummable DEF CountsOK, InHand
<1>1. CASE UNCHANGED vars
  BY <1>1 DEF vars, CountsOK, ObserversOK, InHand
<1>2. ASSUME NEW s \in Slots, Opens(s) PROVE MInv'
  <2>1. /\ evicting = NoSlot /\ s \notin DOMAIN slots
        /\ slots' = [u \in DOMAIN slots \cup {s} |-> IF u = s THEN 0 ELSE slots[u]]
        /\ UNCHANGED <<total, evicting, at, t, reading, events, began, overlaps>>
    BY <1>2 DEF Opens
  <2>2. slots'[s] = 0 /\ DOMAIN slots' \subseteq Slots /\ \A u \in DOMAIN slots' : slots'[u] \in Nat
    BY <2>1 DEF CountsOK
  <2>3. Without(slots, slots', s)
    BY <2>1 DEF Without
  <2>4. Summable(slots')
    BY <2>2, MetricsAssumption, FS_Subset DEF MetricsAssumption, Summable
  <2>5. SumFunction(slots') = slots'[s] + SumFunction(slots)
    BY <2>3, <2>4, SumWithout
  <2>6. SumFunction(slots') = SumFunction(slots)
    BY <1>0, <2>2, <2>5
  <2>7. CountsOK'
    BY <2>1, <2>2, <2>6 DEF CountsOK, InHand
  <2> QED BY <2>1, <2>7 DEF ObserversOK
<1>3. ASSUME NEW s \in Slots, Counts(s) PROVE MInv'
  <2>1. /\ evicting = NoSlot /\ s \in DOMAIN slots
        /\ slots' = [slots EXCEPT ![s] = @ + 1] /\ events' = events + 1
        /\ UNCHANGED <<total, evicting, at, t, reading, began, overlaps>>
    BY <1>3 DEF Counts
  <2> DEFINE e == [u \in DOMAIN slots \ {s} |-> slots[u]]
  <2>2. /\ DOMAIN slots' = DOMAIN slots /\ slots'[s] = slots[s] + 1
        /\ \A u \in DOMAIN slots : slots'[u] \in Nat /\ (u # s => slots'[u] = slots[u])
    BY <2>1 DEF CountsOK
  <2>3. Without(e, slots, s) /\ Without(e, slots', s)
    BY <2>1, <2>2 DEF Without
  <2> HIDE DEF e
  <2>4. Summable(slots')
    BY <1>0, <2>2 DEF Summable
  <2>5. /\ SumFunction(slots) = slots[s] + SumFunction(e)
        /\ SumFunction(slots') = slots'[s] + SumFunction(e)
        /\ SumFunction(e) \in Nat
    BY <1>0, <2>3, <2>4, SumWithout, SumType
  <2>6. SumFunction(slots') = SumFunction(slots) + 1
    BY <2>1, <2>2, <2>5 DEF CountsOK
  <2>7. CountsOK'
    BY <1>0, <2>1, <2>2, <2>6 DEF CountsOK, InHand
  <2>8. ObserversOK'
    BY <2>1 DEF CountsOK, ObserversOK
  <2> QED BY <2>7, <2>8
<1>4. ASSUME NEW s \in Slots, Evicts(s) PROVE MInv'
  <2>1. /\ evicting = NoSlot /\ s \in DOMAIN slots /\ evicting' = slots[s]
        /\ slots' = [u \in DOMAIN slots \ {s} |-> slots[u]]
        /\ overlaps' = [o \in Observers |-> TRUE]
        /\ UNCHANGED <<total, at, t, reading, events, began>>
    BY <1>4 DEF Evicts, Restrict
  <2>2. Without(slots', slots, s) /\ slots[s] \in Nat /\ DOMAIN slots' \subseteq Slots
        /\ \A u \in DOMAIN slots' : slots'[u] \in Nat
    BY <2>1 DEF Without, CountsOK
  <2>3. SumFunction(slots) = slots[s] + SumFunction(slots') /\ SumFunction(slots') \in Nat
    BY <1>0, <2>2, SumWithout, SumType
  <2>4. InHand' = slots[s] /\ InHand = 0
    BY <2>1, <2>2, MetricsAssumption DEF MetricsAssumption, InHand
  <2>5. CountsOK'
    BY <2>1, <2>2, <2>3, <2>4 DEF CountsOK
  <2>6. ObserversOK'
    BY <2>1 DEF ObserversOK
  <2> QED BY <2>5, <2>6
<1>5. CASE Harvests
  <2>1. /\ evicting # NoSlot /\ evicting' = evicting + 1 /\ events' = events + 1
        /\ UNCHANGED <<total, slots, at, t, reading, began, overlaps>>
    BY <1>5 DEF Harvests
  <2>2. evicting' \in Nat /\ evicting' # NoSlot
    BY <2>1, MetricsAssumption DEF MetricsAssumption, CountsOK
  <2>3. CountsOK'
    BY <1>0, <2>1, <2>2 DEF CountsOK, InHand
  <2>4. ObserversOK'
    BY <2>1, <2>2 DEF CountsOK, ObserversOK
  <2> QED BY <2>3, <2>4
<1>6. CASE rollupAccumulator
  <2>1. /\ evicting # NoSlot /\ total' = total + evicting /\ evicting' = NoSlot
        /\ UNCHANGED <<slots, at, t, reading, events, began, overlaps>>
    BY <1>6 DEF rollupAccumulator
  <2>2. CountsOK'
    BY <1>0, <2>1 DEF CountsOK, InHand
  <2>3. ObserversOK'
    BY <2>1 DEF CountsOK, ObserversOK
  <2> QED BY <2>2, <2>3
<1>7. ASSUME NEW o \in Observers, LoadTotal(o) PROVE MInv'
  <2>1. UNCHANGED <<total, slots, evicting, reading, events>>
    BY <1>7 DEF LoadTotal
  <2>2. CountsOK'
    BY <2>1 DEF CountsOK, InHand
  <2>3. /\ at' = [at EXCEPT ![o] = "loaded"] /\ t' = [t EXCEPT ![o] = total]
        /\ began' = [began EXCEPT ![o] = events]
        /\ overlaps' = [overlaps EXCEPT ![o] = (evicting # NoSlot)]
    BY <1>7 DEF LoadTotal
  <2>4. overlaps'[o] = (evicting # NoSlot) /\ DOMAIN overlaps' = Observers
        /\ \A p \in Observers \ {o} : overlaps'[p] = overlaps[p]
    BY <2>3, Zenon DEF ObserversOK
  <2>5. /\ t' \in [Observers -> Nat] /\ began' \in [Observers -> Nat] /\ DOMAIN at' = Observers
        /\ t'[o] = total /\ began'[o] = events
        /\ \A p \in Observers \ {o} : at'[p] = at[p] /\ t'[p] = t[p] /\ began'[p] = began[p]
    BY <2>3 DEF CountsOK, ObserversOK
  <2>6. ~overlaps'[o] => evicting = NoSlot
    BY <2>4
  <2>7. \A p \in Observers \ {o} : overlaps'[p] = overlaps[p]
    BY <2>4
  <2>8. total \in Nat /\ events \in Nat /\ total <= total /\ events <= events
    BY DEF CountsOK
  <2>9. ASSUME NEW p \in Observers
        PROVE  /\ t'[p] <= total /\ reading[p] <= events /\ began'[p] <= events
               /\ (at'[p] = "loaded" /\ ~overlaps'[p]) => (evicting = NoSlot /\ t'[p] = total)
    <3>1. CASE p = o
      BY <2>5, <2>6, <2>8, <3>1 DEF ObserversOK
    <3>2. CASE p # o
      BY <2>5, <2>7, <3>2 DEF ObserversOK
    <3> QED BY <3>1, <3>2
  <2>10. ObserversOK'
    <3>1. DOMAIN overlaps' = Observers
      BY <2>4
    <3> QED BY <2>1, <2>5, <2>9, <3>1 DEF ObserversOK
  <2> QED BY <2>2, <2>10
<1>8. ASSUME NEW o \in Observers, SumLive(o) PROVE MInv'
  <2>1. /\ at' = [at EXCEPT ![o] = "out"] /\ evicting = NoSlot
        /\ reading' = [reading EXCEPT ![o] = t[o] + SumFunction(slots)]
        /\ UNCHANGED <<total, slots, evicting, t, events, began, overlaps>>
    BY <1>8 DEF SumLive
  <2>2. CountsOK'
    BY <2>1 DEF CountsOK, InHand
  <2>3. t[o] + SumFunction(slots) \in Nat /\ t[o] + SumFunction(slots) <= events
    BY <1>0, <2>1 DEF CountsOK, ObserversOK, InHand
  <2>4. ObserversOK'
    BY <2>1, <2>3 DEF ObserversOK
  <2> QED BY <2>2, <2>4
<1> QED BY <1>1, <1>2, <1>3, <1>4, <1>5, <1>6, <1>7, <1>8 DEF Next

\* The invariant of every run.
THEOREM CountersInv == Spec => []MInv
<1>1. MInv /\ [Next]_vars => MInv'
  BY NextMInv
<1> QED BY <1>1, InitMInv, PTL DEF Spec

\* No method that adds the total and the live slots returns more than was counted, however
\* evictions fall between its load of the total and its sum.
THEOREM NeverTooMuch == Spec => []NeverOvercounts
<1>1. MInv => NeverOvercounts
  BY DEF MInv, ObserversOK, NeverOvercounts
<1> QED BY <1>1, CountersInv, PTL

\* A call that no eviction overlaps misses nothing counted before it began.
THEOREM NothingMissed == Spec => ExactWithoutEviction
<1> DEFINE Exact == \A o \in Observers :
      at[o] = "loaded" /\ at'[o] = "out" /\ ~overlaps[o] => reading'[o] >= began[o]
<1>1. ASSUME MInv, [Next]_vars PROVE Exact
  <2> SUFFICES ASSUME NEW o \in Observers, at[o] = "loaded", at'[o] = "out", ~overlaps[o]
               PROVE  reading'[o] >= began[o]
    OBVIOUS
  <2>1. SumLive(o)
    <3>1. \A s \in Slots : ~(Opens(s) \/ Counts(s) \/ Evicts(s))
      BY DEF Opens, Counts, Evicts
    <3>2. ~(Harvests \/ rollupAccumulator \/ UNCHANGED vars)
      BY DEF Harvests, rollupAccumulator, vars
    <3>3. \A p \in Observers : ~LoadTotal(p)
      BY <1>1 DEF LoadTotal, MInv, ObserversOK
    <3>4. \A p \in Observers : SumLive(p) => p = o
      BY <1>1 DEF SumLive, MInv, ObserversOK
    <3> QED BY <1>1, <3>1, <3>2, <3>3, <3>4 DEF Next
  <2>2. reading'[o] = t[o] + SumFunction(slots)
    BY <1>1, <2>1 DEF SumLive, MInv, ObserversOK
  <2>3. SumFunction(slots) \in Nat
    BY <1>1, LiveSummable DEF MInv
  <2> QED BY <1>1, <2>2, <2>3 DEF MInv, ObserversOK, CountsOK, InHand
<1>2. MInv /\ [Next]_vars => [Exact]_vars
  BY <1>1
<1>3. Spec => [][Exact]_vars
  <2> HIDE DEF Exact
  <2> QED BY <1>2, CountersInv, PTL DEF Spec
<1> QED BY <1>3 DEF ExactWithoutEviction

=============================================================================
