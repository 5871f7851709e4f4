--------------------------- MODULE RSCacheProofs ---------------------------
(***************************************************************************)
(* Proofs about RSCache, for any capacity and any codes: the two slices    *)
(* stay in step, and the cache holds the layouts used last.                *)
(***************************************************************************)
EXTENDS RSCache, TLAPS

\* The types, and that no layout occurs twice in the history.
RecencyOK ==
  /\ keys \in Seq(Layouts) /\ recency \in Seq(Layouts)
  /\ \A i, j \in 1..Len(recency) : recency[i] = recency[j] => i = j
ValuesOK == values \in Seq({Build[l] : l \in Layouts})

CacheInv == RecencyOK /\ ValuesOK /\ CacheInStep /\ CacheHoldsLastUsed

\* What MoveToEnd does to a sequence: its elements are the same, in places that are
\* known, and no element comes to occur twice.
LEMMA MoveToEndFacts ==
  ASSUME NEW S, NEW s \in Seq(S), NEW k \in 1..Len(s)
  PROVE  /\ MoveToEnd(s, k) \in Seq(S)
         /\ Len(MoveToEnd(s, k)) = Len(s)
         /\ \A i \in 1..Len(s) :
              MoveToEnd(s, k)[i] = IF i < k THEN s[i] ELSE IF i < Len(s) THEN s[i + 1] ELSE s[k]
<1>1. Len(s) \in Nat /\ k \in Nat /\ \A i \in 1..Len(s) : s[i] \in S
  OBVIOUS
<1>2. \A i \in 1..Len(s) : i >= k /\ i < Len(s) => i + 1 \in 1..Len(s)
  BY <1>1
<1>3. MoveToEnd(s, k) \in [1..Len(s) -> S]
  BY <1>1, <1>2 DEF MoveToEnd
<1> QED BY <1>1, <1>3 DEF MoveToEnd

\* A sequence without duplicates has none after MoveToEnd.
LEMMA MoveToEndInjective ==
  ASSUME NEW S, NEW s \in Seq(S), NEW k \in 1..Len(s),
         \A i, j \in 1..Len(s) : s[i] = s[j] => i = j
  PROVE  \A i, j \in 1..Len(s) : MoveToEnd(s, k)[i] = MoveToEnd(s, k)[j] => i = j
<1> DEFINE from(i) == IF i < k THEN i ELSE IF i < Len(s) THEN i + 1 ELSE k
<1>1. \A i \in 1..Len(s) : from(i) \in 1..Len(s)
  OBVIOUS
<1>2. \A i, j \in 1..Len(s) : from(i) = from(j) => i = j
  OBVIOUS
<1>3. \A i \in 1..Len(s) : MoveToEnd(s, k)[i] = s[from(i)]
  BY MoveToEndFacts
<1> HIDE DEF from
<1> QED BY <1>1, <1>2, <1>3

\* A hit moves an entry of both slices, and the same layout in the history.
LEMMA HitInv ==
  ASSUME CacheInv, NEW key \in Layouts, Hit(key)
  PROVE  CacheInv'
<1> DEFINE dropped == Len(recency) - Len(keys)
<1>1. PICK k \in 1..Len(keys) :
        keys[k] = key /\ keys' = MoveToEnd(keys, k) /\ values' = MoveToEnd(values, k) /\ Used(key)
  BY DEF Hit, TouchValues
<1>2. /\ keys \in Seq(Layouts) /\ recency \in Seq(Layouts) /\ Len(keys) = Len(values)
      /\ values \in Seq({Build[l] : l \in Layouts})
      /\ cacheCapacity \in Nat
  BY CacheAssumption DEF CacheInv, RecencyOK, ValuesOK, CacheInStep, CacheAssumption
<1>3. dropped \in Nat /\ dropped + k \in 1..Len(recency) /\ recency[dropped + k] = key
  <2>1. Len(keys) \in Nat /\ Len(recency) \in Nat /\ Len(keys) <= Len(recency)
    BY <1>2 DEF CacheInv, CacheHoldsLastUsed
  <2>2. keys[k] = recency[dropped + k]
    BY DEF CacheInv, CacheHoldsLastUsed
  <2>3. dropped \in Nat /\ dropped + k \in 1..Len(recency)
    BY <2>1
  <2> QED BY <1>1, <2>2, <2>3
<1>4. recency' = MoveToEnd(recency, dropped + k)
  BY <1>1, <1>3 DEF CacheInv, RecencyOK, Used
<1>5. /\ keys' \in Seq(Layouts) /\ Len(keys') = Len(keys)
      /\ values' \in Seq({Build[l] : l \in Layouts}) /\ Len(values') = Len(values)
      /\ recency' \in Seq(Layouts) /\ Len(recency') = Len(recency)
  BY <1>1, <1>2, <1>3, <1>4, MoveToEndFacts
<1>6. RecencyOK' /\ ValuesOK'
  <2>1. \A i, j \in 1..Len(recency) : recency[i] = recency[j] => i = j
    BY DEF CacheInv, RecencyOK
  <2> HIDE DEF dropped
  <2>2. \A i, j \in 1..Len(recency) : recency'[i] = recency'[j] => i = j
    BY <1>2, <1>3, <1>4, <2>1, MoveToEndInjective
  <2> QED BY <1>5, <2>2 DEF RecencyOK, ValuesOK
<1>7. CacheInStep'
  <2>1. \A i \in 1..Len(keys) :
          values'[i] = Build[keys'[i]] /\ values'[i] # NoCode
    <3> SUFFICES ASSUME NEW i \in 1..Len(keys)
                 PROVE  values'[i] = Build[keys'[i]] /\ values'[i] # NoCode
      OBVIOUS
    <3>1. PICK j \in 1..Len(keys) : keys'[i] = keys[j] /\ values'[i] = values[j]
      <4> DEFINE j == IF i < k THEN i ELSE IF i < Len(keys) THEN i + 1 ELSE k
      <4>1. j \in 1..Len(keys)
        BY <1>2
      <4>2. keys'[i] = keys[j]
        BY <1>1, <1>2, MoveToEndFacts
      <4>3. k \in 1..Len(values) /\ i \in 1..Len(values)
        BY <1>2
      <4>4. values'[i] = IF i < k THEN values[i] ELSE IF i < Len(values) THEN values[i + 1]
                         ELSE values[k]
        BY <1>1, <1>2, <4>3, MoveToEndFacts
      <4>5. values'[i] = values[j]
        BY <1>2, <4>4
      <4> HIDE DEF j
      <4> QED BY <4>1, <4>2, <4>5
    <3> QED BY <3>1 DEF CacheInv, CacheInStep
  <2>2. \A i, j \in 1..Len(keys) : keys'[i] = keys'[j] => i = j
    BY <1>1, <1>2, MoveToEndInjective DEF CacheInv, CacheInStep
  <2> QED BY <1>2, <1>5, <2>1, <2>2 DEF CacheInv, CacheInStep
<1>8. CacheHoldsLastUsed'
  <2>1. \A i \in 1..Len(keys) : keys[i] = recency[dropped + i]
    BY DEF CacheInv, CacheHoldsLastUsed
  <2>2. ASSUME NEW i \in 1..Len(keys) PROVE keys'[i] = recency'[dropped + i]
    <3>1. dropped + i \in 1..Len(recency) /\ i \in Nat /\ k \in Nat /\ Len(keys) \in Nat
      BY <1>2, <1>3
    <3>2. keys'[i] = IF i < k THEN keys[i] ELSE IF i < Len(keys) THEN keys[i + 1] ELSE keys[k]
      BY <1>1, <1>2, MoveToEndFacts
    <3>3. recency'[dropped + i] = IF dropped + i < dropped + k THEN recency[dropped + i]
                                  ELSE IF dropped + i < Len(recency) THEN recency[dropped + i + 1]
                                  ELSE recency[dropped + k]
      BY <1>2, <1>3, <1>4, <3>1, MoveToEndFacts
    <3>4. i < Len(keys) => i + 1 \in 1..Len(keys)
      BY <3>1
    <3>5. (dropped + i < dropped + k <=> i < k) /\ (dropped + i < Len(recency) <=> i < Len(keys))
      BY <1>2, <1>3, <3>1
    <3> HIDE DEF dropped
    <3>6. keys[i] = recency[dropped + i] /\ keys[k] = recency[dropped + k]
      BY <2>1, <2>2
    <3>7. i < Len(keys) => keys[i + 1] = recency[dropped + i + 1]
      <4> SUFFICES ASSUME i < Len(keys) PROVE keys[i + 1] = recency[dropped + i + 1]
        OBVIOUS
      <4>1. keys[i + 1] = recency[dropped + (i + 1)]
        BY <2>1, <3>4
      <4>2. dropped + (i + 1) = dropped + i + 1
        BY <1>3, <3>1
      <4> QED BY <4>1, <4>2
    <3> QED BY <3>2, <3>3, <3>5, <3>6, <3>7
  <2> QED BY <1>2, <1>5, <2>2 DEF CacheInv, CacheHoldsLastUsed
<1> QED BY <1>6, <1>7, <1>8 DEF CacheInv

\* A code that is built goes to the end of both slices; the first one makes room.
LEMMA MissInv ==
  ASSUME CacheInv, NEW key \in Layouts, Miss(key)
  PROVE  CacheInv'
<1> DEFINE kept == IF Len(keys) >= cacheCapacity THEN Tail(keys) ELSE keys
           keptValues == IF Len(keys) >= cacheCapacity THEN Tail(values) ELSE values
           shift == IF Len(keys) >= cacheCapacity THEN 1 ELSE 0
<1>1. /\ keys' = Append(kept, key) /\ values' = Append(keptValues, Build[key])
      /\ Missing(key) /\ Build[key] # NoCode /\ Used(key)
  BY DEF Miss, Evicted
<1>2. /\ keys \in Seq(Layouts) /\ recency \in Seq(Layouts) /\ Len(keys) = Len(values)
      /\ values \in Seq({Build[l] : l \in Layouts})
      /\ cacheCapacity \in Nat \ {0} /\ Len(keys) <= cacheCapacity
  BY CacheAssumption DEF CacheInv, RecencyOK, ValuesOK, CacheInStep, CacheAssumption
<1>3. /\ kept \in Seq(Layouts) /\ keptValues \in Seq({Build[l] : l \in Layouts})
      /\ Len(kept) = Len(keys) - shift /\ Len(keptValues) = Len(kept)
      /\ \A i \in 1..Len(kept) : kept[i] = keys[i + shift] /\ keptValues[i] = values[i + shift]
      /\ \A i \in 1..Len(kept) : i + shift \in 1..Len(keys)
  BY <1>2
<1>4. shift \in {0, 1} /\ Len(keys) \in Nat /\ Len(kept) \in Nat
  BY <1>2, <1>3
<1> HIDE DEF kept, keptValues
<1>5. /\ keys' \in Seq(Layouts) /\ Len(keys') = Len(kept) + 1
      /\ values' \in Seq({Build[l] : l \in Layouts}) /\ Len(values') = Len(kept) + 1
      /\ \A i \in 1..Len(kept) : keys'[i] = keys[i + shift] /\ values'[i] = values[i + shift]
      /\ keys'[Len(kept) + 1] = key /\ values'[Len(kept) + 1] = Build[key]
  <2> HIDE DEF shift
  <2>1. /\ keys' \in Seq(Layouts) /\ Len(keys') = Len(kept) + 1
        /\ \A i \in 1..Len(kept) : keys'[i] = kept[i]
        /\ keys'[Len(kept) + 1] = key
    BY <1>1, <1>3, <1>4
  <2>2. Build[key] \in {Build[l] : l \in Layouts}
    OBVIOUS
  <2>3. /\ values' \in Seq({Build[l] : l \in Layouts}) /\ Len(values') = Len(kept) + 1
        /\ \A i \in 1..Len(kept) : values'[i] = keptValues[i]
        /\ values'[Len(kept) + 1] = Build[key]
    <3> DEFINE B == {Build[l] : l \in Layouts}
    <3>1. keptValues \in Seq(B) /\ Build[key] \in B /\ Len(keptValues) = Len(kept)
      BY <1>3, <2>2
    <3> HIDE DEF B
    <3>2. /\ values' \in Seq(B) /\ Len(values') = Len(kept) + 1
          /\ \A i \in 1..Len(kept) : values'[i] = keptValues[i]
          /\ values'[Len(kept) + 1] = Build[key]
      BY <1>1, <1>4, <3>1
    <3> QED BY <3>2 DEF B
  <2> QED BY <1>3, <2>1, <2>3
<1>6. CacheInStep'
  <2>1. Len(keys') = Len(values') /\ Len(keys') <= cacheCapacity
    BY <1>2, <1>3, <1>5
  <2>2. \A i \in 1..Len(keys') : i \in 1..Len(kept) \/ i = Len(kept) + 1
    BY <1>4, <1>5
  <2>3. \A i \in 1..Len(keys') : values'[i] = Build[keys'[i]] /\ values'[i] # NoCode
    <3> HIDE DEF shift
    <3>1. \A i \in 1..Len(kept) : values'[i] = Build[keys'[i]] /\ values'[i] # NoCode
      BY <1>3, <1>5 DEF CacheInv, CacheInStep
    <3> QED BY <1>1, <1>5, <2>2, <3>1
  <2>4. \A i \in 1..Len(kept) : keys'[i] # key
    BY <1>1, <1>3, <1>5 DEF Missing
  <2>5. \A i, j \in 1..Len(kept) : keys'[i] = keys'[j] => i = j
    <3> SUFFICES ASSUME NEW i \in 1..Len(kept), NEW j \in 1..Len(kept), keys'[i] = keys'[j]
                 PROVE  i = j
      OBVIOUS
    <3>0. keys[i + shift] = keys[j + shift]
      BY <1>5
    <3>0a. i + shift \in 1..Len(keys) /\ j + shift \in 1..Len(keys)
      BY <1>3
    <3> HIDE DEF shift
    <3>1. i + shift = j + shift
      BY <3>0, <3>0a DEF CacheInv, CacheInStep
    <3> QED BY <1>4, <3>1
  <2>6. \A i, j \in 1..Len(keys') : keys'[i] = keys'[j] => i = j
    BY <1>5, <2>2, <2>4, <2>5
  <2> QED BY <2>1, <2>3, <2>6 DEF CacheInStep
<1> DEFINE dropped == Len(recency) - Len(keys)
<1>7. dropped \in Nat /\ Len(recency) \in Nat /\ (dropped > 0 => Len(keys) = cacheCapacity)
  BY <1>2 DEF CacheInv, CacheHoldsLastUsed
<1>8. \A i \in 1..Len(keys) : keys[i] = recency[dropped + i]
  BY DEF CacheInv, CacheHoldsLastUsed
<1>9. \A i \in 1..Len(recency) : recency[i] = key => i <= dropped
  <2> SUFFICES ASSUME NEW i \in 1..Len(recency), recency[i] = key, i > dropped PROVE FALSE
    BY <1>7
  <2>1. i - dropped \in 1..Len(keys) /\ dropped + (i - dropped) = i
    BY <1>4, <1>7
  <2> HIDE DEF dropped
  <2> QED BY <1>1, <1>8, <2>1 DEF Missing
\* The layout was used before and has been dropped since: the cache is full.
<1>10. CASE \E j \in 1..Len(recency) : recency[j] = key
  <2> DEFINE j == CHOOSE j \in 1..Len(recency) : recency[j] = key
  <2>1. j \in 1..Len(recency) /\ recency[j] = key
    BY <1>10
  <2>2. recency' = MoveToEnd(recency, j)
    BY <1>1, <1>10 DEF Used
  <2> HIDE DEF j
  <2>3. j <= dropped /\ j \in Nat
    BY <1>9, <2>1
  <2>4. Len(keys) = cacheCapacity /\ shift = 1
    BY <1>2, <1>7, <2>1, <2>3
  <2>5. Len(recency') = Len(recency) /\ RecencyOK'
    <3>1. \A a, b \in 1..Len(recency) : recency[a] = recency[b] => a = b
      BY DEF CacheInv, RecencyOK
    <3>2. recency' \in Seq(Layouts) /\ Len(recency') = Len(recency)
      BY <1>2, <2>1, <2>2, MoveToEndFacts
    <3>3. \A a, b \in 1..Len(recency) : recency'[a] = recency'[b] => a = b
      BY <1>2, <2>1, <2>2, <3>1, MoveToEndInjective
    <3> QED BY <1>5, <3>2, <3>3 DEF RecencyOK
  <2>6. Len(keys') = Len(keys) /\ Len(kept) = Len(keys) - 1
    BY <1>3, <1>4, <1>5, <2>4
  <2>7. ASSUME NEW i \in 1..Len(kept) PROVE keys'[i] = recency'[dropped + i]
    <3>1. keys'[i] = keys[i + 1] /\ i + 1 \in 1..Len(keys) /\ i \in Nat
      BY <1>3, <1>4, <1>5, <2>4
    <3>2. dropped + i \in 1..Len(recency) /\ dropped + i >= j /\ dropped + i < Len(recency)
      BY <1>4, <1>7, <2>3, <2>6, <3>1
    <3>4. dropped + i + 1 = dropped + (i + 1) /\ ~(dropped + i < j)
      BY <1>7, <2>3, <3>1, <3>2
    <3> HIDE DEF dropped
    <3>3. recency'[dropped + i] = recency[dropped + i + 1]
      BY <1>2, <2>1, <2>2, <3>2, <3>4, MoveToEndFacts
    <3> QED BY <1>8, <3>1, <3>3, <3>4
  <2>8. recency'[Len(recency)] = key
    <3>1. Len(recency) \in 1..Len(recency) /\ ~(Len(recency) < j)
      BY <1>7, <2>1, <2>3
    <3> QED BY <1>2, <2>1, <2>2, <3>1, MoveToEndFacts
  <2>9. ASSUME NEW i \in 1..Len(keys') PROVE keys'[i] = recency'[dropped + i]
    <3>1. CASE i \in 1..Len(kept)
      BY <2>7, <3>1
    <3>2. CASE i = Len(keys)
      <4>1. dropped + i = Len(recency)
        BY <1>4, <1>7, <3>2
      <4> QED BY <1>5, <2>6, <2>8, <3>2, <4>1
    <3> QED BY <1>4, <2>6, <3>1, <3>2
  <2>10. CacheHoldsLastUsed'
    BY <1>2, <2>4, <2>5, <2>6, <2>9, <1>7 DEF CacheHoldsLastUsed
  <2> QED BY <1>5, <1>6, <2>5, <2>10 DEF CacheInv, ValuesOK
\* The layout is new.
<1>11. CASE ~ \E j \in 1..Len(recency) : recency[j] = key
  <2>1. recency' = Append(recency, key)
    BY <1>1, <1>11 DEF Used
  <2>2. /\ recency' \in Seq(Layouts) /\ Len(recency') = Len(recency) + 1
        /\ recency'[Len(recency) + 1] = key
        /\ \A i \in 1..Len(recency) : recency'[i] = recency[i]
    BY <1>2, <1>7, <2>1
  <2>3. RecencyOK'
    <3>1. \A i \in 1..Len(recency') : i \in 1..Len(recency) \/ i = Len(recency) + 1
      BY <1>7, <2>2
    <3>2. \A i, j \in 1..Len(recency') : recency'[i] = recency'[j] => i = j
      BY <1>11, <2>2, <3>1 DEF CacheInv, RecencyOK
    <3> QED BY <1>5, <2>2, <3>2 DEF RecencyOK
  <2>0. Len(keys') = Len(keys) - shift + 1 /\ Len(kept) = Len(keys) - shift
    BY <1>3, <1>5
  <2>4. Len(recency') - Len(keys') = dropped + shift
    BY <1>4, <1>7, <2>0, <2>2
  <2>5. ASSUME NEW i \in 1..Len(keys') PROVE keys'[i] = recency'[dropped + shift + i]
    <3>1. CASE i \in 1..Len(kept)
      <4>1. keys'[i] = keys[i + shift] /\ i + shift \in 1..Len(keys)
        BY <1>3, <1>5, <3>1
      <4>2. dropped + shift + i = dropped + (i + shift) /\ dropped + (i + shift) \in 1..Len(recency)
        BY <1>4, <1>7, <4>1
      <4> HIDE DEF dropped, shift
      <4> QED BY <1>8, <2>2, <4>1, <4>2
    <3>2. CASE i = Len(kept) + 1
      <4>1. dropped + shift + i = Len(recency) + 1
        <5>1. shift \in Int /\ Len(recency) \in Int /\ Len(keys) \in Int /\ i = Len(keys) - shift + 1
          BY <1>4, <1>7, <2>0, <3>2
        <5> HIDE DEF shift
        <5> QED BY <5>1
      <4> QED BY <1>5, <2>2, <3>2, <4>1
    <3> QED BY <1>4, <1>5, <3>1, <3>2
  <2>6. Len(keys') = IF Len(recency') < cacheCapacity THEN Len(recency') ELSE cacheCapacity
    <3>1. Len(keys) = IF Len(recency) < cacheCapacity THEN Len(recency) ELSE cacheCapacity
      BY DEF CacheInv, CacheHoldsLastUsed
    <3>2. Len(recency') = Len(recency) + 1
      BY <2>2
    <3>3. CASE Len(keys) >= cacheCapacity
      <4>1. Len(keys') = Len(keys) - 1 + 1 /\ Len(keys) = cacheCapacity
        BY <1>2, <1>4, <2>0, <3>3
      <4>2. Len(recency) >= cacheCapacity
        BY <1>2, <1>7, <3>1, <4>1
      <4> QED BY <1>2, <1>7, <3>2, <4>1, <4>2
    <3>4. CASE ~(Len(keys) >= cacheCapacity)
      <4>1. Len(keys') = Len(keys) + 1 /\ Len(keys) < cacheCapacity
        BY <1>2, <1>4, <2>0, <3>4
      <4> QED BY <1>2, <1>4, <1>7, <3>1, <3>2, <4>1
    <3> QED BY <3>3, <3>4
  <2>7. CacheHoldsLastUsed'
    BY <2>4, <2>5, <2>6 DEF CacheHoldsLastUsed
  <2> QED BY <1>5, <1>6, <2>3, <2>7 DEF CacheInv, ValuesOK
<1> QED BY <1>10, <1>11

\* The invariant of every run.
THEOREM CacheInductive == CacheSpec => []CacheInv
<1>1. CacheInit => CacheInv
  BY CacheAssumption
     DEF CacheAssumption, CacheInit, CacheInv, RecencyOK, ValuesOK, CacheInStep, CacheHoldsLastUsed
<1>2. CacheInv /\ [CacheNext]_cacheVars => CacheInv'
  <2> SUFFICES ASSUME CacheInv, [CacheNext]_cacheVars PROVE CacheInv'
    OBVIOUS
  <2>1. ASSUME UNCHANGED <<keys, values, recency>> PROVE CacheInv'
    BY <2>1 DEF CacheInv, RecencyOK, ValuesOK, CacheInStep, CacheHoldsLastUsed
  <2>2. ASSUME NEW key \in Layouts, GetOrBuild(key) PROVE CacheInv'
    <3>1. CASE BuildFails(key)
      BY <2>1, <3>1 DEF BuildFails, cache
    <3> QED BY <2>2, <3>1, HitInv, MissInv DEF GetOrBuild
  <2> QED BY <2>1, <2>2 DEF CacheNext, cacheVars, cache
<1> QED BY <1>1, <1>2, PTL DEF CacheSpec

\* GetOrBuild never gives out the code of another layout, for any capacity and any order
\* of calls: the two in-place appends of a hit and the two reslicings of an eviction keep
\* keys and values in step.
THEOREM SlicesInStep == CacheSpec => []CacheInStep
<1>1. CacheInv => CacheInStep
  BY DEF CacheInv
<1> QED BY <1>1, CacheInductive, PTL

\* The cache is least-recently-used: it holds the layouts used last and drops no other.
THEOREM LeastRecentlyUsed == CacheSpec => []CacheHoldsLastUsed
<1>1. CacheInv => CacheHoldsLastUsed
  BY DEF CacheInv
<1> QED BY <1>1, CacheInductive, PTL

=============================================================================
