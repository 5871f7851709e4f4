------------------------------ MODULE RSCache ------------------------------
(***************************************************************************)
(* reedSolomonCache of fec.go: the codes built last, under their layouts,  *)
(* in two slices that are updated side by side.  The least recently used   *)
(* one is dropped when a new one is built and the cache is full.           *)
(***************************************************************************)
EXTENDS Integers, Sequences

CONSTANTS
  Layouts,       \* the layouts <<numData, numCoding>> that are asked for
  Build,         \* layout -> what newReedSolomon returns for it
  NoCode,        \* ... a nil code, when it returns an error
  cacheCapacity

ASSUME CacheAssumption == cacheCapacity \in Nat \ {0}

VARIABLES
  keys, values,
  got,       \* what the last call of GetOrBuild returned
  recency    \* history: the layouts that were given out, the last one last

cache == <<keys, values>>
cacheVars == <<cache, got, recency>>

MoveToEnd(s, k) ==
  [i \in 1..Len(s) |-> IF i < k THEN s[i] ELSE IF i < Len(s) THEN s[i + 1] ELSE s[k]]

\* Faulty variant: the values keep their order.
TouchValues_Not(k) == UNCHANGED values
TouchValues(k) == values' = MoveToEnd(values, k)

Used(key) ==
  recency' = IF \E j \in 1..Len(recency) : recency[j] = key
             THEN MoveToEnd(recency, CHOOSE j \in 1..Len(recency) : recency[j] = key)
             ELSE Append(recency, key)

Hit(key) ==
  \E k \in 1..Len(keys) :
    /\ keys[k] = key
    /\ got' = values[k]
    /\ keys' = MoveToEnd(keys, k)
    /\ TouchValues(k)
    /\ Used(key)

Missing(key) == \A k \in 1..Len(keys) : keys[k] # key

BuildFails(key) ==
  /\ Missing(key)
  /\ Build[key] = NoCode
  /\ got' = NoCode
  /\ UNCHANGED <<cache, recency>>

\* Faulty variant: the newest entry makes room.
Evicted_Newest(s) == SubSeq(s, 1, Len(s) - 1)
Evicted(s) == Tail(s)

Miss(key) ==
  /\ Missing(key)
  /\ Build[key] # NoCode
  /\ got' = Build[key]
  /\ LET full == Len(keys) >= cacheCapacity
     IN  /\ keys' = Append(IF full THEN Evicted(keys) ELSE keys, key)
         /\ values' = Append(IF full THEN Evicted(values) ELSE values, Build[key])
  /\ Used(key)

GetOrBuild(key) == Hit(key) \/ BuildFails(key) \/ Miss(key)

CacheInit == keys = <<>> /\ values = <<>> /\ got = NoCode /\ recency = <<>>
CacheNext == \E key \in Layouts : GetOrBuild(key)
CacheSpec == CacheInit /\ [][CacheNext]_cacheVars

-----------------------------------------------------------------------------
(* Properties *)

\* The two slices stay in step: whatever the order of hits, misses and evictions, the
\* code under a layout is the one built for it, each layout is there once, and the cache
\* is never larger than its capacity.
CacheInStep ==
  /\ Len(keys) = Len(values) /\ Len(keys) <= cacheCapacity
  /\ \A i \in 1..Len(keys) : values[i] = Build[keys[i]] /\ values[i] # NoCode
  /\ \A i, j \in 1..Len(keys) : keys[i] = keys[j] => i = j

\* The cache holds the layouts used last, as many as fit, in the order of their last use.
CacheHoldsLastUsed ==
  LET dropped == Len(recency) - Len(keys)
  IN  /\ Len(keys) = IF Len(recency) < cacheCapacity THEN Len(recency) ELSE cacheCapacity
      /\ \A i \in 1..Len(keys) : keys[i] = recency[dropped + i]

=============================================================================
