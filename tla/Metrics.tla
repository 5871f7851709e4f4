------------------------------ MODULE Metrics ------------------------------
(***************************************************************************)
(* The methods of Listener that add up a counter: what evicted slots left  *)
(* in an atomic total, and the counts of the live slots.  All of them      *)
(* (DecodeErrorsTotal, FECRecoveriesTotal, ...) have the same shape, which *)
(* this module models for one counter: the total is loaded without the     *)
(* mutex, then the live slots are summed with it.  The goroutine that      *)
(* receives counts and evicts with the mutex held.                         *)
(***************************************************************************)
EXTENDS Integers, Functions, FiniteSets

CONSTANTS
  Slots,       \* slots that may be live
  Observers,   \* goroutines that call the method, again and again
  MaxEvents,   \* bound on the events that are counted
  NoSlot       \* no slot is being evicted

ASSUME MetricsAssumption == MaxEvents \in Nat /\ IsFiniteSet(Slots) /\ NoSlot \notin Nat

VARIABLES
  total,      \* the atomic counter, ...Total of Listener
  slots,      \* live slot -> its count
  evicting,   \* the count of the slot being evicted, with the mutex held, or NoSlot
  at,         \* observer -> "out", or "loaded" between the load and the sum
  t,          \* observer -> its local t
  reading,    \* observer -> what its last call returned
  events,     \* history: events counted so far
  began,      \* observer -> history: events counted when its last call began
  overlaps    \* observer -> history: an eviction overlapped its last call

vars == <<total, slots, evicting, at, t, reading, events, began, overlaps>>

-----------------------------------------------------------------------------
(* The receiving goroutine *)

Opens(s) ==
  /\ evicting = NoSlot /\ s \notin DOMAIN slots
  /\ slots' = [u \in DOMAIN slots \cup {s} |-> IF u = s THEN 0 ELSE slots[u]]
  /\ UNCHANGED <<total, evicting, at, t, reading, events, began, overlaps>>

Counts(s) ==
  /\ evicting = NoSlot /\ s \in DOMAIN slots /\ events < MaxEvents
  /\ slots' = [slots EXCEPT ![s] = @ + 1]
  /\ events' = events + 1
  /\ UNCHANGED <<total, evicting, at, t, reading, began, overlaps>>

\* Faulty variant: the slot stays in the map.
Evicts_KeepsSlot(s) ==
  /\ evicting = NoSlot /\ s \in DOMAIN slots
  /\ evicting' = slots[s]
  /\ slots' = slots
  /\ overlaps' = [o \in Observers |-> TRUE]
  /\ UNCHANGED <<total, at, t, reading, events, began>>

\* An eviction takes the slot out of the map first.
Evicts(s) ==
  /\ evicting = NoSlot /\ s \in DOMAIN slots
  /\ evicting' = slots[s]
  /\ slots' = Restrict(slots, DOMAIN slots \ {s})
  /\ overlaps' = [o \in Observers |-> TRUE]
  /\ UNCHANGED <<total, at, t, reading, events, began>>

\* The harvest may count, too.
Harvests ==
  /\ evicting # NoSlot /\ events < MaxEvents
  /\ evicting' = evicting + 1
  /\ events' = events + 1
  /\ UNCHANGED <<total, slots, at, t, reading, began, overlaps>>

rollupAccumulator ==
  /\ evicting # NoSlot
  /\ total' = total + evicting
  /\ evicting' = NoSlot
  /\ UNCHANGED <<slots, at, t, reading, events, began, overlaps>>

-----------------------------------------------------------------------------
(* An observer *)

LoadTotal(o) ==
  /\ at[o] = "out"
  /\ at' = [at EXCEPT ![o] = "loaded"]
  /\ t' = [t EXCEPT ![o] = total]
  /\ began' = [began EXCEPT ![o] = events]
  /\ overlaps' = [overlaps EXCEPT ![o] = evicting # NoSlot]
  /\ UNCHANGED <<total, slots, evicting, reading, events>>

\* Faulty variant: the evicted slots are left out.
SumLive_LiveOnly(o) ==
  /\ at[o] = "loaded" /\ evicting = NoSlot
  /\ at' = [at EXCEPT ![o] = "out"]
  /\ reading' = [reading EXCEPT ![o] = SumFunction(slots)]
  /\ UNCHANGED <<total, slots, evicting, t, events, began, overlaps>>

SumLive(o) ==
  /\ at[o] = "loaded" /\ evicting = NoSlot
  /\ at' = [at EXCEPT ![o] = "out"]
  /\ reading' = [reading EXCEPT ![o] = t[o] + SumFunction(slots)]
  /\ UNCHANGED <<total, slots, evicting, t, events, began, overlaps>>

Init ==
  /\ total = 0 /\ slots = <<>> /\ evicting = NoSlot /\ events = 0
  /\ at = [o \in Observers |-> "out"]
  /\ t = [o \in Observers |-> 0]
  /\ reading = [o \in Observers |-> 0]
  /\ began = [o \in Observers |-> 0]
  /\ overlaps = [o \in Observers |-> FALSE]

Next ==
  \/ \E s \in Slots : Opens(s) \/ Counts(s) \/ Evicts(s)
  \/ Harvests
  \/ rollupAccumulator
  \/ \E o \in Observers : LoadTotal(o) \/ SumLive(o)

Spec == Init /\ [][Next]_vars

-----------------------------------------------------------------------------
(* Properties *)

\* What a call returns never exceeds the events counted: a slot that is evicted between
\* the load and the sum is missed, never counted twice.
NeverOvercounts == \A o \in Observers : reading[o] <= events

\* A call that no eviction overlaps returns at least what had been counted when it began.
ExactWithoutEviction ==
  [][\A o \in Observers :
       at[o] = "loaded" /\ at'[o] = "out" /\ ~overlaps[o] => reading'[o] >= began[o]]_vars

=============================================================================
