------------------------------- MODULE Facts -------------------------------
(***************************************************************************)
(* Facts that the proofs share: minimum and maximum, induction over the    *)
(* naturals and recursive functions.  Induction is stated with a set in    *)
(* the place of the predicate, and recursion with functions in the place   *)
(* of operators, because the provers can only instantiate these.           *)
(***************************************************************************)
EXTENDS Integers, FiniteSetsExt, WellFoundedInduction, TLAPS

\* A nonempty set of naturals has a minimum.
LEMMA MinOfNats ==
  ASSUME NEW S, S \subseteq Nat, S # {}
  PROVE  Min(S) \in S /\ \A x \in S : Min(S) <= x
<1> DEFINE less == {ss \in Nat \X Nat : ss[1] < ss[2]}
<1>1. IsWellFoundedOn(less, Nat)
  BY NatLessThanWellFounded DEF OpToRel
<1> HIDE DEF less
<1>2. PICK x \in S : \A y \in S : <<y, x>> \notin less
  BY <1>1, WFMin
<1>3. \A y \in S : x <= y
  <2> SUFFICES ASSUME NEW y \in S, y < x PROVE FALSE
    OBVIOUS
  <2>1. <<y, x>> \in Nat \X Nat /\ <<y, x>>[1] < <<y, x>>[2]
    OBVIOUS
  <2>2. <<y, x>> \in less
    BY <2>1, Zenon DEF less
  <2> QED BY <1>2, <2>2
<1> QED BY <1>3 DEF Min

\* The larger of two naturals.
LEMMA MaxOfTwo ==
  ASSUME NEW a \in Nat, NEW b \in Nat
  PROVE  Max({a, b}) = IF a >= b THEN a ELSE b
<1>1. \E x \in {a, b} : \A y \in {a, b} : x >= y
  OBVIOUS
<1> QED BY <1>1 DEF Max

-----------------------------------------------------------------------------

\* Induction: a set that contains 0, and with every natural the next one, contains all.
LEMMA Induction ==
  ASSUME NEW S, 0 \in S, \A k \in Nat : k \in S => k + 1 \in S
  PROVE  \A k \in Nat : k \in S
<1> SUFFICES ASSUME Nat \ S # {} PROVE FALSE
  OBVIOUS
<1> DEFINE m == Min(Nat \ S)
<1>1. m \in Nat \ S /\ \A x \in Nat \ S : m <= x
  BY MinOfNats
<1> HIDE DEF m
<1>2. m # 0 /\ m - 1 \in Nat
  BY <1>1
<1>3. m - 1 \in S
  BY <1>1, <1>2
<1> QED BY <1>1, <1>2, <1>3

\* A nonempty set of naturals with an upper bound has a maximum.
LEMMA MaxOfNats ==
  ASSUME NEW S, S \subseteq Nat, S # {}, NEW b \in Nat, \A x \in S : x <= b
  PROVE  Max(S) \in S /\ \A x \in S : x <= Max(S)
<1> DEFINE above == {b - x : x \in S}
<1>1. above \subseteq Nat /\ above # {}
  <2>1. \A x \in S : b - x \in Nat
    OBVIOUS
  <2>2. PICK x \in S : TRUE
    OBVIOUS
  <2> QED BY <2>1, <2>2
<1>2. Min(above) \in above /\ \A y \in above : Min(above) <= y
  BY <1>1, MinOfNats
<1>3. PICK x \in S : Min(above) = b - x
  BY <1>2
<1>4. ASSUME NEW y \in S PROVE y <= x
  <2>1. b - y \in above
    OBVIOUS
  <2>2. b - x <= b - y
    BY <1>2, <1>3, <2>1
  <2> QED BY <2>2
<1>5. \A y \in S : x >= y
  BY <1>4
<1> QED BY <1>5 DEF Max

\* A recursive definition of a function from 0..n to T: its value at k is given, for k in
\* Given, or computed by step[k] from an earlier value, that at prev[k].
WellDefined(T, n, Given, base, step, prev) ==
  /\ \A k \in 0..n : k \in Given => base[k] \in T
  /\ \A k \in 0..n : k \notin Given => prev[k] \in 0..(k - 1) /\ step[k] \in [T -> T]
Obeys(r, n, Given, base, step, prev) ==
  \A k \in 0..n : r[k] = IF k \in Given THEN base[k] ELSE step[k][r[prev[k]]]

\* There is such a function.
LEMMA Recursion ==
  ASSUME NEW T, NEW n \in Nat, NEW Given, NEW base, NEW step, NEW prev,
         WellDefined(T, n, Given, base, step, prev)
  PROVE  \E r \in [0..n -> T] : Obeys(r, n, Given, base, step, prev)
<1> USE DEF WellDefined
<1> DEFINE Rec(r, k) == r[k] = IF k \in Given THEN base[k] ELSE step[k][r[prev[k]]]
           S == {m \in Nat : m <= n + 1 => \E r \in [0..(m - 1) -> T] : \A k \in 0..(m - 1) : Rec(r, k)}
<1>1. 0 \in S
  <2> DEFINE none == [k \in 0..(0 - 1) |-> 0]
  <2>1. none \in [0..(0 - 1) -> T] /\ \A k \in 0..(0 - 1) : FALSE
    OBVIOUS
  <2> HIDE DEF Rec, none
  <2> QED BY <2>1
<1>2. ASSUME NEW m \in Nat, m \in S PROVE m + 1 \in S
  <2> SUFFICES ASSUME m + 1 <= n + 1 PROVE \E r \in [0..m -> T] : \A k \in 0..m : Rec(r, k)
    OBVIOUS
  <2>1. PICK r \in [0..(m - 1) -> T] : \A k \in 0..(m - 1) : Rec(r, k)
    BY <1>2
  <2> DEFINE v == IF m \in Given THEN base[m] ELSE step[m][r[prev[m]]]
             h == [k \in 0..m |-> IF k < m THEN r[k] ELSE v]
  <2>2. m \in 0..n
    OBVIOUS
  <2>3. v \in T
    <3>1. CASE m \in Given
      BY <2>2, <3>1
    <3>2. CASE m \notin Given
      <4>1. prev[m] \in 0..(m - 1) /\ step[m] \in [T -> T]
        BY <2>2, <3>2
      <4>2. r[prev[m]] \in T
        BY <4>1
      <4> QED BY <3>2, <4>1, <4>2
    <3> QED BY <3>1, <3>2
  <2> HIDE DEF v
  <2>4. h \in [0..m -> T] /\ h[m] = v /\ \A k \in 0..(m - 1) : h[k] = r[k]
    BY <2>3
  <2> HIDE DEF h
  <2>5. ASSUME NEW k \in 0..m PROVE Rec(h, k)
    <3>1. CASE k \in Given
      BY <2>1, <2>4, <3>1 DEF v
    <3>2. CASE k \notin Given
      <4>1. prev[k] \in 0..(k - 1)
        BY <3>2
      <4>2. prev[k] \in 0..(m - 1) /\ h[prev[k]] = r[prev[k]]
        BY <2>4, <4>1
      <4>3. CASE k = m
        BY <2>4, <3>2, <4>2, <4>3 DEF v
      <4>4. CASE k # m
        <5>1. k \in 0..(m - 1)
          BY <4>4
        <5> QED BY <2>1, <2>4, <3>2, <4>2, <5>1
      <4> QED BY <4>3, <4>4
    <3> QED BY <3>1, <3>2
  <2> QED BY <2>4, <2>5
<1> HIDE DEF S
<1>3. n + 1 \in S
  BY <1>1, <1>2, Induction
<1> QED BY <1>3 DEF S, Obeys

\* The same when each value is computed from the one before it.
MapsTo(step, n, T) == \A k \in 1..n : step[k] \in [T -> T]
Iterates(r, n, b, step) == r[0] = b /\ \A k \in 1..n : r[k] = step[k][r[k - 1]]

LEMMA Iteration ==
  ASSUME NEW T, NEW n \in Nat, NEW b \in T, NEW step, MapsTo(step, n, T)
  PROVE  \E r \in [0..n -> T] : Iterates(r, n, b, step)
<1> DEFINE base == [k \in 0..n |-> b]
           prev == [k \in 0..n |-> k - 1]
<1>1. base[0] = b /\ \A k \in 1..n : prev[k] = k - 1
  OBVIOUS
<1>2. WellDefined(T, n, {0}, base, step, prev)
  BY DEF WellDefined, MapsTo
<1> HIDE DEF base, prev
<1>3. PICK r \in [0..n -> T] : Obeys(r, n, {0}, base, step, prev)
  BY <1>2, Recursion
<1>4. ASSUME NEW k \in 1..n PROVE r[k] = step[k][r[k - 1]]
  <2>1. k \in 0..n /\ k \notin {0} /\ prev[k] = k - 1
    BY <1>1
  <2> QED BY <1>3, <2>1 DEF Obeys
<1>5. r[0] = b
  BY <1>1, <1>3 DEF Obeys
<1> QED BY <1>4, <1>5 DEF Iterates

\* Two functions are equal on 0..n when they start alike and each step keeps them equal.
InStep(r, q, n) == r[0] = q[0] /\ \A k \in 1..n : r[k - 1] = q[k - 1] => r[k] = q[k]

LEMMA StayEqual ==
  ASSUME NEW n \in Nat, NEW r, NEW q, InStep(r, q, n)
  PROVE  \A k \in 0..n : r[k] = q[k]
<1> DEFINE S == {k \in Nat : k <= n => r[k] = q[k]}
<1>1. 0 \in S
  BY DEF InStep
<1>2. ASSUME NEW k \in Nat, k \in S PROVE k + 1 \in S
  <2> SUFFICES ASSUME k + 1 <= n PROVE r[k + 1] = q[k + 1]
    OBVIOUS
  <2>1. k + 1 \in 1..n /\ (k + 1) - 1 = k /\ r[k] = q[k]
    BY <1>2
  <2> QED BY <2>1 DEF InStep
<1> HIDE DEF S
<1>3. \A k \in Nat : k \in S
  BY <1>1, <1>2, Induction
<1> QED BY <1>3 DEF S

=============================================================================
