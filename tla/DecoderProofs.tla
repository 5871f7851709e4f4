--------------------------- MODULE DecoderProofs ---------------------------
(***************************************************************************)
(* Lemmas on EntryDecoder: what its recursive definitions compute, and     *)
(* that decoding a batch does not depend on the cells that follow it.      *)
(***************************************************************************)
EXTENDS EntryDecoder, Facts, SequenceTheorems, TLAPS

\* A function on 1..m is a sequence.
LEMMA IsSeq ==
  ASSUME NEW A, NEW m \in Nat, NEW t \in [1..m -> A]
  PROVE  t \in Seq(A)
OBVIOUS

-----------------------------------------------------------------------------
(* Joined *)

\* f gives sequences over A at lo, ..., hi; hi = lo - 1 when there are none.
Chain(A, f, lo, hi) ==
  lo \in Nat /\ hi \in Int /\ hi >= lo - 1 /\ \A i \in lo..hi : f[i] \in Seq(A)

\* r[i] is f[lo], ..., f[i] put together.
Partial(r, f, lo, hi) == r[lo - 1] = <<>> /\ \A i \in lo..hi : r[i] = r[i - 1] \o f[i]

\* The partial results exist.
LEMMA PartialExists ==
  ASSUME NEW A, NEW f, NEW lo, NEW hi, Chain(A, f, lo, hi)
  PROVE  \E r \in [(lo - 1)..hi -> Seq(A)] : Partial(r, f, lo, hi)
<1> DEFINE n == hi - lo + 1
           step == [k \in 1..n |-> [t \in Seq(A) |-> t \o f[lo + k - 1]]]
<1>1. lo \in Nat /\ hi \in Int /\ hi >= lo - 1 /\ n \in Nat /\ <<>> \in Seq(A)
      /\ \A i \in lo..hi : f[i] \in Seq(A)
  BY DEF Chain
<1>2. ASSUME NEW k \in 1..n
      PROVE  step[k] \in [Seq(A) -> Seq(A)] /\ step[k] = [t \in Seq(A) |-> t \o f[lo + k - 1]]
  <2>1. lo + k - 1 \in lo..hi
    BY <1>1
  <2>2. ASSUME NEW t \in Seq(A) PROVE t \o f[lo + k - 1] \in Seq(A)
    BY <1>1, <2>1
  <2>3. step[k] = [t \in Seq(A) |-> t \o f[lo + k - 1]]
    BY Zenon
  <2> QED BY <2>2, <2>3, Zenon
<1> HIDE DEF step
<1>3. MapsTo(step, n, Seq(A))
  BY <1>2 DEF MapsTo
<1>4. PICK q \in [0..n -> Seq(A)] : Iterates(q, n, <<>>, step)
  <2> HIDE DEF n
  <2> QED BY <1>1, <1>3, Iteration
<1>5. q[0] = <<>> /\ \A k \in 1..n : q[k] = step[k][q[k - 1]]
  BY <1>4 DEF Iterates
<1>6. ASSUME NEW k \in 1..n PROVE q[k] = q[k - 1] \o f[lo + k - 1]
  <2>1. q[k - 1] \in Seq(A)
    BY <1>1
  <2>2. step[k][q[k - 1]] = q[k - 1] \o f[lo + k - 1]
    BY <1>2, <2>1, Zenon
  <2> QED BY <1>5, <2>2
<1> DEFINE r == [i \in (lo - 1)..hi |-> q[i - lo + 1]]
<1>7. r \in [(lo - 1)..hi -> Seq(A)] /\ r[lo - 1] = q[0] /\ \A i \in (lo - 1)..hi : r[i] = q[i - lo + 1]
  BY <1>1
<1> HIDE DEF r
<1>8. ASSUME NEW i \in lo..hi PROVE r[i] = r[i - 1] \o f[i]
  <2> DEFINE k == i - lo + 1
  <2>1. k \in 1..n /\ lo + k - 1 = i /\ i - 1 \in (lo - 1)..hi /\ i \in (lo - 1)..hi /\ (i - 1) - lo + 1 = k - 1
    BY <1>1
  <2>2. r[i] = q[k] /\ r[i - 1] = q[k - 1]
    BY <1>7, <2>1
  <2> HIDE DEF k
  <2> QED BY <1>6, <2>1, <2>2
<1> QED BY <1>5, <1>7, <1>8 DEF Partial

\* There is only one: two partial results for functions that agree are equal.
LEMMA PartialUnique ==
  ASSUME NEW A, NEW f, NEW g, NEW lo, NEW hi, Chain(A, f, lo, hi), NEW r, NEW q,
         Partial(r, f, lo, hi), Partial(q, g, lo, hi), \A i \in lo..hi : f[i] = g[i]
  PROVE  \A i \in (lo - 1)..hi : r[i] = q[i]
<1> DEFINE S == {k \in Nat : lo - 1 + k <= hi => r[lo - 1 + k] = q[lo - 1 + k]}
<1>1. lo \in Nat /\ hi \in Int /\ hi >= lo - 1
  BY DEF Chain
<1>2. 0 \in S
  BY <1>1 DEF Partial
<1>3. ASSUME NEW k \in Nat, k \in S PROVE k + 1 \in S
  <2> SUFFICES ASSUME lo - 1 + (k + 1) <= hi PROVE r[lo - 1 + (k + 1)] = q[lo - 1 + (k + 1)]
    OBVIOUS
  <2>1. lo - 1 + (k + 1) \in lo..hi /\ (lo - 1 + (k + 1)) - 1 = lo - 1 + k /\ r[lo - 1 + k] = q[lo - 1 + k]
    BY <1>1, <1>3
  <2> QED BY <2>1 DEF Partial
<1> HIDE DEF S
<1>4. \A k \in Nat : k \in S
  BY <1>2, <1>3, Induction
<1>5. ASSUME NEW i \in (lo - 1)..hi PROVE r[i] = q[i]
  <2>1. i - lo + 1 \in Nat /\ lo - 1 + (i - lo + 1) = i /\ i <= hi
    BY <1>1
  <2>2. i - lo + 1 \in S
    BY <1>4, <2>1
  <2> QED BY <2>1, <2>2 DEF S
<1> QED BY <1>5

\* Joined is the last of the partial results.
LEMMA JoinedIsPartial ==
  ASSUME NEW A, NEW f, NEW lo, NEW hi, Chain(A, f, lo, hi), NEW r, Partial(r, f, lo, hi)
  PROVE  Joined(f, lo, hi) = r[hi]
<1> DEFINE P(g) == g = [i \in (lo - 1)..hi |-> IF i < lo THEN <<>> ELSE g[i - 1] \o f[i]]
           g0 == [i \in (lo - 1)..hi |-> r[i]]
<1>1. lo \in Nat /\ hi \in Int /\ hi >= lo - 1
  BY DEF Chain
<1>2. ASSUME NEW i \in (lo - 1)..hi PROVE g0[i] = IF i < lo THEN <<>> ELSE g0[i - 1] \o f[i]
  <2>1. CASE i < lo
    <3>1. i = lo - 1
      BY <1>1, <2>1
    <3> QED BY <2>1, <3>1 DEF Partial
  <2>2. CASE ~(i < lo)
    <3>1. i \in lo..hi /\ i - 1 \in (lo - 1)..hi
      BY <1>1, <2>2
    <3>2. g0[i] = r[i] /\ g0[i - 1] = r[i - 1]
      BY <3>1
    <3> QED BY <2>2, <3>1, <3>2 DEF Partial
  <2> QED BY <2>1, <2>2
<1>3. P(g0)
  <2>1. g0 = [i \in (lo - 1)..hi |-> g0[i]]
    OBVIOUS
  <2> HIDE DEF g0
  <2> QED BY <1>2, <2>1, Zenon
<1>4. Joined(f, lo, hi) = (CHOOSE h : P(h))[hi]
  BY Zenon DEF Joined
<1> HIDE DEF P, g0
<1> DEFINE h == CHOOSE x : P(x)
<1>5. P(h) /\ Joined(f, lo, hi) = h[hi]
  BY <1>3, <1>4, Zenon
<1> HIDE DEF h
<1>6. \A i \in (lo - 1)..hi : h[i] = IF i < lo THEN <<>> ELSE h[i - 1] \o f[i]
  BY <1>5, Zenon DEF P
<1>7. Partial(h, f, lo, hi)
  <2>1. lo - 1 \in (lo - 1)..hi /\ lo - 1 < lo
    BY <1>1
  <2>2. ASSUME NEW i \in lo..hi PROVE i \in (lo - 1)..hi /\ ~(i < lo)
    BY <1>1
  <2>3. h[lo - 1] = <<>>
    BY <1>6, <2>1
  <2>4. ASSUME NEW i \in lo..hi PROVE h[i] = h[i - 1] \o f[i]
    BY <1>6, <2>2
  <2> QED BY <2>3, <2>4 DEF Partial
<1>8. h[hi] = r[hi]
  <2>1. hi \in (lo - 1)..hi
    BY <1>1
  <2>2. \A i \in (lo - 1)..hi : h[i] = r[i]
    BY <1>7, PartialUnique
  <2> QED BY <2>1, <2>2
<1> QED BY <1>5, <1>8

\* The type of the result, the result for no sequence at all and for one more.
LEMMA JoinedStep ==
  ASSUME NEW A, NEW f, NEW lo, NEW hi, Chain(A, f, lo, hi)
  PROVE  /\ Joined(f, lo, hi) \in Seq(A)
         /\ hi < lo => Joined(f, lo, hi) = <<>>
         /\ lo <= hi => /\ Chain(A, f, lo, hi - 1)
                        /\ Joined(f, lo, hi) = Joined(f, lo, hi - 1) \o f[hi]
<1>1. lo \in Nat /\ hi \in Int /\ hi >= lo - 1 /\ \A i \in lo..hi : f[i] \in Seq(A)
  BY DEF Chain
<1>2. PICK r \in [(lo - 1)..hi -> Seq(A)] : Partial(r, f, lo, hi)
  BY PartialExists
<1>3. Joined(f, lo, hi) = r[hi]
  <2>1. \A q : Partial(q, f, lo, hi) => Joined(f, lo, hi) = q[hi]
    BY JoinedIsPartial
  <2> QED BY <1>2, <2>1, Zenon
<1>4. hi \in (lo - 1)..hi /\ r[hi] \in Seq(A)
  BY <1>1
<1>5. ASSUME hi < lo PROVE r[hi] = <<>>
  <2>1. hi = lo - 1
    BY <1>1, <1>5
  <2> QED BY <1>2, <2>1 DEF Partial
<1>6. ASSUME lo <= hi
      PROVE  Chain(A, f, lo, hi - 1) /\ Joined(f, lo, hi) = Joined(f, lo, hi - 1) \o f[hi]
  <2>1. Chain(A, f, lo, hi - 1)
    BY <1>1, <1>6 DEF Chain
  <2>2. hi \in lo..hi /\ lo..(hi - 1) \subseteq lo..hi
    BY <1>1, <1>6
  <2>3. Partial(r, f, lo, hi - 1)
    BY <1>2, <2>2 DEF Partial
  <2>4. Joined(f, lo, hi - 1) = r[hi - 1]
    <3>1. \A q : Partial(q, f, lo, hi - 1) => Joined(f, lo, hi - 1) = q[hi - 1]
      BY <2>1, JoinedIsPartial
    <3> QED BY <2>3, <3>1, Zenon
  <2>5. r[hi] = r[hi - 1] \o f[hi]
    BY <1>2, <2>2 DEF Partial
  <2> QED BY <1>3, <2>1, <2>4, <2>5
<1> QED BY <1>3, <1>4, <1>5, <1>6

\* f and g give the same sequences over A at lo, ..., hi.
Agree(A, f, g, lo, hi) == Chain(A, f, lo, hi) /\ \A i \in lo..hi : g[i] = f[i]

LEMMA JoinedSame ==
  ASSUME NEW A, NEW f, NEW g, NEW lo, NEW hi, Agree(A, f, g, lo, hi)
  PROVE  Joined(f, lo, hi) = Joined(g, lo, hi)
<1>1. Chain(A, f, lo, hi) /\ \A i \in lo..hi : g[i] = f[i]
  BY DEF Agree
<1>2. Chain(A, g, lo, hi)
  BY <1>1 DEF Chain
<1>3. PICK r \in [(lo - 1)..hi -> Seq(A)] : Partial(r, f, lo, hi)
  BY <1>1, PartialExists
<1>4. Partial(r, g, lo, hi)
  BY <1>1, <1>3 DEF Partial
<1> QED BY <1>1, <1>2, <1>3, <1>4, JoinedIsPartial

\* The sequences up to m and those after m are joined in turn.
Cut(A, f, lo, m, hi) == Chain(A, f, lo, hi) /\ m \in (lo - 1)..hi

LEMMA JoinedSplit ==
  ASSUME NEW A, NEW f, NEW lo, NEW m, NEW hi, Cut(A, f, lo, m, hi)
  PROVE  /\ Joined(f, lo, hi) = Joined(f, lo, m) \o Joined(f, m + 1, hi)
         /\ Joined(f, lo, m) \in Seq(A) /\ Joined(f, m + 1, hi) \in Seq(A)
<1> DEFINE S == {k \in Nat : m + k <= hi =>
                   Joined(f, lo, m + k) = Joined(f, lo, m) \o Joined(f, m + 1, m + k)}
<1>1. /\ lo \in Nat /\ hi \in Int /\ m \in Int /\ lo - 1 <= m /\ m <= hi /\ m + 1 \in Nat
      /\ \A i \in lo..hi : f[i] \in Seq(A)
  BY DEF Cut, Chain
<1>2. ASSUME NEW j \in m..hi PROVE Chain(A, f, lo, j) /\ Chain(A, f, m + 1, j)
  BY <1>1 DEF Chain
<1>3. ASSUME NEW j \in m..hi
      PROVE  Joined(f, lo, j) \in Seq(A) /\ Joined(f, m + 1, j) \in Seq(A)
  BY <1>2, JoinedStep
<1>4. m \in m..hi /\ hi \in m..hi /\ m + 0 = m /\ m < m + 1
  BY <1>1
<1>5. Joined(f, m + 1, m) = <<>>
  BY <1>2, <1>4, JoinedStep
<1>6. 0 \in S
  <2>1. Joined(f, lo, m) = Joined(f, lo, m) \o <<>>
    BY <1>3, <1>4, ConcatEmptySeq
  <2> QED BY <1>4, <1>5, <2>1
<1>7. ASSUME NEW k \in Nat, k \in S PROVE k + 1 \in S
  <2> SUFFICES ASSUME m + (k + 1) <= hi
               PROVE  Joined(f, lo, m + (k + 1)) = Joined(f, lo, m) \o Joined(f, m + 1, m + (k + 1))
    OBVIOUS
  <2> DEFINE j == m + (k + 1)
  <2>1. j \in m..hi /\ j - 1 \in m..hi /\ j - 1 = m + k /\ lo <= j /\ m + 1 <= j /\ j \in lo..hi
    BY <1>1
  <2>2. Joined(f, lo, j - 1) = Joined(f, lo, m) \o Joined(f, m + 1, j - 1)
    BY <1>7, <2>1
  <2> HIDE DEF j
  <2>3. Joined(f, lo, j) = Joined(f, lo, j - 1) \o f[j]
    <3>1. Chain(A, f, lo, j) /\ lo <= j
      BY <1>2, <2>1
    <3> QED BY <3>1, JoinedStep, Zenon
  <2>4. Joined(f, m + 1, j) = Joined(f, m + 1, j - 1) \o f[j]
    <3>1. Chain(A, f, m + 1, j) /\ m + 1 <= j
      BY <1>2, <2>1
    <3> QED BY <3>1, JoinedStep, Zenon
  <2> DEFINE a == Joined(f, lo, m)  b == Joined(f, m + 1, j - 1)  x == f[j]
  <2>5. a \in Seq(A) /\ b \in Seq(A) /\ x \in Seq(A)
    BY <1>1, <1>3, <1>4, <2>1
  <2>6. Joined(f, lo, j) = (a \o b) \o x /\ Joined(f, m + 1, j) = b \o x
    BY <2>2, <2>3, <2>4
  <2> HIDE DEF a, b, x
  <2>7. (a \o b) \o x = a \o (b \o x)
    BY <2>5, ConcatAssociative
  <2>8. Joined(f, lo, j) = Joined(f, lo, m) \o Joined(f, m + 1, j)
    BY <2>6, <2>7 DEF a
  <2> QED BY <2>8 DEF j
<1> HIDE DEF S
<1>8. hi - m \in S
  <2>1. hi - m \in Nat
    BY <1>1
  <2> QED BY <1>6, <1>7, <2>1, Induction
<1>9. m + (hi - m) = hi
  BY <1>1
<1> QED BY <1>3, <1>4, <1>8, <1>9 DEF S

\* What is in one of the sequences is in the result.
LEMMA JoinedHas ==
  ASSUME NEW A, NEW f, NEW lo, NEW hi, Chain(A, f, lo, hi), NEW i \in lo..hi
  PROVE  Range(f[i]) \subseteq Range(Joined(f, lo, hi))
<1>1. lo \in Nat /\ hi \in Int /\ hi >= lo - 1 /\ f[i] \in Seq(A)
  BY DEF Chain
<1>2. Cut(A, f, lo, i, hi) /\ Chain(A, f, lo, i) /\ lo <= i
  BY <1>1 DEF Cut, Chain
<1>3. Joined(f, lo, i) = Joined(f, lo, i - 1) \o f[i] /\ Joined(f, lo, i - 1) \in Seq(A)
  BY <1>2, JoinedStep
<1>4. Range(f[i]) \subseteq Range(Joined(f, lo, i))
  BY <1>1, <1>3, RangeConcatenation
<1>5. /\ Joined(f, lo, hi) = Joined(f, lo, i) \o Joined(f, i + 1, hi)
      /\ Joined(f, lo, i) \in Seq(A) /\ Joined(f, i + 1, hi) \in Seq(A)
  BY <1>2, JoinedSplit
<1>6. Range(Joined(f, lo, i)) \subseteq Range(Joined(f, lo, hi))
  BY <1>5, RangeConcatenation
<1> QED BY <1>4, <1>6

-----------------------------------------------------------------------------
(* Transactions and entries *)

Cells == Seq(Nat)
Place == Nat \ {0}
Status == {"ok", "more", "err"}

\* A transaction that decodes lies within b, and still decodes when cells follow.
LEMMA TransactionExtends ==
  ASSUME NEW b \in Cells, NEW p \in Place, decodeTransaction(b, p) = "ok"
  PROVE  /\ p + 1 <= Len(b)
         /\ \A c \in Cells : decodeTransaction(b \o c, p) = "ok" /\ (b \o c)[p] = b[p]
BY DEF Cells, Place, decodeTransaction

\* The multiple of a number is not less than the number.
LEMMA Multiple ==
  ASSUME NEW m \in Nat \ {0}, NEW x \in Nat
  PROVE  x <= m * x
<1>1. m - 1 \in Nat /\ m = (m - 1) + 1
  OBVIOUS
<1>2. (m - 1) * x >= 0
  BY <1>1
<1>3. ((m - 1) + 1) * x = (m - 1) * x + x
  BY <1>1
<1>4. m * x = (m - 1) * x + x
  BY <1>1, <1>3
<1>5. (m - 1) * x \in Int
  BY <1>1
<1> QED BY <1>2, <1>4, <1>5

Entry == [st : Status, pos : Place, txs : Cells]

\* The result of decodeEntry, and where the transactions of the entry are.
LEMMA EntryFacts ==
  ASSUME NEW b \in Cells, NEW p \in Place
  PROVE  /\ decodeEntry(b, p) \in Entry
         /\ decodeEntry(b, p).st = "ok" =>
              /\ p <= Len(b) /\ b[p] \in Nat /\ p + 2 * b[p] <= Len(b)
              /\ b[p] <= CellBytes * (Len(b) - p)
              /\ \A i \in 1..b[p] : decodeTransaction(b, p + 2 * i - 1) = "ok"
              /\ decodeEntry(b, p) = [st |-> "ok", pos |-> p + 1 + 2 * b[p],
                                      txs |-> [i \in 1..b[p] |-> b[p + 2 * i - 1]]]
<1> DEFINE Tx(i) == p + 2 * i - 1
           broken == {i \in 1..b[p] : decodeTransaction(b, Tx(i)) # "ok"}
           Fail(s) == [st |-> s, pos |-> p, txs |-> <<>>]
           Ok == [st |-> "ok", pos |-> p + 1 + 2 * b[p], txs |-> [i \in 1..b[p] |-> b[Tx(i)]]]
<1>1. decodeEntry(b, p) = IF p > Len(b) THEN Fail("more")
                          ELSE IF b[p] > CellBytes * (Len(b) - p) THEN Fail("err")
                          ELSE IF broken # {} THEN Fail(decodeTransaction(b, Tx(Min(broken))))
                          ELSE Ok
  BY DEF decodeEntry
<1>2. \A q : decodeTransaction(b, q) \in Status
  BY DEF decodeTransaction, Status
<1>3. \A s \in Status : Fail(s) \in Entry /\ Fail(s).st = s
  BY DEF Entry, Place, Cells
<1>4. CASE p > Len(b)
  BY <1>1, <1>3, <1>4 DEF Status
<1>5. CASE p <= Len(b) /\ b[p] > CellBytes * (Len(b) - p)
  <2>1. ~(p > Len(b))
    BY <1>5 DEF Cells, Place
  <2> QED BY <1>1, <1>3, <1>5, <2>1 DEF Status
<1>6. CASE p <= Len(b) /\ ~(b[p] > CellBytes * (Len(b) - p)) /\ broken # {}
  <2>1. broken \subseteq Nat /\ b[p] \in Nat
    BY <1>6 DEF Cells, Place
  <2>2. Min(broken) \in broken
    BY <1>6, <2>1, MinOfNats
  <2>3. decodeTransaction(b, Tx(Min(broken))) # "ok"
    BY <2>2
  <2>4. ~(p > Len(b))
    BY <1>6 DEF Cells, Place
  <2>5. decodeEntry(b, p) = Fail(decodeTransaction(b, Tx(Min(broken))))
    BY <1>1, <1>6, <2>4
  <2> QED BY <1>2, <1>3, <2>3, <2>5
<1>7. CASE p <= Len(b) /\ ~(b[p] > CellBytes * (Len(b) - p)) /\ broken = {}
  <2>1. b[p] \in Nat /\ Len(b) \in Nat /\ p \in Nat /\ p # 0 /\ ~(p > Len(b))
    BY <1>7 DEF Cells, Place
  <2>2. decodeEntry(b, p) = Ok
    BY <1>1, <1>7, <2>1
  <2>3. ASSUME NEW i \in 1..b[p]
        PROVE  decodeTransaction(b, Tx(i)) = "ok" /\ Tx(i) \in Place /\ b[Tx(i)] \in Nat /\ p + 2 * i <= Len(b)
    <3>1. decodeTransaction(b, Tx(i)) = "ok" /\ Tx(i) \in Place
      BY <1>7, <2>1 DEF Place
    <3>2. Tx(i) + 1 <= Len(b)
      BY <3>1, TransactionExtends
    <3>3. Tx(i) \in 1..Len(b) /\ p + 2 * i <= Len(b)
      BY <2>1, <3>1, <3>2 DEF Place
    <3> QED BY <3>1, <3>3 DEF Cells
  <2>4. p + 2 * b[p] <= Len(b)
    <3>1. CASE b[p] = 0
      BY <2>1, <3>1
    <3>2. CASE b[p] # 0
      <4>1. b[p] \in 1..b[p]
        BY <2>1, <3>2
      <4> QED BY <2>3, <4>1
    <3> QED BY <3>1, <3>2
  <2>5. [i \in 1..b[p] |-> b[Tx(i)]] \in Cells
    <3>1. [i \in 1..b[p] |-> b[Tx(i)]] \in [1..b[p] -> Nat]
      <4>1. \A i \in 1..b[p] : b[Tx(i)] \in Nat
        BY <2>3
      <4> HIDE DEF Tx
      <4> QED BY <4>1
    <3> QED BY <2>1, <3>1, IsSeq, Zenon DEF Cells
  <2>6. b[p] <= CellBytes * (Len(b) - p)
    <3>1. CellBytes * (Len(b) - p) \in Int
      BY <2>1, DecoderAssumption
    <3> QED BY <1>7, <2>1, <3>1
  <2>7. Ok \in Entry
    BY <2>1, <2>5 DEF Entry, Place, Status
  <2> QED BY <1>7, <2>1, <2>2, <2>3, <2>4, <2>6, <2>7
<1>8. p <= Len(b) \/ p > Len(b)
  BY DEF Cells, Place
<1> QED BY <1>4, <1>5, <1>6, <1>7, <1>8

\* An entry that decodes decodes alike when cells follow.
LEMMA EntryExtends ==
  ASSUME NEW b \in Cells, NEW c \in Cells, NEW p \in Place, decodeEntry(b, p).st = "ok"
  PROVE  decodeEntry(b \o c, p) = decodeEntry(b, p)
<1> DEFINE d == b \o c
           Tx(i) == p + 2 * i - 1
<1>1. /\ p <= Len(b) /\ b[p] \in Nat /\ p + 2 * b[p] <= Len(b)
      /\ \A i \in 1..b[p] : decodeTransaction(b, Tx(i)) = "ok"
      /\ decodeEntry(b, p) = [st |-> "ok", pos |-> p + 1 + 2 * b[p],
                              txs |-> [i \in 1..b[p] |-> b[Tx(i)]]]
  BY EntryFacts
<1>2. d \in Cells /\ Len(d) >= Len(b) /\ Len(b) \in Nat /\ Len(d) \in Nat /\ d[p] = b[p]
  <2>1. d \in Seq(Nat) /\ Len(d) = Len(b) + Len(c) /\ \A i \in 1..Len(b) : d[i] = b[i]
    BY ConcatProperties DEF Cells
  <2>2. Len(b) \in Nat /\ Len(c) \in Nat /\ p \in 1..Len(b)
    BY <1>1 DEF Cells, Place
  <2> HIDE DEF d
  <2> QED BY <2>1, <2>2 DEF Cells
<1>3. ASSUME NEW i \in 1..b[p]
      PROVE  decodeTransaction(d, Tx(i)) = "ok" /\ d[Tx(i)] = b[Tx(i)]
  <2>1. Tx(i) \in Place
    BY <1>1 DEF Place
  <2> HIDE DEF Tx
  <2> QED BY <1>1, <2>1, TransactionExtends
<1>4. ~(p > Len(d)) /\ ~(d[p] > CellBytes * (Len(d) - p))
  <2>1. Len(d) - p \in Nat /\ b[p] <= Len(d) - p
    BY <1>1, <1>2 DEF Place
  <2> HIDE DEF d
  <2>2. Len(d) - p <= CellBytes * (Len(d) - p) /\ CellBytes * (Len(d) - p) \in Int
    <3>1. \A x \in Nat : x <= CellBytes * x /\ CellBytes * x \in Int
      BY DecoderAssumption, Multiple
    <3> QED BY <2>1, <3>1
  <2> QED BY <1>1, <1>2, <2>1, <2>2 DEF Place
<1> HIDE DEF d
<1>5. {i \in 1..d[p] : decodeTransaction(d, Tx(i)) # "ok"} = {}
  BY <1>2, <1>3
<1>6. decodeEntry(d, p) = [st |-> "ok", pos |-> p + 1 + 2 * d[p],
                           txs |-> [i \in 1..d[p] |-> d[Tx(i)]]]
  BY <1>4, <1>5 DEF decodeEntry
<1>7. [i \in 1..d[p] |-> d[Tx(i)]] = [i \in 1..b[p] |-> b[Tx(i)]]
  BY <1>2, <1>3
<1>8. decodeEntry(d, p) = decodeEntry(b, p)
  BY <1>1, <1>2, <1>6, <1>7
<1> QED BY <1>8 DEF d

Run == [st : Status, pos : Place, txs : Cells, n : Nat]
NoEntry(p) == [st |-> "ok", pos |-> p, txs |-> <<>>, n |-> 0]

\* One more entry: the types, and how far it goes.
LEMMA NextEntryFacts ==
  ASSUME NEW b \in Cells, NEW t \in Run
  PROVE  /\ NextEntry(b, t) \in Run
         /\ t.st # "ok" => NextEntry(b, t) = t
         /\ t.pos <= NextEntry(b, t).pos
         /\ t.pos <= Len(b) + 1 => NextEntry(b, t).pos <= Len(b) + 1
         /\ t.n <= NextEntry(b, t).n /\ NextEntry(b, t).n <= t.n + 1
<1> DEFINE e == decodeEntry(b, t.pos)
<1>1. t.pos \in Place /\ t.st \in Status /\ t.txs \in Cells /\ t.n \in Nat
  BY DEF Run
<1>2. e \in Entry /\ (e.st = "ok" => t.pos <= Len(b) /\ b[t.pos] \in Nat
         /\ t.pos + 2 * b[t.pos] <= Len(b) /\ e.pos = t.pos + 1 + 2 * b[t.pos])
  BY <1>1, EntryFacts
<1>3. NextEntry(b, t) = IF t.st # "ok" THEN t
                        ELSE IF e.st # "ok" THEN [t EXCEPT !.st = e.st]
                        ELSE [st |-> "ok", pos |-> e.pos, txs |-> t.txs \o e.txs, n |-> t.n + 1]
  BY DEF NextEntry
<1> HIDE DEF e
<1>4. Len(b) \in Nat /\ t.pos \in Nat
  BY <1>1 DEF Cells, Place
<1>5. e.st \in Status /\ e.pos \in Place /\ e.txs \in Cells
  BY <1>2 DEF Entry
<1>6. CASE t.st # "ok"
  BY <1>1, <1>3, <1>4, <1>6
<1>7. CASE t.st = "ok" /\ e.st # "ok"
  <2>1. NextEntry(b, t) = [t EXCEPT !.st = e.st]
    BY <1>3, <1>7
  <2>2. /\ NextEntry(b, t).st = e.st /\ NextEntry(b, t).pos = t.pos
        /\ NextEntry(b, t).txs = t.txs /\ NextEntry(b, t).n = t.n /\ NextEntry(b, t) \in Run
    BY <1>5, <2>1 DEF Run
  <2> QED BY <1>1, <1>4, <1>7, <2>2
<1>8. CASE t.st = "ok" /\ e.st = "ok"
  <2>1. NextEntry(b, t) = [st |-> "ok", pos |-> e.pos, txs |-> t.txs \o e.txs, n |-> t.n + 1]
    BY <1>3, <1>8
  <2>2. t.txs \o e.txs \in Cells
    BY <1>1, <1>5 DEF Cells
  <2>3. NextEntry(b, t) \in Run
    BY <1>1, <1>5, <2>1, <2>2 DEF Run, Status
  <2>4. NextEntry(b, t).pos = e.pos /\ NextEntry(b, t).n = t.n + 1
    BY <2>1
  <2>5. t.pos <= e.pos /\ e.pos <= Len(b) + 1
    BY <1>2, <1>4, <1>8
  <2>6. t.n <= t.n + 1 /\ t.n + 1 <= t.n + 1
    BY <1>1
  <2> QED BY <1>8, <2>3, <2>4, <2>5, <2>6
<1> QED BY <1>6, <1>7, <1>8

\* r[k] is the result for the first k of n entries from b[p] on.
Runs(r, b, p, n) == r[0] = NoEntry(p) /\ \A k \in 1..n : r[k] = NextEntry(b, r[k - 1])

\* DecodeEntries is the last of these results.
LEMMA EntriesRun ==
  ASSUME NEW b \in Cells, NEW p \in Place, NEW n \in Nat
  PROVE  \E r \in [0..n -> Run] : Runs(r, b, p, n) /\ DecodeEntries(b, p, n) = r[n]
<1> DEFINE step == [k \in 1..n |-> [t \in Run |-> NextEntry(b, t)]]
           P(g) == g = [i \in 0..n |-> IF i = 0 THEN NoEntry(p) ELSE NextEntry(b, g[i - 1])]
<1>1. NoEntry(p) \in Run
  BY DEF NoEntry, Run, Status, Cells
<1>2. ASSUME NEW k \in 1..n
      PROVE  step[k] \in [Run -> Run] /\ \A t \in Run : step[k][t] = NextEntry(b, t)
  <2>1. \A t \in Run : NextEntry(b, t) \in Run
    BY NextEntryFacts
  <2>2. step[k] = [t \in Run |-> NextEntry(b, t)]
    BY Zenon
  <2> QED BY <2>1, <2>2, Zenon
<1> HIDE DEF step
<1>3. MapsTo(step, n, Run)
  BY <1>2 DEF MapsTo
<1>4. PICK r \in [0..n -> Run] : Iterates(r, n, NoEntry(p), step)
  <2> DEFINE z == NoEntry(p)
  <2> HIDE DEF z
  <2>1. z \in Run
    BY <1>1 DEF z
  <2>2. \E r \in [0..n -> Run] : Iterates(r, n, z, step)
    BY <1>3, <2>1, Iteration
  <2> QED BY <2>2 DEF z
<1>5. Runs(r, b, p, n)
  <2>1. \A k \in 1..n : r[k - 1] \in Run /\ r[k] = step[k][r[k - 1]]
    BY <1>4 DEF Iterates
  <2> QED BY <1>2, <1>4, <2>1 DEF Runs, Iterates
<1> DEFINE g0 == [i \in 0..n |-> r[i]]
<1>6. ASSUME NEW i \in 0..n PROVE g0[i] = IF i = 0 THEN NoEntry(p) ELSE NextEntry(b, g0[i - 1])
  <2>1. CASE i = 0
    BY <1>5, <2>1 DEF Runs
  <2>2. CASE i # 0
    <3>1. i \in 1..n /\ i - 1 \in 0..n
      BY <2>2
    <3>2. g0[i] = r[i] /\ g0[i - 1] = r[i - 1]
      BY <3>1
    <3> QED BY <1>5, <2>2, <3>1, <3>2 DEF Runs
  <2> QED BY <2>1, <2>2
<1>7. P(g0)
  <2>1. g0 = [i \in 0..n |-> g0[i]]
    OBVIOUS
  <2> HIDE DEF g0
  <2> QED BY <1>6, <2>1, Zenon
<1>8. DecodeEntries(b, p, n) = (CHOOSE h : P(h))[n]
  BY Zenon DEF DecodeEntries, NoEntry
<1> HIDE DEF P, g0
<1> DEFINE h == CHOOSE x : P(x)
<1>9. P(h) /\ DecodeEntries(b, p, n) = h[n]
  BY <1>7, <1>8, Zenon
<1> HIDE DEF h
<1>10. \A i \in 0..n : h[i] = IF i = 0 THEN NoEntry(p) ELSE NextEntry(b, h[i - 1])
  BY <1>9, Zenon DEF P
<1>11. InStep(h, r, n)
  <2>1. 0 \in 0..n /\ \A k \in 1..n : k \in 0..n /\ k # 0
    OBVIOUS
  <2>2. h[0] = r[0]
    BY <1>5, <1>10, <2>1 DEF Runs
  <2>3. ASSUME NEW k \in 1..n, h[k - 1] = r[k - 1] PROVE h[k] = r[k]
    BY <1>5, <1>10, <2>1, <2>3 DEF Runs
  <2> QED BY <2>2, <2>3 DEF InStep
<1>12. h[n] = r[n]
  <2>1. \A x, y : InStep(x, y, n) => \A k \in 0..n : x[k] = y[k]
    BY StayEqual
  <2>2. n \in 0..n
    OBVIOUS
  <2> QED BY <1>11, <2>1, <2>2, Zenon
<1> QED BY <1>5, <1>9, <1>12

\* The result of DecodeEntries, and how far it goes.
LEMMA EntriesFacts ==
  ASSUME NEW b \in Cells, NEW p \in Place, NEW n \in Nat
  PROVE  /\ DecodeEntries(b, p, n) \in Run
         /\ p <= DecodeEntries(b, p, n).pos
         /\ p <= Len(b) + 1 => DecodeEntries(b, p, n).pos <= Len(b) + 1
         /\ DecodeEntries(b, p, n).n <= n
<1>1. PICK r \in [0..n -> Run] : Runs(r, b, p, n) /\ DecodeEntries(b, p, n) = r[n]
  BY EntriesRun
<1> DEFINE S == {k \in Nat : k <= n => /\ p <= r[k].pos
                                       /\ p <= Len(b) + 1 => r[k].pos <= Len(b) + 1
                                       /\ r[k].n <= k}
<1>2. p \in Nat /\ Len(b) \in Nat
  BY DEF Cells, Place
<1>3. 0 \in S
  BY <1>1, <1>2 DEF Runs, NoEntry
<1>4. ASSUME NEW k \in Nat, k \in S PROVE k + 1 \in S
  <2> SUFFICES ASSUME k + 1 <= n
               PROVE  /\ p <= r[k + 1].pos
                      /\ p <= Len(b) + 1 => r[k + 1].pos <= Len(b) + 1
                      /\ r[k + 1].n <= k + 1
    OBVIOUS
  <2>1. k + 1 \in 1..n /\ k \in 0..n /\ k + 1 \in 0..n /\ (k + 1) - 1 = k
    OBVIOUS
  <2>2. r[k] \in Run /\ r[k + 1] \in Run /\ r[k + 1] = NextEntry(b, r[k])
    BY <1>1, <2>1 DEF Runs
  <2> DEFINE t == r[k]  u == r[k + 1]
  <2>3. /\ t.pos <= u.pos /\ (t.pos <= Len(b) + 1 => u.pos <= Len(b) + 1)
        /\ u.n <= t.n + 1
    BY <2>2, NextEntryFacts
  <2>4. t.pos \in Nat /\ u.pos \in Nat /\ t.n \in Nat /\ u.n \in Nat
    BY <2>2 DEF Run, Place
  <2>5. p <= t.pos /\ (p <= Len(b) + 1 => t.pos <= Len(b) + 1) /\ t.n <= k
    BY <1>4
  <2> HIDE DEF t, u
  <2>6. p <= u.pos /\ (p <= Len(b) + 1 => u.pos <= Len(b) + 1) /\ u.n <= k + 1
    BY <1>2, <2>3, <2>4, <2>5
  <2> QED BY <2>6 DEF u
<1> HIDE DEF S
<1>5. n \in S
  BY <1>3, <1>4, Induction
<1>6. n \in 0..n /\ r[n] \in Run
  OBVIOUS
<1> QED BY <1>1, <1>5, <1>6 DEF S

\* Entries that decode decode alike when cells follow.
LEMMA EntriesExtend ==
  ASSUME NEW b \in Cells, NEW c \in Cells, NEW p \in Place, NEW n \in Nat,
         DecodeEntries(b, p, n).st = "ok"
  PROVE  DecodeEntries(b \o c, p, n) = DecodeEntries(b, p, n)
<1> DEFINE d == b \o c
<1>1. d \in Cells
  BY ConcatProperties DEF Cells
<1>2. \A t \in Place : decodeEntry(b, t).st = "ok" => decodeEntry(d, t) = decodeEntry(b, t)
  BY EntryExtends
<1> HIDE DEF d
<1>3. PICK r \in [0..n -> Run] : Runs(r, b, p, n) /\ DecodeEntries(b, p, n) = r[n]
  BY EntriesRun
<1>4. PICK q \in [0..n -> Run] : Runs(q, d, p, n) /\ DecodeEntries(d, p, n) = q[n]
  BY <1>1, EntriesRun
<1> DEFINE S == {k \in Nat : k <= n => (r[k].st = "ok" => q[k] = r[k])}
<1>5. 0 \in S
  BY <1>3, <1>4 DEF Runs
<1>6. ASSUME NEW k \in Nat, k \in S PROVE k + 1 \in S
  <2> SUFFICES ASSUME k + 1 <= n, r[k + 1].st = "ok" PROVE q[k + 1] = r[k + 1]
    OBVIOUS
  <2>1. k + 1 \in 1..n /\ k \in 0..n /\ (k + 1) - 1 = k
    OBVIOUS
  <2>2. r[k] \in Run /\ r[k + 1] = NextEntry(b, r[k]) /\ q[k + 1] = NextEntry(d, q[k])
    BY <1>3, <1>4, <2>1 DEF Runs
  <2>3. r[k].st = "ok"
    BY <2>2, NextEntryFacts
  <2>4. q[k] = r[k]
    BY <1>6, <2>3
  <2> DEFINE t == r[k]
  <2>5. t.pos \in Place /\ t.st = "ok" /\ t \in Run
    BY <2>2, <2>3 DEF Run
  <2>6. r[k + 1] = NextEntry(b, t) /\ q[k + 1] = NextEntry(d, t) /\ NextEntry(b, t).st = "ok"
    BY <2>2, <2>4
  <2> HIDE DEF t
  <2>7. decodeEntry(b, t.pos).st = "ok"
    <3>1. ASSUME decodeEntry(b, t.pos).st # "ok" PROVE FALSE
      <4>1. NextEntry(b, t) = [t EXCEPT !.st = decodeEntry(b, t.pos).st]
        BY <2>5, <3>1 DEF NextEntry
      <4>2. NextEntry(b, t).st = decodeEntry(b, t.pos).st
        BY <2>5, <4>1 DEF Run
      <4> QED BY <2>6, <3>1, <4>2
    <3> QED BY <3>1
  <2>8. decodeEntry(d, t.pos) = decodeEntry(b, t.pos)
    BY <1>2, <2>5, <2>7
  <2>9. NextEntry(d, t) = NextEntry(b, t)
    BY <2>8 DEF NextEntry
  <2> QED BY <2>6, <2>9
<1> HIDE DEF S
<1>7. n \in S
  BY <1>5, <1>6, Induction
<1>8. DecodeEntries(d, p, n) = DecodeEntries(b, p, n)
  BY <1>3, <1>4, <1>7 DEF S
<1> QED BY <1>8 DEF d

-----------------------------------------------------------------------------
(* Batches *)

\* Where the batch at b[p] ends when it decodes.
LEMMA BatchAt ==
  ASSUME NEW b \in Cells, NEW p \in Place, validateVecPrefix(b, p)
  PROVE  /\ p <= Len(b) /\ b[p] \in Nat
         /\ DecodeEntries(b, p + 1, b[p]) \in Run
         /\ DecodeEntries(b, p + 1, b[p]).pos \in (p + 1)..(Len(b) + 1)
         /\ DecodeEntries(b, p + 1, b[p]).txs \in Cells
<1>1. p <= Len(b) /\ p \in Nat /\ p # 0 /\ Len(b) \in Nat
  BY DEF validateVecPrefix, Cells, Place
<1>2. p \in 1..Len(b)
  BY <1>1
<1>3. b[p] \in Nat
  BY <1>2 DEF Cells
<1>4. p + 1 \in Place /\ p + 1 <= Len(b) + 1
  BY <1>1 DEF Place
<1> DEFINE q == p + 1  m == b[p]
<1>5. q \in Place /\ q <= Len(b) + 1 /\ m \in Nat
  BY <1>3, <1>4
<1> HIDE DEF q, m
<1>6. /\ DecodeEntries(b, q, m) \in Run
      /\ q <= DecodeEntries(b, q, m).pos
      /\ DecodeEntries(b, q, m).pos <= Len(b) + 1
  BY <1>5, EntriesFacts
<1>7. DecodeEntries(b, q, m).pos \in Nat /\ DecodeEntries(b, q, m).txs \in Cells
  BY <1>6 DEF Run, Place
<1> QED BY <1>1, <1>3, <1>6, <1>7 DEF q, m

\* A whole batch at b[p].
Whole(b, p) == validateVecPrefix(b, p) /\ DecodeEntries(b, p + 1, b[p]).st = "ok"

\* h[p] is what DecodeConcatenated gives from b[p] on.
From(h, b) ==
  \A p \in 1..(Len(b) + 1) :
    h[p] = IF Whole(b, p)
           THEN DecodeEntries(b, p + 1, b[p]).txs \o h[DecodeEntries(b, p + 1, b[p]).pos]
           ELSE <<>>

LEMMA FromExists ==
  ASSUME NEW b \in Cells
  PROVE  \E h \in [1..(Len(b) + 1) -> Cells] : From(h, b)
<1> DEFINE n == Len(b)
           E(k) == DecodeEntries(b, (n + 1 - k) + 1, b[n + 1 - k])
           Given == {k \in 0..n : ~Whole(b, n + 1 - k)}
           base == [k \in 0..n |-> <<>>]
           prev == [k \in 0..n |-> n + 1 - E(k).pos]
           step == [k \in 0..n |-> [t \in Cells |-> E(k).txs \o t]]
<1>1. n \in Nat /\ <<>> \in Cells
  BY DEF Cells
<1>2. ASSUME NEW k \in 0..n, k \notin Given
      PROVE  E(k).pos \in (n + 2 - k)..(n + 1) /\ E(k).txs \in Cells
  <2>1. n + 1 - k \in Place /\ Whole(b, n + 1 - k)
    BY <1>1, <1>2 DEF Place
  <2> DEFINE p == n + 1 - k
  <2>2. p \in Place /\ validateVecPrefix(b, p) /\ p + 1 = n + 2 - k
    BY <1>1, <2>1 DEF Whole
  <2> HIDE DEF p
  <2>3. DecodeEntries(b, p + 1, b[p]).pos \in (p + 1)..(n + 1) /\ DecodeEntries(b, p + 1, b[p]).txs \in Cells
    BY <2>2, BatchAt
  <2>4. (p + 1)..(n + 1) = (n + 2 - k)..(n + 1)
    BY <2>2
  <2> QED BY <2>3, <2>4 DEF p
<1>3. WellDefined(Cells, n, Given, base, step, prev)
  <2>1. ASSUME NEW k \in 0..n PROVE base[k] \in Cells
    BY <1>1
  <2>2. ASSUME NEW k \in 0..n, k \notin Given
        PROVE  prev[k] \in 0..(k - 1) /\ step[k] \in [Cells -> Cells]
    <3>1. E(k).pos \in (n + 2 - k)..(n + 1) /\ E(k).txs \in Cells
      BY <1>2, <2>2
    <3>2. prev[k] = n + 1 - E(k).pos
      BY Zenon
    <3>3. step[k] = [t \in Cells |-> E(k).txs \o t]
      BY Zenon
    <3> HIDE DEF E, prev, step, Given
    <3>4. prev[k] \in 0..(k - 1)
      BY <1>1, <3>1, <3>2
    <3>5. \A t \in Cells : E(k).txs \o t \in Cells
      BY <3>1, ConcatProperties DEF Cells
    <3> QED BY <3>3, <3>4, <3>5, Zenon
  <2> HIDE DEF base, step, prev, Given
  <2> QED BY <2>1, <2>2 DEF WellDefined
<1>4. ASSUME NEW k \in 0..n PROVE base[k] = <<>> /\ prev[k] = n + 1 - E(k).pos
  BY Zenon
<1>5. ASSUME NEW k \in 0..n, NEW t \in Cells PROVE step[k][t] = E(k).txs \o t
  BY Zenon
<1>6. ASSUME NEW k \in 0..n PROVE k \in Given <=> ~Whole(b, n + 1 - k)
  OBVIOUS
<1> HIDE DEF Given, base, prev, step
<1>7. \E r \in [0..n -> Cells] : Obeys(r, n, Given, base, step, prev)
  <2> HIDE DEF n
  <2> QED BY <1>1, <1>3, Recursion
<1>8. PICK r \in [0..n -> Cells] : Obeys(r, n, Given, base, step, prev)
  BY <1>7
<1> DEFINE h == [p \in 1..(n + 1) |-> r[n + 1 - p]]
<1>9. h \in [1..(n + 1) -> Cells] /\ \A p \in 1..(n + 1) : h[p] = r[n + 1 - p]
  BY <1>1
<1> HIDE DEF h
<1>10. ASSUME NEW p \in 1..(n + 1)
       PROVE  h[p] = IF Whole(b, p)
                     THEN DecodeEntries(b, p + 1, b[p]).txs \o h[DecodeEntries(b, p + 1, b[p]).pos]
                     ELSE <<>>
  <2> DEFINE k == n + 1 - p
             e == DecodeEntries(b, p + 1, b[p])
  <2>1. k \in 0..n /\ n + 1 - k = p
    BY <1>1
  <2>2. E(k) = e
    BY <2>1
  <2>3. r[k] = IF k \in Given THEN base[k] ELSE step[k][r[prev[k]]]
    BY <1>8, <2>1 DEF Obeys
  <2>4. h[p] = r[k]
    BY <1>9
  <2>5. CASE ~Whole(b, p)
    BY <1>4, <1>6, <2>1, <2>3, <2>4, <2>5
  <2>6. CASE Whole(b, p)
    <3>1. k \notin Given
      BY <1>6, <2>1, <2>6
    <3>2. e.pos \in (n + 2 - k)..(n + 1) /\ e.txs \in Cells
      BY <1>2, <2>1, <2>2, <3>1
    <3>3. prev[k] = n + 1 - e.pos
      BY <1>4, <2>1, <2>2
    <3> HIDE DEF e
    <3>4. e.pos \in 1..(n + 1) /\ prev[k] \in 0..n
      BY <1>1, <2>1, <3>2, <3>3
    <3>5. r[prev[k]] \in Cells /\ h[e.pos] = r[prev[k]]
      BY <1>9, <3>3, <3>4
    <3>6. step[k][r[prev[k]]] = e.txs \o r[prev[k]]
      <4>1. step[k][r[prev[k]]] = E(k).txs \o r[prev[k]]
        BY <1>5, <2>1, <3>5, Zenon
      <4> QED BY <2>2, <4>1, Zenon
    <3>7. h[p] = e.txs \o h[e.pos]
      BY <2>3, <2>4, <3>1, <3>5, <3>6
    <3> QED BY <2>6, <3>7 DEF e
  <2> QED BY <2>5, <2>6
<1> QED BY <1>9, <1>10 DEF From

\* There is only one such function.
LEMMA FromUnique ==
  ASSUME NEW b \in Cells, NEW g, NEW h, From(g, b), From(h, b)
  PROVE  \A p \in 1..(Len(b) + 1) : g[p] = h[p]
<1> DEFINE n == Len(b)
           S == {m \in Nat : m <= n + 1 => \A p \in (n + 2 - m)..(n + 1) : g[p] = h[p]}
<1>1. n \in Nat
  BY DEF Cells
<1>2. 0 \in S
  BY <1>1
<1>3. ASSUME NEW m \in Nat, m \in S PROVE m + 1 \in S
  <2> SUFFICES ASSUME m + 1 <= n + 1, NEW p \in (n + 2 - (m + 1))..(n + 1) PROVE g[p] = h[p]
    OBVIOUS
  <2>1. \A q \in (n + 2 - m)..(n + 1) : g[q] = h[q]
    BY <1>1, <1>3
  <2> HIDE DEF S
  <2>2. p \in 1..(n + 1) /\ p \in Place /\ (p + 1)..(n + 1) \subseteq (n + 2 - m)..(n + 1)
    BY <1>1 DEF Place
  <2> DEFINE e == DecodeEntries(b, p + 1, b[p])
  <2>3. /\ g[p] = IF Whole(b, p) THEN e.txs \o g[e.pos] ELSE <<>>
        /\ h[p] = IF Whole(b, p) THEN e.txs \o h[e.pos] ELSE <<>>
    BY <2>2 DEF From
  <2>4. ASSUME Whole(b, p) PROVE g[e.pos] = h[e.pos]
    <3>1. e.pos \in (p + 1)..(n + 1)
      BY <2>2, <2>4, BatchAt DEF Whole
    <3> HIDE DEF e
    <3> QED BY <2>1, <2>2, <3>1
  <2> HIDE DEF e
  <2> QED BY <2>3, <2>4
<1> HIDE DEF S
<1>4. n + 1 \in S
  <2>1. n + 1 \in Nat
    BY <1>1
  <2> QED BY <1>2, <1>3, <2>1, Induction
<1>5. n + 2 - (n + 1) = 1
  BY <1>1
<1> QED BY <1>1, <1>4, <1>5 DEF S

\* DecodeConcatenated begins with the batch at the front, if it decodes.
LEMMA ConcatenatedFacts ==
  ASSUME NEW b \in Cells
  PROVE  /\ DecodeConcatenated(b) \in Cells
         /\ Whole(b, 1) => Range(DecodeEntries(b, 2, b[1]).txs) \subseteq Range(DecodeConcatenated(b))
<1> DEFINE n == Len(b)
           V(g, p) == IF validateVecPrefix(b, p) /\ DecodeEntries(b, p + 1, b[p]).st = "ok"
                      THEN DecodeEntries(b, p + 1, b[p]).txs \o g[DecodeEntries(b, p + 1, b[p]).pos]
                      ELSE <<>>
           P(g) == g = [p \in 1..(n + 1) |-> V(g, p)]
<1>1. n \in Nat /\ 1 \in 1..(n + 1) /\ 1 \in Place /\ 1 + 1 = 2
  BY DEF Cells, Place
<1>2. \A g : From(g, b) <=> \A p \in 1..(n + 1) : g[p] = V(g, p)
  BY Zenon DEF From, Whole
<1>3. PICK f \in [1..(n + 1) -> Cells] : From(f, b)
  BY FromExists
<1>4. P(f)
  <2>1. f = [p \in 1..(n + 1) |-> f[p]]
    OBVIOUS
  <2>2. \A p \in 1..(n + 1) : f[p] = V(f, p)
    BY <1>2, <1>3, Zenon
  <2> HIDE DEF V
  <2> QED BY <2>1, <2>2, Zenon
<1>5. DecodeConcatenated(b) = (CHOOSE g : P(g))[1]
  BY Zenon DEF DecodeConcatenated
<1> HIDE DEF P, V
<1> DEFINE h == CHOOSE g : P(g)
<1>6. P(h) /\ DecodeConcatenated(b) = h[1]
  BY <1>4, <1>5, Zenon
<1> HIDE DEF h
<1>7. From(h, b)
  <2>1. \A p \in 1..(n + 1) : h[p] = V(h, p)
    BY <1>6, Zenon DEF P
  <2> QED BY <1>2, <2>1, Zenon
<1>8. h[1] = f[1]
  <2>1. \A p \in 1..(n + 1) : h[p] = f[p]
    BY <1>3, <1>7, FromUnique, Zenon
  <2> QED BY <1>1, <2>1
<1>9. f[1] \in Cells
  BY <1>1
<1>10. ASSUME Whole(b, 1) PROVE Range(DecodeEntries(b, 2, b[1]).txs) \subseteq Range(f[1])
  <2> DEFINE e == DecodeEntries(b, 2, b[1])
  <2>1. f[1] = e.txs \o f[e.pos]
    <3>1. f[1] = DecodeEntries(b, 1 + 1, b[1]).txs \o f[DecodeEntries(b, 1 + 1, b[1]).pos]
      BY <1>1, <1>3, <1>10, Zenon DEF From
    <3> QED BY <1>1, <3>1
  <2>2. e.txs \in Cells /\ e.pos \in 2..(n + 1)
    BY <1>1, <1>10, BatchAt DEF Whole
  <2> HIDE DEF e
  <2>3. e.txs \in Seq(Nat) /\ f[e.pos] \in Seq(Nat)
    BY <1>1, <2>2 DEF Cells
  <2>4. Range(e.txs) \subseteq Range(f[1])
    BY <2>1, <2>3, RangeConcatenation
  <2> QED BY <2>4 DEF e
<1> QED BY <1>6, <1>8, <1>9, <1>10

\* A whole batch at the front is still whole when cells follow.
LEMMA WholeExtends ==
  ASSUME NEW b \in Cells, NEW c \in Cells, validateVecPrefix(b, 1),
         DecodeEntries(b, 2, b[1]).st = "ok"
  PROVE  Whole(b \o c, 1) /\ DecodeEntries(b \o c, 2, (b \o c)[1]) = DecodeEntries(b, 2, b[1])
<1> DEFINE d == b \o c
<1>1. 1 \in Place /\ 2 \in Place /\ 1 + 1 = 2
  BY DEF Place
<1>2. 1 <= Len(b) /\ b[1] \in Nat
  BY <1>1, BatchAt
<1>3. DecodeEntries(d, 2, b[1]) = DecodeEntries(b, 2, b[1])
  BY <1>1, <1>2, EntriesExtend
<1>4. d \in Cells /\ Len(d) = Len(b) + Len(c) /\ \A i \in 1..Len(b) : d[i] = b[i]
  BY ConcatProperties DEF Cells
<1>5. Len(b) \in Nat /\ Len(c) \in Nat
  BY DEF Cells
<1> HIDE DEF d
<1>6. 1 \in 1..Len(b) /\ d[1] = b[1]
  BY <1>2, <1>4, <1>5
<1>7. validateVecPrefix(d, 1)
  <2>1. b[1] <= maxEntryCount /\ b[1] <= Len(b) - 1 + 1
    BY DEF validateVecPrefix
  <2> QED BY <1>2, <1>4, <1>5, <1>6, <2>1 DEF validateVecPrefix
<1>8. Whole(d, 1) /\ DecodeEntries(d, 2, d[1]) = DecodeEntries(b, 2, b[1])
  BY <1>1, <1>3, <1>6, <1>7 DEF Whole
<1> QED BY <1>8 DEF d

\* The transactions of a batch are among those of any sequence of cells it begins.
LEMMA BatchInConcatenated ==
  ASSUME NEW b \in Cells, NEW c \in Cells
  PROVE  Range(DecodeBatch(b).txs) \subseteq Range(DecodeConcatenated(b \o c))
<1> DEFINE e == DecodeEntries(b, 2, b[1])
           d == b \o c
<1>1. DecodeBatch(b) = IF validateVecPrefix(b, 1) /\ e.st = "ok" /\ e.txs # <<>>
                       THEN [st |-> "ok", txs |-> e.txs] ELSE [st |-> "err", txs |-> <<>>]
  BY DEF DecodeBatch
<1>2. CASE validateVecPrefix(b, 1) /\ e.st = "ok" /\ e.txs # <<>>
  <2>1. DecodeBatch(b).txs = e.txs
    BY <1>1, <1>2
  <2>2. Whole(d, 1) /\ DecodeEntries(d, 2, d[1]) = e
    BY <1>2, WholeExtends
  <2>3. d \in Cells
    BY ConcatProperties DEF Cells
  <2> HIDE DEF d
  <2>4. Range(DecodeEntries(d, 2, d[1]).txs) \subseteq Range(DecodeConcatenated(d))
    BY <2>2, <2>3, ConcatenatedFacts
  <2>5. Range(e.txs) \subseteq Range(DecodeConcatenated(d))
    BY <2>2, <2>4
  <2> HIDE DEF e
  <2> QED BY <2>1, <2>5 DEF d
<1>3. CASE ~(validateVecPrefix(b, 1) /\ e.st = "ok" /\ e.txs # <<>>)
  <2>1. DecodeBatch(b).txs = <<>>
    BY <1>1, <1>3
  <2> QED BY <2>1 DEF Range
<1> QED BY <1>2, <1>3

\* Decoding a batch with cells after it gives at least its transactions.
LEMMA BatchExtends ==
  ASSUME NEW b \in Cells, NEW c \in Cells
  PROVE  Range(DecodeBatch(b).txs) \subseteq Range(DecodeBatch(b \o c).txs)
<1> DEFINE e == DecodeEntries(b, 2, b[1])
           d == b \o c
<1>1. DecodeBatch(b) = IF validateVecPrefix(b, 1) /\ e.st = "ok" /\ e.txs # <<>>
                       THEN [st |-> "ok", txs |-> e.txs] ELSE [st |-> "err", txs |-> <<>>]
  BY DEF DecodeBatch
<1>2. CASE validateVecPrefix(b, 1) /\ e.st = "ok" /\ e.txs # <<>>
  <2>1. Whole(d, 1) /\ DecodeEntries(d, 2, d[1]) = e
    BY <1>2, WholeExtends
  <2>2. validateVecPrefix(d, 1)
    BY <2>1 DEF Whole
  <2>3. DecodeBatch(d) = [st |-> "ok", txs |-> e.txs]
    BY <1>2, <2>1, <2>2 DEF DecodeBatch
  <2>4. DecodeBatch(d).txs = DecodeBatch(b).txs
    BY <1>1, <1>2, <2>3
  <2> QED BY <2>4
<1>3. CASE ~(validateVecPrefix(b, 1) /\ e.st = "ok" /\ e.txs # <<>>)
  <2>1. DecodeBatch(b).txs = <<>>
    BY <1>1, <1>3
  <2> QED BY <2>1 DEF Range
<1> QED BY <1>2, <1>3

\* The transactions of a batch are numbers.
LEMMA BatchType ==
  ASSUME NEW b \in Cells
  PROVE  DecodeBatch(b).txs \in Cells
<1> DEFINE e == DecodeEntries(b, 2, b[1])
<1>1. CASE validateVecPrefix(b, 1) /\ e.st = "ok" /\ e.txs # <<>>
  <2>1. 1 \in Place /\ 1 + 1 = 2
    BY DEF Place
  <2>2. e.txs \in Cells
    BY <1>1, <2>1, BatchAt
  <2> QED BY <1>1, <2>2 DEF DecodeBatch
<1>2. CASE ~(validateVecPrefix(b, 1) /\ e.st = "ok" /\ e.txs # <<>>)
  BY <1>2 DEF DecodeBatch, Cells
<1> QED BY <1>1, <1>2

-----------------------------------------------------------------------------
(* StreamingDecoder *)

\* A streaming decoder has not yielded more entries than it expects.
DecoderOK(d) ==
  /\ d \in [buffer : Cells, cursor : Place, expectedCount : Nat \cup {-1}, entriesYielded : Nat]
  /\ IF d.expectedCount = -1 THEN d.entriesYielded = 0 ELSE d.entriesYielded <= d.expectedCount

LEMMA NewDecoderOK == DecoderOK(NewStreamingDecoder) /\ NewStreamingDecoder.buffer = <<>>
BY DEF DecoderOK, NewStreamingDecoder, Cells, Place

\* Push keeps it so, and appends the payload to the buffer.
LEMMA PushPayloadFacts ==
  ASSUME NEW d, DecoderOK(d), NEW payload \in Cells
  PROVE  /\ PushPayload(d, payload).txs \in Cells
         /\ PushPayload(d, payload).dec.buffer = d.buffer \o payload
         /\ ~PushPayload(d, payload).err => DecoderOK(PushPayload(d, payload).dec)
<1> DEFINE buffer == d.buffer \o payload
           counts == d.expectedCount = -1 /\ Len(buffer) >= d.cursor
           want == IF counts THEN buffer[d.cursor] ELSE d.expectedCount
           cursor == IF counts THEN d.cursor + 1 ELSE d.cursor
           rest == DecodeEntries(buffer, cursor, want - d.entriesYielded)
           appended == [d EXCEPT !.buffer = buffer]
           r == PushPayload(d, payload)
<1>1. /\ d \in [buffer : Cells, cursor : Place, expectedCount : Nat \cup {-1}, entriesYielded : Nat]
      /\ d.buffer \in Cells /\ d.cursor \in Place /\ d.entriesYielded \in Nat
      /\ d.expectedCount \in Nat \cup {-1}
      /\ d.expectedCount = -1 => d.entriesYielded = 0
      /\ d.expectedCount # -1 => d.entriesYielded <= d.expectedCount
  BY DEF DecoderOK
<1>2. buffer \in Cells
  BY <1>1, ConcatProperties DEF Cells
<1>3. r = IF counts /\ want > maxEntryCount
          THEN [dec |-> appended, txs |-> <<>>, err |-> TRUE]
          ELSE IF want = -1
          THEN [dec |-> appended, txs |-> <<>>, err |-> FALSE]
          ELSE [dec |-> [buffer |-> buffer, cursor |-> rest.pos, expectedCount |-> want,
                         entriesYielded |-> d.entriesYielded + rest.n],
                txs |-> IF rest.st = "err" THEN <<>> ELSE rest.txs,
                err |-> rest.st = "err"]
  BY DEF PushPayload
<1> HIDE DEF buffer
<1>4. /\ cursor \in Place /\ want \in Nat \cup {-1} /\ (want = -1 => d.expectedCount = -1)
      /\ want # -1 => want \in Nat /\ d.entriesYielded <= want
  <2>1. CASE counts
    <3>1. d.cursor \in 1..Len(buffer)
      BY <1>1, <1>2, <2>1 DEF Place, Cells
    <3>2. buffer[d.cursor] \in Nat
      BY <1>2, <3>1 DEF Cells
    <3>3. want = buffer[d.cursor] /\ cursor = d.cursor + 1
      BY <2>1
    <3> HIDE DEF want, cursor
    <3> QED BY <1>1, <2>1, <3>2, <3>3 DEF Place
  <2>2. CASE ~counts
    BY <1>1, <2>2
  <2> QED BY <2>1, <2>2
<1>5. appended.buffer = buffer /\ appended.expectedCount = d.expectedCount /\ appended.entriesYielded = d.entriesYielded
      /\ appended \in [buffer : Cells, cursor : Place, expectedCount : Nat \cup {-1}, entriesYielded : Nat]
  BY <1>1, <1>2
<1> HIDE DEF r, want, cursor, counts, appended
<1>6. CASE counts /\ want > maxEntryCount
  <2>1. r = [dec |-> appended, txs |-> <<>>, err |-> TRUE]
    BY <1>3, <1>6
  <2>2. r.txs = <<>> /\ r.dec = appended /\ r.err
    BY <2>1
  <2> QED BY <1>5, <2>2 DEF r, Cells, buffer
<1>7. CASE ~(counts /\ want > maxEntryCount) /\ want = -1
  <2>1. r = [dec |-> appended, txs |-> <<>>, err |-> FALSE]
    BY <1>3, <1>7
  <2>2. r.txs = <<>> /\ r.dec = appended
    BY <2>1
  <2>3. DecoderOK(appended)
    BY <1>1, <1>4, <1>5, <1>7 DEF DecoderOK
  <2> QED BY <1>5, <2>2, <2>3 DEF r, Cells, buffer
<1>8. CASE ~(counts /\ want > maxEntryCount) /\ want # -1
  <2> DEFINE dec == [buffer |-> buffer, cursor |-> rest.pos, expectedCount |-> want,
                     entriesYielded |-> d.entriesYielded + rest.n]
  <2>1. r = [dec |-> dec, txs |-> IF rest.st = "err" THEN <<>> ELSE rest.txs, err |-> rest.st = "err"]
    BY <1>3, <1>8
  <2> DEFINE m == want - d.entriesYielded
  <2>2. m \in Nat
    BY <1>1, <1>4, <1>8
  <2>3. rest \in Run /\ rest.n <= m
    <3> HIDE DEF m
    <3>1. DecodeEntries(buffer, cursor, m) \in Run /\ DecodeEntries(buffer, cursor, m).n <= m
      BY <1>2, <1>4, <2>2, EntriesFacts
    <3> QED BY <3>1 DEF m
  <2> HIDE DEF rest
  <2>4. rest.pos \in Place /\ rest.txs \in Cells /\ rest.n \in Nat
    BY <2>3 DEF Run
  <2>5. DecoderOK(dec)
    <3>1. want \in Nat /\ d.entriesYielded + rest.n \in Nat /\ d.entriesYielded + rest.n <= want
      BY <1>1, <1>4, <1>8, <2>3, <2>4
    <3> QED BY <1>2, <1>8, <2>4, <3>1 DEF DecoderOK
  <2>6. r.dec = dec /\ dec.buffer = buffer /\ r.txs \in Cells
    <3>1. <<>> \in Cells
      BY DEF Cells
    <3> QED BY <2>1, <2>4, <3>1
  <2> QED BY <2>5, <2>6 DEF r, buffer
<1> QED BY <1>6, <1>7, <1>8

=============================================================================
