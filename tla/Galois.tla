------------------------------- MODULE Galois -------------------------------
(***************************************************************************)
(* internal/galois: arithmetic in GF(2^8) by logarithm tables, and         *)
(* matrices over it.  A matrix is a sequence of rows; row and column n of  *)
(* the code are row and column n + 1 here.  Errors are values: Singular    *)
(* stands for ErrSingular.  Only model checking uses this module.          *)
(***************************************************************************)
EXTENDS Integers, Sequences, TLC, FiniteSetsExt

PrimitivePoly == 285
Byte == 0..255

\* f itself; @@ makes TLC evaluate its values only once.
Evaluated(f) == f @@ <<>>

\* The exclusive or of two bytes, from that of their halves.
HalfXor ==
  LET Half(a, b) == ((a + b) % 2) + 2 * ((a \div 2 + b \div 2) % 2)
                      + 4 * ((a \div 4 + b \div 4) % 2) + 8 * ((a \div 8 + b \div 8) % 2)
  IN  Evaluated([a \in 0..15 |-> Evaluated([b \in 0..15 |-> Half(a, b)])])
Xor(a, b) == 16 * HalfXor[a \div 16][b \div 16] + HalfXor[a % 16][b % 16]

\* One turn of init's loop: b shifted left, reduced when it overflows a byte.
NextPower(b) == IF 2 * b >= 256 THEN Xor((2 * b) % 256, PrimitivePoly % 256) ELSE 2 * b

\* b after log turns of that loop.  2^k turns are 2^(k-1) turns, twice: a recursion of
\* depth 8 where the loop makes 255 turns.
Powers ==
  LET turns[k \in 0..7] ==
        [b \in Byte |-> IF k = 0 THEN NextPower(b) ELSE turns[k - 1][turns[k - 1][b]]]
      low[k \in 0..8] ==   \* after the lowest k bits of log
        [log \in 0..254 |-> IF k = 0 THEN 1
                            ELSE IF (log \div 2^(k - 1)) % 2 = 0 THEN low[k - 1][log]
                            ELSE turns[k - 1][low[k - 1][log]]]
  IN  low[8]

\* Faulty variant: the second half of the table is never filled.
expTable_Half == Evaluated([log \in 0..509 |-> IF log < 255 THEN Powers[log] ELSE 0])

\* Twice the powers of 2, so that the sum of two logarithms needs no reduction.
expTable == Evaluated([log \in 0..509 |-> Powers[log % 255]])
logTable ==
  LET exp == expTable
  IN  Evaluated([b \in Byte |-> IF b = 0 THEN 0 ELSE CHOOSE log \in 0..254 : exp[log] = b])

Add(a, b) == Xor(a, b)
Mul(a, b) == IF a = 0 \/ b = 0 THEN 0 ELSE expTable[logTable[a] + logTable[b]]

\* The division of the code panics when b = 0; GaussianElim never asks for that.
Div(a, b) ==
  LET r == logTable[a] - logTable[b]
  IN  IF a = 0 THEN 0 ELSE expTable[IF r < 0 THEN r + 255 ELSE r]

Exp(a, n) == IF n = 0 THEN 1 ELSE IF a = 0 THEN 0 ELSE expTable[(logTable[a] * n) % 255]

-----------------------------------------------------------------------------
(* Matrices *)

\* The sequence v(1), ..., v(n).  SubSeq makes TLC evaluate its elements only once.
Tuple(n, v(_)) == SubSeq([i \in 1..n |-> v(i)], 1, n)
NewMatrix(rows, cols, v(_, _)) ==
  LET Row(r) == LET At(c) == v(r, c) IN Tuple(cols, At)
  IN  Tuple(rows, Row)

Cols(m) == Len(m[1])
Identity(size) == LET At(r, c) == IF r = c THEN 1 ELSE 0 IN NewMatrix(size, size, At)

\* The row number is converted to a byte.
NewVandermonde(rows, cols) ==
  LET At(r, c) == Exp((r - 1) % 256, c - 1) IN NewMatrix(rows, cols, At)

\* The sum of a[i] * b(i).
Dot(a, b(_)) ==
  LET upTo[i \in 0..Len(a)] == IF i = 0 THEN 0 ELSE Add(upTo[i - 1], Mul(a[i], b(i)))
  IN  upTo[Len(a)]

Multiply(m, rhs) ==
  LET At(r, c) == LET Col(i) == rhs[i][c] IN Dot(m[r], Col)
  IN  NewMatrix(Len(m), Cols(rhs), At)

Augment(m, rhs) == LET Row(r) == m[r] \o rhs[r] IN Tuple(Len(m), Row)

\* Rows from + 1 to to, and columns left + 1 to right.
SubMatrix(m, from, left, to, right) ==
  LET Row(r) == SubSeq(m[from + r], left + 1, right) IN Tuple(to - from, Row)

\* Faulty variant: the rows stay where they are.
SwapRows_Not(m, r1, r2) == m
SwapRows(m, r1, r2) == [m EXCEPT ![r1] = m[r2], ![r2] = m[r1]]

\* row minus a multiple of another one, which is the same as plus.
Minus(row, scale, other) ==
  LET At(c) == Add(row[c], Mul(scale, other[c])) IN Tuple(Len(row), At)

Singular == <<>>

\* The first row from r on with a nonzero entry in column r, or r itself.
PivotRow(m, r) ==
  LET nonzero == {rb \in r..Len(m) : m[rb][r] # 0}
  IN  IF nonzero = {} THEN r ELSE Min(nonzero)

Scaled(row, scale) == LET At(c) == Mul(scale, row[c]) IN Tuple(Len(row), At)

\* Row r is replaced by pivot, and the entries of column r below it become zero.
Cleared(m, r, pivot) ==
  LET Row(rb) == IF rb < r THEN m[rb] ELSE IF rb = r THEN pivot
                 ELSE Minus(m[rb], m[rb][r], pivot)
  IN  Tuple(Len(m), Row)

\* One turn of the loop downwards, after the rows were swapped: the diagonal entry of row r
\* becomes one.
Reduced(m, r) ==
  IF m[r][r] = 0 THEN Singular ELSE Cleared(m, r, Scaled(m[r], Div(1, m[r][r])))
Forward(m, r) == IF m = Singular THEN Singular ELSE Reduced(SwapRows(m, r, PivotRow(m, r)), r)

\* Faulty variant: the loop ends one column early.
Backward_ShortOfLast(m, d) ==
  LET Row(ra) == IF ra < d /\ d < Len(m) THEN Minus(m[ra], m[ra][d], m[d]) ELSE m[ra]
  IN  Tuple(Len(m), Row)

\* Make the entries above the diagonal entry of row d zero.
Backward(m, d) ==
  LET Row(ra) == IF ra < d THEN Minus(m[ra], m[ra][d], m[d]) ELSE m[ra]
  IN  Tuple(Len(m), Row)

Downwards(m) ==
  LET down[r \in 0..Len(m)] == IF r = 0 THEN m ELSE Forward(down[r - 1], r) IN down[Len(m)]
Upwards(m) ==
  LET up[d \in 0..Len(m)] == IF d = 0 THEN m ELSE Backward(up[d - 1], d) IN up[Len(m)]

\* A singular matrix, which has no rows, is left alone on the way up.
GaussianElim(m) == Upwards(Downwards(m))

RightHalf(m) == IF m = Singular THEN Singular ELSE SubMatrix(m, 0, Len(m), Len(m), 2 * Len(m))
MatrixInverse(m) == RightHalf(GaussianElim(Augment(m, Identity(Len(m)))))

=============================================================================
