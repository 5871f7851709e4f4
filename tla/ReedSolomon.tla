---------------------------- MODULE ReedSolomon ----------------------------
(***************************************************************************)
(* fec.go: the erasure code.  A code is the matrix that gives all shards   *)
(* from the data shards; its first rows are the identity.  A shard is a    *)
(* sequence of bytes.  Shard n of the code is shard n + 1 here.            *)
(***************************************************************************)
EXTENDS Galois, FiniteSets

\* Stands for the error of newReedSolomon.
BuildError == <<>>

\* Faulty variant: one shard more than there are bytes.
TooManyShards_OffByOne(total) == total > 257
TooManyShards(total) == total > 256

Systematic(vand, topInv) == IF topInv = Singular THEN BuildError ELSE Multiply(vand, topInv)
newReedSolomon(data, coding) ==
  LET vand == NewVandermonde(data + coding, data)
  IN  IF data <= 0 \/ coding < 0 \/ TooManyShards(data + coding) THEN BuildError
      ELSE Systematic(vand, MatrixInverse(SubMatrix(vand, 0, 0, data, data)))

dataShards(rs) == Cols(rs)
totalShards(rs) == Len(rs)

\* The linear combination of the inputs that row gives, byte by byte.
codeSlice(row, inputs) ==
  LET At(j) == LET Byte_j(i) == inputs[i][j] IN Dot(row, Byte_j)
  IN  Tuple(Len(inputs[1]), At)

\* The code shards for data.
Encode(rs, data) ==
  LET Parity(i) == codeSlice(rs[dataShards(rs) + i], data)
  IN  Tuple(totalShards(rs) - dataShards(rs), Parity)

\* The first dataShards of the shards that are present.
validIdx(rs, present) ==
  SubSeq(SelectSeq([i \in 1..totalShards(rs) |-> i], LAMBDA i : present[i]), 1, dataShards(rs))

Failed == [err |-> TRUE, shards |-> <<>>]

\* Rows or shards chosen by index.
Chosen(s, idx) == LET At(r) == s[idx[r]] IN Tuple(Len(idx), At)

\* The missing data shards, from the chosen ones.
Filled(shards, present, n, inputs, decodeMatrix) ==
  LET At(i) == IF i > n \/ present[i] THEN shards[i] ELSE codeSlice(decodeMatrix[i], inputs)
  IN  IF decodeMatrix = Singular THEN Failed
      ELSE [err |-> FALSE, shards |-> Tuple(Len(shards), At)]

\* reconstructInternal with dataOnly: the shards with the missing data shards filled in.
ReconstructData(rs, shards, present) ==
  LET there == {i \in DOMAIN present : present[i]}
      valid == validIdx(rs, present)
  IN  IF \/ Len(shards) # totalShards(rs) \/ Len(present) # totalShards(rs)
         \/ \E i, j \in there : Len(shards[i]) = 0 \/ Len(shards[i]) # Len(shards[j])
      THEN Failed
      ELSE IF there = DOMAIN present THEN [err |-> FALSE, shards |-> shards]
      ELSE IF Cardinality(there) < dataShards(rs) THEN Failed
      ELSE Filled(shards, present, dataShards(rs), Chosen(shards, valid),
                  MatrixInverse(Chosen(rs, valid)))

=============================================================================
