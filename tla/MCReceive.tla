----------------------------- MODULE MCReceive -----------------------------
(***************************************************************************)
(* Two readers, a pool of two buffers and one datagram for each thing that *)
(* the parser tells apart.                                                 *)
(***************************************************************************)
EXTENDS ReceivePath, TLC

CONSTANTS r1, r2

MCReaders == {r1, r2}

Bytes(a, b, c, d, e, f) ==
  [n \in HeaderBytes |-> CASE n = 83 -> a [] n = 84 -> b [] n = 85 -> c
                           [] n = 86 -> d [] n = 87 -> e [] n = 88 -> f]
Gram(len, variant, index, fec, bytes) ==
  [len |-> len, variant |-> variant, slot |-> 7, index |-> index, fec |-> fec,
   bytes |-> bytes]

\* A data shred of the given size: parent 1, flags, size in little endian.
DataGram(len, variant, index, fec, flags, size) ==
  Gram(len, variant, index, fec, Bytes(1, 0, flags, size % 256, size \div 256, 9))
\* A code shred of the given layout and position.
CodeGram(len, variant, fec, numData, numCoding, position) ==
  Gram(len, variant, fec, fec, Bytes(numData % 256, numData \div 256, numCoding % 256,
                                     numCoding \div 256, position % 256, position \div 256))

MCArriving ==
  { DataGram(1203, 150, 3, 2, 64, 1000),    \* the end of a batch
    DataGram(500, 150, 3, 2, 64, 1000),     \* the same, cut
    DataGram(2060, 150, 3, 4, 0, 2048),     \* by the legacy fallback, longer than a buffer
    DataGram(1203, 0, 3, 2, 0, 1204),       \* no variant, and its size is too large
    CodeGram(1228, 118, 2, 32, 32, 1),      \* a resigned code shred
    CodeGram(88, 118, 2, 32, 32, 1) }       \* the same, too short by a byte

-----------------------------------------------------------------------------
(* What a leader sends: the parser alone, before anything is received *)

AtStart == reads = 0 /\ freelist = newBufferPool

DataVariants == {165} \cup (144..159) \cup (176..191)
CodeVariantBytes == {90} \cup (96..127)
Flags == {[byte |-> 0, batchComplete |-> FALSE, lastInSlot |-> FALSE],
          [byte |-> 64 + 5, batchComplete |-> TRUE, lastInSlot |-> FALSE],
          [byte |-> 192, batchComplete |-> TRUE, lastInSlot |-> TRUE]}

\* Every shred of full length that a leader sends is parsed to what it says: the kind and
\* the variant, the place, where the payload ends and the two flags of a data shred; the
\* layout, the position and the coded bytes of a code shred.
LeadersShredsParse ==
  AtStart =>
    /\ \A v \in DataVariants, size \in {88, 89, 256, 1203}, f \in Flags, fec \in 0..2 :
         LET p == ParseKind(DataGram(1203, v, 2, fec, f.byte, size))
         IN  /\ p.kind = "data" /\ p.slot = 7 /\ p.index = 2 /\ p.fec = fec /\ p.end = size
             /\ p.batchComplete = f.batchComplete /\ p.lastInSlot = f.lastInSlot
             /\ p.variant.resigned = (v \in 176..191)
             /\ p.variant.kind # "dataLegacy" => p.variant.proofSize = v % 16
             /\ ParseShred(DataGram(1203, v, 2, fec, f.byte, size)) = p
    /\ \A v \in CodeVariantBytes, layout \in {<<1, 1>>, <<32, 32>>, <<67, 300>>} :
         \A position \in {0, layout[2] - 1} :
           LET raw == CodeGram(1228, v, 2, layout[1], layout[2], position)
               p == ParseKind(raw)
           IN  /\ p.kind = "code" /\ p.slot = 7 /\ p.fec = 2
               /\ <<p.numData, p.numCoding>> = layout /\ p.position = position
               /\ p.variant.kind = "codeMerkle"
                    => codeShardSlice(p.codedEnd, p.variant) = p.codedEnd
               /\ p.variant.resigned = (v \in 112..127)
               /\ ParseShred(raw) = Error("NoShred")

\* A shard starts in a data shred right after the signature and ends where the merkle
\* part begins, and so it does in the coded part of a code shred.  So a datagram of full
\* length always has one, of the same size for both, and one that lacks a byte has none.
ShardsFitDatagrams == AtStart => \A v \in CodeVariants : ShardFits(v)

\* The readers take the same steps.
Symmetry == Permutations(MCReaders)
=============================================================================
