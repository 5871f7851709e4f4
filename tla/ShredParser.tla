---------------------------- MODULE ShredParser ----------------------------
(***************************************************************************)
(* parser.go and variant.go: what ParseKind makes of a datagram.           *)
(*                                                                         *)
(* A datagram is a record: its length, the fields common to all shreds and *)
(* the six bytes at HeaderBytes, which are the parent, the flags and the   *)
(* size of a data shred, or the layout and the position of a code shred.   *)
(* Which of the two they are, only the variant byte says.  The version and *)
(* the parent offset are not kept: nothing reads them.                     *)
(***************************************************************************)
EXTENDS Integers

VariantOffset == 64
SlotOffset == 65
IndexOffset == 73
VersionOffset == 77
FecSetIndexOffset == 79
DataParentOffset == 83
DataFlagsOffset == 85
DataSizeOffset == 86
DataHeaderSize == 88
CodeNumDataOffset == 83
CodeNumCodingOffset == 85
CodePositionOffset == 87
CodeHeaderSize == 89
MaxDataShredSize == 1203

HeaderBytes == 83..88
U16 == 256 * 256       \* the number of values of a uint16
Octet == 0..255
Datagram == [len : Nat, variant : Octet, slot : Nat, index : Nat, fec : Nat,
             bytes : [HeaderBytes -> Octet]]

CanRead(raw, offset, width) == offset + width <= raw.len
readU16(raw, offset) == raw.bytes[offset] + 256 * raw.bytes[offset + 1]

-----------------------------------------------------------------------------
(* Variants *)

VariantKind(kind, proofSize, resigned) ==
  [kind |-> kind, proofSize |-> proofSize, resigned |-> resigned]
LowNibble(b) == b % 16
HighNibble(b) == b \div 16
NoVariant == VariantKind("none", 0, FALSE)
DataLegacy == VariantKind("dataLegacy", 0, FALSE)
CodeLegacy == VariantKind("codeLegacy", 0, FALSE)

\* Faulty variant: the resigned code shreds are taken for plain ones.
ClassifyVariant_Unsigned(b) ==
  IF b = 165 THEN DataLegacy
  ELSE IF b = 90 THEN CodeLegacy
  ELSE IF HighNibble(b) \in {6, 7} THEN VariantKind("codeMerkle", LowNibble(b), FALSE)
  ELSE IF HighNibble(b) = 9 THEN VariantKind("dataMerkle", LowNibble(b), FALSE)
  ELSE IF HighNibble(b) = 11 THEN VariantKind("dataMerkle", LowNibble(b), TRUE)
  ELSE NoVariant

ClassifyVariant(b) ==
  IF b = 165 THEN DataLegacy
  ELSE IF b = 90 THEN CodeLegacy
  ELSE IF HighNibble(b) = 6 THEN VariantKind("codeMerkle", LowNibble(b), FALSE)
  ELSE IF HighNibble(b) = 7 THEN VariantKind("codeMerkle", LowNibble(b), TRUE)
  ELSE IF HighNibble(b) = 9 THEN VariantKind("dataMerkle", LowNibble(b), FALSE)
  ELSE IF HighNibble(b) = 11 THEN VariantKind("dataMerkle", LowNibble(b), TRUE)
  ELSE NoVariant

IsData(v) == v.kind \in {"dataLegacy", "dataMerkle"}
IsCode(v) == v.kind \in {"codeLegacy", "codeMerkle"}

ProofNodeSize == 20
ResignedExtra == 64
MerkleSuffix(v) ==
  IF v.kind \in {"dataMerkle", "codeMerkle"}
  THEN v.proofSize * ProofNodeSize + 32 + (IF v.resigned THEN ResignedExtra ELSE 0)
  ELSE 0

-----------------------------------------------------------------------------
(* Parsing *)

Error(e) == [kind |-> "error", error |-> e]

\* A data shred of the given payload end; flags are the two highest bits of its byte.
Data(raw, fec, variant, size) ==
  LET flags == raw.bytes[DataFlagsOffset]
  IN  [kind |-> "data", slot |-> raw.slot, index |-> raw.index, fec |-> fec,
       variant |-> variant,
       end |-> IF size > DataHeaderSize THEN size ELSE DataHeaderSize,
       batchComplete |-> flags \div 64 \in {1, 3}, lastInSlot |-> flags \div 64 = 3]

parseDataLegacyFallback(raw) ==
  LET size == readU16(raw, DataSizeOffset)
  IN  IF DataFlagsOffset >= raw.len \/ ~CanRead(raw, DataSizeOffset, 2) \/ size > raw.len
      THEN Error("PayloadInvalid")
      ELSE Data(raw, raw.index, DataLegacy, size)

\* Faulty variant: the size is only compared with the largest shred.
parseDataWithKind_Unchecked(raw, variant) ==
  LET size == readU16(raw, DataSizeOffset)
  IN  IF raw.fec > raw.index THEN parseDataLegacyFallback(raw)
      ELSE IF size > MaxDataShredSize THEN parseDataLegacyFallback(raw)
      ELSE Data(raw, raw.fec, variant, size)

parseDataWithKind(raw, variant) ==
  LET size == readU16(raw, DataSizeOffset)
  IN  IF raw.fec > raw.index THEN parseDataLegacyFallback(raw)
      ELSE IF \/ ~CanRead(raw, DataParentOffset, 2) \/ DataFlagsOffset >= raw.len
              \/ ~CanRead(raw, DataSizeOffset, 2)
      THEN Error("PayloadInvalid")
      ELSE IF size > MaxDataShredSize THEN parseDataLegacyFallback(raw)
      ELSE IF size > raw.len THEN Error("PayloadInvalid")
      ELSE Data(raw, raw.fec, variant, size)

parseCodeWithKind(raw, variant) ==
  LET numData == readU16(raw, CodeNumDataOffset)
      numCoding == readU16(raw, CodeNumCodingOffset)
      position == readU16(raw, CodePositionOffset)
  IN  IF raw.len < CodeHeaderSize THEN Error("TooShort")
      ELSE IF \/ numData = 0 \/ numCoding = 0 \/ position >= numCoding
              \/ MerkleSuffix(variant) >= raw.len
      THEN Error("PayloadInvalid")
      ELSE [kind |-> "code", slot |-> raw.slot, index |-> raw.index, fec |-> raw.fec,
            variant |-> variant, numData |-> numData, numCoding |-> numCoding,
            position |-> position, codedEnd |-> raw.len - MerkleSuffix(variant)]

ParseKind(raw) ==
  LET variant == ClassifyVariant(raw.variant)
  IN  IF raw.len < DataHeaderSize THEN Error("TooShort")
      ELSE IF \/ ~CanRead(raw, SlotOffset, 8) \/ ~CanRead(raw, IndexOffset, 4)
              \/ ~CanRead(raw, VersionOffset, 2) \/ ~CanRead(raw, FecSetIndexOffset, 4)
      THEN Error("PayloadInvalid")
      ELSE IF IsData(variant) THEN parseDataWithKind(raw, variant)
      ELSE IF IsCode(variant) THEN parseCodeWithKind(raw, variant)
      ELSE IF parseDataLegacyFallback(raw).kind = "error" THEN Error("UnknownVariant")
      ELSE parseDataLegacyFallback(raw)

\* ParseShred: the data shreds only.
ParseShred(raw) == IF ParseKind(raw).kind = "data" THEN ParseKind(raw) ELSE Error("NoShred")

-----------------------------------------------------------------------------
(* Where the erasure shards lie in a datagram: fec.go and accumulator.go *)

SizeOfSignature == 64
SizeOfCodingShredHeaders == 89
SizeOfMerkleRoot == 32
SizeOfMerkleProofEntry == 20
DataShredPayloadLen == 1203
CodeShredPayloadLen == 1228

\* Faulty variant: the second signature is not taken off.
ShardSize_Unsigned(proofSize, resigned) ==
  CodeShredPayloadLen - SizeOfCodingShredHeaders - SizeOfMerkleRoot
    - proofSize * SizeOfMerkleProofEntry

ShardSize(proofSize, resigned) ==
  CodeShredPayloadLen - SizeOfCodingShredHeaders - SizeOfMerkleRoot
    - proofSize * SizeOfMerkleProofEntry - (IF resigned THEN SizeOfSignature ELSE 0)

variantAsData(v) == IF v.kind = "codeMerkle" THEN [v EXCEPT !.kind = "dataMerkle"] ELSE v

\* The end of the shard in len bytes of a data shred or of the coded part of a code
\* shred, which begins at start; 0 stands for a nil slice.
ShardEnd(start, len, v) ==
  LET end == start + ShardSize(v.proofSize, v.resigned) IN IF end > len THEN 0 ELSE end
dataShardSlice(len, v) == IF v.kind # "dataMerkle" THEN 0 ELSE ShardEnd(SizeOfSignature, len, v)
codeShardSlice(len, v) ==
  IF v.kind # "codeMerkle" THEN 0 ELSE ShardEnd(SizeOfCodingShredHeaders, len, v)

-----------------------------------------------------------------------------
(* Properties of the parser alone *)

\* What is accepted lies within the datagram: the payload of a data shred, which may be
\* empty, and the coded part of a code shred, which is not.
AcceptedWithin(raw) ==
  LET p == ParseKind(raw)
  IN  /\ p.kind = "data" => p.end \in DataHeaderSize..raw.len
      /\ p.kind = "code" => 0 < p.codedEnd /\ p.codedEnd <= raw.len /\ p.position < p.numCoding

\* The merkle variants of code shreds.
CodeVariants == {VariantKind("codeMerkle", n, r) : n \in 0..15, r \in BOOLEAN}

\* Where the shards of a set of variant v lie in datagrams of full length.
ShardFits(v) ==
  LET d == variantAsData(v)
  IN  /\ dataShardSlice(DataShredPayloadLen, d) = DataShredPayloadLen - MerkleSuffix(d)
      /\ codeShardSlice(CodeShredPayloadLen - MerkleSuffix(v), v)
           = CodeShredPayloadLen - MerkleSuffix(v)
      /\ codeShardSlice(CodeShredPayloadLen - MerkleSuffix(v) - 1, v) = 0
      /\ DataHeaderSize < dataShardSlice(DataShredPayloadLen, d)

=============================================================================
