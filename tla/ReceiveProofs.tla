--------------------------- MODULE ReceiveProofs ---------------------------
(***************************************************************************)
(* The proofs about ShredParser and ReceivePath: for every datagram, every *)
(* capacity of the pool and every number of goroutines.                    *)
(***************************************************************************)
EXTENDS ReceivePath, FiniteSetTheorems, SequenceTheorems, TLAPS

(* The parser *)

LEMMA U16Natural ==
  ASSUME NEW raw \in Datagram, NEW offset \in 83..87
  PROVE  readU16(raw, offset) \in Nat
<1>1. offset \in HeaderBytes /\ offset + 1 \in HeaderBytes
  BY DEF HeaderBytes
<1>2. raw.bytes[offset] \in Octet /\ raw.bytes[offset + 1] \in Octet
  BY <1>1 DEF Datagram
<1>3. raw.bytes[offset] \in Nat /\ raw.bytes[offset + 1] \in Nat
  BY <1>2 DEF Octet
<1> QED
  BY <1>3 DEF readU16

\* A merkle part is not negative.
LEMMA SuffixRange ==
  ASSUME NEW b \in Octet
  PROVE  MerkleSuffix(ClassifyVariant(b)) \in Nat
<1>1. LowNibble(b) \in Nat
  BY DEF LowNibble, Octet
<1>2. \/ ClassifyVariant(b) \in {NoVariant, DataLegacy, CodeLegacy}
      \/ \E kind, r : ClassifyVariant(b) = VariantKind(kind, LowNibble(b), r)
  BY Zenon DEF ClassifyVariant
<1>3. NoVariant.proofSize \in Nat /\ DataLegacy.proofSize \in Nat /\ CodeLegacy.proofSize \in Nat
  BY DEF NoVariant, DataLegacy, CodeLegacy, VariantKind
<1>4. ClassifyVariant(b).proofSize \in Nat
  <2>1. CASE ClassifyVariant(b) \in {NoVariant, DataLegacy, CodeLegacy}
    BY <1>3, <2>1
  <2>2. CASE \E kind, r : ClassifyVariant(b) = VariantKind(kind, LowNibble(b), r)
    <3>1. PICK kind, r : ClassifyVariant(b) = VariantKind(kind, LowNibble(b), r)
      BY <2>2
    <3>2. VariantKind(kind, LowNibble(b), r).proofSize = LowNibble(b)
      BY DEF VariantKind
    <3> QED
      BY <1>1, <3>1, <3>2
  <2> QED
    BY <1>2, <2>1, <2>2
<1> QED
  BY <1>4 DEF MerkleSuffix, ProofNodeSize, ResignedExtra

LEMMA DataFacts ==
  ASSUME NEW raw, NEW fec, NEW v, NEW size
  PROVE  /\ Data(raw, fec, v, size).kind = "data"
         /\ Data(raw, fec, v, size).end
              = IF size > DataHeaderSize THEN size ELSE DataHeaderSize
  BY DEF Data

LEMMA ErrorKind == \A e : Error(e).kind = "error"
  BY DEF Error

\* What is promised of an accepted data shred of datagram raw, and of a code shred.
DataOk(p, raw) == p.kind = "data" /\ p.end \in DataHeaderSize..raw.len
CodeOk(p, raw) ==
  p.kind = "code" /\ 0 < p.codedEnd /\ p.codedEnd <= raw.len /\ p.position < p.numCoding

LEMMA DataInside ==
  ASSUME NEW raw \in Datagram, raw.len >= DataHeaderSize, NEW fec, NEW v,
         NEW size \in Nat, ~(size > raw.len)
  PROVE  DataOk(Data(raw, fec, v, size), raw)
<1>1. raw.len \in Nat
  BY DEF Datagram
<1>2. PICK n : n = IF size > DataHeaderSize THEN size ELSE DataHeaderSize
  OBVIOUS
<1>3. n \in DataHeaderSize..raw.len
  BY <1>1, <1>2 DEF DataHeaderSize
<1> QED
  BY <1>2, <1>3, DataFacts DEF DataOk

LEMMA FallbackWithin ==
  ASSUME NEW raw \in Datagram, raw.len >= DataHeaderSize
  PROVE  parseDataLegacyFallback(raw).kind = "error" \/ DataOk(parseDataLegacyFallback(raw), raw)
<1> DEFINE size == readU16(raw, DataSizeOffset)
<1>1. size \in Nat
  BY U16Natural DEF DataSizeOffset
<1>2. \/ parseDataLegacyFallback(raw) = Error("PayloadInvalid")
      \/ parseDataLegacyFallback(raw) = Data(raw, raw.index, DataLegacy, size) /\ ~(size > raw.len)
  BY Zenon DEF parseDataLegacyFallback
<1> HIDE DEF size
<1> QED
  BY <1>1, <1>2, ErrorKind, DataInside

LEMMA DataWithin ==
  ASSUME NEW raw \in Datagram, raw.len >= DataHeaderSize, NEW v
  PROVE  parseDataWithKind(raw, v).kind = "error" \/ DataOk(parseDataWithKind(raw, v), raw)
<1> DEFINE size == readU16(raw, DataSizeOffset)
<1>1. size \in Nat
  BY U16Natural DEF DataSizeOffset
<1>2. \/ parseDataWithKind(raw, v) = parseDataLegacyFallback(raw)
      \/ parseDataWithKind(raw, v) = Error("PayloadInvalid")
      \/ parseDataWithKind(raw, v) = Data(raw, raw.fec, v, size) /\ ~(size > raw.len)
  BY Zenon DEF parseDataWithKind
<1> HIDE DEF size
<1> QED
  BY <1>1, <1>2, ErrorKind, DataInside, FallbackWithin

LEMMA CodeWithin ==
  ASSUME NEW raw \in Datagram, NEW v, MerkleSuffix(v) \in Nat
  PROVE  parseCodeWithKind(raw, v).kind = "error" \/ CodeOk(parseCodeWithKind(raw, v), raw)
<1> DEFINE numData == readU16(raw, CodeNumDataOffset)
           numCoding == readU16(raw, CodeNumCodingOffset)
           position == readU16(raw, CodePositionOffset)
           suffix == MerkleSuffix(v)
           code == [kind |-> "code", slot |-> raw.slot, index |-> raw.index, fec |-> raw.fec,
                    variant |-> v, numData |-> numData, numCoding |-> numCoding,
                    position |-> position, codedEnd |-> raw.len - suffix]
<1>1. raw.len \in Nat
  BY DEF Datagram
<1>2. numCoding \in Nat /\ position \in Nat
  BY U16Natural DEF CodeNumCodingOffset, CodePositionOffset
<1>3. \/ \E e : parseCodeWithKind(raw, v) = Error(e)
      \/ parseCodeWithKind(raw, v) = code /\ ~(position >= numCoding) /\ ~(suffix >= raw.len)
  BY Zenon DEF parseCodeWithKind
<1>4. /\ code.kind = "code" /\ code.codedEnd = raw.len - suffix
      /\ code.position = position /\ code.numCoding = numCoding
  OBVIOUS
<1> HIDE DEF numData, numCoding, position, suffix, code
<1>5. ASSUME ~(position >= numCoding), ~(suffix >= raw.len)
      PROVE  position < numCoding /\ 0 < raw.len - suffix /\ raw.len - suffix <= raw.len
  BY <1>1, <1>2, <1>5 DEF suffix
<1> QED
  BY <1>3, <1>4, <1>5, ErrorKind, Zenon DEF CodeOk

\* ParseKind accepts no datagram whose payload or coded part would lie outside it.
THEOREM ParsedWithinDatagram == \A raw \in Datagram : AcceptedWithin(raw)
<1> TAKE raw \in Datagram
<1> DEFINE v == ClassifyVariant(raw.variant)
<1>1. raw.len \in Nat /\ raw.variant \in Octet
  BY DEF Datagram
<1>2. MerkleSuffix(v) \in Nat
  BY <1>1, SuffixRange
<1>3. \/ \E e : ParseKind(raw) = Error(e)
      \/ /\ ~(raw.len < DataHeaderSize)
         /\ \/ ParseKind(raw) = parseDataWithKind(raw, v)
            \/ ParseKind(raw) = parseCodeWithKind(raw, v)
            \/ ParseKind(raw) = parseDataLegacyFallback(raw)
  BY Zenon DEF ParseKind
<1> HIDE DEF v
<1>4. raw.len < DataHeaderSize \/ raw.len >= DataHeaderSize
  BY <1>1 DEF DataHeaderSize
<1>5. ParseKind(raw).kind = "error" \/ DataOk(ParseKind(raw), raw) \/ CodeOk(ParseKind(raw), raw)
  BY <1>2, <1>3, <1>4, ErrorKind, FallbackWithin, DataWithin, CodeWithin, Zenon
<1> QED
  BY <1>5 DEF AcceptedWithin, DataOk, CodeOk

-----------------------------------------------------------------------------
(* The pool: every step that moves a buffer keeps the free list sound *)

PoolType ==
  /\ freelist \in Seq(Indices)
  /\ handle \in [Readers -> Indices \cup {None}]
  /\ \A k \in kept : k.buffer \in Indices

LEMMA NoneIsNoIndex == None \notin Indices
  BY DEF None, Indices

LEMMA AcquireSound ==
  ASSUME PoolType, FreelistSound, NEW g \in Readers, handle[g] = None, acquire(g), kept' = kept
  PROVE  PoolType' /\ FreelistSound'
<1> DEFINE n == Len(freelist)
           top == freelist[n]
<1>1. n \in Nat /\ n > 0 /\ top \in Indices
  BY DEF PoolType, acquire
<1>2. /\ freelist' \in Seq(Indices) /\ Len(freelist') = n - 1
      /\ \A m \in 1..(n - 1) : freelist'[m] = freelist[m]
  <2>1. freelist \in Seq(Indices) /\ freelist' = SubSeq(freelist, 1, n - 1)
    BY DEF PoolType, acquire, Shrunk
  <2>2. 1 \in 1..(n + 1) /\ n - 1 \in 0..n
    BY <1>1
  <2> HIDE DEF n
  <2>3. SubSeq(freelist, 1, n - 1) \in Seq(Indices)
    BY <2>1, <1>1, SubSeqProperties DEF n
  <2>4. Len(SubSeq(freelist, 1, n - 1)) = n - 1
    BY <2>1, <2>2, <1>1
  <2>5. \A m \in 1..(n - 1) : SubSeq(freelist, 1, n - 1)[m] = freelist[m]
    BY <2>1, <2>2, <1>1
  <2> QED
    BY <2>1, <2>3, <2>4, <2>5
<1>3. handle' = [handle EXCEPT ![g] = top] /\ top # None
  BY <1>1, NoneIsNoIndex DEF acquire
<1>4. Free(top)
  BY <1>1 DEF Free
<1>5. ~Held(top)
  BY <1>1, <1>4 DEF FreelistSound
<1>6. PoolType'
  BY <1>1, <1>2, <1>3 DEF PoolType
<1>7. \A m, p \in 1..Len(freelist') : freelist'[m] = freelist'[p] => m = p
  BY <1>1, <1>2 DEF FreelistSound
<1>8. \A i \in Indices : Free(i)' <=> (Free(i) /\ i # top)
  <2> TAKE i \in Indices
  <2>1. ASSUME Free(i)' PROVE Free(i) /\ i # top
    <3>1. PICK m \in 1..(n - 1) : freelist[m] = i
      BY <1>2, <2>1 DEF Free
    <3>2. m \in 1..n /\ n \in 1..n /\ m # n
      BY <1>1
    <3> QED
      BY <3>1, <3>2 DEF Free, FreelistSound
  <2>2. ASSUME Free(i), i # top PROVE Free(i)'
    <3>1. PICK m \in 1..n : freelist[m] = i
      BY <2>2 DEF Free
    <3>2. m \in 1..(n - 1)
      BY <1>1, <2>2, <3>1
    <3> QED
      BY <1>2, <3>1, <3>2 DEF Free
  <2> QED
    BY <2>1, <2>2
<1> HIDE DEF n, top
<1>9. \A i \in Indices : Held(i)' <=> (Held(i) \/ i = top)
  BY <1>3, NoneIsNoIndex DEF Held, PoolType
<1>10. \A i \in Indices : Free(i)' <=> ~Held(i)'
  BY <1>5, <1>8, <1>9 DEF FreelistSound
<1>11. \A h, j \in Readers : handle'[h] = handle'[j] /\ handle'[h] # None => h = j
  BY <1>3, <1>5 DEF FreelistSound, PoolType, Held
<1>12. \A h \in Readers, k \in kept' : handle'[h] # k.buffer
  BY <1>3, <1>5 DEF FreelistSound, PoolType, Held
<1> QED
  BY <1>6, <1>7, <1>10, <1>11, <1>12 DEF FreelistSound

\* Appending an index that is not free keeps the list free of duplicates.
LEMMA AppendFree ==
  ASSUME PoolType, FreelistSound, NEW i \in Indices, ~Free(i), release(i)
  PROVE  /\ freelist' \in Seq(Indices)
         /\ \A m, p \in 1..Len(freelist') : freelist'[m] = freelist'[p] => m = p
         /\ \A j \in Indices : Free(j)' <=> (Free(j) \/ j = i)
<1> DEFINE n == Len(freelist)
<1>1. n \in Nat
  BY DEF PoolType
<1>2. /\ freelist' \in Seq(Indices) /\ Len(freelist') = n + 1 /\ freelist'[n + 1] = i
      /\ \A m \in 1..n : freelist'[m] = freelist[m]
  BY DEF PoolType, release
<1>3. \A m \in 1..(n + 1) : m \in 1..n \/ m = n + 1
  BY <1>1
<1>4. \A m \in 1..n : freelist[m] # i
  BY DEF Free
<1>5. \A m, p \in 1..Len(freelist') : freelist'[m] = freelist'[p] => m = p
  BY <1>1, <1>2, <1>3, <1>4 DEF FreelistSound
<1>6. \A j \in Indices : Free(j)' <=> (Free(j) \/ j = i)
  <2> TAKE j \in Indices
  <2>1. ASSUME Free(j)' PROVE Free(j) \/ j = i
    <3>1. PICK m \in 1..(n + 1) : freelist'[m] = j
      BY <1>2, <2>1 DEF Free
    <3> QED
      BY <1>2, <1>3, <3>1 DEF Free
  <2>2. ASSUME Free(j) PROVE Free(j)'
    <3>1. PICK m \in 1..n : freelist[m] = j
      BY <2>2 DEF Free
    <3>2. m \in 1..(n + 1)
      BY <1>1
    <3> QED
      BY <1>2, <3>1, <3>2 DEF Free
  <2>3. Free(i)'
    <3>1. n + 1 \in 1..(n + 1)
      BY <1>1
    <3> QED
      BY <1>2, <3>1 DEF Free
  <2> QED
    BY <2>1, <2>2, <2>3
<1> QED
  BY <1>2, <1>5, <1>6

LEMMA ReleaseSound ==
  ASSUME PoolType, FreelistSound, NEW g \in Readers, handle[g] # None, Release(g), kept' = kept
  PROVE  PoolType' /\ FreelistSound'
<1> DEFINE i == handle[g]
<1>1. i \in Indices /\ Held(i) /\ release(i) /\ handle' = [handle EXCEPT ![g] = None]
  BY DEF PoolType, Release, Held
<1>2. ~Free(i)
  BY <1>1 DEF FreelistSound
<1>3. /\ freelist' \in Seq(Indices)
      /\ \A m, p \in 1..Len(freelist') : freelist'[m] = freelist'[p] => m = p
      /\ \A j \in Indices : Free(j)' <=> (Free(j) \/ j = i)
  BY <1>1, <1>2, AppendFree
<1>4. PoolType'
  BY <1>1, <1>3 DEF PoolType
<1>5. \A j \in Indices : Held(j)' <=> (Held(j) /\ j # i)
  BY <1>1, NoneIsNoIndex DEF Held, PoolType, FreelistSound
<1>6. \A j \in Indices : Free(j)' <=> ~Held(j)'
  BY <1>3, <1>5 DEF FreelistSound
<1>7. \A h, j \in Readers : handle'[h] = handle'[j] /\ handle'[h] # None => h = j
  BY <1>1 DEF FreelistSound, PoolType
<1>8. \A h \in Readers, k \in kept' : handle'[h] # k.buffer
  BY <1>1, NoneIsNoIndex DEF FreelistSound, PoolType
<1> QED
  BY <1>3, <1>4, <1>6, <1>7, <1>8 DEF FreelistSound

LEMMA KeepSound ==
  ASSUME PoolType, FreelistSound, NEW g \in Readers, handle[g] # None,
         NEW k, k.buffer = handle[g], kept' = kept \cup {k},
         handle' = [handle EXCEPT ![g] = None], freelist' = freelist
  PROVE  PoolType' /\ FreelistSound'
<1>1. handle[g] \in Indices
  BY DEF PoolType
<1>2. PoolType'
  BY <1>1 DEF PoolType
<1>3. \A j \in Indices : (Held(j)' <=> Held(j)) /\ (Free(j)' <=> Free(j))
  BY NoneIsNoIndex DEF Held, Free, PoolType
<1>4. \A h, j \in Readers : handle'[h] = handle'[j] /\ handle'[h] # None => h = j
  BY DEF FreelistSound, PoolType
<1>5. \A m, p \in kept' : m.buffer = p.buffer => m = p
  BY DEF FreelistSound
<1>6. \A h \in Readers, m \in kept' : handle'[h] # m.buffer
  BY <1>1, NoneIsNoIndex DEF FreelistSound, PoolType
<1>7. \A j \in Indices : Free(j)' <=> ~Held(j)'
  BY <1>3 DEF FreelistSound
<1> QED
  BY <1>2, <1>4, <1>5, <1>6, <1>7 DEF FreelistSound

LEMMA DropSound ==
  ASSUME PoolType, FreelistSound, NEW k \in kept, release(k.buffer), kept' = kept \ {k},
         handle' = handle
  PROVE  PoolType' /\ FreelistSound'
<1> DEFINE i == k.buffer
<1>1. i \in Indices /\ Held(i)
  BY DEF PoolType, Held
<1>2. ~Free(i)
  BY <1>1 DEF FreelistSound
<1>3. /\ freelist' \in Seq(Indices)
      /\ \A m, p \in 1..Len(freelist') : freelist'[m] = freelist'[p] => m = p
      /\ \A j \in Indices : Free(j)' <=> (Free(j) \/ j = i)
  BY <1>1, <1>2, AppendFree
<1>4. PoolType'
  BY <1>3 DEF PoolType
<1>5. \A j \in Indices : Held(j)' <=> (Held(j) /\ j # i)
  BY <1>1 DEF Held, PoolType, FreelistSound
<1>6. \A j \in Indices : Free(j)' <=> ~Held(j)'
  BY <1>3, <1>5 DEF FreelistSound
<1> QED
  BY <1>3, <1>4, <1>6 DEF FreelistSound

-----------------------------------------------------------------------------
(* The inductive invariant *)

InBuffer == {d \in Datagram : d.len <= BufferSize}

BytesInv ==
  /\ content \in [Indices -> InBuffer]
  /\ pc \in [Readers -> {"next", "read", "parse", "handle"}]
  /\ last \in [Readers -> InBuffer]
  /\ parsed = [g \in Readers |-> parsed[g]]
  /\ \A g \in Readers : pc[g] = "next" <=> handle[g] = None
  /\ \A g \in Readers : Reading(g) => content[handle[g]] = last[g]
  /\ \A g \in Readers : pc[g] = "handle" => parsed[g] = ParseKind(content[handle[g]])
  /\ \A k \in kept : content[k.buffer] = k.sent
  /\ \A c \in codes : c.buffer = None /\ c.bytes = c.sent
  /\ PayloadInBuffer

ReceiveInv == PoolType /\ FreelistSound /\ BytesInv

LEMMA FittingInBuffer == \A d \in Arriving : Fitting(d) \in InBuffer
<1> TAKE d \in Arriving
<1>1. d \in Datagram /\ BufferSize \in Nat
  BY ReceiveAssumption
<1>2. [d EXCEPT !.len = BufferSize] \in Datagram /\ [d EXCEPT !.len = BufferSize].len = BufferSize
  BY <1>1 DEF Datagram
<1>3. d.len \in Nat
  BY <1>1 DEF Datagram
<1>4. BufferSize <= BufferSize /\ (~(d.len > BufferSize) => d.len <= BufferSize)
  BY <1>1, <1>3
<1> QED
  BY <1>1, <1>2, <1>4, Zenon DEF Fitting, InBuffer

LEMMA BlankInBuffer == Blank \in InBuffer
<1>1. [b \in HeaderBytes |-> 0] \in [HeaderBytes -> Octet]
  BY DEF Octet
<1> HIDE DEF HeaderBytes
<1>2. Blank \in Datagram /\ Blank.len = 0
  BY <1>1 DEF Blank, Datagram, Octet
<1> QED
  BY <1>2, ReceiveAssumption DEF InBuffer

\* The payload of a parsed data shred ends within its buffer, also as a 16-bit number.
LEMMA EndInBuffer ==
  ASSUME NEW d \in InBuffer, ParseKind(d).kind = "data"
  PROVE  DataHeaderSize <= ParseKind(d).end % U16 /\ ParseKind(d).end % U16 <= d.len
<1>1. AcceptedWithin(d)
  BY ParsedWithinDatagram DEF InBuffer
<1>2. PICK e : e = ParseKind(d).end
  OBVIOUS
<1>3. e \in DataHeaderSize..d.len
  BY <1>1, <1>2 DEF AcceptedWithin
<1>4. d.len \in Nat /\ d.len <= BufferSize /\ BufferSize < U16 /\ BufferSize \in Nat
  BY ReceiveAssumption DEF InBuffer, Datagram
<1>5. e \in Nat /\ e < U16 /\ DataHeaderSize <= e /\ e <= d.len
  BY <1>3, <1>4 DEF DataHeaderSize, U16
<1>6. e % U16 = e
  BY <1>5 DEF U16
<1> QED
  BY <1>2, <1>5, <1>6

LEMMA ReceiveInit == Init => ReceiveInv
<1> SUFFICES ASSUME Init PROVE ReceiveInv
  OBVIOUS
<1>1. capacity \in Nat /\ capacity > 0
  BY ReceiveAssumption
<1>2. freelist \in Seq(Indices) /\ Len(freelist) = capacity
      /\ \A n \in 1..capacity : freelist[n] = capacity - n
  BY <1>1 DEF Init, newBufferPool, Indices
<1>3. PoolType
  BY <1>2 DEF Init, PoolType
<1>4. \A i \in Indices : Free(i)
  <2> TAKE i \in Indices
  <2>1. capacity - i \in 1..capacity /\ capacity - (capacity - i) = i
    BY <1>1 DEF Indices
  <2> QED
    BY <1>2, <2>1 DEF Free
<1>5. \A i \in Indices : ~Held(i)
  BY NoneIsNoIndex DEF Init, Held
<1>6. \A m, n \in 1..Len(freelist) : freelist[m] = freelist[n] => m = n
  BY <1>1, <1>2
<1>7. FreelistSound
  BY <1>4, <1>5, <1>6 DEF Init, FreelistSound
<1>8. BytesInv
  BY BlankInBuffer DEF Init, BytesInv, Reading, PayloadInBuffer
<1> QED
  BY <1>3, <1>7, <1>8 DEF ReceiveInv

\* A reader that returns, giving its handle back or away, disturbs no bytes.
LEMMA ReturnBytes ==
  ASSUME ReceiveInv, NEW g \in Readers, pc[g] # "next", Return(g),
         handle' = [handle EXCEPT ![g] = None], content' = content
  PROVE  /\ pc' \in [Readers -> {"next", "read", "parse", "handle"}]
         /\ last' \in [Readers -> InBuffer]
         /\ parsed' = [h \in Readers |-> parsed'[h]]
         /\ \A h \in Readers : pc'[h] = "next" <=> handle'[h] = None
         /\ \A h \in Readers : Reading(h)' => content'[handle'[h]] = last'[h]
         /\ \A h \in Readers : pc'[h] = "handle" => parsed'[h] = ParseKind(content'[handle'[h]])
<1>1. /\ pc' = [pc EXCEPT ![g] = "next"] /\ last' = [last EXCEPT ![g] = Blank]
      /\ parsed' = [parsed EXCEPT ![g] = Error("none")]
  BY DEF Return, Goto
<1>2. /\ pc \in [Readers -> {"next", "read", "parse", "handle"}] /\ last \in [Readers -> InBuffer]
      /\ parsed = [h \in Readers |-> parsed[h]] /\ handle \in [Readers -> Indices \cup {None}]
  BY DEF ReceiveInv, BytesInv, PoolType
<1>3. last' \in [Readers -> InBuffer]
  BY <1>1, <1>2, BlankInBuffer
<1>4. \A h \in Readers : h # g => /\ pc'[h] = pc[h] /\ last'[h] = last[h]
                                  /\ parsed'[h] = parsed[h] /\ handle'[h] = handle[h]
  BY <1>1, <1>2
<1>5. pc'[g] = "next" /\ handle'[g] = None
  BY <1>1, <1>2
<1>6. \A h \in Readers : pc'[h] = "next" <=> handle'[h] = None
  BY <1>4, <1>5 DEF ReceiveInv, BytesInv
<1>7. \A h \in Readers : Reading(h)' => content'[handle'[h]] = last'[h]
  BY <1>4, <1>5 DEF ReceiveInv, BytesInv, Reading
<1>8. \A h \in Readers : pc'[h] = "handle" => parsed'[h] = ParseKind(content'[handle'[h]])
  BY <1>4, <1>5 DEF ReceiveInv, BytesInv
<1> QED
  BY <1>1, <1>2, <1>3, <1>6, <1>7, <1>8

\* A reader that gives its handle back, its datagram kept nowhere.
LEMMA ReleaseStep ==
  ASSUME ReceiveInv, NEW g \in Readers, pc[g] # "next", Return(g), Release(g),
         content' = content, kept' = kept,
         \A c \in codes' : c.buffer = None /\ c.bytes = c.sent
  PROVE  ReceiveInv'
<1>1. handle[g] # None /\ handle' = [handle EXCEPT ![g] = None]
  BY DEF ReceiveInv, BytesInv, Release
<1>2. PoolType' /\ FreelistSound'
  BY <1>1, ReleaseSound DEF ReceiveInv
<1>3. PayloadInBuffer'
  BY DEF ReceiveInv, BytesInv, PayloadInBuffer
<1> QED
  BY <1>1, <1>2, <1>3, ReturnBytes DEF ReceiveInv, BytesInv

LEMMA AcquireStep ==
  ASSUME ReceiveInv, NEW g \in Readers, RecvAcquires(g)
  PROVE  ReceiveInv'
<1>1. handle[g] = None /\ acquire(g) /\ kept' = kept
  BY DEF ReceiveInv, BytesInv, RecvAcquires
<1>2. PoolType' /\ FreelistSound'
  BY <1>1, AcquireSound DEF ReceiveInv
<1>3. /\ pc' = [pc EXCEPT ![g] = "read"] /\ UNCHANGED <<content, parsed, last, kept, codes>>
      /\ handle' = [handle EXCEPT ![g] = freelist[Len(freelist)]]
  BY DEF RecvAcquires, Goto, acquire
<1>4. /\ pc \in [Readers -> {"next", "read", "parse", "handle"}]
      /\ handle \in [Readers -> Indices \cup {None}]
  BY DEF ReceiveInv, BytesInv, PoolType
<1>5. \A h \in Readers : h # g => pc'[h] = pc[h] /\ handle'[h] = handle[h]
  BY <1>3, <1>4
<1>6. pc'[g] = "read" /\ handle'[g] # None
  <2>1. handle'[g] = freelist[Len(freelist)]
    BY <1>3, <1>4
  <2>2. freelist[Len(freelist)] \in Indices
    BY <1>1 DEF ReceiveInv, PoolType, acquire
  <2> QED
    BY <1>3, <1>4, <2>1, <2>2, NoneIsNoIndex
<1>7. PayloadInBuffer'
  BY <1>3 DEF ReceiveInv, BytesInv, PayloadInBuffer
<1>8. \A h \in Readers : pc'[h] = "next" <=> handle'[h] = None
  BY <1>5, <1>6 DEF ReceiveInv, BytesInv
<1>9. \A h \in Readers : Reading(h)' => content'[handle'[h]] = last'[h]
  BY <1>3, <1>5, <1>6 DEF ReceiveInv, BytesInv, Reading
<1>10. \A h \in Readers : pc'[h] = "handle" => parsed'[h] = ParseKind(content'[handle'[h]])
  BY <1>3, <1>5, <1>6 DEF ReceiveInv, BytesInv
<1>11. pc' \in [Readers -> {"next", "read", "parse", "handle"}]
  BY <1>3, <1>4
<1> QED
  BY <1>2, <1>3, <1>7, <1>8, <1>9, <1>10, <1>11 DEF ReceiveInv, BytesInv

\* Reading into a buffer overwrites no bytes that anyone else looks at.
LEMMA ReadStep ==
  ASSUME ReceiveInv, NEW g \in Readers, NEW d \in Arriving, RecvReads(g, d)
  PROVE  ReceiveInv'
<1> DEFINE i == handle[g]
           f == Fitting(d)
<1>1. /\ content' = [content EXCEPT ![i] = f] /\ last' = [last EXCEPT ![g] = f]
      /\ pc' = [pc EXCEPT ![g] = "parse"] /\ UNCHANGED <<freelist, handle, parsed, kept, codes>>
  BY DEF RecvReads, Goto
<1>2. f \in InBuffer
  BY FittingInBuffer
<1> HIDE DEF f
<1>3. /\ pc \in [Readers -> {"next", "read", "parse", "handle"}] /\ last \in [Readers -> InBuffer]
      /\ handle \in [Readers -> Indices \cup {None}] /\ content \in [Indices -> InBuffer]
  BY DEF ReceiveInv, BytesInv, PoolType
<1>4. i \in Indices /\ i # None
  BY <1>3 DEF ReceiveInv, BytesInv, RecvReads
<1>5. PoolType' /\ FreelistSound'
  BY <1>1 DEF ReceiveInv, PoolType, FreelistSound, Free, Held
<1>6. \A h \in Readers : h # g => handle[h] # i
  BY <1>4 DEF ReceiveInv, FreelistSound
<1>7. \A k \in kept : k.buffer # i
  BY DEF ReceiveInv, FreelistSound
<1>8. \A h \in Readers : h # g /\ Reading(h) => handle[h] \in Indices
  BY <1>3 DEF ReceiveInv, BytesInv, Reading
<1>9. \A h \in Readers : Reading(h)' => content'[handle'[h]] = last'[h]
  BY <1>1, <1>3, <1>4, <1>6, <1>8 DEF ReceiveInv, BytesInv, Reading
<1>10. \A h \in Readers : pc'[h] = "handle" => parsed'[h] = ParseKind(content'[handle'[h]])
  BY <1>1, <1>3, <1>4, <1>6, <1>8 DEF ReceiveInv, BytesInv, Reading
<1>11. \A k \in kept : content'[k.buffer] = content[k.buffer]
  BY <1>1, <1>3, <1>7 DEF ReceiveInv, PoolType
<1>12. PayloadInBuffer' /\ \A k \in kept' : content'[k.buffer] = k.sent
  BY <1>1, <1>11 DEF ReceiveInv, BytesInv, PayloadInBuffer
<1>13. /\ content' \in [Indices -> InBuffer] /\ last' \in [Readers -> InBuffer]
       /\ pc' \in [Readers -> {"next", "read", "parse", "handle"}]
  BY <1>1, <1>2, <1>3
<1>14. \A h \in Readers : pc'[h] = "next" <=> handle'[h] = None
  BY <1>1, <1>3, <1>4 DEF ReceiveInv, BytesInv
<1> QED
  BY <1>1, <1>5, <1>9, <1>10, <1>12, <1>13, <1>14 DEF ReceiveInv, BytesInv

LEMMA ParseStep ==
  ASSUME ReceiveInv, NEW g \in Readers, RecvParses(g)
  PROVE  ReceiveInv'
<1> DEFINE p == ParseKind(content[handle[g]])
<1>1. /\ parsed' = [parsed EXCEPT ![g] = p] /\ pc' = [pc EXCEPT ![g] = "handle"]
      /\ pc[g] = "parse" /\ UNCHANGED <<freelist, content, handle, last, kept, codes>>
  BY DEF RecvParses, Goto
<1> HIDE DEF p
<1>2. /\ pc \in [Readers -> {"next", "read", "parse", "handle"}]
      /\ parsed = [h \in Readers |-> parsed[h]]
  BY DEF ReceiveInv, BytesInv
<1>3. PoolType' /\ FreelistSound' /\ PayloadInBuffer'
  BY <1>1 DEF ReceiveInv, BytesInv, PoolType, FreelistSound, Free, Held, PayloadInBuffer
<1>4. \A h \in Readers : Reading(h)' => content'[handle'[h]] = last'[h]
  BY <1>1, <1>2 DEF ReceiveInv, BytesInv, Reading
<1>5. \A h \in Readers : pc'[h] = "handle" => parsed'[h] = ParseKind(content'[handle'[h]])
  BY <1>1, <1>2 DEF ReceiveInv, BytesInv, p
<1>6. \A h \in Readers : pc'[h] = "next" <=> handle'[h] = None
  BY <1>1, <1>2 DEF ReceiveInv, BytesInv
<1>7. /\ pc' \in [Readers -> {"next", "read", "parse", "handle"}]
      /\ parsed' = [h \in Readers |-> parsed'[h]]
  BY <1>1, <1>2
<1> QED
  BY <1>1, <1>3, <1>4, <1>5, <1>6, <1>7 DEF ReceiveInv, BytesInv

LEMMA KeepStep ==
  ASSUME ReceiveInv, NEW g \in Readers, KeepsData(g)
  PROVE  ReceiveInv'
<1> DEFINE k == [buffer |-> handle[g], payloadEnd |-> parsed[g].end % U16, sent |-> last[g]]
<1>1. /\ pc[g] = "handle" /\ parsed[g].kind = "data" /\ kept' = kept \cup {k} /\ Return(g)
      /\ handle' = [handle EXCEPT ![g] = None] /\ UNCHANGED <<freelist, content, codes>>
  BY DEF KeepsData
<1>2. handle[g] # None /\ content[handle[g]] = last[g]
      /\ parsed[g] = ParseKind(content[handle[g]])
  BY <1>1 DEF ReceiveInv, BytesInv, Reading
<1>3. content[handle[g]] \in InBuffer
  BY <1>2 DEF ReceiveInv, BytesInv, PoolType
<1>4. DataHeaderSize <= k.payloadEnd /\ k.payloadEnd <= content[k.buffer].len
  BY <1>1, <1>2, <1>3, EndInBuffer
<1>5. k.buffer = handle[g] /\ k.sent = last[g]
  OBVIOUS
<1> HIDE DEF k
<1>6. PoolType' /\ FreelistSound'
  BY <1>1, <1>2, <1>5, KeepSound DEF ReceiveInv
<1>7. PayloadInBuffer' /\ \A m \in kept' : content'[m.buffer] = m.sent
  BY <1>1, <1>2, <1>4, <1>5 DEF ReceiveInv, BytesInv, PayloadInBuffer
<1> QED
  BY <1>1, <1>6, <1>7, ReturnBytes DEF ReceiveInv, BytesInv

LEMMA KeepCodeStep ==
  ASSUME ReceiveInv, NEW g \in Readers, KeepsCode(g)
  PROVE  ReceiveInv'
<1>1. pc[g] = "handle" /\ Return(g) /\ Release(g) /\ content' = content /\ kept' = kept
      /\ codes' \subseteq codes \cup {Recorded(g)}
  BY DEF KeepsCode
<1>2. Recorded(g).buffer = None /\ Recorded(g).bytes = Recorded(g).sent
  BY <1>1 DEF Recorded, ReceiveInv, BytesInv, Reading
<1>3. \A c \in codes' : c.buffer = None /\ c.bytes = c.sent
  BY <1>1, <1>2 DEF ReceiveInv, BytesInv
<1> QED
  BY <1>1, <1>3, ReleaseStep

LEMMA DropStep ==
  ASSUME ReceiveInv, NEW k \in kept, DropsData(k)
  PROVE  ReceiveInv'
<1>1. /\ release(k.buffer) /\ kept' = kept \ {k}
      /\ UNCHANGED <<content, pc, handle, parsed, last, codes>>
  BY DEF DropsData
<1>2. PoolType' /\ FreelistSound'
  BY <1>1, DropSound DEF ReceiveInv
<1> QED
  BY <1>1, <1>2 DEF ReceiveInv, BytesInv, PayloadInBuffer, Reading

\* Nothing of the pool, the readers or what is kept is changed.
LEMMA IdleStep ==
  ASSUME ReceiveInv, UNCHANGED <<freelist, content, pc, handle, parsed, last, kept>>,
         codes' \subseteq codes
  PROVE  ReceiveInv'
  BY DEF ReceiveInv, PoolType, FreelistSound, Free, Held, BytesInv, PayloadInBuffer, Reading

LEMMA ReceiveNext == ReceiveInv /\ [Next]_vars => ReceiveInv'
<1> SUFFICES ASSUME ReceiveInv, [Next]_vars PROVE ReceiveInv'
  OBVIOUS
<1>1. CASE \E g \in Readers : Receives(g)
  <2>1. PICK g \in Readers : Receives(g)
    BY <1>1
  <2>2. CASE RecvAcquires(g)
    BY <2>2, AcquireStep
  <2>3. CASE RecvFails(g) \/ RecvUnparseable(g) \/ Refuses(g) \/ PassesData(g) \/ PassesCode(g)
    <3>1. pc[g] # "next" /\ Return(g) /\ Release(g) /\ UNCHANGED <<content, kept, codes>>
      BY <2>3 DEF RecvFails, RecvUnparseable, Refuses, PassesData, PassesCode
    <3> QED
      BY <3>1, ReleaseStep DEF ReceiveInv, BytesInv
  <2>4. CASE \E d \in Arriving : RecvReads(g, d)
    BY <2>4, ReadStep
  <2>5. CASE RecvParses(g)
    BY <2>5, ParseStep
  <2>6. CASE KeepsData(g)
    BY <2>6, KeepStep
  <2>7. CASE KeepsCode(g)
    BY <2>7, KeepCodeStep
  <2> QED
    BY <2>1, <2>2, <2>3, <2>4, <2>5, <2>6, <2>7 DEF Receives
<1>2. CASE \E k \in kept : DropsData(k)
  BY <1>2, DropStep
<1>3. CASE (\E c \in codes : DropsCode(c)) \/ CallBegins \/ CallLoads \/ UNCHANGED vars
  <2>1. UNCHANGED <<freelist, content, pc, handle, parsed, last, kept>> /\ codes' \subseteq codes
    BY <1>3 DEF DropsCode, CallBegins, CallLoads, vars
  <2> QED
    BY <2>1, IdleStep
<1> QED
  BY <1>1, <1>2, <1>3 DEF Next

\* The inductive invariant holds throughout.
THEOREM ReceiveInductive == Spec => []ReceiveInv
  BY ReceiveInit, ReceiveNext, PTL DEF Spec

\* bufferPool never hands out a buffer twice and never loses one, whatever the goroutines
\* and the accumulators do.
THEOREM PoolSound == Spec => []FreelistSound
<1>1. ReceiveInv => FreelistSound
  BY DEF ReceiveInv
<1> QED
  BY <1>1, ReceiveInductive, PTL

\* The bytes that are parsed without the mutex, kept in a buffer or copied are those of
\* the datagram that arrived.
THEOREM BytesSafe == Spec => []BytesAsReceived
<1>1. ReceiveInv => BytesAsReceived
  BY DEF ReceiveInv, BytesInv, BytesAsReceived
<1> QED
  BY <1>1, ReceiveInductive, PTL

\* The payload of every kept data shred lies in its buffer.
THEOREM PayloadsSafe == Spec => []PayloadInBuffer
<1>1. ReceiveInv => PayloadInBuffer
  BY DEF ReceiveInv, BytesInv
<1> QED
  BY <1>1, ReceiveInductive, PTL

-----------------------------------------------------------------------------
(* The counters *)

CountersType == counters \in [CounterNames -> Nat]

\* Whatever a step does to the counters, it adds to at most one.
LEMMA Bumps ==
  ASSUME CountersType, NEW c \in CounterNames, Bump(c)
  PROVE  /\ CountersType' /\ counters'[c] = counters[c] + 1
         /\ \A e \in CounterNames : e # c => counters'[e] = counters[e]
  BY DEF CountersType, Bump

LEMMA StepBumps ==
  ASSUME CountersType, [Next]_vars
  PROVE  counters' = counters \/ \E c \in CounterNames : Bump(c)
<1>1. CASE \E g \in Readers : Receives(g)
  <2>1. PICK g \in Readers : Receives(g)
    BY <1>1
  <2>2. CASE RecvUnparseable(g)
    BY <2>2, Zenon DEF RecvUnparseable, bumpParseError, CounterNames
  <2>3. CASE Refuses(g)
    BY <2>3 DEF Refuses, CounterNames
  <2>4. CASE KeepsData(g) \/ PassesData(g) \/ KeepsCode(g) \/ PassesCode(g)
    BY <2>4 DEF KeepsData, PassesData, KeepsCode, PassesCode, CounterNames
  <2>5. CASE \/ RecvAcquires(g) \/ RecvFails(g) \/ RecvParses(g)
             \/ \E d \in Arriving : RecvReads(g, d)
    BY <2>5 DEF RecvAcquires, RecvFails, RecvParses, RecvReads
  <2> QED
    BY <2>1, <2>2, <2>3, <2>4, <2>5 DEF Receives
<1>2. CASE ~\E g \in Readers : Receives(g)
  BY <1>2 DEF Next, vars, DropsData, DropsCode, CallBegins, CallLoads
<1> QED
  BY <1>1, <1>2

C(n) == counters[Unparseable[n]]

\* The loads so far and the counters still to be loaded bound the sum from both sides.
SumInv ==
  /\ sum.loads \in -1..4 /\ sum.value \in Nat /\ sum.before \in Nat
  /\ sum = [loads |-> sum.loads, value |-> sum.value, before |-> sum.before]
  /\ sum.loads = 0 => sum.value = 0 /\ sum.before <= C(1) + C(2) + C(3) + C(4)
  /\ sum.loads = 1 => sum.value <= C(1) /\ sum.before <= sum.value + C(2) + C(3) + C(4)
  /\ sum.loads = 2 => sum.value <= C(1) + C(2) /\ sum.before <= sum.value + C(3) + C(4)
  /\ sum.loads = 3 => sum.value <= C(1) + C(2) + C(3) /\ sum.before <= sum.value + C(4)
  /\ sum.loads = 4 => sum.value <= C(1) + C(2) + C(3) + C(4) /\ sum.before <= sum.value

LEMMA LoadedNatural ==
  ASSUME CountersType PROVE C(1) \in Nat /\ C(2) \in Nat /\ C(3) \in Nat /\ C(4) \in Nat
  BY DEF CountersType, C, Unparseable, CounterNames

LEMMA CountersGrow ==
  ASSUME CountersType, [Next]_vars
  PROVE  /\ CountersType'
         /\ C(1) <= C(1)' /\ C(2) <= C(2)' /\ C(3) <= C(3)' /\ C(4) <= C(4)'
<1>1. CASE counters' = counters
  BY <1>1, LoadedNatural DEF CountersType, C
<1>2. CASE \E c \in CounterNames : Bump(c)
  <2>1. PICK c \in CounterNames : Bump(c)
    BY <1>2
  <2>2. CountersType' /\ \A e \in CounterNames : counters[e] <= counters'[e]
    BY <2>1, Bumps DEF CountersType
  <2>3. \A n \in 1..4 : Unparseable[n] \in CounterNames
    BY DEF Unparseable, CounterNames
  <2> QED
    BY <2>2, <2>3 DEF C
<1> QED
  BY <1>1, <1>2, StepBumps

SumAndCounters == CountersType /\ SumInv

LEMMA SumNext == SumAndCounters /\ [Next]_vars => SumAndCounters'
<1> SUFFICES ASSUME CountersType, SumInv, [Next]_vars PROVE SumAndCounters'
  BY DEF SumAndCounters
<1>1. CountersType'
  BY CountersGrow
<1>2. C(1) \in Nat /\ C(2) \in Nat /\ C(3) \in Nat /\ C(4) \in Nat
  BY LoadedNatural
<1>3. C(1)' \in Nat /\ C(2)' \in Nat /\ C(3)' \in Nat /\ C(4)' \in Nat
  BY <1>1, LoadedNatural, CountersGrow DEF CountersType, C, Unparseable, CounterNames
<1>4. CASE CallBegins
  <2>1. counters' = counters /\ sum' = [loads |-> 0, value |-> 0, before |-> C(1) + C(2) + C(3) + C(4)]
    BY <1>4 DEF CallBegins, UnparseableNow, C
  <2>2. C(1)' = C(1) /\ C(2)' = C(2) /\ C(3)' = C(3) /\ C(4)' = C(4)
    BY <2>1 DEF C
  <2> QED
    BY <1>1, <1>2, <2>1, <2>2 DEF SumAndCounters, SumInv
<1>5. CASE CallLoads
  <2>1. /\ sum.loads \in 0..3 /\ counters' = counters
        /\ sum' = [sum EXCEPT !.loads = @ + 1, !.value = @ + C(sum.loads + 1)]
    BY <1>5 DEF CallLoads, Loaded, C
  <2>2. C(1)' = C(1) /\ C(2)' = C(2) /\ C(3)' = C(3) /\ C(4)' = C(4)
    BY <2>1 DEF C
  <2>3. /\ sum'.loads = sum.loads + 1 /\ sum'.value = sum.value + C(sum.loads + 1)
        /\ sum'.before = sum.before
        /\ sum' = [loads |-> sum'.loads, value |-> sum'.value, before |-> sum'.before]
    BY <2>1 DEF SumInv
  <2>4. CASE sum.loads = 0
    BY <1>1, <1>2, <2>2, <2>3, <2>4 DEF SumAndCounters, SumInv
  <2>5. CASE sum.loads = 1
    BY <1>1, <1>2, <2>2, <2>3, <2>5 DEF SumAndCounters, SumInv
  <2>6. CASE sum.loads = 2
    BY <1>1, <1>2, <2>2, <2>3, <2>6 DEF SumAndCounters, SumInv
  <2>7. CASE sum.loads = 3
    BY <1>1, <1>2, <2>2, <2>3, <2>7 DEF SumAndCounters, SumInv
  <2> QED
    BY <2>1, <2>4, <2>5, <2>6, <2>7
<1>6. CASE ~CallBegins /\ ~CallLoads
  <2>1. sum' = sum
    BY <1>6 DEF Next, Receives, vars, RecvAcquires, RecvFails, RecvReads, RecvUnparseable,
                RecvParses, Refuses, KeepsData, PassesData, KeepsCode, PassesCode, DropsData,
                DropsCode
  <2>2. C(1) <= C(1)' /\ C(2) <= C(2)' /\ C(3) <= C(3)' /\ C(4) <= C(4)'
    BY CountersGrow
  <2> QED
    BY <1>1, <1>2, <1>3, <2>1, <2>2 DEF SumAndCounters, SumInv
<1> QED
  BY <1>4, <1>5, <1>6

\* UnparseablePackets, whose four loads are not one, still returns a number between the
\* count when it is called and the count when it returns.
THEOREM UnparseableSum == Spec => []SumWithinCall
<1>1. Init => SumAndCounters
  BY DEF Init, SumAndCounters, CountersType, SumInv
<1>2. SumAndCounters => SumWithinCall
  <2> SUFFICES ASSUME CountersType, SumInv PROVE SumWithinCall
    BY DEF SumAndCounters
  <2>1. C(1) \in Nat /\ C(2) \in Nat /\ C(3) \in Nat /\ C(4) \in Nat
    BY LoadedNatural
  <2>2. UnparseableNow = C(1) + C(2) + C(3) + C(4)
    BY DEF UnparseableNow, C
  <2> QED
    BY <2>1, <2>2 DEF SumInv, SumWithinCall
<1> QED
  BY <1>1, <1>2, SumNext, PTL DEF Spec

Busy == {g \in Readers : Reading(g)}
Total == UnparseableNow + counters["droppedKnownSlots"] + counters["dataShredCount"]
           + counters["codeShredCount"]

LEMMA BumpTotal ==
  ASSUME CountersType, NEW c \in CounterNames, Bump(c)
  PROVE  Total' = Total + 1
<1>1. /\ Unparseable[1] = "unparseableTooShort" /\ Unparseable[2] = "unparseableVariant"
      /\ Unparseable[3] = "unparseablePayload" /\ Unparseable[4] = "unparseableSlotRange"
  BY DEF Unparseable
<1>2. \A e \in CounterNames : counters[e] \in Nat /\ counters'[e] = counters[e] + (IF e = c THEN 1 ELSE 0)
  BY Bumps DEF CountersType
<1> QED
  BY <1>1, <1>2 DEF Total, UnparseableNow, CounterNames

LEMMA TotalNatural == ASSUME CountersType PROVE Total \in Nat
  BY DEF CountersType, Total, UnparseableNow, Unparseable, CounterNames

CountInv == CountersType /\ reads \in Nat /\ EveryDatagramCounted

\* A reader is done with its datagram, and counts it.
LEMMA CountedReturn ==
  ASSUME ReceiveInv, CountInv, NEW g \in Readers, Reading(g), Return(g), reads' = reads,
         \E c \in CounterNames : Bump(c)
  PROVE  CountInv'
<1>1. Busy' = Busy \ {g} /\ g \in Busy
  BY DEF Busy, Reading, Return, Goto, ReceiveInv, BytesInv
<1>2. IsFiniteSet(Busy)
  BY ReceiveAssumption, FS_Subset DEF Busy
<1>3. Cardinality(Busy') = Cardinality(Busy) - 1 /\ Cardinality(Busy) \in Nat
  BY <1>1, <1>2, FS_RemoveElement, FS_CardinalityType
<1>4. Total' = Total + 1 /\ Total \in Nat /\ CountersType'
  BY BumpTotal, TotalNatural, Bumps DEF CountInv
<1>5. reads = Total + Cardinality(Busy)
  BY DEF CountInv, EveryDatagramCounted, Total, Busy
<1>6. reads' = Total' + Cardinality(Busy')
  BY <1>3, <1>4, <1>5
<1> QED
  BY <1>4, <1>6 DEF CountInv, EveryDatagramCounted, Total, Busy

LEMMA CountedRead ==
  ASSUME ReceiveInv, CountInv, NEW g \in Readers, NEW d \in Arriving, RecvReads(g, d)
  PROVE  CountInv'
<1>1. Busy' = Busy \cup {g} /\ g \notin Busy
  BY DEF Busy, Reading, RecvReads, Goto, ReceiveInv, BytesInv
<1>2. IsFiniteSet(Busy)
  BY ReceiveAssumption, FS_Subset DEF Busy
<1>3. Cardinality(Busy') = Cardinality(Busy) + 1 /\ Cardinality(Busy) \in Nat
  BY <1>1, <1>2, FS_AddElement, FS_CardinalityType
<1>4. Total' = Total /\ Total \in Nat /\ CountersType' /\ reads' = reads + 1
  BY TotalNatural DEF CountInv, CountersType, Total, UnparseableNow, RecvReads
<1>5. reads = Total + Cardinality(Busy)
  BY DEF CountInv, EveryDatagramCounted, Total, Busy
<1>6. reads' = Total' + Cardinality(Busy')
  BY <1>3, <1>4, <1>5
<1> QED
  BY <1>4, <1>6 DEF CountInv, EveryDatagramCounted, Total, Busy

LEMMA CountedIdle ==
  ASSUME CountInv, \A h \in Readers : Reading(h)' = Reading(h),
         UNCHANGED <<counters, reads>>
  PROVE  CountInv'
<1>1. Busy' = Busy
  BY DEF Busy
<1>2. Total' = Total
  BY DEF Total, UnparseableNow
<1> QED
  BY <1>1, <1>2 DEF CountInv, CountersType, EveryDatagramCounted, Total, Busy

LEMMA CountNext == ReceiveInv /\ CountInv /\ [Next]_vars => CountInv'
<1> SUFFICES ASSUME ReceiveInv, CountInv, [Next]_vars PROVE CountInv'
  OBVIOUS
<1>1. CASE \E g \in Readers : Receives(g)
  <2>1. PICK g \in Readers : Receives(g)
    BY <1>1
  <2>2. CASE RecvUnparseable(g)
    <3>1. \E c \in CounterNames : Bump(c)
      BY <2>2, Zenon DEF RecvUnparseable, bumpParseError, CounterNames
    <3> QED
      BY <2>2, <3>1, CountedReturn DEF RecvUnparseable, Reading
  <2>3. CASE Refuses(g) \/ KeepsData(g) \/ PassesData(g) \/ KeepsCode(g) \/ PassesCode(g)
    <3>1. \E c \in CounterNames : Bump(c)
      BY <2>3 DEF Refuses, KeepsData, PassesData, KeepsCode, PassesCode, CounterNames
    <3>2. Reading(g) /\ Return(g) /\ reads' = reads
      BY <2>3 DEF Refuses, KeepsData, PassesData, KeepsCode, PassesCode, Reading
    <3> QED
      BY <3>1, <3>2, CountedReturn
  <2>4. CASE RecvAcquires(g) \/ RecvFails(g) \/ RecvParses(g)
    <3>1. \A h \in Readers : Reading(h)' = Reading(h)
      BY <2>4 DEF RecvAcquires, RecvFails, RecvParses, Return, Goto, Reading, ReceiveInv, BytesInv
    <3> QED
      BY <2>4, <3>1, CountedIdle DEF RecvAcquires, RecvFails, RecvParses
  <2>5. CASE \E d \in Arriving : RecvReads(g, d)
    BY <2>5, CountedRead
  <2> QED
    BY <2>1, <2>2, <2>3, <2>4, <2>5 DEF Receives
<1>2. CASE ~\E g \in Readers : Receives(g)
  <2>1. UNCHANGED <<pc, counters, reads>>
    BY <1>2 DEF Next, vars, DropsData, DropsCode, CallBegins, CallLoads
  <2> QED
    BY <2>1, CountedIdle DEF Reading
<1> QED
  BY <1>1, <1>2

\* No datagram that was read into a buffer is lost to the counters or counted twice.
THEOREM AllCounted == Spec => []EveryDatagramCounted
<1>1. Init => CountInv
  <2> SUFFICES ASSUME Init PROVE CountInv
    OBVIOUS
  <2>1. {g \in Readers : Reading(g)} = {}
    BY DEF Init, Reading
  <2>2. CountersType /\ UnparseableNow = 0
    BY DEF Init, CountersType, UnparseableNow, Unparseable, CounterNames
  <2> QED
    BY <2>1, <2>2, FS_EmptySet DEF Init, CountInv, EveryDatagramCounted, CounterNames
<1>2. CountInv => EveryDatagramCounted
  BY DEF CountInv
<1> QED
  BY <1>1, <1>2, CountNext, ReceiveInductive, PTL DEF Spec
=============================================================================
