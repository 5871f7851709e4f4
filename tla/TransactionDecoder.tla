------------------------- MODULE TransactionDecoder -------------------------
(***************************************************************************)
(* decodeTransaction, decodeMessage and the compact-u16 numbers of         *)
(* decoder.go, byte by byte, over a stream that is received little by      *)
(* little.  EntryDecoder takes a transaction for two cells and relies on   *)
(* what is shown here: that bytes still missing are never taken for an     *)
(* error, nor a part for the whole.                                        *)
(*                                                                         *)
(* Decoding starts at any place of the stream: the decoders of whole       *)
(* batches are also tried on bytes that may not begin with a transaction.  *)
(***************************************************************************)
EXTENDS Integers, Sequences

CONSTANTS
  SignatureSize, PubkeySize,   \* 64 and 32
  MaxSignatures,               \* 256
  Streams                      \* the streams: sequences of transactions

ASSUME WireAssumption ==
  /\ SignatureSize \in Nat \ {0} /\ PubkeySize \in Nat \ {0}
  /\ MaxSignatures \in Nat

VARIABLES
  stream,     \* what is sent
  start,      \* the bytes of it before the place where decoding starts
  received,   \* the number of bytes received
  outcome     \* what decodeTransaction makes of the bytes from start on

vars == <<stream, start, received, outcome>>

-----------------------------------------------------------------------------
(* Compact-u16 *)

Low7(n) == n % 128
Number(value, size) == [value |-> value, size |-> size]
Missing == Number(0, -1)

\* Faulty variant: the second byte is shifted by a whole byte.
decodeCompactU16_Shift(b, pos) ==
  IF pos >= Len(b) THEN Missing
  ELSE IF b[pos + 1] < 128 THEN Number(b[pos + 1], 1)
  ELSE IF pos + 1 >= Len(b) THEN Missing
  ELSE IF b[pos + 2] < 128 THEN Number(Low7(b[pos + 1]) + b[pos + 2] * 256, 2)
  ELSE IF pos + 2 >= Len(b) \/ b[pos + 3] > 3 THEN Missing
  ELSE Number(Low7(b[pos + 1]) + Low7(b[pos + 2]) * 128 + b[pos + 3] * 16384, 3)

\* The number after the first pos bytes of b, and its size.  A third byte that no
\* number has is reported like one that is missing.
decodeCompactU16(b, pos) ==
  IF pos >= Len(b) THEN Missing
  ELSE IF b[pos + 1] < 128 THEN Number(b[pos + 1], 1)
  ELSE IF pos + 1 >= Len(b) THEN Missing
  ELSE IF b[pos + 2] < 128 THEN Number(Low7(b[pos + 1]) + b[pos + 2] * 128, 2)
  ELSE IF pos + 2 >= Len(b) \/ b[pos + 3] > 3 THEN Missing
  ELSE Number(Low7(b[pos + 1]) + Low7(b[pos + 2]) * 128 + b[pos + 3] * 16384, 3)

\* Faulty variant: off by one at the end of the single bytes.
encodeCompactU16_Wide(v) ==
  IF v <= 128 THEN <<v>>
  ELSE IF v < 16384 THEN <<Low7(v) + 128, v \div 128>>
  ELSE <<Low7(v) + 128, Low7(v \div 128) + 128, v \div 16384>>

encodeCompactU16(v) ==
  IF v < 128 THEN <<v>>
  ELSE IF v < 16384 THEN <<Low7(v) + 128, v \div 128>>
  ELSE <<Low7(v) + 128, Low7(v \div 128) + 128, v \div 16384>>

-----------------------------------------------------------------------------
(* Decoding.  A cursor holds how far decoding has come, the count read last and *)
(* the fields read so far; one that is not "ok" stays as it is.                 *)

At(pos, vals) == [st |-> "ok", pos |-> pos, count |-> 0, vals |-> vals]
Stop(st) == [st |-> st, pos |-> 0, count |-> 0, vals |-> <<>>]

\* The next n bytes.  Faulty variant: those that have not come are left zero.
Take_Short(b, c, n) ==
  IF c.st # "ok" THEN c
  ELSE [c EXCEPT !.pos = @ + n,
                 !.vals = Append(@, [i \in 1..n |-> IF c.pos + i > Len(b) THEN 0 ELSE b[c.pos + i]])]
Take(b, c, n) ==
  IF c.st # "ok" THEN c
  ELSE IF c.pos + n > Len(b) THEN Stop("more")
  ELSE [c EXCEPT !.pos = @ + n, !.vals = Append(@, SubSeq(b, c.pos + 1, c.pos + n))]

Counted(c, number) ==
  IF number.size < 0 THEN Stop("more")
  ELSE [c EXCEPT !.pos = @ + number.size, !.count = number.value]
Count(b, c) == IF c.st # "ok" THEN c ELSE Counted(c, decodeCompactU16(b, c.pos))

\* A counted string of bytes.
TakeCounted(b, c) == Take(b, c, c.count)
Bytes(b, c) == TakeCounted(b, Count(b, c))

\* The field read last, cut into values of the given size.
Chopped(c, size) ==
  IF c.st # "ok" THEN c
  ELSE [c EXCEPT !.vals = [@ EXCEPT ![Len(@)] =
          [i \in 1..c.count |-> SubSeq(c.vals[Len(c.vals)], (i - 1) * size + 1, i * size)]]]

\* As many values of the given size as were counted.
Array(b, c, size) == Chopped(Take(b, c, c.count * size), size)

\* An instruction (a program index, accounts and data) or a lookup (a table's key and two
\* strings of indices).
Item(b, c, headSize) == Bytes(b, Bytes(b, Take(b, c, headSize)))

\* As many items as were counted.  Each takes a byte, so more of them than bytes are not
\* all there.
Fresh(c) == [c EXCEPT !.vals = <<>>]
Added(c, item) ==
  IF item.st # "ok" THEN item ELSE [c EXCEPT !.pos = item.pos, !.vals = Append(@, item.vals)]
Items(b, c, headSize) ==
  LET upTo[i \in 0..c.count] ==
        IF i = 0 THEN Fresh(c)
        ELSE LET before == upTo[i - 1] IN Added(before, Item(b, Fresh(before), headSize))
  IN  IF c.st # "ok" THEN c
      ELSE IF c.count > Len(b) THEN Stop("more")
      ELSE Added(c, upTo[c.count])

Header(b, c) == Take(b, c, 3)
AccountKeys(b, c) == Array(b, Count(b, c), PubkeySize)
Blockhash(b, c) == Take(b, c, PubkeySize)
Instructions(b, c) == Items(b, Count(b, c), 1)
Lookups(b, c) == Items(b, Count(b, c), PubkeySize)

LegacyMessage(b, c) == Instructions(b, Blockhash(b, AccountKeys(b, Header(b, c))))

\* Version 0 is announced by a byte, and has lookups.
decodeMessage(b, c) ==
  IF c.st # "ok" THEN c
  ELSE IF c.pos + 1 > Len(b) THEN Stop("more")
  ELSE IF b[c.pos + 1] < 128 THEN LegacyMessage(b, c)
  ELSE IF b[c.pos + 1] # 128 THEN Stop("err")
  ELSE Lookups(b, LegacyMessage(b, [c EXCEPT !.pos = @ + 1]))

\* Faulty variant: signatures still to come are taken for an error, as decodeEntry
\* takes transactions still to come.
Signatures_Hasty(b, c) ==
  IF c.st = "ok" /\ (c.count > MaxSignatures \/ c.pos + c.count * SignatureSize > Len(b))
  THEN Stop("err") ELSE Array(b, c, SignatureSize)
Signatures(b, c) ==
  IF c.st = "ok" /\ c.count > MaxSignatures THEN Stop("err") ELSE Array(b, c, SignatureSize)

decodeTransaction(b, c) == decodeMessage(b, Signatures(b, Count(b, c)))

-----------------------------------------------------------------------------
(* The wire format, as leaders write it.  A transaction is the sequence of its *)
(* fields; lookups, the sixth, make it one of version 0.                       *)

Flat(seqs) ==
  LET upTo[i \in 0..Len(seqs)] == IF i = 0 THEN <<>> ELSE upTo[i - 1] \o seqs[i] IN upTo[Len(seqs)]
String(s) == encodeCompactU16(Len(s)) \o s
EncodedItem(x) == x[1] \o String(x[2]) \o String(x[3])
EncodedArray(values) == encodeCompactU16(Len(values)) \o Flat(values)
EncodedItems(xs) == EncodedArray([i \in DOMAIN xs |-> EncodedItem(xs[i])])

IsV0(tx) == Len(tx) = 6
Encoded(tx) ==
  EncodedArray(tx[1]) \o (IF IsV0(tx) THEN <<128>> ELSE <<>>)
    \o tx[2] \o EncodedArray(tx[3]) \o tx[4] \o EncodedItems(tx[5])
    \o (IF IsV0(tx) THEN EncodedItems(tx[6]) ELSE <<>>)

EncodedStream(txs) == Flat([i \in DOMAIN txs |-> Encoded(txs[i])])

-----------------------------------------------------------------------------
(* A stream is received byte by byte, and decoding is tried after each *)

Decoding(s, from, n) ==
  IF n < from THEN Stop("more")
  ELSE decodeTransaction(SubSeq(s.bytes, 1, n), At(from, <<>>))

Init ==
  /\ \E txs \in Streams : stream = [txs |-> txs, bytes |-> EncodedStream(txs)]
  /\ start \in 0..(Len(stream.bytes) - 1)
  /\ received = start
  /\ outcome = Decoding(stream, start, received)

Receive ==
  /\ received < Len(stream.bytes)
  /\ received' = received + 1
  /\ outcome' = Decoding(stream, start, received')
  /\ UNCHANGED <<stream, start>>

Next == Receive
Spec == Init /\ [][Next]_vars

-----------------------------------------------------------------------------
(* Properties *)

First == stream.txs[1]

\* A transaction is decoded to what was sent, and only that many bytes are consumed,
\* however many follow; with a byte missing it is not decoded, and is no error either.
TransactionsDecoded ==
  start = 0 =>
    IF received < Len(Encoded(First)) THEN outcome = Stop("more")
    ELSE outcome.st = "ok" /\ outcome.pos = Len(Encoded(First)) /\ outcome.vals = First

\* Wherever decodeTransaction starts, what it has decided stays decided when more bytes
\* arrive: the transaction, or the error, is the same however its bytes are cut into
\* shreds.  (This is about one transaction: the entries around it are not modelled here,
\* and a cut right after the header of an entry does make a difference.)
DecisionsStand == [][outcome.st # "more" => outcome' = outcome]_vars

\* What is decoded lies within the bytes received, also where decoding starts at the
\* wrong place and takes other bytes for counts.
WithinReceived == outcome.st = "ok" => start < outcome.pos /\ outcome.pos <= received

\* What concerns the numbers alone is looked at before anything is received.
AtStart == start = 0 /\ received = 0

\* A compact-u16 number is read back from its bytes, whatever follows them, and from no
\* part of its bytes.
NumbersReadBack ==
  AtStart => \A v \in 0..65535 :
    LET e == encodeCompactU16(v)
    IN  /\ decodeCompactU16(e \o <<200>>, 0) = Number(v, Len(e))
        /\ \A n \in 0..(Len(e) - 1) : decodeCompactU16(SubSeq(e, 1, n), 0) = Missing

=============================================================================
