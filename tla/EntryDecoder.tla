---------------------------- MODULE EntryDecoder ----------------------------
(***************************************************************************)
(* decoder.go: the decoders that turn the bytes of a batch into            *)
(* transactions.  A batch is a vector of entries: an entry count, then the *)
(* entries; an entry is a header with its transaction count, then the      *)
(* transactions.                                                           *)
(*                                                                         *)
(* Payload bytes are abstracted to cells, natural numbers: one cell for    *)
(* the 8-byte entry count, one for the 48-byte entry header (its value is  *)
(* the transaction count), and two for a transaction (its first signature  *)
(* and its message).  A cell read at the wrong place is read for what its  *)
(* number says, as the bytes are, so a decoder that has lost its alignment *)
(* misreads and the model shows it.  A payload may end between any two     *)
(* cells.                                                                  *)
(***************************************************************************)
EXTENDS Integers, Sequences, FiniteSetsExt

CONSTANTS
  maxEntryCount,  \* the largest entry count a decoder accepts
  CellBytes,      \* the bytes a cell of an entry's transactions stands for
  Malformed,      \* cells that decodeTransaction rejects: too many signatures, unknown version
  NoSig           \* the signature cell of a transaction without signatures

ASSUME DecoderAssumption ==
  /\ maxEntryCount \in Nat
  /\ CellBytes \in Nat \ {0}
  /\ Malformed \subseteq Nat
  /\ NoSig \in Nat

\* The sequences f[lo], f[lo + 1], ..., f[hi], put together.
Joined(f, lo, hi) ==
  LET upTo[i \in (lo - 1)..hi] == IF i < lo THEN <<>> ELSE upTo[i - 1] \o f[i]
  IN  upTo[hi]

-----------------------------------------------------------------------------

\* Status of the transaction whose first cell is b[p].
decodeTransaction(b, p) ==
  IF p > Len(b) THEN "more"
  ELSE IF b[p] \in Malformed THEN "err"
  ELSE IF p + 1 > Len(b) THEN "more"
  ELSE IF b[p + 1] \in Malformed THEN "err"
  ELSE "ok"

\* The entry whose header is b[p]: its status, the place after it, its transactions.
\* A count larger than the bytes at hand is an error, even when more bytes would follow.
decodeEntry(b, p) ==
  LET txCount == b[p]
      Tx(i)   == p + 2 * i - 1
      broken  == {i \in 1..txCount : decodeTransaction(b, Tx(i)) # "ok"}
      Fail(s) == [st |-> s, pos |-> p, txs |-> <<>>]
  IN  IF p > Len(b) THEN Fail("more")
      ELSE IF txCount > CellBytes * (Len(b) - p) THEN Fail("err")
      ELSE IF broken # {} THEN Fail(decodeTransaction(b, Tx(Min(broken))))
      ELSE [st  |-> "ok",
            pos |-> p + 1 + 2 * txCount,
            txs |-> [i \in 1..txCount |-> b[Tx(i)]]]

\* One more entry after those of before, unless one of them was not "ok".
NextEntry(b, before) ==
  LET entry == decodeEntry(b, before.pos)
  IN  IF before.st # "ok" THEN before
      ELSE IF entry.st # "ok" THEN [before EXCEPT !.st = entry.st]
      ELSE [st |-> "ok", pos |-> entry.pos, txs |-> before.txs \o entry.txs,
            n |-> before.n + 1]

\* n entries from b[p] on, stopping at the first one that is not "ok".
DecodeEntries(b, p, n) ==
  LET upTo[i \in 0..n] ==
        IF i = 0 THEN [st |-> "ok", pos |-> p, txs |-> <<>>, n |-> 0]
        ELSE NextEntry(b, upTo[i - 1])
  IN  upTo[n]

validateVecPrefix(b, p) ==
  /\ p <= Len(b)
  /\ b[p] <= maxEntryCount
  /\ b[p] <= Len(b) - p + 1

\* The transactions of a whole batch; "err" is an error or a nil result, which the
\* callers treat alike.  A batch without transactions gives nil, too.
DecodeBatch(b) ==
  LET entries == DecodeEntries(b, 2, b[1])
  IN  IF validateVecPrefix(b, 1) /\ entries.st = "ok" /\ entries.txs # <<>>
      THEN [st |-> "ok", txs |-> entries.txs]
      ELSE [st |-> "err", txs |-> <<>>]

\* The transactions of the whole batches at the front of b, up to the first
\* batch that does not decode.
DecodeConcatenated(b) ==
  LET from[p \in 1..(Len(b) + 1)] ==
        LET entries == DecodeEntries(b, p + 1, b[p])
        IN  IF validateVecPrefix(b, p) /\ entries.st = "ok"
            THEN entries.txs \o from[entries.pos]
            ELSE <<>>
  IN  from[1]

-----------------------------------------------------------------------------
(* StreamingDecoder: a buffer that payloads are appended to, the place of the   *)
(* next unread cell, and the entry count once it is known (-1 before).          *)

NewStreamingDecoder ==
  [buffer |-> <<>>, cursor |-> 1, expectedCount |-> -1, entriesYielded |-> 0]

\* Push a payload: the decoder afterwards, the transactions of the entries that
\* became complete, and whether decoding failed (then no transaction is returned,
\* not even those of the entries decoded before the failure).
PushPayload(d, payload) ==
  LET buffer == d.buffer \o payload
      counts == d.expectedCount = -1 /\ Len(buffer) >= d.cursor
      want   == IF counts THEN buffer[d.cursor] ELSE d.expectedCount
      cursor == IF counts THEN d.cursor + 1 ELSE d.cursor
      rest   == DecodeEntries(buffer, cursor, want - d.entriesYielded)
      appended == [d EXCEPT !.buffer = buffer]
  IN  IF counts /\ want > maxEntryCount
      THEN [dec |-> appended, txs |-> <<>>, err |-> TRUE]
      ELSE IF want = -1
      THEN [dec |-> appended, txs |-> <<>>, err |-> FALSE]
      ELSE [dec |-> [buffer |-> buffer, cursor |-> rest.pos, expectedCount |-> want,
                     entriesYielded |-> d.entriesYielded + rest.n],
            txs |-> IF rest.st = "err" THEN <<>> ELSE rest.txs,
            err |-> rest.st = "err"]

=============================================================================
