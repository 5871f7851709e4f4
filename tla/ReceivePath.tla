---------------------------- MODULE ReceivePath ----------------------------
(***************************************************************************)
(* The way of a datagram from the socket to the place where its bytes are  *)
(* kept: bufferPool of pool.go with its stack of free indices, recvOne and *)
(* handlePacketParsed of listener.go, ShredParser, and what the            *)
(* accumulators keep.  A data shred is kept in the pool buffer it was read *)
(* into; of a code shred, recordCode keeps a copy, and its buffer goes     *)
(* back.  Buffers are used again and again, by several goroutines.         *)
(*                                                                         *)
(* Listener models which slots are live and when they are evicted; here    *)
(* the slot of a shred is accepted, refused or known by choice, and an     *)
(* accumulator may drop a shred at any time the mutex is free, also while  *)
(* acquireBufferWithFallback looks for a buffer.  When it finds none, the  *)
(* datagram is read into a dummy and nothing here changes.  HandlePacket   *)
(* takes the steps of a reader without letting go of the mutex.            *)
(***************************************************************************)
EXTENDS ShredParser, Sequences, FiniteSets

CONSTANTS
  capacity,      \* of the pool
  BufferSize,    \* of a buffer; longer datagrams are cut
  Readers,       \* goroutines in recvOne
  Arriving,      \* the datagrams that arrive
  enableFEC,
  MaxReads       \* bound on the datagrams read

ASSUME ReceiveAssumption ==
  /\ capacity \in Nat \ {0} /\ BufferSize \in Nat /\ BufferSize < U16
  /\ IsFiniteSet(Readers) /\ Arriving \subseteq Datagram /\ enableFEC \in BOOLEAN /\ MaxReads \in Nat

VARIABLES
  freelist,    \* bufferPool.freelist
  content,     \* index -> what the buffer holds, with the length the handle was set to
  pc,          \* reader -> its place in recvOne
  handle,      \* reader -> the index of its handle, or None
  parsed,      \* reader -> what ParseKind returned
  last,        \* reader -> history: the datagram it read, as far as it fits
  kept,        \* the data shreds that accumulators hold
  codes,       \* the code shreds that erasure sets hold
  counters,    \* the atomic counters of Listener
  reads,       \* history: datagrams read into a buffer
  sum          \* a call of UnparseablePackets: its loads so far, and their sum

vars == <<freelist, content, pc, handle, parsed, last, kept, codes, counters, reads, sum>>

None == -1
Indices == 0..(capacity - 1)
Blank == [len |-> 0, variant |-> 0, slot |-> 0, index |-> 0, fec |-> 0,
          bytes |-> [b \in HeaderBytes |-> 0]]

-----------------------------------------------------------------------------
(* bufferPool *)

newBufferPool == [n \in 1..capacity |-> capacity - n]

\* Faulty variant: the index stays in the free list.
Shrunk_Not(s) == s
Shrunk(s) == SubSeq(s, 1, Len(s) - 1)

acquire(g) ==
  /\ freelist # <<>>
  /\ handle' = [handle EXCEPT ![g] = freelist[Len(freelist)]]
  /\ freelist' = Shrunk(freelist)

release(i) == freelist' = Append(freelist, i)

\* The handle of reader g is released.
Release(g) ==
  /\ release(handle[g])
  /\ handle' = [handle EXCEPT ![g] = None]

-----------------------------------------------------------------------------
(* recvOne *)

Goto(g, place) == pc' = [pc EXCEPT ![g] = place]
\* recvOne returns: its locals are gone.
Return(g) ==
  /\ Goto(g, "next")
  /\ parsed' = [parsed EXCEPT ![g] = Error("none")]
  /\ last' = [last EXCEPT ![g] = Blank]
Bump(c) == counters' = [counters EXCEPT ![c] = @ + 1]

RecvAcquires(g) ==
  /\ pc[g] = "next"
  /\ acquire(g)
  /\ Goto(g, "read")
  /\ UNCHANGED <<content, parsed, last, kept, codes, counters, reads, sum>>

Fitting(d) == IF d.len > BufferSize THEN [d EXCEPT !.len = BufferSize] ELSE d

RecvReads(g, d) ==
  /\ pc[g] = "read" /\ reads < MaxReads
  /\ content' = [content EXCEPT ![handle[g]] = Fitting(d)]
  /\ last' = [last EXCEPT ![g] = Fitting(d)]
  /\ reads' = reads + 1
  /\ Goto(g, "parse")
  /\ UNCHANGED <<freelist, handle, parsed, kept, codes, counters, sum>>

RecvFails(g) ==
  /\ pc[g] = "read"
  /\ Release(g)
  /\ Return(g)
  /\ UNCHANGED <<content, kept, codes, counters, reads, sum>>

\* Faulty variant: what has no counter of its own is not counted.
bumpParseError_Forgets(error) ==
  CASE error = "TooShort" -> Bump("unparseableTooShort")
    [] error = "UnknownVariant" -> Bump("unparseableVariant")
    [] OTHER -> UNCHANGED counters
bumpParseError(error) ==
  CASE error = "TooShort" -> Bump("unparseableTooShort")
    [] error = "UnknownVariant" -> Bump("unparseableVariant")
    [] OTHER -> Bump("unparseablePayload")

RecvUnparseable(g) ==
  /\ pc[g] = "parse"
  /\ ParseKind(content[handle[g]]).kind = "error"
  /\ bumpParseError(ParseKind(content[handle[g]]).error)
  /\ Release(g)
  /\ Return(g)
  /\ UNCHANGED <<content, kept, codes, reads, sum>>

RecvParses(g) ==
  /\ pc[g] = "parse"
  /\ ParseKind(content[handle[g]]).kind # "error"
  /\ parsed' = [parsed EXCEPT ![g] = ParseKind(content[handle[g]])]
  /\ Goto(g, "handle")
  /\ UNCHANGED <<freelist, content, handle, last, kept, codes, counters, reads, sum>>

-----------------------------------------------------------------------------
(* handlePacketParsed *)

\* acceptSlot refuses the slot, or the slot is blacklisted.
Refuses(g) ==
  /\ pc[g] = "handle"
  /\ \E c \in {"unparseableSlotRange", "droppedKnownSlots"} : Bump(c)
  /\ Release(g)
  /\ Return(g)
  /\ UNCHANGED <<content, kept, codes, reads, sum>>

\* pushData keeps the handle and where the payload ends, as a 16-bit number.
KeepsData(g) ==
  /\ pc[g] = "handle" /\ parsed[g].kind = "data"
  /\ Bump("dataShredCount")
  /\ kept' = kept \cup {[buffer |-> handle[g], payloadEnd |-> parsed[g].end % U16,
                         sent |-> last[g]]}
  /\ handle' = [handle EXCEPT ![g] = None]
  /\ Return(g)
  /\ UNCHANGED <<freelist, content, codes, reads, sum>>

\* ... or gives the handle back: a duplicate, a late shred, the last of its slot.
PassesData(g) ==
  /\ pc[g] = "handle" /\ parsed[g].kind = "data"
  /\ Bump("dataShredCount")
  /\ Release(g)
  /\ Return(g)
  /\ UNCHANGED <<content, kept, codes, reads, sum>>

\* Faulty variant: the slice of the buffer is kept, not a copy of it.
Recorded_Slice(g) ==
  [buffer |-> handle[g], slot |-> parsed[g].slot, fec |-> parsed[g].fec,
   position |-> parsed[g].position, bytes |-> Blank, sent |-> last[g]]
Recorded(g) ==
  [buffer |-> None, slot |-> parsed[g].slot, fec |-> parsed[g].fec,
   position |-> parsed[g].position, bytes |-> content[handle[g]], sent |-> last[g]]

SamePlace(c, d) == c.slot = d.slot /\ c.fec = d.fec /\ c.position = d.position

\* recordCode copies what it keeps, the first shred of a position, before the buffer
\* goes back.
KeepsCode(g) ==
  /\ pc[g] = "handle" /\ parsed[g].kind = "code" /\ enableFEC
  /\ Bump("codeShredCount")
  /\ codes' = IF \E c \in codes : SamePlace(c, Recorded(g)) THEN codes
              ELSE codes \cup {Recorded(g)}
  /\ Release(g)
  /\ Return(g)
  /\ UNCHANGED <<content, kept, reads, sum>>

\* ... unless recovery is off, or pushCode does not take it.
PassesCode(g) ==
  /\ pc[g] = "handle" /\ parsed[g].kind = "code"
  /\ Bump("codeShredCount")
  /\ Release(g)
  /\ Return(g)
  /\ UNCHANGED <<content, kept, codes, reads, sum>>

\* A batch is finished or a slot evicted.
DropsData(k) ==
  /\ release(k.buffer)
  /\ kept' = kept \ {k}
  /\ UNCHANGED <<content, pc, handle, parsed, last, codes, counters, reads, sum>>

DropsCode(c) ==
  /\ codes' = codes \ {c}
  /\ UNCHANGED <<freelist, content, pc, handle, parsed, last, kept, counters, reads, sum>>

-----------------------------------------------------------------------------
(* UnparseablePackets loads four counters, one after the other *)

Unparseable == <<"unparseableTooShort", "unparseableVariant", "unparseablePayload",
                 "unparseableSlotRange">>
UnparseableNow == counters[Unparseable[1]] + counters[Unparseable[2]]
                    + counters[Unparseable[3]] + counters[Unparseable[4]]

\* Faulty variant: a counter is loaded once more.
Loaded_Again(n) == IF n = 4 THEN counters[Unparseable[4]] + counters[Unparseable[1]]
                   ELSE counters[Unparseable[n]]
Loaded(n) == counters[Unparseable[n]]

\* One call, that begins at any time.
CallBegins ==
  /\ sum.loads = -1
  /\ sum' = [loads |-> 0, value |-> 0, before |-> UnparseableNow]
  /\ UNCHANGED <<freelist, content, pc, handle, parsed, last, kept, codes, counters, reads>>

CallLoads ==
  /\ sum.loads \in 0..3
  /\ sum' = [sum EXCEPT !.loads = @ + 1, !.value = @ + Loaded(sum.loads + 1)]
  /\ UNCHANGED <<freelist, content, pc, handle, parsed, last, kept, codes, counters, reads>>

-----------------------------------------------------------------------------

CounterNames == {"unparseableTooShort", "unparseableVariant", "unparseablePayload",
                 "unparseableSlotRange", "droppedKnownSlots", "dataShredCount",
                 "codeShredCount"}

Init ==
  /\ freelist = newBufferPool
  /\ content = [i \in Indices |-> Blank]
  /\ pc = [g \in Readers |-> "next"] /\ handle = [g \in Readers |-> None]
  /\ parsed = [g \in Readers |-> Error("none")] /\ last = [g \in Readers |-> Blank]
  /\ kept = {} /\ codes = {}
  /\ counters = [c \in CounterNames |-> 0]
  /\ reads = 0
  /\ sum = [loads |-> -1, value |-> 0, before |-> 0]

Receives(g) ==
  \/ RecvAcquires(g) \/ RecvFails(g)
  \/ \E d \in Arriving : RecvReads(g, d)
  \/ RecvUnparseable(g) \/ RecvParses(g)
  \/ Refuses(g) \/ KeepsData(g) \/ PassesData(g) \/ KeepsCode(g) \/ PassesCode(g)

Next ==
  \/ \E g \in Readers : Receives(g)
  \/ \E k \in kept : DropsData(k)
  \/ \E c \in codes : DropsCode(c)
  \/ CallBegins \/ CallLoads

Spec == Init /\ [][Next]_vars

-----------------------------------------------------------------------------
(* Properties *)

Free(i) == \E n \in 1..Len(freelist) : freelist[n] = i
Held(i) == (\E g \in Readers : handle[g] = i) \/ (\E k \in kept : k.buffer = i)

\* The free list is sound: an index is in it at most once, and exactly when no goroutine
\* and no accumulator holds its buffer; two never hold the same one.
FreelistSound ==
  /\ \A m, n \in 1..Len(freelist) : freelist[m] = freelist[n] => m = n
  /\ \A i \in Indices : Free(i) <=> ~Held(i)
  /\ \A g, h \in Readers : handle[g] = handle[h] /\ handle[g] # None => g = h
  /\ \A k, m \in kept : k.buffer = m.buffer => k = m
  /\ \A g \in Readers, k \in kept : handle[g] # k.buffer

Reading(g) == pc[g] \in {"parse", "handle"}

\* The bytes of a shred stay what they were when it was read, for as long as they are
\* looked at: while a reader parses them without the mutex, while they are kept in a pool
\* buffer, and when they were copied out of one that has been used again since.
BytesAsReceived ==
  /\ \A g \in Readers : Reading(g) => content[handle[g]] = last[g]
  /\ \A k \in kept : content[k.buffer] = k.sent
  /\ \A c \in codes : (IF c.buffer = None THEN c.bytes ELSE content[c.buffer]) = c.sent

\* The payload of a kept data shred lies within the datagram that is in its buffer, so
\* that slicing it never panics, and its end was not cut to 16 bits.
PayloadInBuffer ==
  \A k \in kept : DataHeaderSize <= k.payloadEnd /\ k.payloadEnd <= content[k.buffer].len

\* Every datagram read into a buffer is counted once, by exactly one counter, when the
\* goroutine that read it is done with it.
EveryDatagramCounted ==
  reads = UnparseableNow + counters["droppedKnownSlots"] + counters["dataShredCount"]
            + counters["codeShredCount"] + Cardinality({g \in Readers : Reading(g)})

\* What UnparseablePackets returns lies between what had been counted when it was called
\* and what has been counted when it returns, though its four loads are not one.
SumWithinCall == sum.loads = 4 => sum.before <= sum.value /\ sum.value <= UnparseableNow

=============================================================================
