------------------------------- MODULE MCWire -------------------------------
(***************************************************************************)
(* Transactions of both versions, with and without signatures, lookups and *)
(* numbers of two bytes.  The bytes of each field differ, and some look    *)
(* like counts, so that a decoder out of step misreads them.               *)
(***************************************************************************)
EXTENDS TransactionDecoder

Fill(byte, n) == [i \in 1..n |-> byte]
Key(k) == Fill(k, PubkeySize)
Sig(k) == <<k>> \o Fill(k + 1, SignatureSize - 1)
Header3 == <<1, 0, 2>>

Vote == <<<<Sig(3)>>, Header3, <<Key(1), Key(130)>>, Key(7),
          <<<<<<1>>, <<0, 1>>, <<2, 0, 128>>>>>>>>
Swap == <<<<Sig(0), Sig(200)>>, Header3, <<Key(2)>>, Key(7),
          <<<<<<0>>, <<>>, Fill(1, 130)>>, <<<<2>>, <<3>>, <<>>>>>>,
          <<<<Key(0), <<1, 2>>, <<>>>>>>>>
Unsigned == <<<<>>, Header3, <<>>, Key(7), <<>>, <<>>>>

MCStreams == {<<Vote, Unsigned>>, <<Swap>>, <<Unsigned, Vote>>, <<Unsigned, Unsigned>>}
=============================================================================
