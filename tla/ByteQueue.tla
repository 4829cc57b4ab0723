----------------------------- MODULE ByteQueue -----------------------------
(***************************************************************************)
(* What an IOBuffer promises: a queue of bytes.  Bytes are put at its end, *)
(* or as a header at its front, and taken from its front, and nothing else *)
(* changes what it holds.  Connection.tla uses a buffer as such a queue,   *)
(* IOBuffer.tla is shown to implement it.                                  *)
(***************************************************************************)
EXTENDS Naturals, Sequences

CONSTANT Lengths  \* how many bytes one operation may put or take: natural numbers

VARIABLES put,   \* how many bytes have been put, which numbers them
          bytes  \* the bytes the queue holds, by their numbers

queueVars == <<put, bytes>>

Init == put = 0 /\ bytes = <<>>

\* The next k bytes.
Fresh(k) == [i \in 1..k |-> put + i]

Put(k) == /\ bytes' = bytes \o Fresh(k)
          /\ put' = put + k

PutFront(k) == /\ bytes' = Fresh(k) \o bytes
               /\ put' = put + k

Take(k) == /\ k <= Len(bytes)
           /\ bytes' = SubSeq(bytes, k + 1, Len(bytes))
           /\ UNCHANGED put

Next == \E k \in Lengths : Put(k) \/ PutFront(k) \/ Take(k)

Spec == Init /\ [][Next]_queueVars
=============================================================================
