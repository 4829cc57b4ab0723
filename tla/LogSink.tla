------------------------------ MODULE LogSink ------------------------------
(***************************************************************************)
(* What the asynchronous log promises its callers: a message is accepted   *)
(* at once and written later; messages reach the file in the order they    *)
(* were accepted, each at most once; and a run of messages is thrown away  *)
(* only out of a backlog of at least Backlog messages, the oldest of which *)
(* are written all the same.                                               *)
(***************************************************************************)
EXTENDS Naturals, Sequences

CONSTANTS Backlog,  \* no message is dropped from fewer waiting messages
          Spared    \* so many of the oldest are written when others are dropped

VARIABLES accepted,  \* how many messages have been accepted
          pending,   \* the messages accepted and not yet written or dropped
          output     \* the messages in the file

sinkVars == <<accepted, pending, output>>

Init == accepted = 0 /\ pending = <<>> /\ output = <<>>

\* A message is named by its number in the order of acceptance.
Accept == /\ accepted' = accepted + 1
          /\ pending' = Append(pending, accepted + 1)
          /\ UNCHANGED output

\* The oldest i messages are written and those after them up to j are dropped.
Write == \E j \in 1..Len(pending), i \in 0..Len(pending) :
            /\ i = j \/ (i < j /\ j >= Backlog /\ i = Spared)
            /\ output' = output \o SubSeq(pending, 1, i)
            /\ pending' = SubSeq(pending, j + 1, Len(pending))
            /\ UNCHANGED accepted

Next == Accept \/ Write

Spec == Init /\ [][Next]_sinkVars
=============================================================================
