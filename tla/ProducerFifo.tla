---------------------------- MODULE ProducerFifo ----------------------------
(***************************************************************************)
(* What the sub-queue of one producer of a ConcurrentQueue promises: its   *)
(* elements leave in the order in which the producer put them in, each of  *)
(* them to one consumer, and an enqueue that fails leaves no trace.  The   *)
(* elements are numbered in that order, so a queue is known by the numbers *)
(* of its first element and of the next one to come.  A consumer takes an  *)
(* element at one moment and returns with it at a later one.               *)
(* ImplicitProducer.tla is shown to implement this specification; it is    *)
(* what Looper.tla takes for granted of task_queue_.                       *)
(***************************************************************************)
EXTENDS Naturals

CONSTANTS Consumers, NoElement

VARIABLES put,    \* elements that were put in so far
          first,  \* those of them that were taken
          taken   \* what each consumer has taken and not returned with

fifoVars == <<put, first, taken>>

Init == /\ put = 0
        /\ first = 0
        /\ taken = [c \in Consumers |-> NoElement]

Enqueue == /\ put' = put + 1
           /\ UNCHANGED <<first, taken>>

Take(c) == /\ first < put
           /\ first' = first + 1
           /\ taken[c] = NoElement
           /\ taken' = [taken EXCEPT ![c] = first]
           /\ UNCHANGED put

Return(c) == /\ taken[c] # NoElement
             /\ taken' = [taken EXCEPT ![c] = NoElement]
             /\ UNCHANGED <<put, first>>

Next == Enqueue \/ \E c \in Consumers : Take(c) \/ Return(c)

Spec == Init /\ [][Next]_fifoVars
=============================================================================
