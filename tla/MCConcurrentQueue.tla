------------------------- MODULE MCConcurrentQueue -------------------------
(***************************************************************************)
(* Three threads that enqueue, two of which hash to the same slot; three   *)
(* that share two free blocks; two consumers of a sub-queue whose index    *)
(* doubles with its oldest entry in the middle.                            *)
(***************************************************************************)
EXTENDS ConcurrentQueue, TLC

CONSTANTS t1, t2, t3

MCHash == t1 :> 0 @@ t2 :> 0 @@ t3 :> 1
=============================================================================
