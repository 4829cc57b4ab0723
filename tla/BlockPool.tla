----------------------------- MODULE BlockPool -----------------------------
(***************************************************************************)
(* What the pool of blocks behind a ConcurrentQueue promises to the        *)
(* producers and consumers that take blocks from it and give them back: a  *)
(* block that is in use is handed to nobody else, and only a block in use  *)
(* is given back.  FreeList.tla is shown to implement this specification;  *)
(* ImplicitProducer.tla takes its blocks from it.                          *)
(***************************************************************************)
EXTENDS Naturals

CONSTANT Blocks

VARIABLE uses   \* how many times each block is in use

Init == uses \in [Blocks -> 0..1]

Acquire(b) == uses[b] = 0 /\ uses' = [uses EXCEPT ![b] = 1]

Release(b) == uses[b] = 1 /\ uses' = [uses EXCEPT ![b] = 0]

Next == \E b \in Blocks : Acquire(b) \/ Release(b)

Spec == Init /\ [][Next]_uses
=============================================================================
