------------------------------ MODULE MCLooper ------------------------------
(***************************************************************************)
(* An event loop, two posting threads and four tasks; the loop of the main *)
(* thread, which posts one of the tasks before Start, or the loop of a     *)
(* LooperThread.                                                           *)
(***************************************************************************)
EXTENDS LooperThread
=============================================================================
