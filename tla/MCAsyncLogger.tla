--------------------------- MODULE MCAsyncLogger ---------------------------
(***************************************************************************)
(* A log in buffers of two messages, down to the disk: seven messages are  *)
(* enough for a round of more than DropAbove buffers, for the front to run *)
(* out of spare buffers, and for a disk that is full in one round and not  *)
(* in the next.                                                            *)
(***************************************************************************)
EXTENDS LogFile
=============================================================================
