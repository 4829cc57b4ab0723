------------------------------ MODULE MCServer ------------------------------
(***************************************************************************)
(* A server with two I/O loops, or with an empty pool, where the main loop *)
(* does it all.  There are fewer descriptors than connections, so that     *)
(* descriptors are used again.                                             *)
(***************************************************************************)
EXTENDS Server

CONSTANTS io1, io2

TwoPools == {<<>>, <<io1, io2>>}
=============================================================================
