---------------------------- MODULE MCConnection ----------------------------
(***************************************************************************)
(* A connection with sockets that hold two bytes and messages of up to     *)
(* three, so that every message may be cut into direct, buffered and late  *)
(* parts.                                                                  *)
(***************************************************************************)
EXTENDS Connection
=============================================================================
