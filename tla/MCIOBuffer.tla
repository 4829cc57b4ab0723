----------------------------- MODULE MCIOBuffer -----------------------------
(***************************************************************************)
(* IOBuffer with a storage of a few bytes, so that few calls fill it, move *)
(* it and outgrow it.                                                      *)
(***************************************************************************)
EXTENDS IOBuffer
=============================================================================
