---------------------------- MODULE MCTimerQueue ----------------------------
(***************************************************************************)
(* Timers added before, during and after the rounds that run others, with  *)
(* intervals that make them expire together, in turn or out of turn.       *)
(***************************************************************************)
EXTENDS TimerQueue
=============================================================================
