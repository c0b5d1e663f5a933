---------------------------- MODULE MCTimerWheel ----------------------------
(***************************************************************************)
(* TimerWheel for TLC.                                                     *)
(***************************************************************************)
EXTENDS TimerWheel
=============================================================================
