---------------------------- MODULE MCUuidClock -----------------------------
(***************************************************************************)
(* UuidClock for TLC.                                                      *)
(***************************************************************************)
EXTENDS UuidClock
=============================================================================
