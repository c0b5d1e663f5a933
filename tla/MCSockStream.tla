---------------------------- MODULE MCSockStream ----------------------------
(***************************************************************************)
(* SockStream for TLC: an accepted connection i1 and an outgoing one, o1.   *)
(***************************************************************************)
EXTENDS SockStream

CONSTANTS i1, o1
=============================================================================
