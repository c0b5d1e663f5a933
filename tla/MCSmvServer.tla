---------------------------- MODULE MCSmvServer ----------------------------
(***************************************************************************)
(* SmvServer for TLC.  Two agents; the first may be logged in twice.        *)
(***************************************************************************)
EXTENDS SmvServer, TLC

CONSTANTS s1, s2, s3, a1, a2, r1, r2

(* Two viewers with an address each.                                        *)
OneEach == s1 :> a1 @@ s2 :> a2
OwnAddress == s1 :> {r1} @@ s2 :> {r2}

(* The first agent logs in twice, its second viewer from the address of the *)
(* other agent's viewer.                                                   *)
TwiceLoggedIn == s1 :> a1 @@ s2 :> a1 @@ s3 :> a2
SharedAddresses == s1 :> {r1} @@ s2 :> {r2} @@ s3 :> {r2}

(* The second viewer is behind a NAT that moves it to the first's address.  *)
SharedByNat == s1 :> {r1} @@ s2 :> {r1, r2}
=============================================================================
