---------------------------- MODULE MCHashTable -----------------------------
(***************************************************************************)
(* HashTable for TLC: two keys that collide.                               *)
(***************************************************************************)
EXTENDS HashTable, TLC

CONSTANTS k1, k2, b1, b2

Collide == k1 :> b1 @@ k2 :> b1
=============================================================================
