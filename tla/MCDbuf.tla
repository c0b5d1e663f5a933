------------------------------- MODULE MCDbuf -------------------------------
(***************************************************************************)
(* Dbuf for TLC: a text that the temporary buffer of dxprintf holds and    *)
(* one that it does not.                                                   *)
(***************************************************************************)
EXTENDS Dbuf, TLC

CONSTANTS p1, p2

SomeTexts == {<<1>>, <<2, 1>>}
Interchangeable == Permutations(Place)
=============================================================================
