-------------------------------- MODULE Dict --------------------------------
(***************************************************************************)
(* What lib_hash.c promises whoever looks keys up: a dictionary.  A key    *)
(* holds what was last inserted under it until it is deleted, whatever     *)
(* iterators walk the table and however long deleted entries linger in it. *)
(***************************************************************************)
CONSTANTS
  Keys,
  Values,
  NULL       \* what hfind returns for a key that is not there

VARIABLES
  dict,
  given      \* the values ever inserted: each insertion brings its own

vars == <<dict, given>>

Init ==
  /\ dict = [k \in Keys |-> NULL]
  /\ given = {}

Insert(k, v) ==
  /\ v \notin given
  /\ given' = given \union {v}
  /\ dict' = [dict EXCEPT ![k] = v]

Delete(k) ==
  /\ dict[k] # NULL
  /\ dict' = [dict EXCEPT ![k] = NULL]
  /\ UNCHANGED given

Next == \E k \in Keys : Delete(k) \/ \E v \in Values : Insert(k, v)

Spec == Init /\ [][Next]_vars
=============================================================================
