---------------------------- MODULE MCInventory -----------------------------
(***************************************************************************)
(* Inventory for TLC: a session for each of two agents.  Exchanging both   *)
(* agents together with their sessions changes nothing.                    *)
(***************************************************************************)
EXTENDS Inventory, TLC

CONSTANTS s1, s2, a1, a2

OneEach == s1 :> a1 @@ s2 :> a2
Interchangeable ==
  {p \in Permutations(Sessions \cup Agents) :
     \A s \in Sessions : p[s] \in Sessions /\ p[AgentOf[s]] = AgentOf[p[s]]}
=============================================================================
