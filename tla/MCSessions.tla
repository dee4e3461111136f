---------------------------- MODULE MCSessions -----------------------------
(* Instance of SessionRouting: more sessions than the store has room for.   *)
EXTENDS SessionRouting

Symmetry == Permutations(Session) \union Permutations(Slot)
=============================================================================
