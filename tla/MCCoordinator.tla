----------------------------- MODULE MCCoordinator -----------------------------
(* Small instances of Coordinator for TLC.                                      *)
EXTENDS Coordinator, TLC

Symmetry == Permutations(Players) \union Permutations(Requests)
=================================================================================
