---------------------------- MODULE MCPoolSystem ----------------------------
(* Symmetry for checking PoolSystem: clients are numbered, the rest is not. *)
EXTENDS PoolSystem, PoolProperties, ServerProperties, TLC

Symmetry == Permutations(Workers) \cup Permutations(Signals)
=============================================================================
