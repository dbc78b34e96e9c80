------------------------------ MODULE MCServer ------------------------------
(* TLC instances of the thread-pool server; symmetry for the safety runs. *)
EXTENDS ServerProperties, TLC

Symmetry == Permutations(Workers) \cup Permutations(Conns) \cup Permutations(Signals)
=============================================================================
