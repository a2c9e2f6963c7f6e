------------------------------ MODULE MCScore ------------------------------
(***************************************************************************)
(* Finite instances of ScoreCache for TLC.                                 *)
(***************************************************************************)
EXTENDS ScoreCache, TLC

ScoreSymmetry == Permutations(Rows) \cup Permutations(Workers) \cup Permutations(Requests)
============================================================================
