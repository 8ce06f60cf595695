------------------------------- MODULE MCTStat -------------------------------
(***************************************************************************)
(* Instances of TStat for TLC.                                             *)
(***************************************************************************)
EXTENDS TStat, TLC

Symmetric == Permutations(Worker)
=============================================================================
