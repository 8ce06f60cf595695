------------------------------ MODULE MCTTimer ------------------------------
(***************************************************************************)
(* Instances of TTimer and TTimerSleep for TLC.                            *)
(***************************************************************************)
EXTENDS TTimerSleep, TLC

Symmetric == Permutations(Ctx) \cup Permutations(Worker)
=============================================================================
