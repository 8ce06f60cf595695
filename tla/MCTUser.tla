------------------------------- MODULE MCTUser ------------------------------
(***************************************************************************)
(* Instances of TUser for TLC.                                             *)
(***************************************************************************)
EXTENDS TUser, TLC

CONSTANTS s1, s2

(* Two scenarios that share all the users, one of them in a population.    *)
ExclusionOne == (s1 :> 1 @@ s2 :> 1)
LastMin == (s1 :> 0 @@ s2 :> 1)
LastNb == (s1 :> 0 @@ s2 :> UserNb - 1)

Symmetric == Permutations(Worker)
=============================================================================
