---------------------------- MODULE MCTLifecycle ----------------------------
(***************************************************************************)
(* Instances of TLifecycle for TLC.  Contexts are interchangeable; workers *)
(* are not, since main goes through them in order.                         *)
(***************************************************************************)
EXTENDS TLifecycle, TLC

Symmetric == Permutations(Ctx)
=============================================================================
