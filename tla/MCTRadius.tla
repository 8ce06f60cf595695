------------------------------ MODULE MCTRadius -----------------------------
(***************************************************************************)
(* Instances of TRadius for TLC.                                           *)
(***************************************************************************)
EXTENDS TRadius
=============================================================================
