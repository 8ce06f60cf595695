------------------------------ MODULE MCTEapol ------------------------------
(***************************************************************************)
(* Instances of TEapol for TLC.                                            *)
(***************************************************************************)
EXTENDS TEapol
=============================================================================
