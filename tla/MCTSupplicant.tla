---------------------------- MODULE MCTSupplicant ---------------------------
(***************************************************************************)
(* Instances of TSupplicant for TLC.                                       *)
(***************************************************************************)
EXTENDS TSupplicant
=============================================================================
