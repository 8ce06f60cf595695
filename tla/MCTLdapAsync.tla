---------------------------- MODULE MCTLdapAsync ----------------------------
(***************************************************************************)
(* Instances of TLdapAsync for TLC.                                        *)
(***************************************************************************)
EXTENDS TLdapAsync, TLC

Symmetric == Permutations(Ctx)
=============================================================================
