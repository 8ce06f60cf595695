----------------------------- MODULE MCTLdapBind -----------------------------
(* Instances of TLdapBind for TLC. *)
EXTENDS TLdapBind

C(p, o, s, q) == [pair |-> p, second |-> o, sce |-> s, quiet |-> q]

MCConfs == {C(FALSE, FALSE, TRUE, FALSE), C(FALSE, FALSE, FALSE, TRUE),
            C(TRUE, TRUE, FALSE, FALSE), C(TRUE, FALSE, FALSE, FALSE)}
=============================================================================
