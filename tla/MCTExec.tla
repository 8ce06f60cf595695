------------------------------ MODULE MCTExec -------------------------------
(***************************************************************************)
(* TExec for TLC: two workers on two users, a scenario of an LDAP and a    *)
(* RADIUS request around a wait and one whose Accounting-On aborts users,  *)
(* in a traffic that loads and in traffics that do not.                    *)
(***************************************************************************)
EXTENDS TExec

MCUser == 1 .. 2
MCActions ==
  [s \in Sound |->
     IF s = "s1" THEN <<"SCE_Begin", "LDAP_Rq", "SCE_Wait", "RADIUS_Rq", "SCE_End">>
                 ELSE <<"SCE_Begin", "RADIUS_AccountOn_Rq", "SCE_End">>]
MCSettings == {<<TRUE, FALSE>>, <<FALSE, TRUE>>}  \* the defaults, the opposite
Of(s, n) == [sce |-> s, rate |-> n]
MCTrafics ==
  {<<Of("s1", 1), Of("s2", 1)>>,                    \* half and half
   <<Of("s1", 1), Of("s2", 2), Of("s1", 1)>>,     \* the second does not fit
   <<Of("s2", 1)>>,                                   \* not full
   <<Of("s3", 1), Of("s1", 2)>>}                    \* the first is unknown
=============================================================================
