------------------------------ MODULE TReserve ------------------------------
(***************************************************************************)
(* What the reservation of Src/tuser.c promises to the scenarios: a user   *)
(* is given to one scenario at a time, until that scenario gives it back;  *)
(* an Accounting-On or Off may abort a reserved user, which its scenario   *)
(* finds out later (tUserIsAborted) and which the next reservation undoes. *)
(* TUser implements it for the settings that check users.                  *)
(***************************************************************************)
CONSTANT User

VARIABLES taken,    \* the users that are reserved
          aborted   \* those of them that are aborted

vars == <<taken, aborted>>

Init == taken = {} /\ aborted = {}

Get(u) ==
  /\ u \notin taken
  /\ taken' = taken \cup {u}
  /\ UNCHANGED aborted

Free(u) ==
  /\ u \in taken
  /\ taken' = taken \ {u}
  /\ aborted' = aborted \ {u}

Abort(u) ==
  /\ aborted' = aborted \cup ({u} \cap taken)
  /\ UNCHANGED taken

Next == \E u \in User : Get(u) \/ Free(u) \/ Abort(u)

Spec == Init /\ [][Next]_vars
=============================================================================
