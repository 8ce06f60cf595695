------------------------------- MODULE TThread -------------------------------
(***************************************************************************)
(* The worker threads that tThreadStart creates, and the value that stands *)
(* for no thread and for the null pointer, as the models of what all of    *)
(* them use share them (TUser, TStat).                                     *)
(***************************************************************************)
CONSTANTS Worker, NULL

ASSUME ThreadAssumption == NULL \notin Worker
=============================================================================
