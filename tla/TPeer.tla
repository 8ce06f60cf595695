-------------------------------- MODULE TPeer -------------------------------
(***************************************************************************)
(* What the EAP peer of the WPA supplicant library promises to the program *)
(* that feeds it (tsupplicant.c, or the library's own eapol_test.c): one   *)
(* call per EAP frame, and at the end of the call at most one response     *)
(* sent and at most one verdict reported, not both.  A peer that cannot    *)
(* build its response is stuck: it sends and reports nothing until its own *)
(* clock gives the authentication up, and the clock of tgen never runs.    *)
(***************************************************************************)
CONSTANT Ticking   \* the port timers run

VARIABLES report,  \* what the last call did: a response sent, a verdict
          stuck    \* the last request has neither a response nor a refusal

vars == <<report, stuck>>

Code == {"Request", "Success", "Failure", "other"}
Verdict == {"none", "success", "failure"}
Report == [sent : BOOLEAN, verdict : Verdict]

Quiet == [sent |-> FALSE, verdict |-> "none"]
Sent == [sent |-> TRUE, verdict |-> "none"]
Said(verdict) == [sent |-> FALSE, verdict |-> verdict]

(* Too many rounds end the authentication whatever the frame.              *)
Reports(code) ==
  {Quiet, Said("failure")}
  \cup (IF code = "Request" THEN {Sent} ELSE {})
  \cup (IF code = "Success" THEN {Said("success")} ELSE {})

Init == report = Quiet /\ stuck = FALSE

Receive(code) ==
  /\ report' \in IF stuck THEN {Quiet} ELSE Reports(code)
  /\ \/ stuck' = stuck
     \/ stuck' = TRUE /\ code = "Request" /\ report' = Quiet

(* A second passes: the peer may give up, which frees it.                  *)
Expire ==
  /\ Ticking
  /\ report' \in {Quiet, Said("success"), Said("failure")}
  /\ stuck' = (stuck /\ report' = Quiet)

Next == Expire \/ \E code \in Code : Receive(code)

Spec == Init /\ [][Next]_vars
=============================================================================
