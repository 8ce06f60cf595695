------------------------------- MODULE TEapol -------------------------------
(***************************************************************************)
(* The EAP peer that tgen links from the WPA supplicant library: the PAE   *)
(* and backend machines of eapol_sm.c and the EAP machine of eap.c, which  *)
(* share flags and are stepped in turn until none of them moves.           *)
(*                                                                         *)
(* A call of eapol_sm_step is made of micro-steps: pc says which machine   *)
(* is next.  The machines talk through flags of struct eapol_sm that one   *)
(* sets and another clears, and what a frame leads to depends on the order *)
(* in which they see them.  The key machine (KEY_RX) never moves: no       *)
(* EAPOL-Key frame comes through RADIUS.  The forced, logoff and cached    *)
(* PMK modes, LEAP and PEAP are not used by tgen, which sets               *)
(* eap_workaround to 0 (tsupplicant.c) and whose methods are TLS and TTLS. *)
(***************************************************************************)
EXTENDS Integers

CONSTANTS Ids,            \* the EAP identifiers a server uses
          Ticking,        \* somebody runs the event loop of the library
          MaxRounds,      \* EAP_MAX_AUTH_ROUNDS (50)
          StartDelay,     \* seconds before the first EAPOL-Start (3)
          startPeriod,    \* 30
          maxStart,       \* 3
          heldPeriod,     \* 60
          authPeriod,     \* 30
          ClientTimeout,  \* 60
          NULL

ASSUME IdAssumption == Ids \subseteq Nat /\ 0 \in Ids
ASSUME TickAssumption == Ticking \in BOOLEAN
ASSUME TimeAssumption ==
  {MaxRounds, StartDelay, startPeriod, maxStart, heldPeriod, authPeriod, ClientTimeout}
    \subseteq Nat \ {0}

VARIABLES sm,       \* struct eapol_sm
          eap,      \* struct eap_sm
          pc,       \* the machine eapol_sm_step runs next, or "idle"
          i,        \* its iteration
          setup,    \* calls of eapol_sm_init and test_eapol made so far
          tally,    \* history: what the call has done so far
          report,   \* history: what the last call did (TPeer)
          stuck,    \* history: it left the backend in REQUEST (TPeer)
          broken    \* history: the last response could not be built

vars == <<sm, eap, pc, i, setup, tally, report, stuck, broken>>

StepLimit == 100   \* iterations of eapol_sm_step

Type == {"Identity", "Notification", "Method", "Unknown"}
Request == [code : {"Request"}, id : Ids, type : Type]
Ending == [code : {"Success", "Failure"}, id : Ids, type : {"None"}]
(* A response, an unknown code, a frame shorter than its length.           *)
Other == [code |-> "other", id |-> 0, type |-> "None"]
Frame == Request \cup Ending \cup {Other}

PaeState == {"UNKNOWN", "DISCONNECTED", "CONNECTING", "AUTHENTICATING", "AUTHENTICATED",
             "HELD", "RESTART"}
BeState == {"UNKNOWN", "REQUEST", "RESPONSE", "SUCCESS", "FAIL", "TIMEOUT", "IDLE",
            "INITIALIZE", "RECEIVE"}
EapState == {"INITIALIZE", "DISABLED", "IDLE", "RECEIVED", "GET_METHOD", "METHOD",
             "SEND_RESPONSE", "DISCARD", "IDENTITY", "NOTIFICATION", "RETRANSMIT",
             "SUCCESS", "FAILURE"}
Decision == {"FAIL", "COND_SUCC", "UNCOND_SUCC"}

EapolSm ==
  [SUPP_PAE_state : PaeState, SUPP_BE_state : BeState, changed : BOOLEAN,
   cb_status : {"IN_PROGRESS", "SUCCESS", "FAILURE"},
   initialize : BOOLEAN, portEnabled : BOOLEAN, portValid : BOOLEAN,
   eapolEap : BOOLEAN, eapReq : BOOLEAN, eapResp : BOOLEAN, eapNoResp : BOOLEAN,
   eapSuccess : BOOLEAN, eapFail : BOOLEAN, eapRestart : BOOLEAN,
   suppAbort : BOOLEAN, suppStart : BOOLEAN, suppTimeout : BOOLEAN,
   startCount : 0 .. maxStart, startWhen : Nat, heldWhile : 0 .. heldPeriod,
   authWhile : 0 .. authPeriod, idleWhile : 0 .. ClientTimeout,
   eapReqData : Frame \cup {NULL}]

(* A response is known by its identifier; whether it was built since the   *)
(* last INITIALIZE is history.                                             *)
Response == [id : Ids, fresh : BOOLEAN]

EapSm ==
  [EAP_state : EapState, selectedMethod : {"None", "Method"},
   methodState : {"NONE", "INIT", "MAY_CONT", "DONE"}, decision : Decision,
   allowNotifications : BOOLEAN, ignore : BOOLEAN, num_rounds : 0 .. MaxRounds + 2,
   req : Frame, lastId : Ids \cup {-1}, eapRespData : Response \cup {NULL},
   lastRespData : Response \cup {NULL}]

TypeOK ==
  /\ sm \in EapolSm
  /\ eap \in EapSm
  /\ pc \in {"idle", "SUPP_PAE", "SUPP_BE", "EAP", "cb"}
  /\ i \in 1 .. StepLimit
  /\ setup \in 0 .. 4
  /\ tally \in [handled : Nat, sent : Nat]
  /\ report \in [sent : BOOLEAN, verdict : {"none", "success", "failure"}]
  /\ stuck \in BOOLEAN /\ broken \in BOOLEAN

(* The structures as memset leaves them.                                   *)
Init ==
  /\ sm = [SUPP_PAE_state |-> "UNKNOWN", SUPP_BE_state |-> "UNKNOWN", changed |-> FALSE,
           cb_status |-> "IN_PROGRESS", initialize |-> FALSE, portEnabled |-> FALSE,
           portValid |-> FALSE, eapolEap |-> FALSE, eapReq |-> FALSE, eapResp |-> FALSE,
           eapNoResp |-> FALSE, eapSuccess |-> FALSE, eapFail |-> FALSE,
           eapRestart |-> FALSE, suppAbort |-> FALSE, suppStart |-> FALSE,
           suppTimeout |-> FALSE, startCount |-> 0, startWhen |-> 0, heldWhile |-> 0,
           authWhile |-> 0, idleWhile |-> 0, eapReqData |-> NULL]
  /\ eap = [EAP_state |-> "INITIALIZE", selectedMethod |-> "None",
            methodState |-> "NONE", decision |-> "FAIL", allowNotifications |-> FALSE,
            ignore |-> FALSE, num_rounds |-> 0, req |-> Other, lastId |-> -1,
            eapRespData |-> NULL, lastRespData |-> NULL]
  /\ pc = "idle" /\ i = 1 /\ setup = 0
  /\ tally = [handled |-> 0, sent |-> 0]
  /\ report = [sent |-> FALSE, verdict |-> "none"]
  /\ stuck = FALSE /\ broken = FALSE

-----------------------------------------------------------------------------
(***************************************************************************)
(* The calls: each sets its variable and runs eapol_sm_step.               *)
(***************************************************************************)
eapol_sm_step(s) ==
  /\ pc = "idle"
  /\ sm' = [s EXCEPT !.changed = FALSE]
  /\ pc' = "SUPP_PAE"
  /\ i' = 1
  /\ tally' = [handled |-> 0, sent |-> 0]
  /\ UNCHANGED <<eap, report, stuck, broken>>

(* eapol_sm_init, then test_eapol, then only frames.                       *)
Setup ==
  /\ setup < 4
  /\ setup' = setup + 1
  /\ eapol_sm_step(CASE setup = 0 -> [sm EXCEPT !.initialize = TRUE]
                     [] setup = 1 -> [sm EXCEPT !.initialize = FALSE]
                     [] setup = 2 -> [sm EXCEPT !.portValid = FALSE]
                     [] setup = 3 -> [sm EXCEPT !.portEnabled = TRUE])

eapol_sm_rx_eapol(f) ==
  /\ setup = 4
  /\ eapol_sm_step([sm EXCEPT !.eapReqData = f, !.eapolEap = TRUE])
  /\ UNCHANGED setup

Less(t) == IF t > 0 THEN t - 1 ELSE 0

MutTicked(s) ==
  [s EXCEPT !.authWhile = Less(@), !.heldWhile = Less(@), !.startWhen = Less(@)]

Ticked(s) ==
  [s EXCEPT !.authWhile = Less(@), !.heldWhile = Less(@), !.startWhen = Less(@),
            !.idleWhile = Less(@)]

eapol_port_timers_tick ==
  /\ Ticking /\ setup >= 2
  /\ eapol_sm_step(Ticked(sm))
  /\ UNCHANGED setup

-----------------------------------------------------------------------------
(***************************************************************************)
(* The PAE machine: SM_STATE(SUPP_PAE, ...), then SM_STEP(SUPP_PAE).       *)
(***************************************************************************)
Pae(s, state) == [s EXCEPT !.SUPP_PAE_state = state, !.changed = TRUE]

(* A global transition into the same state is no change.                   *)
DISCONNECTED(s) ==
  [s EXCEPT !.SUPP_PAE_state = "DISCONNECTED",
            !.changed = @ \/ s.SUPP_PAE_state # "DISCONNECTED",
            !.startCount = 0, !.suppAbort = TRUE]

CONNECTING(s) ==
  LET again == s.SUPP_PAE_state = "CONNECTING"
  IN  [Pae(s, "CONNECTING") EXCEPT
         !.startWhen = IF again THEN startPeriod ELSE StartDelay,
         !.startCount = IF again THEN @ + 1 ELSE @,
         !.eapolEap = FALSE]

AUTHENTICATING(s) ==
  [Pae(s, "AUTHENTICATING") EXCEPT !.startCount = 0, !.suppTimeout = FALSE,
                                   !.suppStart = TRUE]

HELD(s) == [Pae(s, "HELD") EXCEPT !.heldWhile = heldPeriod, !.cb_status = "FAILURE"]

AUTHENTICATED(s) == [Pae(s, "AUTHENTICATED") EXCEPT !.cb_status = "SUCCESS"]

RESTART(s) == [Pae(s, "RESTART") EXCEPT !.eapRestart = TRUE]

(* Another EAPOL-Start; nobody has answered to maxStart of them.           *)
StartAgain(s) == s.startWhen = 0 /\ s.startCount < maxStart
GivenUp(s) == s.startWhen = 0 /\ s.startCount >= maxStart

PaeConnecting(s) ==
  IF StartAgain(s) THEN CONNECTING(s)
  ELSE IF GivenUp(s) /\ s.portValid THEN AUTHENTICATED(s)
  ELSE IF s.eapSuccess \/ s.eapFail THEN AUTHENTICATING(s)
  ELSE IF s.eapolEap THEN RESTART(s)
  ELSE IF GivenUp(s) THEN HELD(s) ELSE s

(* test_eapol requires no key: success makes the port valid.               *)
PaeAuthenticating(s) ==
  IF s.eapSuccess THEN AUTHENTICATED([s EXCEPT !.portValid = TRUE])
  ELSE IF s.eapFail THEN HELD(s)
  ELSE IF s.suppTimeout THEN CONNECTING(s) ELSE s

PaeStep(s) ==
  CASE s.initialize \/ ~s.portEnabled -> DISCONNECTED(s)
    [] OTHER ->
       CASE s.SUPP_PAE_state = "DISCONNECTED" -> CONNECTING(s)
         [] s.SUPP_PAE_state = "CONNECTING" -> PaeConnecting(s)
         [] s.SUPP_PAE_state = "AUTHENTICATING" -> PaeAuthenticating(s)
         [] s.SUPP_PAE_state = "HELD" ->
              IF s.heldWhile = 0 THEN CONNECTING(s)
              ELSE IF s.eapolEap THEN RESTART(s) ELSE s
         [] s.SUPP_PAE_state = "AUTHENTICATED" ->
              IF s.eapolEap /\ s.portValid THEN RESTART(s)
              ELSE IF ~s.portValid THEN DISCONNECTED(s) ELSE s
         [] s.SUPP_PAE_state = "RESTART" ->
              IF s.eapRestart THEN s ELSE AUTHENTICATING(s)
         [] OTHER -> s

SUPP_PAE ==
  /\ pc = "SUPP_PAE"
  /\ sm' = PaeStep(sm)
  /\ pc' = "SUPP_BE"
  /\ UNCHANGED <<eap, i, setup, tally, report, stuck, broken>>

-----------------------------------------------------------------------------
(***************************************************************************)
(* The backend machine: the state that SM_STEP(SUPP_BE) enters, and what   *)
(* entering it does to struct eapol_sm.                                    *)
(***************************************************************************)
BeNext(s) ==
  CASE s.initialize \/ s.suppAbort -> "INITIALIZE"
    [] OTHER ->
       CASE s.SUPP_BE_state = "REQUEST" ->
              IF s.eapResp THEN "RESPONSE"
              ELSE IF s.eapNoResp THEN "RECEIVE" ELSE "stay"
         [] s.SUPP_BE_state = "RESPONSE" -> "RECEIVE"
         [] s.SUPP_BE_state \in {"SUCCESS", "FAIL", "TIMEOUT", "INITIALIZE"} -> "IDLE"
         [] s.SUPP_BE_state = "IDLE" ->
              IF ~s.suppStart THEN "stay"
              ELSE IF s.eapFail THEN "FAIL"
              ELSE IF s.eapolEap THEN "REQUEST"
              ELSE IF s.eapSuccess THEN "SUCCESS" ELSE "stay"
         [] s.SUPP_BE_state = "RECEIVE" ->
              IF s.eapolEap THEN "REQUEST"
              ELSE IF s.eapFail THEN "FAIL"
              ELSE IF s.authWhile = 0 THEN "TIMEOUT"
              ELSE IF s.eapSuccess THEN "SUCCESS" ELSE "stay"
         [] OTHER -> "stay"

Receive(s) ==
  [s EXCEPT !.authWhile = authPeriod, !.eapolEap = FALSE, !.eapNoResp = FALSE]

BeEnter(s, state) ==
  LET e == [s EXCEPT !.SUPP_BE_state = state,
                     !.changed = @ \/ s.SUPP_BE_state # state]
  IN  CASE state = "stay" -> s
        [] state = "INITIALIZE" -> [e EXCEPT !.suppAbort = FALSE, !.eapReqData = NULL]
        [] state = "REQUEST" -> [e EXCEPT !.authWhile = 0, !.eapReq = TRUE]
        [] state = "RESPONSE" -> [e EXCEPT !.eapResp = FALSE]
        [] state = "RECEIVE" -> Receive(e)
        [] state = "TIMEOUT" -> [e EXCEPT !.suppTimeout = TRUE]
        [] state = "IDLE" -> [e EXCEPT !.suppStart = FALSE]
        [] state \in {"SUCCESS", "FAIL"} -> e

(* eapol_sm_txSuppRsp takes the response, eapol_sm_abortSupp drops it.     *)
SUPP_BE ==
  /\ pc = "SUPP_BE"
  /\ sm' = BeEnter(sm, BeNext(sm))
  /\ eap' = IF BeNext(sm) \in {"INITIALIZE", "RESPONSE"}
            THEN [eap EXCEPT !.eapRespData = NULL] ELSE eap
  /\ tally' = IF BeNext(sm) = "RESPONSE" /\ eap.eapRespData # NULL
              THEN [tally EXCEPT !.sent = @ + 1] ELSE tally
  /\ pc' = "EAP"
  /\ UNCHANGED <<i, setup, report, stuck, broken>>

-----------------------------------------------------------------------------
(***************************************************************************)
(* The EAP machine.  eap_sm_step repeats SM_STEP(EAP) while the state      *)
(* changes; one action per state entered, with what SM_STATE does there.   *)
(***************************************************************************)
Restarted == sm.eapRestart /\ sm.portEnabled
Disabled == ~sm.portEnabled
TooMany == eap.num_rounds > MaxRounds

(* Neither of the three global transitions: the switch on the state.       *)
At(state) ==
  /\ pc = "EAP" /\ ~Restarted /\ ~Disabled /\ ~TooMany
  /\ eap.EAP_state = state

Enter(state, e, s) ==
  /\ eap' = [e EXCEPT !.EAP_state = state]
  /\ sm' = [s EXCEPT !.changed = TRUE]
  /\ UNCHANGED <<pc, i, setup, report, stuck>>

(* The method, whose data is kept when it can resume its session, has to   *)
(* be selected again.  The last response is not freed here, but it is no   *)
(* longer of this session.                                                 *)
Aged(resp) == IF resp = NULL THEN NULL ELSE [resp EXCEPT !.fresh = FALSE]

MutInitialized(e) ==
  [e EXCEPT !.selectedMethod = "None", !.methodState = "NONE", !.allowNotifications = TRUE,
            !.decision = "FAIL", !.num_rounds = 0, !.eapRespData = Aged(@),
            !.lastRespData = Aged(@)]

Initialized(e) ==
  [e EXCEPT !.selectedMethod = "None", !.methodState = "NONE", !.allowNotifications = TRUE,
            !.decision = "FAIL", !.lastId = -1, !.num_rounds = 0, !.eapRespData = Aged(@),
            !.lastRespData = Aged(@)]

INITIALIZE ==
  /\ (pc = "EAP" /\ Restarted) \/ At("DISABLED")
  /\ Enter("INITIALIZE", Initialized(eap),
           [sm EXCEPT !.idleWhile = ClientTimeout, !.eapSuccess = FALSE, !.eapFail = FALSE,
                      !.eapRestart = FALSE, !.eapResp = FALSE, !.eapNoResp = FALSE])
  /\ UNCHANGED <<tally, broken>>

DISABLED ==
  /\ pc = "EAP" /\ Disabled /\ eap.EAP_state # "DISABLED"
  /\ Enter("DISABLED", [eap EXCEPT !.num_rounds = 0], sm)
  /\ UNCHANGED <<tally, broken>>

IDLE ==
  /\ \E state \in {"INITIALIZE", "SEND_RESPONSE", "DISCARD"} : At(state)
  /\ Enter("IDLE", eap, sm)
  /\ UNCHANGED <<tally, broken>>

(* eap_sm_parseEapReq; without data there is nothing to parse.             *)
RECEIVED ==
  /\ At("IDLE") /\ sm.eapReq
  /\ Enter("RECEIVED",
           [eap EXCEPT !.req = IF sm.eapReqData = NULL THEN Other ELSE sm.eapReqData,
                       !.num_rounds = @ + 1], sm)
  /\ tally' = [tally EXCEPT !.handled = @ + 1]
  /\ UNCHANGED broken

(* An EAP-Success that the method agrees with.                             *)
MutGoodEnd == eap.req.code = "Success" /\ eap.req.id = eap.lastId
GoodEnd ==
  eap.req.code = "Success" /\ eap.req.id = eap.lastId /\ eap.decision # "FAIL"

(***************************************************************************)
(* What is entered from RECEIVED.  TLS and TTLS never leave METHOD_CONT.   *)
(***************************************************************************)
AfterReceived ==
  LET same == eap.req.id = eap.lastId
  IN  IF GoodEnd THEN "SUCCESS"
      ELSE IF /\ same
              /\ \/ eap.req.code = "Failure" /\ eap.decision # "UNCOND_SUCC"
                 \/ eap.req.code = "Success"
           THEN "FAILURE"
      ELSE IF eap.req.code # "Request" THEN "DISCARD"
      ELSE IF same THEN "RETRANSMIT"
      ELSE IF eap.req.type = "Notification" /\ eap.allowNotifications THEN "NOTIFICATION"
      ELSE IF eap.selectedMethod = "None" /\ eap.req.type = "Identity" THEN "IDENTITY"
      ELSE IF eap.selectedMethod = "None" /\ eap.req.type # "Notification" THEN "GET_METHOD"
      ELSE IF eap.req.type = eap.selectedMethod /\ eap.methodState # "DONE" THEN "METHOD"
      ELSE "DISCARD"

Built == [id |-> eap.req.id, fresh |-> TRUE]

IDENTITY ==
  /\ At("RECEIVED") /\ AfterReceived = "IDENTITY"
  /\ Enter("IDENTITY", [eap EXCEPT !.eapRespData = Built], sm)
  /\ UNCHANGED <<tally, broken>>

NOTIFICATION ==
  /\ At("RECEIVED") /\ AfterReceived = "NOTIFICATION"
  /\ Enter("NOTIFICATION", [eap EXCEPT !.eapRespData = Built], sm)
  /\ UNCHANGED <<tally, broken>>

RETRANSMIT ==
  /\ At("RECEIVED") /\ AfterReceived = "RETRANSMIT"
  /\ Enter("RETRANSMIT", [eap EXCEPT !.eapRespData = eap.lastRespData], sm)
  /\ UNCHANGED <<tally, broken>>

(* Only the configured method is allowed.  A Nak answers any other, and a  *)
(* method that cannot start, unless it waits for a passphrase.             *)
GET_METHOD ==
  /\ At("RECEIVED") /\ AfterReceived = "GET_METHOD"
  /\ \/ /\ eap.req.type = "Method"
        /\ Enter("GET_METHOD", [eap EXCEPT !.selectedMethod = "Method",
                                           !.methodState = "INIT"], sm)
     \/ Enter("GET_METHOD", [eap EXCEPT !.eapRespData = Built], sm)
     \/ /\ eap.req.type = "Method"
        /\ Enter("GET_METHOD", [eap EXCEPT !.ignore = TRUE], sm)
  /\ UNCHANGED <<tally, broken>>

(***************************************************************************)
(* eap_tls_process and eap_ttls_process: the request may be ignored; else  *)
(* the method goes on or is done, decides, and may fail to give a response *)
(* (TTLS, when the handshake or the second phase fails).                   *)
(***************************************************************************)
Process ==
  {[eap EXCEPT !.eapRespData = NULL, !.ignore = TRUE]}
  \cup {[eap EXCEPT !.ignore = FALSE, !.methodState = state, !.decision = d,
                    !.allowNotifications = allow, !.eapRespData = resp] :
          state \in {"MAY_CONT", "DONE"}, d \in Decision, allow \in BOOLEAN,
          resp \in {NULL, Built}}

METHOD ==
  /\ \/ At("RECEIVED") /\ AfterReceived = "METHOD"
     \/ At("GET_METHOD") /\ eap.selectedMethod = eap.req.type
  /\ \E e \in Process : Enter("METHOD", e, sm)
  /\ UNCHANGED <<tally, broken>>

SEND_RESPONSE ==
  /\ \/ \E state \in {"IDENTITY", "NOTIFICATION", "RETRANSMIT"} : At(state)
     \/ At("GET_METHOD") /\ eap.selectedMethod # eap.req.type
     \/ At("METHOD") /\ ~eap.ignore
  /\ LET some == eap.eapRespData # NULL
     IN  /\ Enter("SEND_RESPONSE",
                  [eap EXCEPT !.lastRespData = eap.eapRespData,
                              !.lastId = IF some THEN eap.req.id ELSE @],
                  [sm EXCEPT !.eapResp = @ \/ some, !.eapReq = FALSE,
                             !.idleWhile = ClientTimeout])
         /\ broken' = ~some
  /\ UNCHANGED tally

(* The request is done with, without a response.                           *)
MutRefused(s) == [s EXCEPT !.eapNoResp = TRUE]
Refused(s) == [s EXCEPT !.eapReq = FALSE, !.eapNoResp = TRUE]

DISCARD ==
  /\ \/ At("RECEIVED") /\ AfterReceived = "DISCARD"
     \/ At("METHOD") /\ eap.ignore
  /\ Enter("DISCARD", eap, Refused(sm))
  /\ UNCHANGED <<tally, broken>>

(* A silent server is the idle timer's business.                           *)
Silence == At("IDLE") /\ ~sm.eapReq /\ sm.idleWhile = 0

SUCCESS ==
  /\ \/ At("RECEIVED") /\ AfterReceived = "SUCCESS"
     \/ Silence /\ eap.decision = "UNCOND_SUCC"
  /\ Enter("SUCCESS", eap, Refused([sm EXCEPT !.eapSuccess = TRUE]))
  /\ UNCHANGED <<tally, broken>>

FAILURE ==
  /\ \/ At("RECEIVED") /\ AfterReceived = "FAILURE"
     \/ Silence /\ eap.decision # "UNCOND_SUCC"
     \/ pc = "EAP" /\ ~Restarted /\ ~Disabled /\ eap.num_rounds = MaxRounds + 1
  /\ Enter("FAILURE",
           [eap EXCEPT !.num_rounds = IF TooMany THEN @ + 1 ELSE @],
           Refused([sm EXCEPT !.eapFail = TRUE]))
  /\ UNCHANGED <<tally, broken>>

(***************************************************************************)
(* No transition: eapol_sm_step goes round again if some machine has       *)
(* moved, at most StepLimit times.  (The code goes on in any case: rounds  *)
(* without a move change nothing.)                                         *)
(***************************************************************************)
Settled ==
  /\ pc = "EAP"
  /\ \/ Disabled /\ eap.EAP_state = "DISABLED"
     \/ ~Restarted /\ ~Disabled /\ eap.num_rounds > MaxRounds + 1
     \/ At("IDLE") /\ ~sm.eapReq /\ sm.idleWhile # 0
     \/ At("SUCCESS") \/ At("FAILURE")

Round ==
  /\ Settled
  /\ IF sm.changed /\ i < StepLimit
     THEN pc' = "SUPP_PAE" /\ i' = i + 1 /\ sm' = [sm EXCEPT !.changed = FALSE]
     ELSE pc' = "cb" /\ UNCHANGED <<i, sm>>
  /\ UNCHANGED <<eap, setup, tally, report, stuck, broken>>

(* The end of eapol_sm_step: the callback, if there is a verdict.          *)
MutReported(s) == s
Reported(s) == [s EXCEPT !.cb_status = "IN_PROGRESS"]

Callback ==
  /\ pc = "cb"
  /\ pc' = "idle"
  /\ report' = [sent |-> tally.sent > 0,
                verdict |-> CASE sm.cb_status = "IN_PROGRESS" -> "none"
                              [] sm.cb_status = "SUCCESS" -> "success"
                              [] sm.cb_status = "FAILURE" -> "failure"]
  /\ stuck' = (sm.SUPP_BE_state = "REQUEST")
  /\ sm' = Reported(sm)
  /\ UNCHANGED <<eap, i, setup, tally, broken>>

-----------------------------------------------------------------------------
Step ==
  \/ SUPP_PAE \/ SUPP_BE \/ Round \/ Callback
  \/ INITIALIZE \/ DISABLED \/ IDLE \/ RECEIVED \/ IDENTITY \/ NOTIFICATION
  \/ RETRANSMIT \/ GET_METHOD \/ METHOD \/ SEND_RESPONSE \/ DISCARD
  \/ SUCCESS \/ FAILURE

Next ==
  \/ Setup \/ eapol_port_timers_tick \/ Step
  \/ \E f \in Frame : eapol_sm_rx_eapol(f)

Spec == Init /\ [][Next]_vars

(* A call runs to its end.  Where the event loop runs, it runs a timeout   *)
(* that is due whatever the number of frames.                              *)
FairSpec == Spec /\ WF_vars(Setup) /\ WF_vars(Step) /\ SF_vars(eapol_port_timers_tick)

-----------------------------------------------------------------------------
(***************************************************************************)
(* A call handles its frame completely and once, whatever stale flags the  *)
(* three machines leave each other, also across the restart that begins a  *)
(* re-authentication (the comments of SM_STATE(EAP, SUCCESS) and FAILURE): *)
(* eapol_sm_step stops because nothing moves any more, never because of    *)
(* its limit of rounds; at most one request is handled and one response    *)
(* sent; the backend never finds both eapResp and eapNoResp, which would   *)
(* pass a refusal for a response; and it has done with its request, unless *)
(* the response could not be built (SEND_RESPONSE without eapRespData).    *)
(***************************************************************************)
HandledOnce ==
  /\ TypeOK
  /\ i < StepLimit
  /\ tally.handled <= 1 /\ tally.sent <= 1
  /\ sm.SUPP_BE_state = "REQUEST" =>
       /\ pc = "SUPP_BE" => ~(sm.eapResp /\ sm.eapNoResp)
       /\ pc = "idle" => broken

(***************************************************************************)
(* The response that the backend is about to send carries the identifier   *)
(* of the request at hand and was built in this session, although the      *)
(* response of the session before is still there when tgen asks for a      *)
(* re-authentication with the identifier 0 it has used before.             *)
(***************************************************************************)
AnswersThisRequest ==
  sm.eapResp => /\ eap.eapRespData # NULL
                /\ eap.eapRespData.fresh
                /\ eap.eapRespData.id = sm.eapReqData.id

(***************************************************************************)
(* The port is AUTHENTICATED only when the method has decided so in this   *)
(* session, or when nobody answers to EAPOL-Start and the port was made    *)
(* valid before (SM_STEP(SUPP_PAE)).                                       *)
(***************************************************************************)
SuccessEarned ==
  sm.SUPP_PAE_state = "AUTHENTICATED" =>
    \/ eap.EAP_state = "SUCCESS" /\ eap.decision # "FAIL"
    \/ sm.startCount >= maxStart

(***************************************************************************)
(* Where the clock runs, an authentication that has begun ends, whatever   *)
(* the server sends or does not send: by a verdict, the backend's timeout, *)
(* the idle timer (also when a response could not be built) or the limit   *)
(* on the rounds.                                                          *)
(***************************************************************************)
AuthenticationEnds ==
  sm.SUPP_PAE_state = "AUTHENTICATING" ~> sm.SUPP_PAE_state # "AUTHENTICATING"

(***************************************************************************)
(* The machines implement what tsupplicant.c relies on: a call sends a     *)
(* response or reports a verdict that fits its frame, not both, and a      *)
(* stuck peer says nothing.                                                *)
(***************************************************************************)
Peer == INSTANCE TPeer

PeerSpec == Peer!Spec
=============================================================================
