----------------------------- MODULE TSupplicant ----------------------------
(***************************************************************************)
(* The EAP-TTLS and EAP-TLS client of Src/tsupplicant.c: one call of       *)
(* tSupplicant_accessRq, its event loop (tloop), its list of requests to   *)
(* retransmit (radius_client) and the EAP peer of the library (TPeer),     *)
(* over a network that loses, delays and duplicates the replies.           *)
(*                                                                         *)
(* Time is counted in periods of tcRadiusTimeout seconds.  The loop is     *)
(* never late by a whole period; within one, the timeouts that fall due    *)
(* together may do so in any order.  tgen never runs the loop of the       *)
(* library, so the clock of the peer does not tick.  One server is         *)
(* configured (wpa_init_conf): there is no failover.                       *)
(***************************************************************************)
EXTENDS Integers, Sequences, FiniteSetsExt, SequencesExt

CONSTANTS tcRadiusRetries,     \* Radius_retries
          tcRadiusFastReauth,  \* fast_reauth
          BlockSize,           \* identifiers come in blocks (6)
          Blocks,              \* number of blocks (42)
          MaxRounds            \* bound: challenges of one authentication

ASSUME RetriesAssumption == tcRadiusRetries \in Nat \ {0}
ASSUME ReauthAssumption == tcRadiusFastReauth \in Nat
ASSUME BlockAssumption == BlockSize \in Nat \ {0, 1} /\ Blocks \in Nat \ {0}
ASSUME RoundsAssumption == MaxRounds \in Nat

VARIABLES pc,        \* "idle", at "select", or at the handler to "read"
          call,      \* the arguments of tSupplicant_accessRq
          e,         \* struct eapol_test_data, with terminate of its tloop
          nextId,    \* next_radius_identifier
          msgs,      \* radius->msgs: requests without a response, newest first
          timers,    \* tloop->timeout, in the order of their times
          flight,    \* replies on their way to the socket
          report,    \* what the last call of the peer did (TPeer)
          stuck,     \* the peer does not react any more (TPeer)
          result,    \* what the call has returned
          auths,     \* history: authentications begun in this call
          got        \* history: the verdict of the server on the last of them

peerVars == <<report, stuck>>
vars == <<pc, call, e, nextId, msgs, timers, flight, peerVars, result, auths, got>>

Peer == INSTANCE TPeer WITH Ticking <- FALSE

Id == 0 .. Blocks * BlockSize - 1
Handler == {"eapol_test_timeout", "radius_client_timer", "eapol_sm_reauth"}
Entry == [id : Id, attempts : 1 .. tcRadiusRetries, wait : {0, 1}]
Timer == [handler : Handler, left : 0 .. tcRadiusRetries * (tcRadiusFastReauth + 1)]

(* cur: the reply answers the request that was sent last.                  *)
Reply == [id : Id, cur : BOOLEAN]

TypeOK ==
  /\ pc \in {"idle", "select", "read"}
  /\ call \in [waitFor : {"ACK", "RJ"}, fasteap : BOOLEAN, credit : 0 .. 3]
  /\ e \in [num_reauths : -2 .. tcRadiusFastReauth, rounds : 0 .. MaxRounds,
            auth_timed_out : BOOLEAN, accept_received : BOOLEAN,
            reject_received : BOOLEAN, no_necessary_avp : BOOLEAN, terminate : BOOLEAN]
  /\ nextId \in Id
  /\ \A k \in DOMAIN msgs : msgs[k] \in Entry
  /\ \A k \in DOMAIN timers : timers[k] \in Timer
  /\ flight \subseteq Reply
  /\ report \in Peer!Report /\ stuck \in BOOLEAN
  /\ result \in {0, 1}
  /\ auths \in 0 .. tcRadiusFastReauth + 1
  /\ got \in {"none", "accept", "reject", "stale"}

NoCall == [waitFor |-> "ACK", fasteap |-> FALSE, credit |-> 0]

(* wpa_init_conf.                                                          *)
Fresh(fasteap) ==
  [num_reauths |-> IF fasteap THEN tcRadiusFastReauth ELSE -1, rounds |-> 0,
   auth_timed_out |-> FALSE, accept_received |-> FALSE, reject_received |-> FALSE,
   no_necessary_avp |-> FALSE, terminate |-> FALSE]

Init ==
  /\ pc = "idle"
  /\ call = NoCall
  /\ e = Fresh(FALSE)
  /\ nextId = 0
  /\ msgs = <<>> /\ timers = <<>> /\ flight = {}
  /\ Peer!Init
  /\ result = 0 /\ auths = 0 /\ got = "none"

-----------------------------------------------------------------------------
(***************************************************************************)
(* tloop_register_timeout and tloop_cancel_timeout.                        *)
(***************************************************************************)
Register(ts, handler, left) ==
  {InsertAt(ts, k, [handler |-> handler, left |-> left]) :
     k \in {k \in 1 .. Len(ts) + 1 :
              /\ \A j \in 1 .. k - 1 : ts[j].left <= left
              /\ \A j \in k .. Len(ts) : ts[j].left >= left}}

Cancel(ts, handler) == SelectSeq(ts, LAMBDA t : t.handler # handler)

(* The earliest next_try, in periods from now.                             *)
Earliest(ms) == Min({ms[k].wait : k \in DOMAIN ms})

MutUpdateTimeout(ts, ms) ==
  IF ms = <<>> THEN {ts} ELSE Register(ts, "radius_client_timer", Earliest(ms))
update_timeout(ts, ms) ==
  IF ms = <<>> THEN {Cancel(ts, "radius_client_timer")}
  ELSE Register(Cancel(ts, "radius_client_timer"), "radius_client_timer", Earliest(ms))

(***************************************************************************)
(* radius_client_get_id.  The blocks are handed out to all the workers in  *)
(* turn, so a new one may be any of them.                                  *)
(***************************************************************************)
get_id ==
  IF nextId = 0 \/ nextId % BlockSize = BlockSize - 1
  THEN {BlockSize * b : b \in 0 .. Blocks - 1} ELSE {nextId}

(***************************************************************************)
(* ieee802_1x_encapsulate_radius, radius_client_send, radius_client_list_  *)
(* add: the request replaces those with its identifier; once the loop is   *)
(* terminated it is sent but not kept.                                     *)
(***************************************************************************)
Send(ms, ts, in, terminate) ==
  \E id \in get_id :
    LET others == SelectSeq(ms, LAMBDA m : m.id # id)
        added == <<[id |-> id, attempts |-> 1, wait |-> 1]>> \o others
    IN  /\ nextId' = id + 1
        /\ msgs' = IF terminate THEN others ELSE added
        /\ timers' \in IF terminate THEN {ts} ELSE update_timeout(ts, added)
        /\ flight' = {[r EXCEPT !.cur = FALSE] : r \in in}

(***************************************************************************)
(* A message of the server: its RADIUS code and the EAP frame in it, if    *)
(* any.  "none" is the request that tgen makes up to start the peer.       *)
(***************************************************************************)
Message == {[radius |-> "challenge", eap |-> "Request"],
            [radius |-> "accept", eap |-> "Success"], [radius |-> "accept", eap |-> "none"],
            [radius |-> "reject", eap |-> "Failure"], [radius |-> "reject", eap |-> "none"],
            [radius |-> "unknown", eap |-> "none"]}

IdentityRequest == [radius |-> "none", eap |-> "Request"]

(***************************************************************************)
(* eapol_sm_cb counts the authentications down; its timeout of 100 ms may  *)
(* end in the next period.  The end of ieee802_1x_receive_auth.            *)
(***************************************************************************)
eapol_sm_cb(s) ==
  [s EXCEPT !.num_reauths = @ - 1, !.terminate = @ \/ s.num_reauths - 1 < 0]

Reauth(s, ts) ==
  IF s.num_reauths < 0 THEN {ts}
  ELSE UNION {Register(ts, "eapol_sm_reauth", left) : left \in {0, 1}}

Closed(s, m) ==
  [s EXCEPT !.terminate = \/ @
                          \/ m.radius = "accept" /\ s.num_reauths < 0
                          \/ m.radius = "reject"]

(***************************************************************************)
(* ieee802_1x_decapsulate_radius and eapol_sm_rx_eapol: the peer sends a   *)
(* response, or calls eapol_sm_cb, or does nothing.                        *)
(***************************************************************************)
Feed(m, s, ms, ts, in) ==
  /\ IF m.eap = "none" THEN report' = Peer!Quiet /\ UNCHANGED stuck
     ELSE Peer!Receive(m.eap)
  /\ LET ended == [s EXCEPT !.terminate = @ \/ m.eap = "Failure"]
         over == report'.verdict # "none"
         after == IF over THEN eapol_sm_cb(ended) ELSE ended
     IN  /\ e' = Closed(after, m)
         /\ IF report'.sent THEN Send(ms, ts, in, ended.terminate)
            ELSE /\ msgs' = ms
                 /\ timers' \in IF over THEN Reauth(after, ts) ELSE {ts}
                 /\ flight' = in
                 /\ UNCHANGED nextId

(***************************************************************************)
(* tSupplicant_accessRq up to tloop_run.  Without a configuration for the  *)
(* user it returns at once.                                                *)
(***************************************************************************)
Duration(fasteap) == tcRadiusRetries * (IF fasteap THEN tcRadiusFastReauth + 1 ELSE 1)

accessRq(waitFor, fasteap, credit) ==
  /\ pc = "idle"
  /\ fasteap => tcRadiusFastReauth >= 1
  /\ pc' = "select"
  /\ call' = [waitFor |-> waitFor, fasteap |-> fasteap, credit |-> credit]
  /\ auths' = 1 /\ got' = "none"
  /\ Feed(IdentityRequest, Fresh(fasteap), <<>>,
          <<[handler |-> "eapol_test_timeout", left |-> Duration(fasteap)]>>, {})
  /\ result' = 0

NoConfig ==
  /\ pc = "idle"
  /\ result' = 1
  /\ UNCHANGED <<pc, call, e, nextId, msgs, timers, flight, peerVars, auths, got>>

-----------------------------------------------------------------------------
(***************************************************************************)
(* One turn of tloop_run: the first timeout, if it is due, then the reply, *)
(* if select has seen one, even if the timeout has terminated the loop.    *)
(***************************************************************************)
Running == pc = "select" /\ ~e.terminate
Due == timers # <<>> /\ Head(timers).left = 0

Fires(handler) == Running /\ Due /\ Head(timers).handler = handler

ThenRead == pc' \in {"select"} \cup (IF flight # {} THEN {"read"} ELSE {})

MutTimedOut(s) == [s EXCEPT !.auth_timed_out = TRUE]
TimedOut(s) == [s EXCEPT !.auth_timed_out = TRUE, !.terminate = TRUE]

eapol_test_timeout ==
  /\ Fires("eapol_test_timeout")
  /\ ThenRead
  /\ e' = TimedOut(e)
  /\ timers' = Tail(timers)
  /\ UNCHANGED <<call, nextId, msgs, flight, peerVars, result, auths, got>>

(***************************************************************************)
(* radius_client_timer and radius_client_retransmit: a request is sent     *)
(* again, and given up when that was once too many.                        *)
(***************************************************************************)
Retransmit(m) ==
  IF m.wait = 0 THEN [m EXCEPT !.attempts = @ + 1, !.wait = 1] ELSE m

GivenUp(m) == m.attempts > tcRadiusRetries

radius_client_timer ==
  /\ Fires("radius_client_timer")
  /\ ThenRead
  /\ LET tried == [k \in DOMAIN msgs |-> Retransmit(msgs[k])]
         lost == \E k \in DOMAIN tried : GivenUp(tried[k])
     IN  /\ msgs' = SelectSeq(tried, LAMBDA m : ~GivenUp(m))
         /\ e' = [e EXCEPT !.auth_timed_out = @ \/ lost, !.terminate = lost]
  /\ timers' \in IF msgs' = <<>> THEN {Tail(timers)}
                 ELSE Register(Tail(timers), "radius_client_timer", Earliest(msgs'))
  /\ UNCHANGED <<call, nextId, flight, peerVars, result, auths, got>>

eapol_sm_reauth ==
  /\ Fires("eapol_sm_reauth")
  /\ ThenRead
  /\ auths' = auths + 1 /\ got' = "none"
  /\ Feed(IdentityRequest, [e EXCEPT !.accept_received = FALSE, !.rounds = 0],
          msgs, Tail(timers), flight)
  /\ UNCHANGED <<call, result>>

(***************************************************************************)
(* radius_client_receive: the request is looked up by the identifier.  A   *)
(* datagram that is no RADIUS message is as if it had not come.            *)
(***************************************************************************)
CanRead(r) == r \in flight /\ (pc = "read" \/ (Running /\ ~Due))

(* The reply may come once more.                                           *)
Left(r) == {flight, flight \ {r}}

Matches(m, r) == m.id = r.id

NoMatch(r) ==
  /\ CanRead(r)
  /\ \A k \in DOMAIN msgs : ~Matches(msgs[k], r)
  /\ pc' = "select"
  /\ flight' \in Left(r)
  /\ UNCHANGED <<call, e, nextId, msgs, timers, peerVars, result, auths, got>>

(* Message-Authenticator: not needed by a bare reject, not verified for    *)
(* the updates and the termination of a prepaid session.                   *)
Verified(r, m) ==
  \/ r.cur /\ m.radius # "unknown"
  \/ m = [radius |-> "reject", eap |-> "none"]
  \/ call.credit >= 2 /\ m.radius # "unknown"

(* The request leaves the list before its reply is looked at.              *)
Acked(k) == RemoveAt(msgs, k)

Received(m, lacking) ==
  [e EXCEPT !.no_necessary_avp = @ \/ lacking,
            !.accept_received = @ \/ m.radius = "accept",
            !.reject_received = @ \/ m.radius = "reject",
            !.rounds = IF m.radius = "challenge" THEN @ + 1 ELSE @]

receive_auth(r, m) ==
  /\ CanRead(r)
  /\ m.radius = "challenge" => e.rounds < MaxRounds
  /\ pc' = "select"
  /\ \E k \in DOMAIN msgs, in \in Left(r) :
       LET ms == Acked(k)
       IN  /\ Matches(msgs[k], r) /\ \A j \in 1 .. k - 1 : ~Matches(msgs[j], r)
           /\ IF Verified(r, m)
              THEN /\ \E lacking \in IF m.radius = "accept" /\ call.credit \in {1, 2}
                                      THEN BOOLEAN ELSE {FALSE} :
                        Feed(m, Received(m, lacking), ms, timers, in)
                   /\ got' = IF m.radius = "challenge" THEN got
                             ELSE IF r.cur THEN m.radius ELSE "stale"
              ELSE /\ msgs' = ms /\ flight' = in
                   /\ UNCHANGED <<e, nextId, timers, peerVars, got>>
  /\ UNCHANGED <<call, result, auths>>

(***************************************************************************)
(* The end of tSupplicant_accessRq: the result, and a new socket           *)
(* (tSupplicant_abandon).                                                  *)
(***************************************************************************)
MutResult ==
  IF call.waitFor = "RJ" THEN IF e.reject_received THEN 0 ELSE 1
  ELSE IF e.accept_received /\ ~e.reject_received /\ ~e.no_necessary_avp THEN 0 ELSE 1

Result ==
  LET ko == e.auth_timed_out \/ e.reject_received \/ ~e.accept_received
            \/ e.no_necessary_avp
  IN  IF ko THEN IF ~e.auth_timed_out /\ e.reject_received /\ call.waitFor = "RJ"
                 THEN 0 ELSE 1
      ELSE IF call.waitFor = "RJ" /\ ~e.reject_received THEN 1 ELSE 0

Return ==
  /\ pc = "select" /\ e.terminate
  /\ pc' = "idle"
  /\ result' = Result
  /\ nextId' = 0
  /\ msgs' = <<>> /\ timers' = <<>> /\ flight' = {}
  /\ report' = Peer!Quiet /\ stuck' = FALSE
  /\ UNCHANGED <<call, e, auths, got>>

-----------------------------------------------------------------------------
(***************************************************************************)
(* The server answers a request that it has got; time passes.              *)
(***************************************************************************)
Answer ==
  /\ pc # "idle" /\ msgs # <<>>
  /\ flight' = flight \cup {[id |-> Head(msgs).id, cur |-> TRUE]}
  /\ UNCHANGED <<pc, call, e, nextId, msgs, timers, peerVars, result, auths, got>>

Less(n) == IF n > 0 THEN n - 1 ELSE 0

Tick ==
  /\ Running /\ ~Due
  /\ timers' = [k \in DOMAIN timers |-> [timers[k] EXCEPT !.left = Less(@)]]
  /\ msgs' = [k \in DOMAIN msgs |-> [msgs[k] EXCEPT !.wait = Less(@)]]
  /\ UNCHANGED <<pc, call, e, nextId, flight, peerVars, result, auths, got>>

Timeout == eapol_test_timeout \/ radius_client_timer \/ eapol_sm_reauth
Read == \E r \in flight : NoMatch(r) \/ \E m \in Message : receive_auth(r, m)

Next ==
  \/ \E waitFor \in {"ACK", "RJ"}, fasteap \in BOOLEAN, credit \in 0 .. 3 :
       accessRq(waitFor, fasteap, credit)
  \/ NoConfig \/ Timeout \/ Read \/ Return \/ Answer \/ Tick

Spec == Init /\ [][Next]_vars

(* The loop goes on, and the clock does not wait for it: time passes       *)
(* however many replies come.                                              *)
FairSpec ==
  /\ Spec
  /\ WF_vars(Timeout) /\ WF_vars(pc = "read" /\ Read) /\ WF_vars(Return)
  /\ SF_vars(Tick)

-----------------------------------------------------------------------------
(***************************************************************************)
(* One thing is going on at a time: a request without a response, or a     *)
(* re-authentication to come.  So the retransmission list, which has room  *)
(* for 30, holds one request, and a response to an old authentication is   *)
(* never taken for one of the next.  The request is covered by exactly one *)
(* retransmission timeout, not later than its own time, although receiving *)
(* a response does not cancel the timeout of its request.                  *)
(***************************************************************************)
OneDialogue ==
  LET Registered(h) == SelectSeq(timers, LAMBDA t : t.handler = h)
      own == Registered("radius_client_timer")
  IN  /\ TypeOK
      /\ Len(msgs) + Len(Registered("eapol_sm_reauth")) <= 1
      /\ Len(own) <= 1
      /\ msgs # <<>> /\ ~e.terminate => own # <<>> /\ own[1].left <= Earliest(msgs)

(***************************************************************************)
(* The call succeeds only if the server has given the verdict that was     *)
(* waited for in the last authentication, in time: not if the reply was    *)
(* read in the very turn of the loop in which the time was over, and not   *)
(* on a reply to an older request with the same identifier (except where   *)
(* the code does not verify replies: credit actions 2 and 3, bare rejects);*)
(* and only if all its authentications were made: tgen.ini promises with   *)
(* fast_reauth the "number of fast re-authentication following a full in   *)
(* EAP-TTLS".                                                              *)
(***************************************************************************)
ResultRight ==
  pc = "idle" /\ auths > 0 /\ result = 0 =>
    /\ ~e.auth_timed_out
    /\ call.waitFor = "ACK" =>
         /\ got = "accept" \/ (got = "stale" /\ call.credit >= 2)
         /\ auths = IF call.fasteap THEN tcRadiusFastReauth + 1 ELSE 1
    /\ call.waitFor = "RJ" => got \in {"reject", "stale"}

(***************************************************************************)
(* Every call returns, whatever the network loses and whatever the peer    *)
(* does, also when it is stuck: the timeout of tSupplicant_accessRq.       *)
(***************************************************************************)
CallReturns == pc # "idle" ~> pc = "idle"
=============================================================================
