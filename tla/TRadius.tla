------------------------------- MODULE TRadius ------------------------------
(***************************************************************************)
(* The RADIUS client of Src/tradius.c: one worker, its UDP socket and the  *)
(* user it works for, over a network that loses and delays packets.        *)
(*                                                                         *)
(* tRadius_accessRq and tRadius_accountRq send one packet at a time and    *)
(* wait for its answer in send_packet, which retransmits.  An EAP          *)
(* authentication (sendrecv_eap) is a dialogue of several packets.  A      *)
(* reply is matched by its 8-bit identifier; the identifiers come from two *)
(* static counters that all the workers share.  After an access request    *)
(* with retransmissions the worker takes a new socket, after an accounting *)
(* request it keeps the old one.                                           *)
(***************************************************************************)
EXTENDS Integers, FiniteSets

CONSTANTS IdMod,            \* identifiers are modulo IdMod (256 in the code)
          tcRadiusRetries,  \* transmissions of a packet
          quietOnError,     \* option -q
          MaxPackets        \* bound: packets made, EAP rounds included

ASSUME IdAssumption == IdMod \in Nat \ {0}
ASSUME RetriesAssumption == tcRadiusRetries \in Nat \ {0}
ASSUME QuietAssumption == quietOnError \in BOOLEAN
ASSUME PacketsAssumption == MaxPackets \in Nat

VARIABLES user,      \* frId, AAA-Session-ID and PPAQ kept for the user: present or not
          pc,        \* where the worker is
          req,       \* the packet it sends and what it wants with it
          packets,   \* packets made so far; a packet's number is its vector
          flight,    \* replies that have been sent to the current socket
          earned,    \* history: frId was stored by an accepted authentication
          mistaken,  \* history: some reply was taken for the answer of another packet
          fooled     \* history: an access request succeeded by such a reply

radiusVars == <<user, pc, req, packets, flight, earned, mistaken, fooled>>

Id == 0 .. IdMod - 1
Eap == {"EAPSIM", "EAPAKA"}
AuthType == Eap \cup {"PAP"}
Acct == {"Start", "Interim", "Stop", "On", "Off"}
EapState == {"init", "start"}
Attribute == {"Class", "AAA-Session-ID", "PPAQ"}

Reply == [id : Id, vector : 1 .. MaxPackets, try : 0 .. tcRadiusRetries - 1,
          kind : {"access", "acct"}]

Request == [kind : {"access", "eap", "acct"}, type : AuthType, id : Id,
            vector : 0 .. MaxPackets, waitFor : {"ack", "reject"}, credit : 0 .. 3,
            try : 0 .. tcRadiusRetries - 1, retries : Nat, rc : {0, 1},
            state : EapState, frId : BOOLEAN]

RadiusTypeOK ==
  /\ user \in [frId : BOOLEAN, aaa : BOOLEAN, ppaq : BOOLEAN]
  /\ pc \in {"idle", "send", "select", "recv"}
  /\ req \in Request
  /\ packets \in 0 .. MaxPackets
  /\ flight \subseteq Reply
  /\ earned \in BOOLEAN /\ mistaken \in BOOLEAN /\ fooled \in BOOLEAN

NoRequest ==
  [kind |-> "access", type |-> "PAP", id |-> 0, vector |-> 0, waitFor |-> "ack",
   credit |-> 0, try |-> 0, retries |-> 0, rc |-> 0, state |-> "init", frId |-> FALSE]

RadiusInit ==
  /\ user = [frId |-> FALSE, aaa |-> FALSE, ppaq |-> FALSE]
  /\ pc = "idle"
  /\ req = NoRequest
  /\ packets = 0
  /\ flight = {}
  /\ earned = FALSE /\ mistaken = FALSE /\ fooled = FALSE

-----------------------------------------------------------------------------
(***************************************************************************)
(* tRadius_accessRq up to the sending.  The other workers advance the      *)
(* static counters too, any number of times between two requests of this   *)
(* one, so a request may get any identifier.  Without the attributes that  *)
(* the credit action needs it is not made.  Credit actions: 0 postpaid,    *)
(* 1 initial, 2 update, 3 termination.                                     *)
(***************************************************************************)
putWimaxVSA(type, credit) == type \in Eap /\ credit >= 2 => user.ppaq

Possible(type, credit, relocation) ==
  /\ relocation \/ credit >= 2 => user.aaa
  /\ putWimaxVSA(type, credit)

AccessRq(type, waitFor, credit, relocation, id) ==
  /\ pc = "idle" /\ packets < MaxPackets
  /\ Possible(type, credit, relocation)
  /\ pc' = "send"
  /\ packets' = packets + 1
  /\ req' = [kind |-> IF type \in Eap /\ credit < 2 THEN "eap" ELSE "access",
             type |-> type, id |-> id, vector |-> packets + 1, waitFor |-> waitFor,
             credit |-> credit, try |-> 0, retries |-> 0, rc |-> 0,
             state |-> IF type = "EAPAKA" THEN "start" ELSE "init", frId |-> FALSE]
  /\ UNCHANGED <<user, flight, earned, mistaken, fooled>>

(***************************************************************************)
(* tRadius_accountRq up to the sending.  A Stop that does not announce a   *)
(* continuation ends the WiMAX session before the request is sent.         *)
(***************************************************************************)
AccountRq(status, continue, id) ==
  /\ pc = "idle" /\ packets < MaxPackets
  /\ user' = IF status = "Stop" /\ ~continue
             THEN [user EXCEPT !.aaa = FALSE, !.ppaq = FALSE] ELSE user
  /\ pc' = "send"
  /\ packets' = packets + 1
  /\ req' = [req EXCEPT !.kind = "acct", !.id = id, !.vector = packets + 1,
                        !.credit = 0, !.try = 0, !.retries = 0, !.rc = 0]
  /\ UNCHANGED <<flight, earned, mistaken, fooled>>

-----------------------------------------------------------------------------
(***************************************************************************)
(* What is done with the result of send_packet, rc = 1 or a reply of some  *)
(* code.  "none" is the absence of a reply.                                *)
(***************************************************************************)
MutTrouble(rc, code) == rc = 1 \/ code = "none"
Trouble(rc, code) == rc = 1 \/ code \in {"none", "reject"}

Awaited(rc, code) == rc = 0 /\ code = "ack" /\ req.waitFor = "ack"

(***************************************************************************)
(* The attributes kept after an access request: sendrecv_eap stores frId,  *)
(* trouble deletes everything, an awaited Access-Accept with attributes    *)
(* got renews the session and a termination ends it.                       *)
(***************************************************************************)
KeptAfterAccess(rc, code, got) ==
  LET lost == Trouble(rc, code)
      renewed == Awaited(rc, code)
  IN  [frId |-> IF lost THEN FALSE ELSE IF req.kind = "eap" THEN req.frId ELSE user.frId,
       aaa |-> /\ ~lost /\ req.credit # 3
               /\ IF renewed THEN "AAA-Session-ID" \in got ELSE user.aaa,
       ppaq |-> /\ ~lost /\ req.credit # 3
                /\ IF renewed /\ req.credit \in {1, 2} THEN "PPAQ" \in got ELSE user.ppaq]

(* The attributes whose absence from an awaited Access-Accept is an error. *)
Needed == IF req.credit = 0 THEN {"Class"}
          ELSE IF req.credit \in {1, 2} THEN {"AAA-Session-ID", "PPAQ"} ELSE {}

AccessResult(rc, code, got) ==
  IF rc = 0 /\ code = req.waitFor /\ (Awaited(rc, code) => Needed \subseteq got)
  THEN 0 ELSE 1

(***************************************************************************)
(* tRadius_abandon: a new socket; what is sent to the old one is lost.     *)
(***************************************************************************)
MutAbandon(inFlight, retries) == IF req.try > 0 THEN {} ELSE inFlight
Abandon(inFlight, retries) == IF retries > 0 THEN {} ELSE inFlight

FinishAccess(rc, code, genuine, got, inFlight, retries) ==
  /\ req.kind # "acct"
  /\ user' = KeptAfterAccess(rc, code, got)
  /\ earned' = IF req.kind = "eap" \/ Trouble(rc, code)
               THEN code = "ack" /\ genuine ELSE earned
  /\ fooled' = (fooled \/ (AccessResult(rc, code, got) = 0 /\ ~genuine))
  /\ flight' = Abandon(inFlight, retries)
  /\ req' = NoRequest
  /\ pc' = "idle"

FinishAccount(rc, code, inFlight) ==
  /\ req.kind = "acct"
  /\ user' = IF Trouble(rc, code) THEN [frId |-> FALSE, aaa |-> FALSE, ppaq |-> FALSE]
             ELSE user
  /\ flight' = inFlight
  /\ req' = NoRequest
  /\ pc' = "idle"
  /\ UNCHANGED <<earned, fooled>>

-----------------------------------------------------------------------------
(***************************************************************************)
(* The EAP client.  Each process_eap_* function gives the pairs of a new   *)
(* client state and a fast re-authentication identity (present or not)     *)
(* that it may leave; a function that fails returns 0, the state init.     *)
(* Only a challenge or a re-authentication whose MAC is right changes the  *)
(* identity.                                                               *)
(***************************************************************************)
Unchanged(states) == states \X {req.frId}
MacRight == {"start"} \X BOOLEAN

process_eap_start == Unchanged({"init", "start"})
process_eap_aka_identity == Unchanged({"init", "start"})
process_eap_challenge == MacRight \cup Unchanged({"init"})
process_eap_aka_challenge == MacRight \cup Unchanged({"init", "start"})
process_eap_reauth == MacRight \cup Unchanged({"init"})
process_eap_aka_reauth == MacRight \cup Unchanged({"init"})
process_eap_notification == Unchanged({"start"})
process_eap_clienterror == Unchanged({"start"})

(***************************************************************************)
(* The functions a state allows, the subtype being the server's choice.  A *)
(* message without EAP-Id or subtype leaves the response as it was.        *)
(***************************************************************************)
respond_eap_sim ==
  Unchanged({req.state}) \cup process_eap_notification \cup process_eap_clienterror
  \cup process_eap_start
  \cup IF req.state = "init" THEN process_eap_reauth ELSE process_eap_challenge

respond_eap_aka ==
  Unchanged({req.state}) \cup process_eap_notification \cup process_eap_clienterror
  \cup process_eap_aka_reauth
  \cup IF req.state = "init" THEN {}
       ELSE process_eap_aka_identity \cup process_eap_aka_challenge

NextId(id) == (id + 1) % IdMod

RespondEap(inFlight) ==
  /\ packets < MaxPackets
  /\ \E r \in IF req.type = "EAPSIM" THEN respond_eap_sim ELSE respond_eap_aka :
       req' = [req EXCEPT !.state = r[1], !.frId = r[2], !.id = NextId(@),
                          !.vector = packets + 1, !.try = 0, !.retries = @ + req.try]
  /\ packets' = packets + 1
  /\ flight' = inFlight
  /\ pc' = "send"
  /\ UNCHANGED <<user, earned, fooled>>

-----------------------------------------------------------------------------
(***************************************************************************)
(* send_packet.  The server answers a transmission or the network loses    *)
(* the packet or its reply; a reply stays in flight until it is read.      *)
(***************************************************************************)
Send ==
  /\ pc = "send"
  /\ pc' = "select"
  /\ \/ flight' = flight \cup {[id |-> req.id, vector |-> req.vector, try |-> req.try,
                                kind |-> IF req.kind = "acct" THEN "acct" ELSE "access"]}
     \/ flight' = flight
  /\ UNCHANGED <<user, req, packets, earned, mistaken, fooled>>

(* select timed out, and there is a transmission left.                     *)
MutNextTry(try) == try
NextTry(try) == try + 1

Retransmit ==
  /\ pc = "select" /\ NextTry(req.try) < tcRadiusRetries
  /\ req' = [req EXCEPT !.try = NextTry(@)]
  /\ pc' = "send"
  /\ UNCHANGED <<user, packets, flight, earned, mistaken, fooled>>

(* select timed out for the last time: there is no reply.                  *)
NoReply ==
  /\ pc = "select" /\ NextTry(req.try) >= tcRadiusRetries
  /\ \/ FinishAccess(1, "none", FALSE, {}, flight, req.retries + tcRadiusRetries)
     \/ FinishAccount(1, "none", flight)
  /\ UNCHANGED <<packets, mistaken>>

(* A reply with another identifier is dropped, and the next one is read    *)
(* at once: rad_recv blocks, without a timeout, until there is one.        *)
Matches(p) == p.id = req.id

DropAndRead ==
  /\ pc \in {"select", "recv"}
  /\ \E p \in flight : ~Matches(p) /\ flight' = flight \ {p}
  /\ pc' = "recv"
  /\ UNCHANGED <<user, req, packets, earned, mistaken, fooled>>

(* A packet that rad_recv cannot read leads back to select.                *)
ReadBad ==
  /\ pc \in {"select", "recv"}
  /\ \E p \in flight : flight' = flight \ {p}
  /\ req' = [req EXCEPT !.rc = IF quietOnError THEN @ ELSE 1]
  /\ pc' = "select"
  /\ UNCHANGED <<user, packets, earned, mistaken, fooled>>

(* rad_decode verifies the digest of an Access-Accept or Access-Reject and *)
(* of no other reply.                                                      *)
MutVerified(p, code) == TRUE
Verified(p, code) == code \in {"ack", "reject"} => p.vector = req.vector

Codes(p) == IF p.kind = "acct" THEN {"response"} ELSE {"ack", "reject", "challenge"}

ReadCode(p, code) ==
  LET genuine == p.vector = req.vector
      rc == IF Verified(p, code) \/ quietOnError THEN req.rc ELSE 1
      rest == flight \ {p}
      goesOn == req.kind = "eap" /\ rc = 0 /\ code = "challenge"
  IN  /\ Matches(p)
      /\ mistaken' = (mistaken \/ ~genuine)
      /\ \/ goesOn /\ RespondEap(rest)
         \/ /\ ~goesOn
            /\ \/ \E got \in SUBSET Attribute :
                    FinishAccess(rc, code, genuine, got, rest, req.retries + req.try)
               \/ FinishAccount(rc, code, rest)
            /\ UNCHANGED packets

ReadReply ==
  /\ pc \in {"select", "recv"}
  /\ \E p \in flight : \E code \in Codes(p) : ReadCode(p, code)

RadiusNext ==
  \/ \E t \in AuthType, w \in {"ack", "reject"}, c \in 0 .. 3, r \in BOOLEAN,
        id \in Id : AccessRq(t, w, c, r, id)
  \/ \E s \in Acct, c \in BOOLEAN, id \in Id : AccountRq(s, c, id)
  \/ Send \/ Retransmit \/ NoReply \/ DropAndRead \/ ReadBad \/ ReadReply

RadiusSpec == RadiusInit /\ [][RadiusNext]_radiusVars

(***************************************************************************)
(* The worker's thread runs, select returns when its time is over, and     *)
(* both it and rad_recv return when there is a reply.  Nothing is assumed  *)
(* of the server, and any reply may be lost.                               *)
(***************************************************************************)
RadiusFairSpec ==
  /\ RadiusSpec
  /\ WF_radiusVars(Send)
  /\ WF_radiusVars(Retransmit \/ NoReply)
  /\ WF_radiusVars(DropAndRead \/ ReadBad \/ ReadReply)

-----------------------------------------------------------------------------
(***************************************************************************)
(* Whatever late replies are read and however the identifiers wrap, an     *)
(* access request succeeds only by the server's answer to its own last     *)
(* packet.                                                                 *)
(***************************************************************************)
AccessAnswered == ~fooled

(***************************************************************************)
(* The identity for a fast re-authentication that is kept for the user was *)
(* given in a dialogue that the server ended with an Access-Accept; a      *)
(* dialogue that ends in any other way leaves none ("if any auth trouble,  *)
(* delete FR id").  The exception is a dialogue cut short by a reply that  *)
(* was taken for the answer of another packet and is not verified.         *)
(***************************************************************************)
FastIdEarned == user.frId /\ ~mistaken => earned

(***************************************************************************)
(* Between two requests only replies to accounting requests may still be   *)
(* on their way to the socket: the change of socket gets rid of those to   *)
(* access requests.  (A reply taken for that of another packet is the      *)
(* exception: the right one then remains.)                                 *)
(***************************************************************************)
NoLateAccess == pc = "idle" /\ ~mistaken => \A p \in flight : p.kind = "acct"

(***************************************************************************)
(* A request ends, even if the server never answers, unless the worker     *)
(* dropped a reply and reads the next one.                                 *)
(***************************************************************************)
EndsOrReads == pc \in {"send", "select"} ~> pc \in {"idle", "recv"}
=============================================================================
