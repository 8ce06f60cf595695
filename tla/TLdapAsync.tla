----------------------------- MODULE TLdapAsync -----------------------------
(***************************************************************************)
(* The asynchronous LDAP search of the GLOBAL session policy: texec.c      *)
(* suspends the scenario in a sleep context, tldap.c sends the request and *)
(* keeps it in a list of the connection, tselect.c (a thread for each      *)
(* connection) moves what is answered to a second list, and any worker of  *)
(* the connection goes on with the scenario.  The context is also in the   *)
(* timer, for tcLdapTimeout: whoever finds it due there either knows from  *)
(* its req pointer that the answer was treated, and frees it, or treats    *)
(* the request as timed out.                                               *)
(*                                                                         *)
(* The timer is the abstract one of TSleep, which TTimer implements.  An   *)
(* action is a critical section of the connection's mutex, or the code     *)
(* between two of them; the send and the insertion in the list, one        *)
(* critical section, are two steps, since the server answers in between.   *)
(***************************************************************************)
EXTENDS Integers, Sequences

CONSTANTS tcWThreadNb,   \* number of workers
          tcLdapBindNb,  \* number of connections
          tcLdapTimeout, \* seconds
          Ctx,           \* the addresses of sleep contexts
          MaxMsg,        \* bound: message identifiers in use at a time
          MaxSearches,   \* bound: searches in all
          MaxRestarts,   \* bound: connections that break
          Awake, Lost,   \* see TSleep
          NULL

ASSUME SizeAssumption ==
  tcWThreadNb \in Nat \ {0} /\ tcLdapBindNb \in Nat \ {0} /\ tcLdapTimeout \in Nat \ {0}
ASSUME BoundAssumption == MaxMsg \in Nat /\ MaxSearches \in Nat /\ MaxRestarts \in Nat
ASSUME MarkAssumption ==
  Awake \notin Int /\ Lost \notin Int /\ NULL \notin Int /\ NULL \notin Ctx

VARIABLES asleep, closed,  \* the timer
          alloc,      \* the contexts that are allocated
          req,        \* context -> its req pointer: "garbage", "NULL" or "set"
          ldReq,      \* connection -> requests without an answer
          ldResp,     \* connection -> requests with one
          server,     \* connection -> messages the server has to answer
          received,   \* connection -> answer its select thread holds
          pc,         \* worker -> where it is, with its sleepCtx and msgid
          searches, restarts,
          life,       \* history: context -> how far its request has come
          resumed,    \* history: context -> times its scenario went on
          mishap      \* history: the last thing the protocol has no answer to

timerVars == <<asleep, closed>>
memVars == <<alloc, req, searches>>
listVars == <<ldReq, ldResp>>
netVars == <<server, received, restarts>>
histVars == <<life, resumed, mishap>>
vars == <<timerVars, memVars, listVars, netVars, pc, histVars>>

Worker == 0 .. tcWThreadNb - 1
Ld == 0 .. tcLdapBindNb - 1
Msg == 1 .. MaxMsg
tLdap_getLdId(w) == w % tcLdapBindNb

Timer == INSTANCE TSleep WITH MaxSleep <- tcLdapTimeout, CanLose <- TRUE

At(p) == [at |-> p, ctx |-> NULL, id |-> NULL]
Element == [id : Msg, ctx : Ctx]
Places == {"top", "poll", "run", "sleep", "build", "send", "insert", "answer", "timeout"}
Mishaps == {"none", "failed", "misfired", "crossed", "shared", "overtaken", "strayed"}

TypeOK ==
  /\ asleep \in [Ctx -> 0 .. tcLdapTimeout \cup {Awake, Lost}] /\ closed \in BOOLEAN
  /\ alloc \subseteq Ctx /\ req \in [Ctx -> {"garbage", "NULL", "set"}]
  /\ \A l \in Ld : ldReq[l] \in Seq(Element) /\ ldResp[l] \in Seq(Element)
  /\ server \in [Ld -> SUBSET Msg] /\ received \in [Ld -> Msg \cup {NULL}]
  /\ pc \in [Worker -> [at : Places, ctx : Ctx \cup {NULL}, id : Msg \cup {NULL}]]
  /\ searches \in 0 .. MaxSearches /\ restarts \in 0 .. MaxRestarts
  /\ life \in [Ctx -> {"unsent", "waiting", "answered", "treated", "failed"}]
  /\ resumed \in [Ctx -> 0 .. 2] /\ mishap \in Mishaps

Init ==
  /\ Timer!Init
  /\ alloc = {} /\ req = [c \in Ctx |-> "garbage"]
  /\ ldReq = [l \in Ld |-> <<>>] /\ ldResp = [l \in Ld |-> <<>>]
  /\ server = [l \in Ld |-> {}] /\ received = [l \in Ld |-> NULL]
  /\ pc = [w \in Worker |-> At("top")]
  /\ searches = 0 /\ restarts = 0
  /\ life = [c \in Ctx |-> "unsent"] /\ resumed = [c \in Ctx |-> 0] /\ mishap = "none"

-----------------------------------------------------------------------------
(***************************************************************************)
(* The lists, the mutex of a connection and the history.                   *)
(***************************************************************************)
Contexts(list) == {list[i].ctx : i \in DOMAIN list}
Ids(list) == {list[i].id : i \in DOMAIN list}

(* The first of some places of a list, or 0; the list without a place.     *)
First(places) == IF places = {} THEN 0 ELSE CHOOSE i \in places : \A j \in places : i <= j
RemoveAt(list, i) == SubSeq(list, 1, i - 1) \o SubSeq(list, i + 1, Len(list))

MutLdMutexFree(l) == TRUE
LdMutexFree(l) == \A w \in Worker : pc[w].at = "insert" => tLdap_getLdId(w) # l

Goto(w, p) == pc' = [pc EXCEPT ![w].at = p]
Leave(w, p) == pc' = [pc EXCEPT ![w] = At(p)]
GoesOn(c) == resumed' = [resumed EXCEPT ![c] = IF @ < 2 THEN @ + 1 ELSE 2]
Happens(m) == mishap' = m

-----------------------------------------------------------------------------
(***************************************************************************)
(* LDAP_Search_Rq: the context is malloc'ed (its req field keeps what the  *)
(* memory held), put in the timer, and then handed to                      *)
(* tLdap_SearchRequest_async.  What tTimerSetUserToSleep returns is lost.  *)
(***************************************************************************)
SearchRq(w) ==
  /\ pc[w].at = "run"
  /\ searches < MaxSearches /\ searches' = searches + 1
  /\ \E c \in Ctx \ alloc, r \in {"garbage", "NULL"} :
       /\ alloc' = alloc \cup {c}
       /\ req' = [req EXCEPT ![c] = r]
       /\ life' = [life EXCEPT ![c] = "unsent"]
       /\ resumed' = [resumed EXCEPT ![c] = 0]
       /\ pc' = [pc EXCEPT ![w] = [At("sleep") EXCEPT !.ctx = c]]
  /\ UNCHANGED <<timerVars, listVars, netVars, mishap>>

Timeout == tcLdapTimeout

SetUserToSleep(w) ==
  /\ pc[w].at = "sleep"
  /\ Timer!Sleep(pc[w].ctx, Timeout) \/ UNCHANGED timerVars
  /\ Goto(w, "build")
  /\ UNCHANGED <<memVars, listVars, netVars, histVars>>

BuildRequest(w) ==
  /\ pc[w].at = "build"
  /\ req' = [req EXCEPT ![pc[w].ctx] = "set"]
  /\ Goto(w, "send")
  /\ UNCHANGED <<timerVars, alloc, searches, listVars, netVars, histVars>>

FreshMsg(l) ==
  Msg \ (server[l] \cup {received[l]} \cup Ids(ldReq[l]) \cup Ids(ldResp[l]))

Send(w) ==
  LET l == tLdap_getLdId(w) IN
  /\ pc[w].at = "send" /\ LdMutexFree(l)
  /\ \E m \in FreshMsg(l) :
       /\ server' = [server EXCEPT ![l] = @ \cup {m}]
       /\ pc' = [pc EXCEPT ![w].at = "insert", ![w].id = m]
  /\ UNCHANGED <<timerVars, memVars, listVars, received, restarts, histVars>>

insert_Request(w) ==
  LET l == tLdap_getLdId(w)  c == pc[w].ctx IN
  /\ pc[w].at = "insert"
  /\ ldReq' = [ldReq EXCEPT ![l] = Append(@, [id |-> pc[w].id, ctx |-> c])]
  /\ life' = [life EXCEPT ![c] = "waiting"]
  /\ Leave(w, "top")
  /\ UNCHANGED <<timerVars, memVars, ldResp, netVars, resumed, mishap>>

(***************************************************************************)
(* The ways out of tLdap_SearchRequest_async with an error: an             *)
(* uninitialised ld that happens to be NULL, no memory for the request,    *)
(* ldap_search that fails, no memory for the list element.  The scenario   *)
(* goes on at once and the context stays in the timer.                     *)
(***************************************************************************)
SearchFails(w) ==
  /\ \/ pc[w].at \in {"build", "insert"}
     \/ pc[w].at = "send" /\ LdMutexFree(tLdap_getLdId(w))
  /\ GoesOn(pc[w].ctx)
  /\ life' = [life EXCEPT ![pc[w].ctx] = "failed"]
  /\ Happens("failed")
  /\ Leave(w, "run")
  /\ UNCHANGED <<timerVars, memVars, listVars, netVars>>

-----------------------------------------------------------------------------
(***************************************************************************)
(* The top of the worker's loop: an answer first, then the timer, then a   *)
(* new scenario.                                                           *)
(***************************************************************************)
getAndRemove_firstResponse(w) ==
  LET l == tLdap_getLdId(w) IN
  /\ pc[w].at = "top" /\ LdMutexFree(l)
  /\ IF ldResp[l] = <<>>
     THEN Goto(w, "poll") /\ UNCHANGED ldResp
     ELSE /\ pc' = [pc EXCEPT ![w] = [At("answer") EXCEPT !.ctx = Head(ldResp[l]).ctx]]
          /\ ldResp' = [ldResp EXCEPT ![l] = Tail(@)]
  /\ UNCHANGED <<timerVars, memVars, ldReq, netVars, histVars>>

(***************************************************************************)
(* req = NULL here is a timeout that has been faster: requestId keeps the  *)
(* value of this worker's last action, and the scenario goes on with it.   *)
(***************************************************************************)
MutReqAfterAnswer == "set"
ReqAfterAnswer == "NULL"

LDAP_Search_Resp(w) ==
  LET c == pc[w].ctx IN
  /\ pc[w].at = "answer"
  /\ IF req[c] # "NULL"
     THEN /\ req' = [req EXCEPT ![c] = ReqAfterAnswer]
          /\ life' = [life EXCEPT ![c] = "treated"]
     ELSE UNCHANGED <<req, life>>
  /\ GoesOn(c)
  /\ Leave(w, "run")
  /\ UNCHANGED <<timerVars, alloc, searches, listVars, netVars, mishap>>

(***************************************************************************)
(* A context that is due.  The protocol can handle it when the answer has  *)
(* been treated, or when the request still waits in the list of this       *)
(* worker's connection.  The context of a search that failed can be        *)
(* resumed too, unless its req was never set.                              *)
(***************************************************************************)
GetUserToResume(w, c) ==
  /\ pc[w].at = "poll"
  /\ Timer!Resume(c)
  /\ IF req[c] = "NULL"
     THEN alloc' = alloc \ {c} /\ Leave(w, "top") /\ UNCHANGED req
     ELSE /\ req' = [req EXCEPT ![c] = "NULL"]
          /\ pc' = [pc EXCEPT ![w] = [At("timeout") EXCEPT !.ctx = c]]
          /\ UNCHANGED alloc
  /\ IF \/ life[c] = "treated" \/ c \in Contexts(ldReq[tLdap_getLdId(w)])
        \/ life[c] = "failed" /\ req[c] # "garbage"
     THEN UNCHANGED mishap ELSE Happens("misfired")
  /\ UNCHANGED <<searches, listVars, netVars, life, resumed>>

(***************************************************************************)
(* getAndRemove_Request looks in the connection of this worker.  The       *)
(* message given to ldap_abandon is read from the element just freed: it   *)
(* may be any, and the answer to another request may be given up.          *)
(***************************************************************************)
MutWithout(list, c) == list
Without(list, c) == LET i == First({j \in 1 .. Len(list) : list[j].ctx = c})
                    IN  IF i = 0 THEN list ELSE RemoveAt(list, i)

TimeoutResp(w) ==
  LET l == tLdap_getLdId(w)  c == pc[w].ctx IN
  /\ pc[w].at = "timeout" /\ LdMutexFree(l)
  /\ ldReq' = [ldReq EXCEPT ![l] = Without(@, c)]
  /\ IF ldReq' = ldReq
     THEN UNCHANGED <<server, mishap>>
     ELSE \E m \in Msg :
            /\ server' = [server EXCEPT ![l] = @ \ {m}]
            /\ IF m \in Ids(ldReq'[l]) THEN Happens("strayed") ELSE UNCHANGED mishap
  /\ alloc' = alloc \ {c}
  /\ GoesOn(c)
  /\ Leave(w, "run")
  /\ UNCHANGED <<timerVars, req, searches, ldResp, received, restarts, life>>

NewScenario(w) ==
  /\ pc[w].at = "poll" /\ \A c \in Ctx : asleep[c] # 0
  /\ Leave(w, "run")
  /\ UNCHANGED <<timerVars, memVars, listVars, netVars, histVars>>

EndOfScenario(w) ==
  /\ pc[w].at = "run"
  /\ Leave(w, "top")
  /\ UNCHANGED <<timerVars, memVars, listVars, netVars, histVars>>

-----------------------------------------------------------------------------
(***************************************************************************)
(* The select thread of a connection.  An answer is received without the   *)
(* mutex and then looked up under it; an answer to no request is dropped.  *)
(***************************************************************************)
ldap_result(l) ==
  /\ received[l] = NULL
  /\ \E m \in server[l] :
       /\ received' = [received EXCEPT ![l] = m]
       /\ server' = [server EXCEPT ![l] = @ \ {m}]
  /\ UNCHANGED <<timerVars, memVars, listVars, pc, restarts, histVars>>

getAndMove_RequestToResponse(l) ==
  LET i == First({j \in 1 .. Len(ldReq[l]) : ldReq[l][j].id = received[l]})
      c == ldReq[l][i].ctx IN
  /\ received[l] # NULL /\ LdMutexFree(l)
  /\ received' = [received EXCEPT ![l] = NULL]
  /\ IF i = 0
     THEN UNCHANGED <<listVars, life, mishap>>
     ELSE /\ ldResp' = [ldResp EXCEPT ![l] = Append(@, ldReq[l][i])]
          /\ ldReq' = [ldReq EXCEPT ![l] = RemoveAt(@, i)]
          /\ life' = [life EXCEPT ![c] = "answered"]
          /\ IF req[c] = "set" THEN UNCHANGED mishap ELSE Happens("crossed")
  /\ UNCHANGED <<timerVars, memVars, server, pc, restarts, resumed>>

(***************************************************************************)
(* treatError_Ld for a broken connection, called with the mutex: the       *)
(* connection is restarted and its requests become answered ones.  With    *)
(* answers pending, the requests are also left where they were.            *)
(***************************************************************************)
treatError_Ld(l) ==
  /\ received[l] = NULL /\ LdMutexFree(l)
  /\ restarts < MaxRestarts /\ restarts' = restarts + 1
  /\ server' = [server EXCEPT ![l] = {}]
  /\ ldResp' = [ldResp EXCEPT ![l] = @ \o ldReq[l]]
  /\ ldReq' = IF ldResp[l] = <<>> THEN [ldReq EXCEPT ![l] = <<>>] ELSE ldReq
  /\ CASE ldReq[l] = <<>> -> UNCHANGED mishap
       [] ldReq'[l] # <<>> -> Happens("shared")
       [] \E c \in Contexts(ldReq[l]) : req[c] # "set" -> Happens("overtaken")
       [] OTHER -> UNCHANGED mishap
  /\ life' = [c \in Ctx |-> IF c \in Contexts(ldReq[l]) THEN "answered" ELSE life[c]]
  /\ UNCHANGED <<timerVars, memVars, received, pc, resumed>>

TimerStep ==
  /\ Timer!Tick \/ Timer!Close \/ \E c \in Ctx : asleep[c] = 0 /\ Timer!Lose(c)
  /\ UNCHANGED <<memVars, listVars, netVars, pc, histVars>>

WorkerStep(w) ==
  \/ SearchRq(w) \/ SetUserToSleep(w) \/ BuildRequest(w) \/ Send(w)
  \/ insert_Request(w) \/ SearchFails(w) \/ getAndRemove_firstResponse(w)
  \/ LDAP_Search_Resp(w) \/ TimeoutResp(w)
  \/ NewScenario(w) \/ EndOfScenario(w)
  \/ \E c \in Ctx : GetUserToResume(w, c)

SelectStep(l) ==
  ldap_result(l) \/ getAndMove_RequestToResponse(l) \/ treatError_Ld(l)

(***************************************************************************)
(* After a NULL pointer is written through, a list is shared or a context  *)
(* is freed that a list or another worker still holds, what the program    *)
(* does is not defined: those behaviours end there.                        *)
(***************************************************************************)
Defined == mishap \in {"none", "failed", "strayed"}
Undefined == ~Defined /\ UNCHANGED vars

Next ==
  \/ Undefined
  \/ Defined /\ TimerStep
  \/ \E w \in Worker : Defined /\ WorkerStep(w)
  \/ \E l \in Ld : Defined /\ SelectStep(l)

Spec == Init /\ [][Next]_vars

-----------------------------------------------------------------------------
(***************************************************************************)
(* A sleep context is freed by the last that holds it: what a list, the    *)
(* timer or a worker points to is allocated, and an answered request has   *)
(* its reqCtx with the result.  The timer and the lists share the context  *)
(* without a common lock; the req pointer alone tells who frees it.        *)
(***************************************************************************)
NoDangling ==
  /\ TypeOK
  /\ mishap = "none" =>
       /\ \A l \in Ld : Contexts(ldReq[l]) \cup Contexts(ldResp[l]) \subseteq alloc
       /\ \A c \in Ctx : asleep[c] \in 0 .. tcLdapTimeout => c \in alloc
       /\ \A w \in Worker : pc[w].ctx \in alloc \cup {NULL}
       /\ \A l \in Ld : \A c \in Contexts(ldResp[l]) : req[c] = "set"

(***************************************************************************)
(* A suspended scenario goes on once: not after the answer and again after *)
(* the timeout, although the context is in a list and in the timer.        *)
(***************************************************************************)
ContinuedOnce == mishap = "none" => \A c \in Ctx : resumed[c] <= 1

(***************************************************************************)
(* No answer is lost: as long as a request waits, or is sent and not yet   *)
(* in the list, its answer is to come or is held by tSelect.  tSelect may  *)
(* receive it before the worker has put the request in the list, but       *)
(* cannot look for it then (and drop it), because ldap_search and          *)
(* insert_Request share a critical section.                                *)
(***************************************************************************)
AnswerFound ==
  mishap = "none" =>
    \A l \in Ld :
      LET inserting == {w \in Worker : pc[w].at = "insert" /\ tLdap_getLdId(w) = l} IN
      Ids(ldReq[l]) \cup {pc[w].id : w \in inserting} \subseteq server[l] \cup {received[l]}
=============================================================================
