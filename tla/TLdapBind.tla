------------------------------ MODULE TLdapBind ------------------------------
(***************************************************************************)
(* The LDAP connections of the local session policies (Src/tldap.c): each  *)
(* worker has its own and binds, unbinds and sends synchronous requests on *)
(* it as its scenario says.  simpleBindRequest takes the servers of the    *)
(* group in turn; tLdap_Rebind brings back a broken connection.  With a    *)
(* mated pair the main thread (tmain.c, tinit.c) searches on a connection  *)
(* of its own, and when that fails suspends the workers, switches to the   *)
(* other server and opens their connections again.                         *)
(*                                                                         *)
(* A scenario is any sequence of LDAP actions; what they carry and the     *)
(* other actions, which touch no connection, are left out, and so is the   *)
(* end of the test (TLifecycle).                                           *)
(***************************************************************************)
EXTENDS Integers

CONSTANTS tcWThreadNb,   \* the workers; tcLdapBindNb is the same number
          NbServer,      \* servers of the group, without a mated pair
          Confs,         \* the configurations considered
          MaxOutages,    \* bound: times a server stops
          MaxRefused,    \* bound: binds and searches a running server refuses
          NULL

(***************************************************************************)
(* pair is !tcNoMattedPair, second tells that tcServerHost[1] is given,    *)
(* sce is the policy LDAP_SES_POLICY_LOCAL_SCE, quiet is quietOnError.     *)
(***************************************************************************)
Conf == [pair : BOOLEAN, second : BOOLEAN, sce : BOOLEAN, quiet : BOOLEAN]

WORKTHR == 12

(***************************************************************************)
(* With WORKTHR workers or more, element tcLdapBindNb of the table is not  *)
(* the one that tLdap_getLd(tcLdapBindNb) gives.                           *)
(***************************************************************************)
ASSUME ThreadAssumption == tcWThreadNb \in 1 .. WORKTHR - 1
ASSUME ServerAssumption == NbServer \in Nat \ {0}
ASSUME ConfAssumption == Confs \subseteq Conf
ASSUME BoundAssumption == MaxOutages \in Nat /\ MaxRefused \in Nat

Worker == 0 .. tcWThreadNb - 1
Main == tcWThreadNb
Thread == Worker \cup {Main}
Monitor == tcWThreadNb             \* main's element of tLdapLdTab
Server == 0 .. (IF NbServer = 1 THEN 1 ELSE NbServer - 1)  \* a group or a pair

VARIABLES conf,       \* the configuration
          up,         \* the servers that run
          active,     \* tcActiveServerId
          ld,         \* element of tLdapLdTab -> its ld
          tab,        \* element -> its serverHost and KeyThead
          bindMutex,  \* its holder
          ldMutex,    \* element -> holder of its mutex
          suspended,  \* the workers' states are SUSPEND
          pc,         \* thread -> where it is
          idx,        \* worker -> indiceTab of tLdap_Rebind
          target,     \* the element main is working on
          phase,      \* what main is doing
          outages, refused,  \* history: what happened so far
          last,       \* history: server of the last simpleBindRequest
          home,       \* history: server of each worker's last one
          mishap      \* history: undefined behaviour and mutexes kept

connVars == <<active, ld, tab>>
lockVars == <<bindMutex, ldMutex>>
mainVars == <<suspended, target, phase>>
serverVars == <<conf, up, outages>>
histVars == <<refused, last, home, mishap>>
vars == <<connVars, lockVars, mainVars, serverVars, histVars, pc, idx>>

Handle == [server : Server, bound : BOOLEAN]
ASSUME NullAssumption == NULL \notin Int /\ NULL \notin Handle

Place == {"idle", "bind", "connecting", "busy", "rebind", "retry", "trying",
          "probe", "unbind", "search", "switch", "reinit"}

TypeOK ==
  /\ conf \in Conf
  /\ up \subseteq Server
  /\ active \in Server
  /\ ld \in [Worker \cup {Monitor} -> Handle \cup {NULL}]
  /\ tab \in [Worker -> [host : Server \cup {NULL}, key : Thread]]
  /\ bindMutex \in Thread \cup {NULL}
  /\ ldMutex \in [Worker -> Thread \cup {NULL}]
  /\ suspended \in BOOLEAN
  /\ pc \in [Thread -> Place]
  /\ idx \in [Worker -> Worker]
  /\ target \in Worker \cup {Monitor}
  /\ phase \in {"watch", "switch", "retry", "reinit"}
  /\ outages \in Nat /\ refused \in Nat
  /\ last \in Server
  /\ home \in [Worker -> Server]
  /\ mishap \subseteq {"kept", "freed", "lost"} \X Thread

(***************************************************************************)
(* The group option and the mated pair exclude each other (tmain.c:298):   *)
(* with a mated pair nbserver keeps its initial value.                     *)
(***************************************************************************)
nbserver == IF conf.pair THEN 1 ELSE NbServer

(***************************************************************************)
(* bzero leaves KeyThead at 0, which is the key of the main thread.        *)
(***************************************************************************)
Init ==
  /\ conf \in Confs
  /\ up = Server
  /\ active = 0
  /\ ld = [e \in Worker \cup {Monitor} |-> NULL]
  /\ tab = [e \in Worker |-> [host |-> NULL, key |-> Main]]
  /\ bindMutex = NULL
  /\ ldMutex = [e \in Worker |-> NULL]
  /\ suspended = FALSE
  /\ pc = [t \in Thread |-> IF t = Main THEN "probe" ELSE "idle"]
  /\ idx = [w \in Worker |-> 0]
  /\ target = Monitor /\ phase = "watch"
  /\ outages = 0 /\ refused = 0
  /\ last = nbserver - 1
  /\ home = [w \in Worker |-> 0]
  /\ mishap = {}

-----------------------------------------------------------------------------
(***************************************************************************)
(* Main has the key MAINTHR = 0, hence the mutex of worker 0's element.    *)
(***************************************************************************)
tLdap_getLdId(t) == IF t = Main THEN 0 ELSE t

Target(t) == IF t = Main THEN target ELSE t
Note(m, t) == mishap' = mishap \cup {<<m, t>>}

(***************************************************************************)
(* After a call on an ld that main has freed, or with an indiceTab that    *)
(* was never set, anything may happen: the model says nothing of it.       *)
(***************************************************************************)
Defined == \A m \in mishap : m[1] = "kept"

Move(t, p) == Defined /\ pc' = [pc EXCEPT ![t] = p]

(***************************************************************************)
(* The mutexes of the elements are recursive; one that an error return     *)
(* kept stays locked whatever its holder does later.                       *)
(***************************************************************************)
LdMutexFree(t) == ldMutex[tLdap_getLdId(t)] \in {NULL, t}

Released(t) ==
  IF <<"kept", t>> \in mishap THEN ldMutex ELSE [ldMutex EXCEPT ![tLdap_getLdId(t)] = NULL]

Unbind(t, e) == LdMutexFree(t) /\ ld' = [ld EXCEPT ![e] = NULL]

(***************************************************************************)
(* What ldap_simple_bind_s may return: success, a positive code (refused), *)
(* LDAP_SERVER_DOWN or LDAP_LOCAL_ERROR (down), another negative code.     *)
(***************************************************************************)
BindResults(s) ==
  IF s \in up THEN {"ok"} \cup {r \in {"refused"} : refused < MaxRefused}
              ELSE {"down", "timeout"}

(***************************************************************************)
(* Only a positive code frees the ld, and only without -q.                 *)
(***************************************************************************)
AfterBind(r, s) ==
  IF r = "refused" /\ ~conf.quiet THEN NULL ELSE [server |-> s, bound |-> r = "ok"]

Count(r) == refused' = IF r = "refused" THEN refused + 1 ELSE refused

-----------------------------------------------------------------------------
(***************************************************************************)
(* tReinitIsAlive ends with a verdict: main goes on watching, begins or    *)
(* continues tBreak, or opens the workers' connections again.              *)
(***************************************************************************)
Verdict(alive) ==
  LET start == phase = "watch"
      p == IF alive THEN IF start THEN "probe" ELSE "reinit"
                    ELSE IF phase = "switch" THEN "probe" ELSE "switch" IN
  /\ Move(Main, p)
  /\ phase' = IF p = "probe" THEN IF alive THEN "watch" ELSE "retry" ELSE p
  /\ target' = IF p = "reinit" THEN 0 ELSE Monitor
  /\ suspended' = (suspended \/ (start /\ ~alive))

NextElement == Move(Main, "reinit") /\ target' = target + 1 /\ UNCHANGED <<suspended, phase>>

MainAfterBind(r) ==
  \/ phase = "reinit" /\ NextElement
  \/ phase # "reinit" /\ r # "ok" /\ Verdict(FALSE)
  \/ phase # "reinit" /\ r = "ok" /\ Move(Main, "search") /\ UNCHANGED mainVars

(***************************************************************************)
(* A worker goes to tLdap_Rebind on LDAP_SERVER_DOWN and LDAP_LOCAL_ERROR. *)
(***************************************************************************)
BackFromBind(t, r) ==
  \/ t = Main /\ MainAfterBind(r)
  \/ t # Main /\ Move(t, IF r = "down" THEN "rebind" ELSE "idle") /\ UNCHANGED mainVars

(***************************************************************************)
(* simpleBindRequest, up to the call of ldap_simple_bind_s.  The error     *)
(* returns before that call release neither mutex (bound: one of them).    *)
(***************************************************************************)
MutBindMutexFree == TRUE
BindMutexFree == bindMutex = NULL

BindLock(t) ==
  /\ pc[t] = "bind" /\ LdMutexFree(t) /\ BindMutexFree
  /\ bindMutex' = t
  /\ ldMutex' = [ldMutex EXCEPT ![tLdap_getLdId(t)] = t]

BindConnect(t) ==
  /\ BindLock(t)
  /\ ld' = [ld EXCEPT ![Target(t)] = [server |-> active, bound |-> FALSE]]
  /\ Move(t, "connecting")
  /\ UNCHANGED <<active, tab, mainVars, serverVars, histVars, idx>>

BindNoMemory(t) ==
  /\ BindLock(t) /\ mishap = {}
  /\ ld' = [ld EXCEPT ![Target(t)] = NULL]
  /\ Note("kept", t)
  /\ BackFromBind(t, "refused")
  /\ UNCHANGED <<active, tab, serverVars, refused, last, home, idx>>

(***************************************************************************)
(* The rest of it.  Server and thread are recorded in every element whose  *)
(* ld is the caller's: its own, and those without an ld if it has none.    *)
(* Main records in the element of worker 0, and the ld that the bind       *)
(* concerned may have been freed by main meanwhile.                        *)
(***************************************************************************)
MutRecorded(t, lds) ==
  LET me == tLdap_getLdId(t) IN
  [e \in Worker |-> IF e = me \/ (lds[e] = NULL /\ lds[me] = NULL)
                    THEN [host |-> (active + 1) % nbserver, key |-> t] ELSE tab[e]]
Recorded(t, lds) ==
  LET me == tLdap_getLdId(t) IN
  [e \in Worker |-> IF e = me \/ (lds[e] = NULL /\ lds[me] = NULL)
                    THEN [host |-> active, key |-> t] ELSE tab[e]]

NextServer == (active + 1) % nbserver

BindEnd(t) ==
  LET e == Target(t)
      s == IF ld[e] = NULL THEN active ELSE ld[e].server IN
  /\ pc[t] = "connecting"
  /\ \E r \in BindResults(s) :
       /\ ld' = [ld EXCEPT ![e] = AfterBind(r, s)]
       /\ tab' = Recorded(t, [ld EXCEPT ![e] = AfterBind(r, s)])
       /\ Count(r)
       /\ BackFromBind(t, r)
  /\ active' = NextServer
  /\ bindMutex' = NULL /\ ldMutex' = Released(t)
  /\ last' = IF conf.pair THEN last ELSE s
  /\ home' = IF conf.pair THEN home ELSE [home EXCEPT ![t] = s]
  /\ UNCHANGED <<serverVars, mishap, idx>>

-----------------------------------------------------------------------------
(***************************************************************************)
(* The LDAP actions of a scenario (tExec).  A bind with a connection and a *)
(* request without one change nothing.  SUSPEND is tested between actions. *)
(***************************************************************************)
Plays(w) == Defined /\ pc[w] = "idle" /\ ~suspended

BindRequest(w) ==
  /\ Plays(w) /\ ld[w] = NULL
  /\ Move(w, "bind")
  /\ UNCHANGED <<connVars, lockVars, mainVars, serverVars, histVars, idx>>

UnbindRequest(w) ==
  /\ Plays(w) /\ conf.sce /\ ld[w] # NULL
  /\ Unbind(w, w)
  /\ UNCHANGED <<active, tab, lockVars, mainVars, serverVars, histVars, pc, idx>>

Request(w) ==
  /\ Plays(w) /\ ld[w] # NULL
  /\ Move(w, "busy")
  /\ UNCHANGED <<connVars, lockVars, mainVars, serverVars, histVars, idx>>

Answer(w) ==
  /\ pc[w] = "busy"
  /\ ld[w] # NULL => ld[w].server \in up
  /\ Move(w, "idle")
  /\ UNCHANGED <<connVars, lockVars, mainVars, serverVars, histVars, idx>>

AnswerServerDown(w) ==
  /\ pc[w] = "busy"
  /\ Move(w, "rebind")
  /\ UNCHANGED <<connVars, lockVars, mainVars, serverVars, histVars, idx>>

(***************************************************************************)
(* LDAP_STRONG_AUTH_REQUIRED: modify, add and delete bind again.           *)
(***************************************************************************)
AnswerStrongAuth(w) ==
  /\ pc[w] = "busy" /\ ld[w] # NULL /\ ld[w].server \in up
  /\ Unbind(w, w)
  /\ Move(w, "bind")
  /\ UNCHANGED <<active, tab, lockVars, mainVars, serverVars, histVars, idx>>

(***************************************************************************)
(* tLdap_Rebind.  Its rc is not initialised: the loop may be skipped.  The *)
(* rebind flag it tests is that of a worker's element, and it only sets    *)
(* that of element tcWThreadNb: the test always succeeds.  A host that was *)
(* never recorded, which undefined behaviour may find, answers nothing.    *)
(***************************************************************************)
Found(w) == {e \in Worker : tab[e].key = w /\ \A f \in e + 1 .. tcWThreadNb - 1 : tab[f].key # w}

RebindStart(w) ==
  /\ pc[w] = "rebind"
  /\ Unbind(w, w)
  /\ IF Found(w) = {} THEN Note("lost", w) ELSE UNCHANGED mishap
  /\ \/ /\ Move(w, "retry") /\ ldMutex' = [ldMutex EXCEPT ![w] = w]
        /\ \E e \in IF Found(w) = {} THEN Worker ELSE Found(w) : idx' = [idx EXCEPT ![w] = e]
     \/ Move(w, "idle") /\ ldMutex' = Released(w) /\ UNCHANGED idx
  /\ UNCHANGED <<active, tab, bindMutex, mainVars, serverVars, refused, last, home>>

RebindTry(w) ==
  /\ pc[w] = "retry" /\ tab[idx[w]].host # NULL
  /\ ld' = [ld EXCEPT ![w] = [server |-> tab[idx[w]].host, bound |-> FALSE]]
  /\ Move(w, "trying")
  /\ UNCHANGED <<active, tab, lockVars, mainVars, serverVars, histVars, idx>>

RebindNoMemory(w) ==
  /\ pc[w] = "retry" /\ mishap = {}
  /\ ld' = [ld EXCEPT ![w] = NULL]
  /\ Note("kept", w)
  /\ Move(w, "idle") /\ idx' = [idx EXCEPT ![w] = 0]
  /\ UNCHANGED <<active, tab, lockVars, mainVars, serverVars, refused, last, home>>

MutRebindOver(r) == r = "refused"
RebindOver(r) == r = "ok"

RebindEnd(w) ==
  LET s == IF ld[w] = NULL THEN active ELSE ld[w].server IN
  /\ pc[w] = "trying"
  /\ \E r \in BindResults(s) :
       /\ ld' = [ld EXCEPT ![w] = AfterBind(r, s)]
       /\ Count(r)
       /\ Move(w, IF RebindOver(r) THEN "idle" ELSE "retry")
       /\ ldMutex' = IF RebindOver(r) THEN Released(w) ELSE ldMutex
       /\ idx' = IF RebindOver(r) THEN [idx EXCEPT ![w] = 0] ELSE idx
  /\ UNCHANGED <<active, tab, bindMutex, mainVars, serverVars, last, home, mishap>>

-----------------------------------------------------------------------------
(***************************************************************************)
(* tReinitIsAlive: a search on main's connection.  A server that runs may  *)
(* refuse it; on a connection whose bind failed, or whose server stopped,  *)
(* it gives LDAP_SERVER_DOWN.                                              *)
(***************************************************************************)
Probe ==
  /\ pc[Main] = "probe" /\ conf.pair
  /\ ld[Monitor] = NULL /\ Move(Main, "bind")
  /\ UNCHANGED <<connVars, lockVars, mainVars, serverVars, histVars, idx>>

SearchResults(h) ==
  (IF h.server \in up THEN {"ok"} \cup {r \in {"refused"} : refused < MaxRefused} ELSE {})
    \cup (IF h.bound THEN {} ELSE {"down"})

ProbeSearch ==
  /\ pc[Main] = "probe" /\ ld[Monitor] # NULL
  /\ \E r \in SearchResults(ld[Monitor]) :
       /\ Count(r)
       /\ \/ r = "down" /\ Move(Main, "unbind") /\ UNCHANGED mainVars
          \/ r # "down" /\ Verdict(r = "ok")
  /\ UNCHANGED <<connVars, lockVars, serverVars, last, home, mishap, idx>>

MutProbeUnbind ==
  /\ pc[Main] = "unbind" /\ Verdict(FALSE)
  /\ UNCHANGED <<connVars, lockVars, serverVars, histVars, idx>>
ProbeUnbind ==
  /\ pc[Main] = "unbind"
  /\ Unbind(Main, Monitor)
  /\ Move(Main, "bind")
  /\ UNCHANGED <<active, tab, lockVars, mainVars, serverVars, histVars, idx>>

SearchAgain ==
  /\ pc[Main] = "search"
  /\ \E r \in SearchResults(ld[Monitor]) : Count(r) /\ Verdict(r = "ok")
  /\ UNCHANGED <<connVars, lockVars, serverVars, last, home, mishap, idx>>

(***************************************************************************)
(* The loop of tBreak, whose state changes before it are in Verdict.       *)
(***************************************************************************)
Switch ==
  /\ pc[Main] = "switch" /\ conf.second
  /\ Unbind(Main, Monitor)
  /\ active' = (active + 1) % 2
  /\ Move(Main, "probe")
  /\ UNCHANGED <<tab, lockVars, mainVars, serverVars, histVars, idx>>

NoSwitch ==
  /\ pc[Main] = "switch" /\ ~conf.second
  /\ phase' = "retry"
  /\ Move(Main, "probe")
  /\ UNCHANGED <<connVars, lockVars, suspended, target, serverVars, histVars, idx>>

(***************************************************************************)
(* tLdapReinit: worker after worker, its ld is freed and bound again,      *)
(* under the mutex of main's own element; then the workers go on.          *)
(***************************************************************************)
InCall(w) == pc[w] \in {"busy", "connecting", "trying"}

ReinitUnbind ==
  /\ pc[Main] = "reinit" /\ target \in Worker
  /\ ld[target] # NULL
  /\ Unbind(Main, target)
  /\ IF InCall(target) THEN Note("freed", target) ELSE UNCHANGED mishap
  /\ Move(Main, "bind")
  /\ UNCHANGED <<active, tab, lockVars, mainVars, serverVars, refused, last, home, idx>>

ReinitSkip ==
  /\ pc[Main] = "reinit" /\ target \in Worker /\ ld[target] = NULL
  /\ NextElement
  /\ UNCHANGED <<connVars, lockVars, serverVars, histVars, idx>>

BreakEnd ==
  /\ pc[Main] = "reinit" /\ target = Monitor
  /\ suspended' = FALSE /\ phase' = "watch"
  /\ Move(Main, "probe")
  /\ UNCHANGED <<target, connVars, lockVars, serverVars, histVars, idx>>

-----------------------------------------------------------------------------
(***************************************************************************)
(* The servers stop and start; the connections to them are then broken.    *)
(***************************************************************************)
ServerStops(s) ==
  /\ Defined /\ s \in up /\ outages < MaxOutages
  /\ up' = up \ {s} /\ outages' = outages + 1
  /\ ld' = [e \in DOMAIN ld |-> IF ld[e] # NULL /\ ld[e].server = s
                                THEN [server |-> s, bound |-> FALSE] ELSE ld[e]]
  /\ UNCHANGED <<conf, active, tab, lockVars, mainVars, histVars, pc, idx>>

ServerStarts(s) ==
  /\ Defined /\ s \notin up
  /\ up' = up \cup {s}
  /\ UNCHANGED <<conf, outages, connVars, lockVars, mainVars, histVars, pc, idx>>

BindStep(t) == BindConnect(t) \/ BindNoMemory(t) \/ BindEnd(t)

ActionStep(w) ==
  \/ BindStep(w) \/ Answer(w) \/ AnswerServerDown(w) \/ AnswerStrongAuth(w)
  \/ RebindStart(w) \/ RebindTry(w) \/ RebindNoMemory(w) \/ RebindEnd(w)

WorkerStep(w) == BindRequest(w) \/ UnbindRequest(w) \/ Request(w) \/ ActionStep(w)

MainStep ==
  \/ BindStep(Main) \/ Probe \/ ProbeSearch \/ ProbeUnbind \/ SearchAgain
  \/ Switch \/ NoSwitch \/ ReinitUnbind \/ ReinitSkip \/ BreakEnd

Next ==
  \/ \E w \in Worker : WorkerStep(w)
  \/ MainStep
  \/ \E s \in Server : ServerStops(s) \/ ServerStarts(s)

Spec == Init /\ [][Next]_vars

(***************************************************************************)
(* Threads that can go on do, and a server that stopped is started again.  *)
(***************************************************************************)
FairSpec ==
  /\ Spec
  /\ \A w \in Worker : WF_vars(ActionStep(w))
  /\ WF_vars(MainStep)
  /\ \A s \in Server : WF_vars(ServerStarts(s))

-----------------------------------------------------------------------------
(***************************************************************************)
(* The servers of a group are taken in turn, whichever workers bind and    *)
(* whatever comes of it: this is why tserver.c:66 warns only when there    *)
(* are fewer workers than servers.                                         *)
(***************************************************************************)
InTurn ==
  ~conf.pair => \A w \in Worker :
    pc[w] = "connecting" => ld[w] = [server |-> (last + 1) % nbserver, bound |-> FALSE]

(***************************************************************************)
(* tLdap_Rebind goes back to the server its worker was bound to, as long   *)
(* as no bind was refused: a refused one marks the elements of all workers *)
(* without a connection as the caller's.                                   *)
(***************************************************************************)
HomeRebind ==
  /\ TypeOK
  /\ \A w \in Worker : pc[w] = "trying" /\ ~conf.pair /\ (refused = 0 \/ conf.quiet)
                         => ld[w].server = home[w]

(***************************************************************************)
(* The mutex that a worker holds during tLdap_Rebind is given back: once   *)
(* the servers run, every tLdap_Rebind ends, or some error return kept a   *)
(* mutex or undefined behaviour was met.                                   *)
(***************************************************************************)
RebindEnds ==
  \A w \in Worker :
    pc[w] \in {"rebind", "retry", "trying"} ~> (pc[w] = "idle" \/ mishap # {})

(***************************************************************************)
(* Workers that tBreak suspended are resumed, with the same exceptions,    *)
(* although main shares a mutex with worker 0 and binds with the others.   *)
(***************************************************************************)
TrafficBack == suspended ~> (~suspended \/ mishap # {})
=============================================================================
