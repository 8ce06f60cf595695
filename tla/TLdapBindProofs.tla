--------------------------- MODULE TLdapBindProofs ---------------------------
(***************************************************************************)
(* The servers of a group are taken in turn (ServersInTurn) and a worker   *)
(* whose connection broke goes back to its own (RebindGoesHome), for any   *)
(* number of workers and servers and any failures.                         *)
(***************************************************************************)
EXTENDS TLdapBind, TLAPS

Element == Worker \cup {Monitor}
Connection(s) == [server |-> s, bound |-> FALSE]

(***************************************************************************)
(* InTurn is not inductive: it needs that only the holder of bindMutex is  *)
(* connecting, so that nobody moves tcActiveServerId on under it, and that *)
(* tcActiveServerId follows the server of the last bind.  Without a mated  *)
(* pair the main thread does nothing.                                      *)
(***************************************************************************)
TurnInv ==
  ~conf.pair =>
    /\ pc \in [Thread -> Place]
    /\ ld = [e \in Element |-> ld[e]]
    /\ pc[Main] = "probe" /\ ld[Monitor] = NULL
    /\ active = (last + 1) % NbServer
    /\ \A w \in Worker :
         pc[w] = "connecting" => bindMutex = w /\ ld[w] = Connection(active)

(***************************************************************************)
(* The main thread is none of the workers (tthread.h gives it the key 0,   *)
(* and them the keys from WORKTHR on).                                     *)
(***************************************************************************)
LEMMA MainApart == Main \notin Worker /\ Monitor = Main /\ Main \in Thread
  BY ThreadAssumption DEF Main, Worker, Monitor, Thread, WORKTHR

(***************************************************************************)
(* A bind that ends is in turn: tcActiveServerId moves to the server after *)
(* the one that was used, and the other workers are not connecting.        *)
(***************************************************************************)
LEMMA BindEndStep ==
  ASSUME TurnInv, ~conf.pair, NEW w \in Worker, BindEnd(w)
  PROVE  TurnInv'
  <1>1. /\ pc \in [Thread -> Place] /\ ld = [e \in Element |-> ld[e]]
        /\ pc[Main] = "probe" /\ ld[Monitor] = NULL
        /\ bindMutex = w /\ ld[w] = Connection(active)
    BY DEF TurnInv, BindEnd
  <1>2. w # Main /\ w # Monitor /\ w \in Thread /\ w \in Element /\ Target(w) = w
    BY MainApart DEF Target, Element, Thread
  <1>3. last' = active /\ active' = (active + 1) % NbServer /\ conf' = conf
    BY <1>1, <1>2 DEF BindEnd, Connection, NextServer, nbserver, serverVars
  <1>4. PICK p \in {"rebind", "idle"} : pc' = [pc EXCEPT ![w] = p]
    BY <1>2 DEF BindEnd, BackFromBind, Move
  <1>5. \A e \in Element : e # w => ld'[e] = ld[e]
    BY <1>1, <1>2 DEF BindEnd
  <1>6. ld' = [e \in Element |-> ld'[e]]
    BY <1>1, <1>2 DEF BindEnd
  <1>7. \A v \in Worker : pc'[v] # "connecting"
    BY <1>1, <1>4, MainApart DEF TurnInv, Thread
  <1> QED
    BY <1>1, <1>2, <1>3, <1>4, <1>5, <1>6, <1>7, MainApart
    DEF TurnInv, Place, Element

(***************************************************************************)
(* A worker that connects found bindMutex free: nobody else is connecting. *)
(***************************************************************************)
LEMMA BindConnectStep ==
  ASSUME TurnInv, ~conf.pair, NEW w \in Worker, BindConnect(w)
  PROVE  TurnInv'
  <1>1. /\ pc \in [Thread -> Place] /\ ld = [e \in Element |-> ld[e]]
        /\ pc[Main] = "probe" /\ ld[Monitor] = NULL
        /\ active = (last + 1) % NbServer
    BY DEF TurnInv
  <1>2. w # Main /\ w # Monitor /\ w \in Thread /\ w \in Element /\ Target(w) = w
    BY MainApart DEF Target, Element, Thread
  <1>3. \A v \in Worker : pc[v] # "connecting"
    BY NullAssumption DEF TurnInv, BindConnect, BindLock, BindMutexFree, Worker
  <1>4. /\ pc' = [pc EXCEPT ![w] = "connecting"]
        /\ ld' = [ld EXCEPT ![w] = Connection(active)]
        /\ bindMutex' = w /\ conf' = conf /\ active' = active /\ last' = last
    BY <1>2 DEF BindConnect, BindLock, Move, Connection, serverVars, histVars
  <1>5. ld' = [e \in Element |-> ld'[e]]
    BY <1>1, <1>2, <1>4
  <1>6. \A v \in Worker : pc'[v] = "connecting" => v = w
    BY <1>1, <1>3, <1>4, MainApart DEF Thread
  <1> QED
    BY <1>1, <1>2, <1>4, <1>5, <1>6, MainApart DEF TurnInv, Place, Element

(***************************************************************************)
(* Every other step of a worker leaves tcActiveServerId alone, changes no  *)
(* connection but its own, and leaves the worker not connecting.           *)
(***************************************************************************)
LEMMA OwnStep ==
  ASSUME TurnInv, ~conf.pair, NEW w \in Worker, pc[w] # "connecting",
         NEW p \in Place \ {"connecting"}, pc' = [pc EXCEPT ![w] = p],
         ld' = ld \/ \E h : ld' = [ld EXCEPT ![w] = h],
         bindMutex \in {bindMutex', NULL},
         conf' = conf, active' = active, last' = last
  PROVE  TurnInv'
  <1>1. /\ pc \in [Thread -> Place] /\ ld = [e \in Element |-> ld[e]]
        /\ pc[Main] = "probe" /\ ld[Monitor] = NULL
        /\ active = (last + 1) % NbServer
    BY DEF TurnInv
  <1>2. w # Main /\ w # Monitor /\ w \in Thread /\ w \in Element
    BY MainApart DEF Element, Thread
  <1>3. \A e \in Element : e # w => ld'[e] = ld[e]
    BY <1>1
  <1>4. ld' = [e \in Element |-> ld'[e]]
    BY <1>1
  <1>5. \A v \in Worker : pc'[v] = "connecting" => v # w /\ pc[v] = "connecting"
    BY <1>1, <1>2, MainApart DEF Thread
  <1>6. ASSUME NEW v \in Worker, pc'[v] = "connecting"
        PROVE  bindMutex' = v /\ ld'[v] = Connection(active)
    <2>1. bindMutex = v /\ ld[v] = Connection(active) /\ v # w
      BY <1>5, <1>6 DEF TurnInv
    <2> QED
      BY <2>1, <1>3, NullAssumption DEF Worker, Element
  <1> QED
    BY <1>1, <1>2, <1>3, <1>4, <1>6, MainApart DEF TurnInv, Element

(***************************************************************************)
(* Whatever a worker does, the servers stay in turn.                       *)
(***************************************************************************)
LEMMA WorkerTurn ==
  ASSUME TurnInv, ~conf.pair, NEW w \in Worker, WorkerStep(w)
  PROVE  TurnInv'
  <1> USE DEF Place, Move, Unbind, connVars, lockVars, mainVars, serverVars, histVars
  <1>0. w # Main /\ Target(w) = w /\ pc \in [Thread -> Place] /\ w \in Thread
    BY MainApart DEF Target, TurnInv, Thread
  <1>1. CASE BindRequest(w)
    BY <1>0, <1>1, OwnStep DEF BindRequest, Plays
  <1>2. CASE UnbindRequest(w)
    <2>1. pc' = [pc EXCEPT ![w] = "idle"]
      BY <1>0, <1>2 DEF UnbindRequest, Plays
    <2> QED
      BY <1>2, <2>1, OwnStep DEF UnbindRequest, Plays
  <1>3. CASE Request(w)
    BY <1>3, OwnStep DEF Request, Plays
  <1>4. CASE BindConnect(w)
    BY <1>4, BindConnectStep
  <1>5. CASE BindNoMemory(w)
    BY <1>0, <1>5, OwnStep DEF BindNoMemory, BindLock, BindMutexFree, BackFromBind
  <1>6. CASE BindEnd(w)
    BY <1>6, BindEndStep
  <1>7. CASE Answer(w) \/ AnswerServerDown(w) \/ AnswerStrongAuth(w)
    BY <1>7, OwnStep DEF Answer, AnswerServerDown, AnswerStrongAuth
  <1>8. CASE RebindStart(w)
    BY <1>8, OwnStep DEF RebindStart, Note
  <1>9. CASE RebindTry(w) \/ RebindNoMemory(w)
    BY <1>9, OwnStep DEF RebindTry, RebindNoMemory
  <1>10. CASE RebindEnd(w)
    <2>1. PICK p \in {"idle", "retry"} : pc' = [pc EXCEPT ![w] = p]
      BY <1>10 DEF RebindEnd
    <2>2. \E h : ld' = [ld EXCEPT ![w] = h]
      BY <1>10 DEF RebindEnd
    <2> QED
      BY <1>10, <2>1, <2>2, OwnStep DEF RebindEnd
  <1> QED
    BY <1>1, <1>2, <1>3, <1>4, <1>5, <1>6, <1>7, <1>8, <1>9, <1>10
    DEF WorkerStep, ActionStep, BindStep

(***************************************************************************)
(* A server that stops breaks connections that were bound; one that is     *)
(* being opened is not.                                                    *)
(***************************************************************************)
LEMMA ServerTurn ==
  ASSUME TurnInv, ~conf.pair, NEW s \in Server, ServerStops(s) \/ ServerStarts(s)
  PROVE  TurnInv'
  <1>1. CASE ServerStarts(s)
    BY <1>1 DEF ServerStarts, TurnInv, connVars, lockVars, mainVars, histVars
  <1>2. CASE ServerStops(s)
    <2>1. ld = [e \in Element |-> ld[e]] /\ Monitor \in Element /\ Worker \subseteq Element
      BY DEF TurnInv, Element
    <2>2. ld' = [e \in Element |-> ld'[e]]
      BY <1>2, <2>1 DEF ServerStops
    <2>3. \A e \in Element : ld[e] = NULL => ld'[e] = NULL
      BY <1>2, <2>1 DEF ServerStops
    <2>4. ASSUME NEW e \in Element, NEW t, ld[e] = Connection(t)
          PROVE  ld'[e] = Connection(t)
      <3>1. Connection(t).server = t
        BY DEF Connection
      <3>2. ld'[e] = IF ld[e] # NULL /\ ld[e].server = s THEN Connection(s) ELSE ld[e]
        BY <1>2, <2>1 DEF ServerStops, Connection
      <3> QED
        BY <2>4, <3>1, <3>2
    <2>5. /\ pc' = pc /\ active' = active /\ last' = last /\ conf' = conf
          /\ bindMutex' = bindMutex
      BY <1>2 DEF ServerStops, lockVars, histVars
    <2> QED
      BY <2>1, <2>2, <2>3, <2>4, <2>5 DEF TurnInv
  <1> QED
    BY <1>1, <1>2

(* No step changes the configuration.                                      *)
LEMMA ConfKept == Next => conf' = conf
  BY DEF Next, WorkerStep, ActionStep, BindStep, MainStep, BindRequest,
     UnbindRequest, Request, BindConnect, BindNoMemory, BindEnd, Answer,
     AnswerServerDown, AnswerStrongAuth, RebindStart, RebindTry, RebindNoMemory,
     RebindEnd, Probe, ProbeSearch, ProbeUnbind, SearchAgain, Switch, NoSwitch,
     ReinitUnbind, ReinitSkip, BreakEnd, ServerStops, ServerStarts, serverVars

(* Without a mated pair the main thread has nothing to do.                 *)
LEMMA MainStays == TurnInv /\ ~conf.pair => ~MainStep
  BY DEF TurnInv, MainStep, BindStep, BindConnect, BindNoMemory, BindLock, BindEnd,
     Probe, ProbeSearch, ProbeUnbind, SearchAgain, Switch, NoSwitch, ReinitUnbind,
     ReinitSkip, BreakEnd

(* The servers are in turn at the start.                                   *)
LEMMA TurnInit == Init => TurnInv
  BY MainApart, ServerAssumption
  DEF Init, TurnInv, nbserver, Element, Thread, Place

(* TurnInv is inductive.                                                   *)
LEMMA TurnStep == TurnInv /\ [Next]_vars => TurnInv'
  <1> SUFFICES ASSUME TurnInv, [Next]_vars PROVE TurnInv'
    OBVIOUS
  <1>1. CASE vars' = vars
    BY <1>1 DEF vars, TurnInv, connVars, lockVars, serverVars, histVars
  <1>2. CASE Next /\ conf.pair
    BY <1>2, ConfKept DEF TurnInv
  <1>3. CASE ~conf.pair /\ \E w \in Worker : WorkerStep(w)
    BY <1>3, WorkerTurn
  <1>4. CASE ~conf.pair /\ \E s \in Server : ServerStops(s) \/ ServerStarts(s)
    BY <1>4, ServerTurn
  <1> QED
    BY <1>1, <1>2, <1>3, <1>4, MainStays DEF Next

(***************************************************************************)
(* InTurn holds in every behaviour of the model: whichever workers bind    *)
(* with simpleBindRequest, in whatever order and with whatever result, the *)
(* next one is connected to the server after the last one's.               *)
(***************************************************************************)
THEOREM ServersInTurn == Spec => []InTurn
  <1>1. TurnInv => InTurn
    BY DEF TurnInv, InTurn, Connection, nbserver
  <1> QED
    BY <1>1, TurnInit, TurnStep, PTL DEF Spec

-----------------------------------------------------------------------------
(***************************************************************************)
(* Types.  TypeOK needs to know where main is in tLdapReinit: the element  *)
(* that it opens again is a worker's, so that the next one exists.         *)
(***************************************************************************)
MainInv ==
  /\ pc[Main] \in {"probe", "unbind", "search", "switch"} => phase # "reinit"
  /\ pc[Main] \in {"bind", "connecting"} /\ phase = "reinit" => target \in Worker

TypeInv == TypeOK /\ MainInv

(* The next server of the group, and the other of the pair, are servers.   *)
LEMMA NextServers ==
  ASSUME active \in Server PROVE NextServer \in Server /\ (active + 1) % 2 \in Server
<1>1. active \in Nat
  BY ServerAssumption DEF Server
<1>2. ASSUME NEW n \in Nat \ {0} PROVE (active + 1) % n \in 0 .. n - 1
  BY <1>1
<1>3. (active + 1) % 1 \in 0 .. 0 /\ (active + 1) % 2 \in 0 .. 1
  BY <1>2
<1>4. (active + 1) % NbServer \in 0 .. NbServer - 1
  BY <1>2, ServerAssumption
<1> QED
  BY <1>3, <1>4, ServerAssumption DEF Server, NextServer, nbserver

(* What a bind leaves is a connection or none.                             *)
LEMMA AfterBindType ==
  ASSUME NEW r, NEW s \in Server PROVE AfterBind(r, s) \in Handle \cup {NULL}
BY DEF AfterBind, Handle

(* Main's next place, phase and element fit together after a verdict.      *)
LEMMA VerdictMain ==
  ASSUME TypeInv, NEW alive \in BOOLEAN, Verdict(alive)
  PROVE  /\ pc' \in [Thread -> Place] /\ target' \in Worker \cup {Monitor}
         /\ phase' \in {"watch", "switch", "retry", "reinit"}
         /\ suspended' \in BOOLEAN /\ MainInv'
<1>1. Main \in Thread /\ pc \in [Thread -> Place] /\ 0 \in Worker
  BY MainApart, ThreadAssumption DEF TypeInv, TypeOK, Worker
<1>2. PICK p \in {"probe", "reinit", "switch"} :
        /\ p = IF alive THEN IF phase = "watch" THEN "probe" ELSE "reinit"
               ELSE IF phase = "switch" THEN "probe" ELSE "switch"
        /\ pc' = [pc EXCEPT ![Main] = p]
        /\ phase' = IF p = "probe" THEN IF alive THEN "watch" ELSE "retry" ELSE p
        /\ target' = IF p = "reinit" THEN 0 ELSE Monitor
        /\ suspended' = (suspended \/ (phase = "watch" /\ ~alive))
  BY DEF Verdict, Move
<1>3. pc'[Main] = p
  BY <1>1, <1>2
<1> QED
  BY <1>1, <1>2, <1>3 DEF Place, MainInv, TypeInv, TypeOK

(* ... and when it goes on to the next element.                            *)
LEMMA NextElementMain ==
  ASSUME TypeInv, target \in Worker, NextElement
  PROVE  /\ pc' \in [Thread -> Place] /\ target' \in Worker \cup {Monitor}
         /\ phase' \in {"watch", "switch", "retry", "reinit"}
         /\ suspended' \in BOOLEAN /\ MainInv'
<1>1. Main \in Thread /\ pc \in [Thread -> Place]
  BY MainApart DEF TypeInv, TypeOK
<1>2. target + 1 \in Worker \cup {Monitor}
  BY ThreadAssumption DEF Worker, Monitor, WORKTHR
<1> QED
  BY <1>1, <1>2 DEF NextElement, Move, MainInv, TypeInv, TypeOK, Place

(* A worker's move is not main's.                                          *)
LEMMA WorkerMove ==
  ASSUME TypeInv, NEW w \in Worker, NEW p \in Place, Move(w, p), UNCHANGED mainVars
  PROVE  /\ pc' \in [Thread -> Place] /\ target' \in Worker \cup {Monitor}
         /\ phase' \in {"watch", "switch", "retry", "reinit"}
         /\ suspended' \in BOOLEAN /\ MainInv'
<1>1. w \in Thread /\ w # Main /\ Main \in Thread /\ pc \in [Thread -> Place]
  BY MainApart DEF TypeInv, TypeOK, Thread
<1>2. pc' = [pc EXCEPT ![w] = p]
  BY DEF Move
<1>3. pc'[Main] = pc[Main]
  BY <1>1, <1>2
<1> QED
  BY <1>1, <1>2, <1>3 DEF MainInv, TypeInv, TypeOK, mainVars

(* Back from simpleBindRequest.                                            *)
LEMMA BackMain ==
  ASSUME TypeInv, NEW t \in Thread, pc[t] \in {"bind", "connecting"}, NEW r,
         BackFromBind(t, r)
  PROVE  /\ pc' \in [Thread -> Place] /\ target' \in Worker \cup {Monitor}
         /\ phase' \in {"watch", "switch", "retry", "reinit"}
         /\ suspended' \in BOOLEAN /\ MainInv'
<1>1. CASE t # Main
  <2>1. t \in Worker
    BY <1>1 DEF Thread
  <2>2. PICK p \in {"rebind", "idle"} : Move(t, p)
    BY <1>1 DEF BackFromBind
  <2>3. UNCHANGED mainVars /\ p \in Place
    BY <1>1 DEF BackFromBind, Place
  <2> QED
    BY <2>1, <2>2, <2>3, WorkerMove
<1>2. CASE t = Main
  <2>1. CASE phase = "reinit" /\ NextElement
    BY <1>2, <2>1, NextElementMain DEF TypeInv, MainInv
  <2>2. CASE phase # "reinit" /\ Verdict(FALSE)
    BY <2>2, VerdictMain
  <2>3. CASE phase # "reinit" /\ Move(Main, "search") /\ UNCHANGED mainVars
    <3>1. Main \in Thread /\ pc \in [Thread -> Place] /\ "search" \in Place
      BY MainApart DEF TypeInv, TypeOK, Place
    <3>2. pc' = [pc EXCEPT ![Main] = "search"] /\ pc'[Main] = "search"
      BY <2>3, <3>1 DEF Move
    <3> QED
      BY <2>3, <3>1, <3>2 DEF MainInv, TypeInv, TypeOK, mainVars
  <2> QED
    BY <1>2, <2>1, <2>2, <2>3 DEF BackFromBind, MainAfterBind
<1> QED
  BY <1>1, <1>2

(* The types of what a thread changes besides main's variables.            *)
RestType ==
  /\ conf \in Conf /\ up \subseteq Server /\ active \in Server
  /\ ld \in [Worker \cup {Monitor} -> Handle \cup {NULL}]
  /\ tab \in [Worker -> [host : Server \cup {NULL}, key : Thread]]
  /\ bindMutex \in Thread \cup {NULL}
  /\ ldMutex \in [Worker -> Thread \cup {NULL}]
  /\ idx \in [Worker -> Worker]
  /\ outages \in Nat /\ refused \in Nat
  /\ last \in Server /\ home \in [Worker -> Server]
  /\ mishap \subseteq {"kept", "freed", "lost"} \X Thread

(* The mutexes, the record of a bind and the history keep their types.     *)
LEMMA SmallTypes ==
  ASSUME TypeInv, NEW t \in Thread
  PROVE  /\ Released(t) \in [Worker -> Thread \cup {NULL}]
         /\ [ldMutex EXCEPT ![tLdap_getLdId(t)] = t] \in [Worker -> Thread \cup {NULL}]
         /\ \A lds : Recorded(t, lds) \in [Worker -> [host : Server \cup {NULL}, key : Thread]]
         /\ \A m \in {"kept", "freed", "lost"} :
              Note(m, t) => mishap' \subseteq {"kept", "freed", "lost"} \X Thread
         /\ \A r : Count(r) => refused' \in Nat
         /\ Target(t) \in Worker \cup {Monitor}
<1> USE DEF TypeInv, TypeOK
<1>1. Released(t) \in [Worker -> Thread \cup {NULL}]
  BY DEF Released
<1>2. \A lds : Recorded(t, lds) \in [Worker -> [host : Server \cup {NULL}, key : Thread]]
  BY DEF Recorded
<1>3. \A m \in {"kept", "freed", "lost"} :
        Note(m, t) => mishap' \subseteq {"kept", "freed", "lost"} \X Thread
  BY DEF Note
<1>4. \A r : Count(r) => refused' \in Nat
  BY DEF Count
<1>5. Target(t) \in Worker \cup {Monitor}
  BY DEF Target, Thread
<1> QED
  BY <1>1, <1>2, <1>3, <1>4, <1>5

(* The steps of simpleBindRequest keep the types.                          *)
LEMMA TypeBind ==
  ASSUME TypeInv, NEW t \in Thread, BindStep(t) PROVE TypeInv'
<1> DEFINE e == Target(t)
<1>1. e \in Worker \cup {Monitor} /\ ld \in [Worker \cup {Monitor} -> Handle \cup {NULL}]
  BY SmallTypes DEF TypeInv, TypeOK
<1>2. RestType
  BY DEF TypeInv, TypeOK, RestType
<1>3. CASE BindConnect(t)
  <2>1. [server |-> active, bound |-> FALSE] \in Handle
    BY <1>2 DEF RestType, Handle
  <2>2. RestType'
    BY <1>1, <1>2, <1>3, <2>1, SmallTypes
    DEF RestType, BindConnect, BindLock, serverVars, histVars
  <2>3. /\ pc' = [pc EXCEPT ![t] = "connecting"] /\ UNCHANGED <<target, phase, suspended>>
        /\ pc[t] = "bind"
    BY <1>3 DEF BindConnect, BindLock, Move, mainVars
  <2>4. pc' \in [Thread -> Place] /\ MainInv'
    BY <2>3, MainApart DEF TypeInv, TypeOK, MainInv, Place
  <2> QED
    BY <2>2, <2>3, <2>4 DEF TypeInv, TypeOK, RestType
<1>4. CASE BindNoMemory(t)
  <2>1. RestType'
    BY <1>1, <1>2, <1>4, SmallTypes DEF RestType, BindNoMemory, BindLock, serverVars
  <2> QED
    BY <1>4, <2>1, BackMain DEF TypeInv, TypeOK, RestType, BindNoMemory, BindLock
<1>5. CASE BindEnd(t)
  <2> DEFINE s == IF ld[e] = NULL THEN active ELSE ld[e].server
  <2>1. s \in Server
    BY <1>1, <1>2 DEF RestType, Handle
  <2>2. PICK r : /\ ld' = [ld EXCEPT ![e] = AfterBind(r, s)]
                 /\ tab' = Recorded(t, [ld EXCEPT ![e] = AfterBind(r, s)])
                 /\ Count(r) /\ BackFromBind(t, r)
    BY <1>5 DEF BindEnd
  <2>3. /\ active' = NextServer /\ bindMutex' = NULL /\ ldMutex' = Released(t)
        /\ last' = IF conf.pair THEN last ELSE s
        /\ home' = IF conf.pair THEN home ELSE [home EXCEPT ![t] = s]
        /\ UNCHANGED <<serverVars, mishap, idx>> /\ pc[t] = "connecting"
    BY <1>5 DEF BindEnd
  <2> HIDE DEF s, e
  <2>4. AfterBind(r, s) \in Handle \cup {NULL} /\ active' \in Server
    BY <1>2, <2>1, <2>3, AfterBindType, NextServers DEF RestType
  <2>5. ld' \in [Worker \cup {Monitor} -> Handle \cup {NULL}]
    BY <1>1, <2>2, <2>4
  <2>6. /\ tab' \in [Worker -> [host : Server \cup {NULL}, key : Thread]]
        /\ ldMutex' \in [Worker -> Thread \cup {NULL}] /\ refused' \in Nat
    BY <2>2, <2>3, SmallTypes
  <2>7. last' \in Server /\ home' \in [Worker -> Server]
    BY <1>2, <2>1, <2>3 DEF RestType
  <2>8. RestType'
    BY <1>2, <2>3, <2>4, <2>5, <2>6, <2>7 DEF RestType, serverVars
  <2> QED
    BY <2>2, <2>3, <2>8, BackMain DEF TypeInv, TypeOK, RestType
<1> QED
  BY <1>3, <1>4, <1>5 DEF BindStep

(* The other steps of a worker keep the types.                             *)
LEMMA TypeWorker ==
  ASSUME TypeInv, NEW w \in Worker, WorkerStep(w) PROVE TypeInv'
<1>1. RestType /\ w \in Thread /\ pc \in [Thread -> Place] /\ tLdap_getLdId(w) = w
  BY MainApart DEF TypeInv, TypeOK, RestType, Thread, tLdap_getLdId
<1>2. CASE BindStep(w)
  BY <1>1, <1>2, TypeBind
<1>3. UNCHANGED mainVars \/ BindStep(w)
  BY DEF WorkerStep, ActionStep, BindRequest, UnbindRequest, Request, Answer, AnswerServerDown,
     AnswerStrongAuth, RebindStart, RebindTry, RebindNoMemory, RebindEnd
<1>4. (\E p \in Place : Move(w, p)) \/ BindStep(w)
  <2>1. CASE UnbindRequest(w)
    <3>1. pc' = [pc EXCEPT ![w] = "idle"] /\ Defined
      BY <1>1, <2>1 DEF UnbindRequest, Plays
    <3> QED
      BY <3>1 DEF Move, Place
  <2> QED
    BY <2>1 DEF WorkerStep, ActionStep, BindRequest, Request, Answer, AnswerServerDown,
       AnswerStrongAuth, RebindStart, RebindTry, RebindNoMemory, RebindEnd, RebindOver, Place
<1>5. RestType' \/ BindStep(w)
  <2> USE DEF RestType, connVars, lockVars, serverVars, histVars
  <2>1. CASE BindRequest(w) \/ Request(w) \/ Answer(w) \/ AnswerServerDown(w)
    BY <1>1, <2>1 DEF BindRequest, Request, Answer, AnswerServerDown
  <2>2. CASE UnbindRequest(w) \/ AnswerStrongAuth(w)
    BY <1>1, <2>2 DEF UnbindRequest, AnswerStrongAuth, Unbind
  <2>3. CASE RebindStart(w)
    <3>1. /\ ld' = [ld EXCEPT ![w] = NULL] /\ (UNCHANGED mishap \/ Note("lost", w))
          /\ ldMutex' = [ldMutex EXCEPT ![w] = w] \/ ldMutex' = Released(w)
          /\ UNCHANGED <<active, tab, bindMutex, serverVars, refused, last, home>>
      BY <2>3 DEF RebindStart, Unbind
    <3>2. (\E v \in Worker : idx' = [idx EXCEPT ![w] = v]) \/ UNCHANGED idx
      BY <2>3 DEF RebindStart, Found
    <3>3. ldMutex' \in [Worker -> Thread \cup {NULL}]
      <4>1. ldMutex' = [ldMutex EXCEPT ![w] = w] \/ ldMutex' = Released(w)
        BY <2>3 DEF RebindStart
      <4>2. Released(w) \in [Worker -> Thread \cup {NULL}]
        BY <1>1, SmallTypes
      <4>3. [ldMutex EXCEPT ![w] = w] \in [Worker -> Thread \cup {NULL}]
        BY <1>1
      <4> QED
        BY <4>1, <4>2, <4>3
    <3>4. mishap' \subseteq {"kept", "freed", "lost"} \X Thread
      BY <1>1, <3>1, SmallTypes
    <3>5. idx' \in [Worker -> Worker]
      BY <1>1, <3>2
    <3> QED
      BY <1>1, <3>1, <3>3, <3>4, <3>5
  <2>4. CASE RebindTry(w)
    <3>1. [server |-> tab[idx[w]].host, bound |-> FALSE] \in Handle
      <4>1. tab[idx[w]] \in [host : Server \cup {NULL}, key : Thread]
        BY <1>1
      <4> QED
        BY <2>4, <4>1 DEF RebindTry, Handle
    <3> QED
      BY <1>1, <2>4, <3>1 DEF RebindTry
  <2>5. CASE RebindNoMemory(w)
    <3>1. 0 \in Worker
      BY ThreadAssumption DEF Worker
    <3> QED
      BY <1>1, <2>5, <3>1, SmallTypes DEF RebindNoMemory
  <2>6. CASE RebindEnd(w)
    <3> DEFINE s == IF ld[w] = NULL THEN active ELSE ld[w].server
    <3>1. s \in Server
      BY <1>1 DEF Handle
    <3>2. PICK r : /\ ld' = [ld EXCEPT ![w] = AfterBind(r, s)] /\ Count(r)
                   /\ ldMutex' = IF RebindOver(r) THEN Released(w) ELSE ldMutex
                   /\ idx' = IF RebindOver(r) THEN [idx EXCEPT ![w] = 0] ELSE idx
      BY <2>6 DEF RebindEnd
    <3>3. UNCHANGED <<active, tab, bindMutex, serverVars, last, home, mishap>>
      BY <2>6 DEF RebindEnd
    <3> HIDE DEF s
    <3>4. AfterBind(r, s) \in Handle \cup {NULL} /\ 0 \in Worker
      BY <3>1, AfterBindType, ThreadAssumption DEF Worker
    <3> QED
      BY <1>1, <3>2, <3>3, <3>4, SmallTypes
  <2> QED
    BY <2>1, <2>2, <2>3, <2>4, <2>5, <2>6 DEF WorkerStep, ActionStep
<1> QED
  BY <1>2, <1>3, <1>4, <1>5, WorkerMove DEF TypeInv, TypeOK, RestType

(* The steps of main and of the servers keep the types.                    *)
LEMMA TypeMain ==
  ASSUME TypeInv, MainStep PROVE TypeInv'
<1>1. RestType /\ Main \in Thread /\ pc \in [Thread -> Place]
  BY MainApart DEF TypeInv, TypeOK, RestType
<1>2. CASE BindStep(Main)
  BY <1>1, <1>2, TypeBind
<1> USE DEF connVars, lockVars, mainVars, serverVars, histVars
<1>3. ASSUME RestType', NEW p \in Place, Move(Main, p), UNCHANGED <<target, suspended>>,
             phase' \in {phase, "retry", "watch"},
             p \in {"probe", "unbind"} => phase # "reinit" \/ phase' # "reinit",
             p = "bind" => phase # "reinit" \/ target \in Worker,
             p \notin {"search", "switch", "connecting"}
      PROVE  TypeInv'
  <2>1. pc' = [pc EXCEPT ![Main] = p] /\ pc'[Main] = p
    BY <1>1, <1>3 DEF Move
  <2>2. pc' \in [Thread -> Place] /\ MainInv'
    BY <1>1, <1>3, <2>1 DEF MainInv
  <2> QED
    BY <1>3, <2>2 DEF TypeInv, TypeOK, RestType
<1>4. ASSUME NEW r \in {"ok", "refused", "down"}, Count(r), Verdict(r = "ok"),
             UNCHANGED <<connVars, lockVars, serverVars, last, home, mishap, idx>>
      PROVE  TypeInv'
  <2>1. refused' \in Nat
    BY <1>1, <1>4, SmallTypes
  <2>2. RestType'
    BY <1>1, <1>4, <2>1 DEF RestType
  <2>3. (r = "ok") \in BOOLEAN
    OBVIOUS
  <2> QED
    BY <1>4, <2>2, <2>3, VerdictMain DEF TypeInv, TypeOK, RestType
<1>5. CASE Probe
  <2>1. RestType' /\ "bind" \in Place /\ Move(Main, "bind") /\ UNCHANGED mainVars
    BY <1>1, <1>5 DEF Probe, RestType, Place
  <2> QED
    BY <1>3, <1>5, <2>1 DEF Probe, TypeInv, MainInv
<1>6. CASE ProbeSearch
  <2>1. PICK r \in {"ok", "refused", "down"} :
          /\ Count(r)
          /\ \/ r = "down" /\ Move(Main, "unbind") /\ UNCHANGED mainVars
             \/ r # "down" /\ Verdict(r = "ok")
    BY <1>6 DEF ProbeSearch, SearchResults
  <2>2. UNCHANGED <<connVars, lockVars, serverVars, last, home, mishap, idx>>
    BY <1>6 DEF ProbeSearch
  <2>3. CASE Verdict(r = "ok")
    BY <1>4, <2>1, <2>2, <2>3
  <2>4. CASE Move(Main, "unbind") /\ UNCHANGED mainVars
    <3>1. refused' \in Nat
      BY <1>1, <2>1, SmallTypes
    <3>2. RestType' /\ "unbind" \in Place
      BY <1>1, <2>2, <3>1 DEF RestType, Place
    <3> QED
      BY <1>3, <1>6, <2>4, <3>2 DEF ProbeSearch, TypeInv, MainInv
  <2> QED
    BY <2>1, <2>3, <2>4
<1>7. CASE ProbeUnbind
  <2>1. RestType' /\ "bind" \in Place /\ Move(Main, "bind") /\ UNCHANGED mainVars
    BY <1>1, <1>7 DEF ProbeUnbind, Unbind, RestType, Place
  <2> QED
    BY <1>3, <1>7, <2>1 DEF ProbeUnbind, TypeInv, MainInv
<1>8. CASE SearchAgain
  <2>1. PICK r \in {"ok", "refused", "down"} : Count(r) /\ Verdict(r = "ok")
    BY <1>8 DEF SearchAgain, SearchResults
  <2>2. UNCHANGED <<connVars, lockVars, serverVars, last, home, mishap, idx>>
    BY <1>8 DEF SearchAgain
  <2> QED
    BY <1>4, <2>1, <2>2
<1>9. CASE Switch
  <2>1. ld' \in [Worker \cup {Monitor} -> Handle \cup {NULL}]
    BY <1>1, <1>9 DEF Switch, Unbind, RestType
  <2>2. active' \in Server
    BY <1>1, <1>9, NextServers DEF Switch, RestType
  <2>3. RestType' /\ "probe" \in Place /\ Move(Main, "probe") /\ UNCHANGED mainVars
    BY <1>1, <1>9, <2>1, <2>2 DEF Switch, RestType, Place
  <2> QED
    BY <1>3, <1>9, <2>3 DEF Switch, TypeInv, MainInv
<1>10. CASE NoSwitch \/ BreakEnd
  <2>1. RestType' /\ "probe" \in Place /\ Move(Main, "probe") /\ phase' \in {"retry", "watch"}
    BY <1>1, <1>10 DEF NoSwitch, BreakEnd, RestType, Place
  <2>2. UNCHANGED target /\ suspended' \in {suspended, FALSE}
    BY <1>10 DEF NoSwitch, BreakEnd
  <2>3. pc' = [pc EXCEPT ![Main] = "probe"] /\ pc'[Main] = "probe"
    BY <1>1, <2>1 DEF Move
  <2>4. pc' \in [Thread -> Place] /\ MainInv'
    BY <1>1, <2>1, <2>3 DEF MainInv
  <2> QED
    BY <2>1, <2>2, <2>4 DEF TypeInv, TypeOK, RestType
<1>11. CASE ReinitUnbind
  <2>1. mishap' \subseteq {"kept", "freed", "lost"} \X Thread
    BY <1>1, <1>11 DEF ReinitUnbind, Note, RestType, Thread
  <2>2. RestType' /\ "bind" \in Place /\ Move(Main, "bind") /\ UNCHANGED mainVars
    BY <1>1, <1>11, <2>1 DEF ReinitUnbind, Unbind, RestType, Place
  <2> QED
    BY <1>3, <1>11, <2>2 DEF ReinitUnbind
<1>12. CASE ReinitSkip
  <2>1. RestType'
    BY <1>1, <1>12 DEF ReinitSkip, RestType
  <2> QED
    BY <1>12, <2>1, NextElementMain DEF ReinitSkip, TypeInv, TypeOK, RestType
<1> QED
  BY <1>2, <1>5, <1>6, <1>7, <1>8, <1>9, <1>10, <1>11, <1>12 DEF MainStep

(* The servers that stop and start keep the types.                         *)
LEMMA TypeServer ==
  ASSUME TypeInv, NEW s \in Server, ServerStops(s) \/ ServerStarts(s) PROVE TypeInv'
<1> USE DEF connVars, lockVars, mainVars, histVars
<1>1. ld' \in [Worker \cup {Monitor} -> Handle \cup {NULL}]
  <2>1. ld \in [Worker \cup {Monitor} -> Handle \cup {NULL}]
    BY DEF TypeInv, TypeOK
  <2>2. CASE ServerStops(s)
    <3>1. [server |-> s, bound |-> FALSE] \in Handle
      BY DEF Handle
    <3>2. DOMAIN ld = Worker \cup {Monitor}
      BY <2>1
    <3> QED
      BY <2>1, <2>2, <3>1, <3>2 DEF ServerStops
  <2>3. CASE ServerStarts(s)
    BY <2>1, <2>3 DEF ServerStarts
  <2> QED
    BY <2>2, <2>3
<1> QED
  BY <1>1 DEF ServerStops, ServerStarts, TypeInv, TypeOK, MainInv

(* TypeInv is inductive.                                                   *)
LEMMA TypeStep == TypeInv /\ [Next]_vars => TypeInv'
<1>1. ASSUME TypeInv, UNCHANGED vars PROVE TypeInv'
  BY <1>1 DEF TypeInv, TypeOK, MainInv, vars, connVars, lockVars, mainVars, serverVars,
     histVars
<1> QED
  BY <1>1, TypeWorker, TypeMain, TypeServer DEF Next

(* The types hold at the start.                                            *)
LEMMA TypeInit == Init => TypeInv
<1> SUFFICES ASSUME Init PROVE TypeInv
  OBVIOUS
<1>1. 0 \in Server /\ NbServer - 1 \in Server /\ nbserver - 1 \in {0, NbServer - 1}
  BY ServerAssumption DEF Server, nbserver
<1>2. 0 \in Worker /\ Main \in Thread /\ conf \in Conf
  BY ThreadAssumption, ConfAssumption, MainApart DEF Worker, WORKTHR, Init
<1>3. pc \in [Thread -> Place] /\ pc[Main] = "probe"
  BY <1>2 DEF Init, Place
<1> QED
  BY <1>1, <1>2, <1>3 DEF Init, TypeInv, TypeOK, MainInv

-----------------------------------------------------------------------------
(***************************************************************************)
(* HomeRebind needs to know what tldap.c records: as long as no bind was   *)
(* refused, or none freed its ld (quietOnError), an element carries the    *)
(* key of a worker only if it is the worker's own, and then the server of  *)
(* its last bind; so indiceTab is the worker's own element.                *)
(***************************************************************************)
Recording == ~conf.pair /\ (refused = 0 \/ conf.quiet)

HomeInv ==
  Recording =>
    /\ \A e, w \in Worker : tab[e].key = w => e = w /\ tab[e].host = home[w]
    /\ \A w \in Worker : pc[w] \in {"retry", "trying"} /\ Defined =>
         idx[w] = w /\ tab[w].key = w
    /\ \A w \in Worker : pc[w] = "trying" => ld[w].server = home[w]

(* A bind that ends with quietOnError, or is not refused, keeps its ld.    *)
LEMMA BindEndHome ==
  ASSUME TypeInv, TurnInv, HomeInv, NEW w \in Worker, BindEnd(w) PROVE HomeInv'
<1> SUFFICES ASSUME Recording' PROVE HomeInv'
  BY DEF HomeInv
<1>1. /\ w \in Thread /\ w # Main /\ Target(w) = w /\ tLdap_getLdId(w) = w /\ Worker \subseteq Thread
      /\ UNCHANGED <<conf, mishap, idx>> /\ pc[w] = "connecting"
  BY MainApart DEF Thread, Target, tLdap_getLdId, BindEnd, serverVars
<1>2. ~conf.pair /\ ld[w] = Connection(active)
  BY <1>1 DEF Recording, TurnInv
<1>3. PICK r : /\ ld' = [ld EXCEPT ![w] = AfterBind(r, active)]
               /\ tab' = Recorded(w, [ld EXCEPT ![w] = AfterBind(r, active)])
               /\ Count(r) /\ BackFromBind(w, r)
  <2>1. (IF ld[w] = NULL THEN active ELSE ld[w].server) = active
    BY <1>2 DEF Connection
  <2> QED
    BY <1>1, <2>1 DEF BindEnd
<1>4. home' = [home EXCEPT ![w] = active]
  BY <1>1, <1>2 DEF BindEnd, Connection
<1>5. Recording /\ AfterBind(r, active) # NULL
  <2>1. refused \in Nat /\ conf.quiet \in BOOLEAN /\ active \in Server
    BY DEF TypeInv, TypeOK, Conf
  <2>2. refused' = 0 => refused = 0 /\ r # "refused"
    BY <1>3, <2>1 DEF Count
  <2>3. [server |-> active, bound |-> r = "ok"] \in Handle
    BY <2>1 DEF Handle
  <2> QED
    BY <1>1, <2>1, <2>2, <2>3, NullAssumption DEF Recording, AfterBind
<1>6. PICK p \in {"rebind", "idle"} : pc' = [pc EXCEPT ![w] = p]
  BY <1>1, <1>3 DEF BackFromBind, Move
<1>7. \A e \in Worker : tab'[e] = IF e = w THEN [host |-> active, key |-> w] ELSE tab[e]
  <2>1. [ld EXCEPT ![w] = AfterBind(r, active)][w] = AfterBind(r, active)
    BY DEF TypeInv, TypeOK
  <2> QED
    BY <1>1, <1>3, <1>5, <2>1 DEF Recorded
<1>8. pc \in [Thread -> Place] /\ home \in [Worker -> Server]
      /\ ld \in [Worker \cup {Monitor} -> Handle \cup {NULL}]
  BY DEF TypeInv, TypeOK
<1>9. \A v \in Worker : /\ v # w => pc'[v] = pc[v] /\ home'[v] = home[v] /\ ld'[v] = ld[v]
                        /\ pc'[w] \notin {"retry", "trying"} /\ home'[w] = active
  BY <1>1, <1>3, <1>4, <1>6, <1>8
<1>10. Defined' = Defined
  BY <1>1 DEF Defined
<1>11. ASSUME NEW e \in Worker, NEW v \in Worker, tab'[e].key = v
       PROVE  e = v /\ tab'[e].host = home'[v]
  <2>1. CASE e = w
    <3>1. tab'[e].host = active /\ tab'[e].key = w
      BY <1>7, <2>1
    <3> QED
      BY <1>9, <1>11, <2>1, <3>1
  <2>2. CASE e # w
    <3>1. tab'[e] = tab[e]
      BY <1>7, <2>2
    <3>2. e = v /\ tab[e].host = home[v]
      BY <1>5, <1>11, <3>1, Zenon DEF HomeInv
    <3> QED
      BY <1>9, <2>2, <3>1, <3>2, Zenon
  <2> QED
    BY <2>1, <2>2, Zenon
<1>12. ASSUME NEW v \in Worker, pc'[v] \in {"retry", "trying"}
       PROVE  /\ Defined' => idx'[v] = v /\ tab'[v].key = v
              /\ pc'[v] = "trying" => ld'[v].server = home'[v]
  BY <1>1, <1>5, <1>7, <1>9, <1>10, <1>12 DEF HomeInv
<1> QED
  BY <1>11, <1>12 DEF HomeInv

(* The other steps of a worker change neither the records nor its home,    *)
(* and only tLdap_Rebind goes to "retry" or "trying".                      *)
LEMMA WorkerHome ==
  ASSUME TypeInv, TurnInv, HomeInv, NEW w \in Worker, WorkerStep(w), ~BindEnd(w) PROVE HomeInv'
<1> SUFFICES ASSUME Recording' PROVE HomeInv'
  BY DEF HomeInv
<1> USE DEF connVars, lockVars, mainVars, serverVars, histVars, Move
<1>1. w \in Thread /\ w # Main /\ Target(w) = w /\ Worker \subseteq Thread
  BY MainApart DEF Thread, Target
<1>2. /\ pc \in [Thread -> Place] /\ idx \in [Worker -> Worker] /\ refused \in Nat
      /\ ld \in [Worker \cup {Monitor} -> Handle \cup {NULL}]
  BY DEF TypeInv, TypeOK
<1>3. UNCHANGED <<conf, tab, home>>
  BY DEF WorkerStep, ActionStep, BindStep, BindRequest, UnbindRequest, Request, BindConnect,
     BindNoMemory, Answer, AnswerServerDown, AnswerStrongAuth, RebindStart, RebindTry,
     RebindNoMemory, RebindEnd
<1>4. Defined /\ Defined' \in BOOLEAN
  BY DEF WorkerStep, ActionStep, BindStep, BindRequest, UnbindRequest, Request, BindConnect,
     BindNoMemory, Answer, AnswerServerDown, AnswerStrongAuth, RebindStart, RebindTry,
     RebindNoMemory, RebindEnd, Plays, BackFromBind, MainAfterBind, Verdict, NextElement, Defined
<1>5. Recording
  <2>1. UNCHANGED refused \/ \E r : Count(r)
    BY DEF WorkerStep, ActionStep, BindStep, BindRequest, UnbindRequest, Request, BindConnect,
       BindNoMemory, Answer, AnswerServerDown, AnswerStrongAuth, RebindStart, RebindTry,
       RebindNoMemory, RebindEnd
  <2>2. refused' = 0 => refused = 0
    BY <1>2, <2>1 DEF Count
  <2> QED
    BY <1>3, <2>2 DEF Recording
<1>6. \A v \in Worker : v # w => pc'[v] = pc[v] /\ ld'[v] = ld[v] /\ idx'[v] = idx[v]
  BY <1>1, <1>2
  DEF WorkerStep, ActionStep, BindStep, BindRequest, UnbindRequest, Request, BindConnect,
     BindNoMemory, BindLock, BackFromBind, Answer, AnswerServerDown, AnswerStrongAuth,
     RebindStart, RebindTry, RebindNoMemory, RebindEnd, Unbind
<1>7. /\ pc'[w] \in {"retry", "trying"} /\ Defined' => idx'[w] = w /\ tab[w].key = w
      /\ pc'[w] = "trying" => ld'[w].server = home[w]
  <2>1. CASE RebindStart(w)
    <3>1. pc'[w] # "trying"
      BY <1>1, <1>2, <2>1 DEF RebindStart
    <3>2. CASE Found(w) = {}
      <4>1. <<"lost", w>> \in mishap'
        BY <2>1, <3>2 DEF RebindStart, Note
      <4>2. ~Defined'
        BY <4>1 DEF Defined
      <4> QED
        BY <3>1, <4>2
    <3>3. CASE Found(w) # {} /\ pc'[w] = "retry"
      <4>1. PICK e \in Found(w) : idx' = [idx EXCEPT ![w] = e]
        BY <1>1, <1>2, <2>1, <3>3 DEF RebindStart
      <4>2. e \in Worker /\ tab[e].key = w
        BY DEF Found
      <4>3. e = w
        BY <1>5, <4>2 DEF HomeInv
      <4> QED
        BY <1>2, <3>1, <4>1, <4>2, <4>3
    <3> QED
      BY <3>1, <3>2, <3>3
  <2>2. CASE RebindTry(w)
    <3>1. /\ idx[w] = w /\ tab[w].key = w /\ idx' = idx
          /\ ld' = [ld EXCEPT ![w] = [server |-> tab[idx[w]].host, bound |-> FALSE]]
      BY <1>4, <1>5, <2>2 DEF HomeInv, RebindTry
    <3>2. tab[w].host = home[w]
      BY <1>5, <3>1 DEF HomeInv
    <3>3. ld'[w] = [server |-> home[w], bound |-> FALSE]
      BY <1>2, <3>1, <3>2
    <3> QED
      BY <3>1, <3>3
  <2>3. CASE RebindEnd(w)
    <3>1. idx[w] = w /\ tab[w].key = w
      BY <1>4, <1>5, <2>3 DEF HomeInv, RebindEnd
    <3>2. PICK r : /\ pc' = [pc EXCEPT ![w] = IF RebindOver(r) THEN "idle" ELSE "retry"]
                   /\ idx' = IF RebindOver(r) THEN [idx EXCEPT ![w] = 0] ELSE idx
      BY <2>3 DEF RebindEnd
    <3> QED
      BY <1>1, <1>2, <3>1, <3>2
  <2>4. CASE ~RebindStart(w) /\ ~RebindTry(w) /\ ~RebindEnd(w)
    <3>1. CASE UnbindRequest(w)
      BY <1>1, <1>2, <3>1 DEF UnbindRequest, Plays
    <3> QED
      BY <1>1, <1>2, <2>4, <3>1
      DEF WorkerStep, ActionStep, BindStep, BindRequest, Request, BindConnect,
         BindNoMemory, BackFromBind, Answer, AnswerServerDown, AnswerStrongAuth,
         RebindNoMemory
  <2> QED
    BY <2>1, <2>2, <2>3, <2>4
<1> QED
  BY <1>3, <1>4, <1>5, <1>6, <1>7 DEF HomeInv

(* Servers stop and start; main does nothing without a mated pair.         *)
LEMMA ServerHome ==
  ASSUME TypeInv, HomeInv, NEW s \in Server, ServerStops(s) \/ ServerStarts(s) PROVE HomeInv'
<1>1. UNCHANGED <<conf, refused, tab, home, pc, idx, mishap>>
  BY DEF ServerStops, ServerStarts, connVars, lockVars, mainVars, histVars
<1>2. \A w \in Worker : ld[w].server = home[w] => ld'[w].server = home[w]
  BY DEF ServerStops, ServerStarts, connVars, TypeInv, TypeOK
<1> QED
  BY <1>1, <1>2 DEF HomeInv, Recording, Defined

(***************************************************************************)
(* tLdap_Rebind goes back to the server its worker was bound to, for any   *)
(* number of workers and servers, in whatever order they bind, rebind and  *)
(* break; and every variable keeps its type, also through tBreak and       *)
(* tLdapReinit.                                                            *)
(***************************************************************************)
THEOREM RebindGoesHome == Spec => []HomeRebind
<1> DEFINE Inv == TypeInv /\ TurnInv /\ HomeInv
<1>1. Init => Inv
  <2>1. Init => HomeInv
    BY MainApart DEF Init, HomeInv, Thread
  <2> QED
    BY <2>1, TypeInit, TurnInit
<1>2. Inv /\ [Next]_vars => Inv'
  <2> SUFFICES ASSUME Inv, [Next]_vars PROVE HomeInv'
    BY TypeStep, TurnStep
  <2>1. CASE UNCHANGED vars
    BY <2>1 DEF HomeInv, Recording, Defined, vars, connVars, lockVars, serverVars, histVars
  <2>2. CASE MainStep
    <3>1. conf' = conf
      BY <2>2, ConfKept DEF Next
    <3>2. CASE conf.pair
      BY <3>1, <3>2 DEF HomeInv, Recording
    <3> QED
      BY <2>2, <3>2, MainStays
  <2>3. CASE \E w \in Worker : WorkerStep(w)
    BY <2>3, BindEndHome, WorkerHome
  <2>4. CASE \E s \in Server : ServerStops(s) \/ ServerStarts(s)
    BY <2>4, ServerHome
  <2> QED
    BY <2>1, <2>2, <2>3, <2>4 DEF Next
<1>3. Inv => HomeRebind
  BY DEF TypeInv, HomeInv, HomeRebind, Recording
<1> QED
  BY <1>1, <1>2, <1>3, PTL DEF Spec

=============================================================================
