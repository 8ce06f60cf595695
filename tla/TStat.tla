-------------------------------- MODULE TStat --------------------------------
(***************************************************************************)
(* The regulation of the traffic and the request counters of Src/tstat.c.  *)
(*                                                                         *)
(* Workers ask tStatRegulation for the right to send a request; it grants  *)
(* tstatRequestPerSecondWanted of them per period and makes the others     *)
(* wait on schedulingCond.  The statistics thread (tStat) opens a new      *)
(* period every second and then broadcasts schedulingCond, at the top of   *)
(* its loop and without the mutex.  tStatActionTime counts a request that  *)
(* is over, under tstatMutexI, which the statistics thread does not take   *)
(* when it resets the counters.                                            *)
(***************************************************************************)
EXTENDS Integers, TThread

CONSTANTS tcNbOfRequestPerSecond,  \* the traffic asked for
          MaxSent,                 \* bound: requests sent in one period
          MaxDone                  \* bound: requests counted in all

ASSUME RateAssumption == tcNbOfRequestPerSecond \in Nat
ASSUME BoundAssumption == MaxSent \in Nat /\ MaxDone \in Nat

VARIABLES state,     \* worker -> its thread state
          wpc,       \* worker -> where it is
          sent,      \* tstatRequestPerSecondSent
          wanted,    \* tstatRequestPerSecondWanted
          statPc,    \* the statistics thread
          mutexI,    \* holder of tstatMutexI
          nb,        \* tstatNbRequest, by horizon
          read,      \* the holder's copy of nb, before it writes nb back
          bypassed,  \* history: requests of this period that were not regulated
          done       \* history: calls of tStatActionTime since each reset

rateVars == <<state, sent, wanted, bypassed>>
countVars == <<mutexI, nb, read, done>>
statVars == <<wpc, statPc, rateVars, countVars>>

Horizon == {"SECOND", "PERIOD", "TOTAL"}
Place == {"start", "ready", "waiting", "woken", "request", "counting"}

StatTypeOK ==
  /\ state \in [Worker -> {"RUNNING", "SUSPEND", "ENDING"}]
  /\ wpc \in [Worker -> Place]
  /\ sent \in Nat /\ wanted \in Nat /\ bypassed \in Nat
  /\ statPc \in {"broadcast", "sleep", "reset"}
  /\ mutexI \in Worker \cup {NULL}
  /\ nb \in [Horizon -> Nat]
  /\ read \in [Horizon -> Nat]
  /\ done \in [Horizon -> Nat]

StatInit ==
  /\ state = [w \in Worker |-> "RUNNING"]
  /\ wpc = [w \in Worker |-> "start"]
  /\ sent = 0 /\ wanted = tcNbOfRequestPerSecond /\ bypassed = 0
  /\ statPc = "broadcast"
  /\ mutexI = NULL
  /\ nb = [h \in Horizon |-> 0]
  /\ read = [h \in Horizon |-> 0]
  /\ done = [h \in Horizon |-> 0]

-----------------------------------------------------------------------------
(***************************************************************************)
(* tStatRegulation, under schedulingMutex up to the wait.  The state of    *)
(* the thread is tested once, before the loop.                             *)
(***************************************************************************)
Full == sent >= wanted

Grant(w) ==
  /\ sent' = sent + 1
  /\ wpc' = [wpc EXCEPT ![w] = "request"]

RegulationGrant(w) ==
  /\ wpc[w] = "ready" /\ state[w] = "RUNNING" /\ ~Full
  /\ Grant(w)
  /\ UNCHANGED <<state, wanted, bypassed, statPc, countVars>>

RegulationWait(w) ==
  /\ wpc[w] = "ready" /\ state[w] = "RUNNING" /\ Full
  /\ wpc' = [wpc EXCEPT ![w] = "waiting"]
  /\ UNCHANGED <<rateVars, statPc, countVars>>

RegulationBypass(w) ==
  /\ wpc[w] = "ready" /\ state[w] # "RUNNING"
  /\ sent < MaxSent
  /\ Grant(w)
  /\ bypassed' = bypassed + 1
  /\ UNCHANGED <<state, wanted, statPc, countVars>>

(***************************************************************************)
(* Back from pthread_cond_wait, holding the mutex: the while loop tests    *)
(* again.  Another worker may have taken the last request of the period.   *)
(***************************************************************************)
MutMayLeave == TRUE
MayLeave == ~Full

RegulationLeave(w) ==
  /\ wpc[w] = "woken" /\ MayLeave
  /\ Grant(w)
  /\ UNCHANGED <<state, wanted, bypassed, statPc, countVars>>

RegulationWaitAgain(w) ==
  /\ wpc[w] = "woken" /\ ~MayLeave
  /\ wpc' = [wpc EXCEPT ![w] = "waiting"]
  /\ UNCHANGED <<rateVars, statPc, countVars>>

(***************************************************************************)
(* POSIX lets pthread_cond_wait return without a broadcast.  The wait of   *)
(* tStatWaitForStart is in no loop, so this also ends the starting block.  *)
(***************************************************************************)
AfterWait(p) == IF p = "start" THEN "ready" ELSE IF p = "waiting" THEN "woken" ELSE p

SpuriousWakeup(w) ==
  /\ wpc[w] \in {"start", "waiting"}
  /\ wpc' = [wpc EXCEPT ![w] = AfterWait(wpc[w])]
  /\ UNCHANGED <<rateVars, statPc, countVars>>

-----------------------------------------------------------------------------
(***************************************************************************)
(* The loop of the statistics thread: broadcast, sleep until the second is *)
(* over, open the next period.  The new period resets IN_SECOND, and every *)
(* tcCsvPeriod seconds IN_PERIOD has been reset before (tstat.c:224).      *)
(***************************************************************************)
MutWakeable == {CHOOSE w \in Worker : TRUE}
Wakeable == Worker

Broadcast ==
  /\ statPc = "broadcast"
  /\ wpc' = [w \in Worker |-> IF w \in Wakeable THEN AfterWait(wpc[w]) ELSE wpc[w]]
  /\ statPc' = "sleep"
  /\ UNCHANGED <<rateVars, countVars>>

Reset(H) ==
  /\ nb' = [h \in Horizon |-> IF h \in H THEN 0 ELSE nb[h]]
  /\ done' = [h \in Horizon |-> IF h \in H THEN 0 ELSE done[h]]
  /\ UNCHANGED <<mutexI, read>>

EndOfSecond ==
  /\ statPc = "sleep"
  /\ statPc' = "reset"
  /\ Reset({}) \/ Reset({"PERIOD"})
  /\ UNCHANGED <<wpc, rateVars>>

TrafficFunction_stable == wanted

NewPeriod ==
  /\ statPc = "reset"
  /\ sent' = 0
  /\ wanted' = TrafficFunction_stable
  /\ bypassed' = 0
  /\ Reset({"SECOND"})
  /\ statPc' = "broadcast"
  /\ UNCHANGED <<wpc, state>>

Stat == Broadcast \/ EndOfSecond \/ NewPeriod

-----------------------------------------------------------------------------
(***************************************************************************)
(* tStatActionTime: the increments are a read and a write of each counter, *)
(* atomic for those who take tstatMutexI and for nobody else.              *)
(***************************************************************************)
MutMutexFree == TRUE
MutexFree == mutexI = NULL

ActionTimeRead(w) ==
  /\ wpc[w] = "request"
  /\ done["TOTAL"] < MaxDone
  /\ MutexFree
  /\ mutexI' = w
  /\ read' = nb
  /\ wpc' = [wpc EXCEPT ![w] = "counting"]
  /\ UNCHANGED <<rateVars, statPc, nb, done>>

ActionTimeWrite(w) ==
  /\ wpc[w] = "counting"
  /\ nb' = [h \in Horizon |-> read[h] + 1]
  /\ done' = [h \in Horizon |-> done[h] + 1]
  /\ mutexI' = NULL
  /\ wpc' = [wpc EXCEPT ![w] = "ready"]
  /\ UNCHANGED <<rateVars, statPc, read>>

(***************************************************************************)
(* The main thread suspends, resumes and ends the workers (tinit.c and     *)
(* tmain.c), wherever they are.                                            *)
(***************************************************************************)
SetState(w) ==
  /\ state[w] # "ENDING"
  /\ \E s \in {"RUNNING", "SUSPEND", "ENDING"} : state' = [state EXCEPT ![w] = s]
  /\ UNCHANGED <<wpc, sent, wanted, bypassed, statPc, countVars>>

WorkerStep(w) ==
  \/ RegulationGrant(w) \/ RegulationWait(w) \/ RegulationBypass(w)
  \/ RegulationLeave(w) \/ RegulationWaitAgain(w) \/ SpuriousWakeup(w)
  \/ ActionTimeRead(w) \/ ActionTimeWrite(w)

StatNext == Stat \/ \E w \in Worker : WorkerStep(w) \/ SetState(w)

StatSpec == StatInit /\ [][StatNext]_statVars

(***************************************************************************)
(* The statistics thread never stops: its sleep is a timed lock.           *)
(***************************************************************************)
StatFairSpec == StatSpec /\ WF_statVars(Stat)

-----------------------------------------------------------------------------
(***************************************************************************)
(* In a period no more requests are granted than wanted, those of threads  *)
(* that were no longer RUNNING apart, whatever the wake-ups.               *)
(***************************************************************************)
RateBound == sent <= wanted + bypassed

(***************************************************************************)
(* No wake-up is lost: whoever waits in tStatRegulation or in              *)
(* tStatWaitForStart gets to test again, although the statistics thread    *)
(* broadcasts without the mutex.                                           *)
(***************************************************************************)
WaiterWoken ==
  \A w \in Worker : wpc[w] \in {"start", "waiting"} ~> wpc[w] \notin {"start", "waiting"}

(***************************************************************************)
(* No request is missing from a counter: the total is exact, and what the  *)
(* races with the resets can do to the counts of the second and of the     *)
(* period is to leave too much in them.                                    *)
(***************************************************************************)
NothingUncounted ==
  /\ nb["TOTAL"] = done["TOTAL"]
  /\ \A h \in Horizon : nb[h] >= done[h]
=============================================================================
