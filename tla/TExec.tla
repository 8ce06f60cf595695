-------------------------------- MODULE TExec -------------------------------
(***************************************************************************)
(* The scenario engine, tExec of Src/texec.c: every worker takes over a    *)
(* scenario that is due in the timer or starts a new one, and plays its    *)
(* actions until it ends, fails or goes to sleep; it counts the scenario   *)
(* and gives its user back.                                                *)
(*                                                                         *)
(* It works on the traffic of TSce and on what the timer and the           *)
(* reservation of users promise (TSleep and TReserve, which TTimer and     *)
(* TUser implement).  A request is an action that succeeds or fails: how   *)
(* is in TLdapBind, TRadius and TSupplicant, and the asynchronous search   *)
(* of the GLOBAL session policy, which suspends the scenario too, in       *)
(* TLdapAsync.  Of the main thread there are the two phases of the end and *)
(* its handler of SIGINT; the rest of it is in TLifecycle.                 *)
(***************************************************************************)
EXTENDS TSce

CONSTANTS Worker,
          User,          \* users 1 .. n
          Actions,       \* section -> the requestIds of its actions; LDAP_Rq
                         \* and RADIUS_Rq stand for all that make a request
          Settings,      \* the values of <<tcAbortScenario, stop_on_error>>
          MaxSleep,      \* see TSleep
          MallocFails,   \* whether a malloc may fail
          MaxScenarios,  \* bound: scenarios that reserve a user
          MaxCtrlC,      \* bound: SIGINT of the operator or of tcTimeToRun
          NULL, Awake, Lost

RequestId == {"SCE_Begin", "SCE_Wait", "SCE_End", "LDAP_Rq", "RADIUS_Rq",
              "RADIUS_AccountOn_Rq"}

ASSUME ActionAssumption ==
  \A s \in Sound :
    /\ Actions[s] \in Seq(RequestId) /\ Len(Actions[s]) > 1
    /\ \A i \in DOMAIN Actions[s] :
         /\ Actions[s][i] = "SCE_Begin" <=> i = 1
         /\ Actions[s][i] = "SCE_End" <=> i = Len(Actions[s])
ASSUME FiniteAssumption == IsFiniteSet(Worker) /\ IsFiniteSet(User) /\ User \subseteq Nat
ASSUME BoundAssumption ==
  {MaxSleep, MaxScenarios, MaxCtrlC} \subseteq Nat /\ Settings \subseteq BOOLEAN \X BOOLEAN
ASSUME NullAssumption ==
  /\ NULL \notin Sound /\ NULL \notin User
  /\ NULL \notin [sce : Sound, action : Nat, user : User, tally : Nat]
ASSUME MarksAssumption == {Awake, Lost} \cap (0 .. MaxSleep) = {} /\ Awake # Lost

VARIABLES asleep, closed,   \* the timer (TSleep)
          taken, aborted,   \* the users (TReserve)
          tcAbortScenario, stop_on_error,  \* from tgen.ini
          stopOnError,      \* stop_on_error until the first error
          run,              \* worker -> its local variables
          memory,           \* context -> what it holds, NULL when it is free
          stat,             \* scenario -> its counters
          phase,            \* the state that main has given to the workers
          killcalled, sigint,  \* the end is asked for; SIGINT main has pending
          ctrlC,            \* history: SIGINT from elsewhere
          started, failed,  \* history: scenario -> how many did
          stranded,         \* history: users that no scenario will give back
          overlap,          \* history: two workers counted a scenario at once
          looked            \* history: workers between their look at the timer
                            \* and their test when it was closed

timerVars == <<asleep, closed>>
userVars == <<taken, aborted>>
confVars == <<sceVars, tcAbortScenario, stop_on_error>>
mainVars == <<phase, killcalled, sigint, ctrlC, looked>>
histVars == <<started, failed, stranded>>
vars == <<timerVars, userVars, confVars, stopOnError, run, memory, stat, mainVars,
          histVars, overlap>>

Ctx == User                \* addresses of contexts: one for each user is enough
Timer == INSTANCE TSleep WITH CanLose <- FALSE  \* but see TopTUNoMemory in TTimer
Reserve == INSTANCE TReserve

Counter == {"ko", "cnt"}
Where == {"poll", "ending?", "act", "count", "clear", "abort?", "finished"}
Local == [at : Where, sce : Sound \cup {NULL}, action : Nat, user : User \cup {NULL},
          first_sce_stat : BOOLEAN, end : {"NOT_REACHED", "REACHED", "SUSPENDED"},
          next : Nat, tally : Nat]
Idle == [at |-> "poll", sce |-> NULL, action |-> 1, user |-> NULL,
         first_sce_stat |-> TRUE, end |-> "NOT_REACHED", next |-> 0, tally |-> 0]

TypeOK ==
  /\ SceTypeOK
  /\ asleep \in [Ctx -> 0 .. MaxSleep \cup {Awake, Lost}] /\ closed \in BOOLEAN
  /\ taken \subseteq User /\ aborted \subseteq taken
  /\ {tcAbortScenario, stop_on_error, stopOnError, killcalled, overlap} \subseteq BOOLEAN
  /\ run \in [Worker -> Local]
  /\ \A w \in Worker : run[w].sce # NULL =>
                          run[w].action \in DOMAIN Actions[run[w].sce]
  /\ memory \in [Ctx -> [sce : Sound, action : Nat, user : User, tally : Nat] \cup {NULL}]
  /\ stat \in [Sound -> [Counter -> Nat]]
  /\ phase \in {"RUNNING", "ENDING", "CLOSED", "ENDING2", "exit"}
  /\ sigint \in 0 .. Cardinality(Worker) + MaxCtrlC /\ ctrlC \in 0 .. MaxCtrlC
  /\ started \in [Sound -> Nat] /\ failed \in [Sound -> Nat]
  /\ stranded \subseteq User /\ looked \subseteq Worker

Init ==
  /\ SceInit /\ Timer!Init /\ Reserve!Init
  /\ \E s \in Settings : tcAbortScenario = s[1] /\ stop_on_error = s[2]
  /\ stopOnError = stop_on_error
  /\ run = [w \in Worker |-> Idle]
  /\ memory = [c \in Ctx |-> NULL]
  /\ stat = [s \in Sound |-> [k \in Counter |-> 0]]
  /\ phase = "RUNNING" /\ killcalled = FALSE /\ sigint = 0 /\ ctrlC = 0 /\ looked = {}
  /\ started = [s \in Sound |-> 0] /\ failed = [s \in Sound |-> 0]
  /\ stranded = {} /\ overlap = FALSE

-----------------------------------------------------------------------------
(***************************************************************************)
(* Steps of a worker.  (Operators named Mut... are plausible slips in the  *)
(* operator that follows them; they show that a property can fail.)        *)
(***************************************************************************)
At(w, p) == run[w].at = p
Goto(w, p) == run' = [run EXCEPT ![w].at = p]
Leave(w) == run' = [run EXCEPT ![w] = Idle]
Action(w) == Actions[run[w].sce][run[w].action]
Plays(w, requestIds) == Action(w) \in requestIds

(***************************************************************************)
(* The head of the loop: a context that is due goes first; then one of the *)
(* two ending states sends the worker back or ends it (two tests, which    *)
(* TLifecycle keeps apart), or a new scenario is drawn.                    *)
(***************************************************************************)
MutFirstAgain(c) == memory[c].action
FirstAfter(c) == memory[c].action + 1

Resume(w, c) ==
  /\ At(w, "poll") /\ Timer!Resume(c)
  /\ run' = [run EXCEPT ![w] = [Idle EXCEPT
       !.at = "act", !.sce = memory[c].sce, !.action = FirstAfter(c),
       !.user = memory[c].user, !.tally = memory[c].tally]]
  /\ memory' = [memory EXCEPT ![c] = NULL]
  /\ UNCHANGED <<userVars, confVars, stopOnError, stat, mainVars, histVars, overlap>>

NothingDue(w) ==
  /\ At(w, "poll") /\ \A c \in Ctx : asleep[c] # 0
  /\ Goto(w, "ending?")
  /\ UNCHANGED <<timerVars, userVars, confVars, stopOnError, memory, stat, mainVars,
                 histVars, overlap>>

MutOver == phase # "RUNNING"
Over == phase = "ENDING2"

TestEnding(w) ==
  /\ At(w, "ending?")
  /\ \/ Over /\ Goto(w, "finished")
     \/ ~Over /\ phase # "RUNNING" /\ Goto(w, "poll")
     \/ /\ ~Over /\ phase = "RUNNING"
        /\ \E s \in tSceGet :
             run' = [run EXCEPT ![w] = [Idle EXCEPT !.at = "act", !.sce = s]]
  /\ UNCHANGED <<timerVars, userVars, confVars, stopOnError, memory, stat, mainVars,
                 histVars, overlap>>

-----------------------------------------------------------------------------
(***************************************************************************)
(* What follows an action.  A scenario that has not failed in this stretch *)
(* is counted at its end; an error is counted once a stretch, and then the *)
(* stop on error and the abort of the scenario are tried.                  *)
(***************************************************************************)
GoOn(w) == run' = [run EXCEPT ![w].action = @ + 1, ![w].next = 0]

Uncounted(w) == run[w].first_sce_stat

Reached(w) ==
  run' = IF Uncounted(w)
         THEN [run EXCEPT ![w].at = "count", ![w].end = "REACHED", ![w].tally = @ + 1]
         ELSE [run EXCEPT ![w] = Idle]

(* The test of the flag, which follows the count of the error.             *)
Stop == IF stopOnError THEN "clear" ELSE "abort?"

Fails(w, end) ==
  /\ LET r == [run[w] EXCEPT !.end = end, !.next = 0] IN
     run' = [run EXCEPT ![w] =
       IF Uncounted(w)
       THEN [r EXCEPT !.at = "count", !.tally = @ + 1, !.first_sce_stat = FALSE]
       ELSE [r EXCEPT !.at = Stop]]
  /\ failed' = IF run[w].tally = 0 THEN [failed EXCEPT ![run[w].sce] = @ + 1] ELSE failed

(***************************************************************************)
(* SCE_Begin.  Users may also be refused for their exclusion.  A scenario  *)
(* that gets no user is not started, and not counted.                      *)
(***************************************************************************)
AllStarted == Cardinality(UNION {{s} \X (1 .. started[s]) : s \in Sound})

SCE_Begin(w) ==
  /\ Plays(w, {"SCE_Begin"})
  /\ \/ /\ Leave(w) /\ UNCHANGED <<userVars, started>>
     \/ /\ AllStarted < MaxScenarios
        /\ \E u \in User :
             /\ Reserve!Get(u)
             /\ run' = [run EXCEPT ![w].user = u, ![w].action = @ + 1]
        /\ started' = [started EXCEPT ![run[w].sce] = @ + 1]
  /\ UNCHANGED <<timerVars, confVars, stopOnError, memory, stat, mainVars, failed,
                 stranded, overlap>>

(***************************************************************************)
(* SCE_Wait: the scenario leaves the worker, in a context that the timer   *)
(* holds.  When there is no memory for the context or for its element, or  *)
(* the time is too long, the scenario leaves the worker all the same.      *)
(***************************************************************************)
FreeCtx == {c \in Ctx : memory[c] = NULL /\ asleep[c] = Awake}
NewCtx == CHOOSE c \in FreeCtx : TRUE

SCE_Wait(w) ==
  /\ Plays(w, {"SCE_Wait"})
  /\ \/ /\ FreeCtx # {} /\ \E n \in 1 .. MaxSleep : Timer!Sleep(NewCtx, n)
        /\ memory' = [memory EXCEPT ![NewCtx] =
             [sce |-> run[w].sce, action |-> run[w].action, user |-> run[w].user,
              tally |-> run[w].tally]]
        /\ Leave(w)
        /\ UNCHANGED failed
     \/ /\ MallocFails
        /\ Fails(w, "SUSPENDED")
        /\ UNCHANGED <<timerVars, memory>>
  /\ UNCHANGED <<userVars, confVars, stopOnError, stat, mainVars, started, stranded,
                 overlap>>

SCE_End(w) ==
  /\ Plays(w, {"SCE_End"})
  /\ Reserve!Free(run[w].user)
  /\ Reached(w)
  /\ UNCHANGED <<timerVars, confVars, stopOnError, memory, stat, mainVars, histVars,
                 overlap>>

(***************************************************************************)
(* A request that succeeds or fails, after retries or not.  A RADIUS       *)
(* request of an aborted user is not made: the scenario ends, and counts   *)
(* as a good one.                                                          *)
(***************************************************************************)
RADIUS_Rq == {"RADIUS_Rq", "RADIUS_AccountOn_Rq"}

Ended(w) == Action(w) \in RADIUS_Rq /\ run[w].next = 0 /\ run[w].user \in aborted

AbortedUser(w) ==
  /\ Plays(w, RADIUS_Rq) /\ Ended(w)
  /\ Reserve!Free(run[w].user)
  /\ Reached(w)
  /\ UNCHANGED <<timerVars, confVars, stopOnError, memory, stat, mainVars, histVars,
                 overlap>>

Outcome(w) ==
  \/ GoOn(w) /\ UNCHANGED failed
  \/ Fails(w, "NOT_REACHED")

Request(w) ==
  /\ Plays(w, {"LDAP_Rq", "RADIUS_Rq"}) /\ ~Ended(w)
  /\ Outcome(w)
  /\ UNCHANGED <<timerVars, userVars, confVars, stopOnError, memory, stat, mainVars,
                 started, stranded, overlap>>

(***************************************************************************)
(* An Accounting-On or Off first aborts the users of its NAS one by one,   *)
(* its own among them (here: all users, next counts them).                 *)
(***************************************************************************)
AccountOn(w) ==
  /\ Plays(w, {"RADIUS_AccountOn_Rq"}) /\ ~Ended(w)
  /\ LET u == run[w].next + 1 IN
     /\ Reserve!Abort(u)
     /\ \/ /\ u + 1 \in User
           /\ run' = [run EXCEPT ![w].next = u]
           /\ UNCHANGED failed
        \/ u + 1 \notin User /\ Outcome(w)
  /\ UNCHANGED <<timerVars, confVars, stopOnError, memory, stat, mainVars, started,
                 stranded, overlap>>

-----------------------------------------------------------------------------
(***************************************************************************)
(* tExecScenarioEnd and tExecScenarioEndKo: the counters are shared and    *)
(* incremented without a mutex.  While another worker does so too, an      *)
(* increment may be lost.  (The total of timeouts is kept the same way.)   *)
(***************************************************************************)
Racing(w) ==
  \E v \in Worker \ {w} : run[v].at = "count" /\ run[v].sce = run[w].sce

Counts(w) == IF run[w].end = "REACHED" THEN {"cnt"} ELSE Counter

AfterCount(w) == IF run[w].end = "REACHED" THEN "poll" ELSE Stop

ScenarioEnd(w) ==
  /\ At(w, "count")
  /\ \E lost \in IF Racing(w) THEN SUBSET Counts(w) ELSE {{}} :
       stat' = [stat EXCEPT ![run[w].sce] =
         [k \in Counter |-> IF k \in Counts(w) \ lost THEN @[k] + 1 ELSE @[k]]]
  /\ overlap' = (overlap \/ Racing(w))
  /\ IF AfterCount(w) = "poll" THEN Leave(w) ELSE Goto(w, AfterCount(w))
  /\ UNCHANGED <<timerVars, userVars, confVars, stopOnError, memory, mainVars, histVars>>

(***************************************************************************)
(* The stop on error, after the test of the flag: clear it and, unless the *)
(* end has been asked for, interrupt the main thread.                      *)
(***************************************************************************)
MutAsked == TRUE
Asked == killcalled

StopClear(w) ==
  /\ At(w, "clear")
  /\ stopOnError' = FALSE
  /\ sigint' = IF Asked THEN sigint ELSE sigint + 1
  /\ Goto(w, "abort?")
  /\ UNCHANGED <<timerVars, userVars, confVars, memory, stat, phase, killcalled, ctrlC,
                 looked, histVars, overlap>>

(***************************************************************************)
(* After a broken LDAP session has been bound again (TLdapBind),           *)
(* tcAbortScenario: the user is given back and the scenario is over.       *)
(* Otherwise it goes on with the next action, unless it was suspended: the *)
(* user is then in no context, and nobody gives it back.                   *)
(***************************************************************************)
MutGivesBack(w) == tcAbortScenario /\ run[w].end # "SUSPENDED"
GivesBack(w) == tcAbortScenario

AbortTest(w) ==
  /\ At(w, "abort?")
  /\ IF GivesBack(w) THEN Reserve!Free(run[w].user) ELSE UNCHANGED userVars
  /\ IF tcAbortScenario \/ run[w].end = "SUSPENDED"
     THEN Leave(w)
     ELSE run' = [run EXCEPT ![w].at = "act", ![w].action = @ + 1]
  /\ stranded' = IF tcAbortScenario \/ run[w].end # "SUSPENDED" THEN stranded
                 ELSE stranded \cup {run[w].user}
  /\ UNCHANGED <<timerVars, confVars, stopOnError, memory, stat, mainVars, started, failed,
                 overlap>>

Running == loading = "done" /\ phase # "exit"

Play(w) ==
  /\ At(w, "act")
  /\ \/ SCE_Begin(w) \/ SCE_Wait(w) \/ SCE_End(w)
     \/ AbortedUser(w) \/ Request(w) \/ AccountOn(w)

WorkerStep(w) ==
  /\ Running
  /\ \/ NothingDue(w) \/ TestEnding(w) \/ \E c \in Ctx : Resume(w, c)
     \/ Play(w) \/ ScenarioEnd(w) \/ StopClear(w) \/ AbortTest(w)

-----------------------------------------------------------------------------
(***************************************************************************)
(* Around the workers: the loading, the time, and the main thread with     *)
(* tEnd, its handler of SIGINT.  A second SIGINT exits at once.            *)
(***************************************************************************)
Load ==
  /\ tSceLoadScenario \/ tsceRegisterCheck
  /\ UNCHANGED <<timerVars, userVars, tcAbortScenario, stop_on_error, stopOnError, run,
                 memory, stat, mainVars, histVars, overlap>>

Tick ==
  /\ Running /\ Timer!Tick
  /\ UNCHANGED <<userVars, confVars, stopOnError, run, memory, stat, mainVars, histVars,
                 overlap>>

CtrlC ==
  /\ Running /\ ctrlC < MaxCtrlC
  /\ ctrlC' = ctrlC + 1 /\ sigint' = sigint + 1
  /\ UNCHANGED <<timerVars, userVars, confVars, stopOnError, run, memory, stat, phase,
                 killcalled, looked, histVars, overlap>>

tEnd ==
  /\ Running /\ sigint > 0
  /\ sigint' = sigint - 1
  /\ killcalled' = TRUE
  /\ phase' = IF killcalled THEN "exit" ELSE phase
  /\ UNCHANGED <<timerVars, userVars, confVars, stopOnError, run, memory, stat, ctrlC,
                 looked, histVars, overlap>>

MainEnds ==
  /\ Running /\ killcalled
  /\ \/ /\ phase = "RUNNING" /\ phase' = "ENDING"
        /\ UNCHANGED <<timerVars, looked>>
     \/ /\ phase = "ENDING" /\ phase' = "CLOSED"
        /\ Timer!Close
        /\ looked' = {w \in Worker : run[w].at = "ending?"}
     \/ /\ phase = "CLOSED" /\ phase' = "ENDING2"
        /\ UNCHANGED <<timerVars, looked>>
     \/ /\ phase = "ENDING2" /\ \A w \in Worker : run[w].at = "finished"
        /\ phase' = "exit"
        /\ UNCHANGED <<timerVars, looked>>
  /\ UNCHANGED <<userVars, confVars, stopOnError, run, memory, stat, killcalled, sigint,
                 ctrlC, histVars, overlap>>

Next ==
  \/ Load \/ Tick \/ CtrlC \/ tEnd \/ MainEnds
  \/ \E w \in Worker : WorkerStep(w)

Spec == Init /\ [][Next]_vars

(***************************************************************************)
(* The workers keep running, the statistics thread turns the timer and a   *)
(* signal is delivered.  That a request returns is what TLdapBind, TRadius *)
(* and TSupplicant are about.                                              *)
(***************************************************************************)
FairSpec ==
  /\ Spec
  /\ WF_vars(Tick) /\ WF_vars(tEnd)
  /\ \A w \in Worker : WF_vars(WorkerStep(w))

-----------------------------------------------------------------------------
Playing(w) == run[w].user # NULL /\ run[w].end # "REACHED"
Sleeping(c) == asleep[c] \in 0 .. MaxSleep
Waits(s, n) == Cardinality({i \in 1 .. n : Actions[s][i] = "SCE_Wait"})
MayCount(s, n) == IF tcAbortScenario THEN 1 ELSE 1 + Waits(s, n)
Drained ==
  (\A w \in Worker : run[w].at = "finished") /\ looked # Worker /\ stranded = {}

(***************************************************************************)
(* A reserved user is in one pair of hands: a worker plays its scenario,   *)
(* or one context in the timer keeps it, and neither has a user that is    *)
(* not reserved; workers pass scenarios to each other through the timer,   *)
(* fail and are cut short without forgetting or sharing a user.  The users *)
(* that a failed malloc strands are the exception.                         *)
(***************************************************************************)
UserHasHome ==
  /\ TypeOK
  /\ \A u \in User :
       Cardinality({w \in Worker : Playing(w) /\ run[w].user = u})
         + Cardinality({c \in Ctx : Sleeping(c) /\ memory[c].user = u})
       = IF u \in taken \ stranded THEN 1 ELSE 0

(***************************************************************************)
(* Scenarios are accounted for, by workers that decide alone that nothing  *)
(* is left in the timer: when they have finished, every user has been      *)
(* given back and, if errors abort scenarios, the counters tell how many   *)
(* were started and how many failed; workers that count the same scenario  *)
(* at once may lose counts but never add any.  If errors do not abort it,  *)
(* a scenario may be counted once more for each SCE_Wait that it passes,   *)
(* because first_sce_stat is forgotten when a worker takes it up again     *)
(* (texec.c:500, in spite of the comment of line 974), but not more often. *)
(* (Nothing is said if all workers looked at the timer just before it was  *)
(* closed.)                                                                *)
(***************************************************************************)
AllAccounted ==
  /\ \A w \in Worker : run[w].sce # NULL =>
       run[w].tally <= MayCount(run[w].sce, run[w].action - 1)
  /\ \A c \in Ctx : Sleeping(c) =>
       memory[c].tally <= MayCount(memory[c].sce, memory[c].action) - 1
  /\ Drained => taken = {}
  /\ Drained /\ tcAbortScenario => \A s \in Sound :
       /\ stat[s]["cnt"] <= started[s] /\ stat[s]["ko"] <= failed[s]
       /\ ~overlap => stat[s]["cnt"] = started[s] /\ stat[s]["ko"] = failed[s]

(***************************************************************************)
(* A reserved user is given back in the end: its scenario is played to its *)
(* end, by whichever workers, or aborted, unless the program ends first.   *)
(***************************************************************************)
UserReleased ==
  \A u \in User :
    u \in taken ~> (u \notin taken \/ u \in stranded \/ phase \in {"ENDING2", "exit"})

(***************************************************************************)
(* With stop_on_error, the first error ends the test: whichever workers    *)
(* find the flag, test and clear it, once it is cleared the main thread    *)
(* has a SIGINT to handle or has been asked to end before.                 *)
(***************************************************************************)
StopsOnError == stop_on_error /\ ~stopOnError => killcalled \/ sigint > 0
=============================================================================
