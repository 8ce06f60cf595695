------------------------------ MODULE TLifecycle -----------------------------
(***************************************************************************)
(* The life of tgen's threads, from tThreadStart to the exit of main: the  *)
(* main thread with its signal handlers (tmain.c, tinit.c), the workers    *)
(* (the loop of tExec in texec.c, around the scenarios) and the timer they *)
(* share with the statistics thread (module TTimer).                       *)
(*                                                                         *)
(* A scenario is a run of its actions; it ends, or puts its context in the *)
(* timer, to be resumed by any worker.  What the actions do is elsewhere,  *)
(* and so are the LDAP sessions that tBreak closes and opens again.        *)
(*                                                                         *)
(* Signals are handled by the main thread on its own stack, one handler    *)
(* over another (sa_mask is empty), each between two assignments of the    *)
(* code below it: hence the variable stack.                                *)
(***************************************************************************)
EXTENDS Integers, FiniteSets, Sequences

CONSTANTS Ctx, TableSize, MallocFails, NULL,   \* as in TTimer
          tcWThreadNb,   \* the number of workers
          HasMatedPair,  \* the defense of tBreak is activated
          MaxCtrlC,      \* bound: CTRL_C the operator types
          MaxCtrlZ,      \* bound: CTRL_Z the operator types
          MaxDeaths      \* bound: threads that die of SIGSEGV or SIGPIPE

ASSUME TimerAssumption ==
  TableSize \in Nat /\ TableSize >= 2 /\ NULL \notin Ctx /\ MallocFails \in BOOLEAN
ASSUME ThreadAssumption == tcWThreadNb \in Nat \ {0}
ASSUME PairAssumption == HasMatedPair \in BOOLEAN
ASSUME BoundAssumption == {MaxCtrlC, MaxCtrlZ, MaxDeaths} \subseteq Nat

VARIABLES table, currentIndex, tableClosed, call, top,   \* of TTimer
          left, moved, lost, raced,                      \* its history
          state,             \* worker -> tThread_getState
          wpc,               \* thread -> where it is in its code
          seen,              \* thread -> nbSessionsClosed as it has read it
          nbSessionsClosed,
          stack,             \* the main thread's calls, innermost last
          killcalled,
          traficOn,
          alarm,             \* the stat thread, once tcTimeToRun is over
          ctrlC, ctrlZ, deaths,  \* history: what happened so far
          late,              \* history: a worker started after main resumed it
          looked             \* history: workers between their look at the
                             \* timer and their test when it was closed

Worker == 1 .. tcWThreadNb
Select == 0                  \* stands for the select threads
Thread == Worker \cup {Select}

timerVars == <<table, currentIndex, tableClosed, call, top, left, moved, lost,
               raced>>
workerVars == <<state, wpc, seen, nbSessionsClosed>>
mainVars == <<stack, killcalled, traficOn, alarm>>
counts == <<ctrlC, ctrlZ, deaths, late, looked>>
vars == <<timerVars, workerVars, mainVars, counts>>

Timer == INSTANCE TTimer

ThreadState == {"SUSPEND", "RUNNING", "ENDING", "ENDING2", "FINISHED"}
Place == {"created", "start", "top", "poll", "ending?", "ending2?", "run", "sleep",
          "count", "finish", "serve", "dying", "dead"}
Frame == [proc : {"main", "tBreak", "SIGURG", "SIGTSTP"},
          pc : {"resume", "loop", "ending", "close", "ending2", "wait", "exit",
                "quickexit", "suspend", "off", "down", "assign"},
          i : Worker]

TypeOK ==
  /\ Timer!TypeOK
  /\ state \in [Worker -> ThreadState]
  /\ wpc \in [Thread -> Place]
  /\ seen \in [Thread -> 0 .. tcWThreadNb + MaxDeaths]
  /\ nbSessionsClosed \in 0 .. tcWThreadNb + MaxDeaths
  /\ stack \in Seq(Frame) /\ Len(stack) \in 1 .. 4
  /\ killcalled \in BOOLEAN /\ traficOn \in BOOLEAN
  /\ alarm \in {"off", "pending", "sent"}
  /\ ctrlC \in 0 .. MaxCtrlC /\ ctrlZ \in 0 .. MaxCtrlZ
  /\ deaths \in 0 .. MaxDeaths
  /\ late \in BOOLEAN /\ looked \subseteq Worker

(***************************************************************************)
(* Just after tThreadStart: the threads exist, their states are zeroed,    *)
(* the handlers are installed and main is about to resume its children.    *)
(***************************************************************************)
Init ==
  /\ Timer!Init
  /\ state = [w \in Worker |-> "SUSPEND"]
  /\ wpc = [t \in Thread |-> IF t = Select THEN "serve" ELSE "created"]
  /\ seen = [t \in Thread |-> 0]
  /\ nbSessionsClosed = 0
  /\ stack = <<[proc |-> "main", pc |-> "resume", i |-> 1]>>
  /\ killcalled = FALSE /\ traficOn = TRUE
  /\ alarm = "off"
  /\ ctrlC = 0 /\ ctrlZ = 0 /\ deaths = 0 /\ late = FALSE /\ looked = {}

MainPc == stack[1].pc
Alive == MainPc \notin {"exit", "quickexit"}
Goto(t, p) == wpc' = [wpc EXCEPT ![t] = p]

(* A worker goes from one place in its code to another.                    *)
Moves(w, from, to) ==
  /\ Alive /\ wpc[w] = from /\ Goto(w, to)
  /\ UNCHANGED <<seen, nbSessionsClosed, mainVars, ctrlC, ctrlZ, deaths, looked>>

-----------------------------------------------------------------------------
(***************************************************************************)
(* tThreadWorkerEntryPoint, then tExec up to its starting block.           *)
(***************************************************************************)
EntryPoint(w) ==
  /\ Moves(w, "created", "start")
  /\ state' = [state EXCEPT ![w] = "SUSPEND"]
  /\ late' = (late \/ state[w] # "SUSPEND")
  /\ UNCHANGED timerVars

(* tStatWaitForStart returns at a broadcast of the statistics thread.      *)
LeaveStart(w) ==
  /\ MainPc # "resume"
  /\ Moves(w, "start", "top")
  /\ UNCHANGED <<timerVars, state, late>>

(* The head of the loop: a FINISHED worker is gone, a SUSPENDed one waits. *)
LoopTop(w) ==
  /\ state[w] \notin {"FINISHED", "SUSPEND"}
  /\ Moves(w, "top", "poll")
  /\ UNCHANGED <<timerVars, state, late>>

(* A context is due: the worker carries on with its scenario.              *)
Resume(w) ==
  /\ Moves(w, "poll", "run")
  /\ Timer!GetUserToResume(w)
  /\ UNCHANGED <<state, late>>

NothingDue(w) ==
  /\ table[currentIndex] = <<>>
  /\ Moves(w, "poll", "ending?")
  /\ UNCHANGED <<timerVars, state, late>>

(* The two tests of the state, at texec.c:473 and texec.c:478.             *)
TestEnding(w) ==
  /\ Moves(w, "ending?", IF state[w] = "ENDING" THEN "top" ELSE "ending2?")
  /\ UNCHANGED <<timerVars, state, late>>

IsEnding2(w) == state[w] = "ENDING2"

StartScenario(w) ==
  /\ ~IsEnding2(w)
  /\ Moves(w, "ending2?", "run")
  /\ UNCHANGED <<timerVars, state, late>>

(***************************************************************************)
(* nbSessionsClosed ++ reads and writes; closingMutex keeps workers apart. *)
(***************************************************************************)
ReadClosed(t, from, to) ==
  /\ Alive /\ wpc[t] = from /\ Goto(t, to)
  /\ seen' = [seen EXCEPT ![t] = nbSessionsClosed]
  /\ UNCHANGED <<timerVars, state, nbSessionsClosed, mainVars>>

WriteClosed(t, from, to) ==
  /\ Alive /\ wpc[t] = from /\ Goto(t, to)
  /\ nbSessionsClosed' = seen[t] + 1
  /\ seen' = [seen EXCEPT ![t] = 0]
  /\ UNCHANGED <<timerVars, state, mainVars, counts>>

CountAsClosed(w) ==
  \/ /\ IsEnding2(w) /\ \A v \in Worker : wpc[v] # "count"
     /\ ReadClosed(w, "ending2?", "count")
     /\ UNCHANGED counts
  \/ WriteClosed(w, "count", "finish")

Finish(w) ==
  /\ Moves(w, "finish", "top")
  /\ state' = [state EXCEPT ![w] = "FINISHED"]
  /\ UNCHANGED <<timerVars, late>>

(***************************************************************************)
(* Between two actions of a scenario a SUSPENDed worker waits.             *)
(***************************************************************************)
EndScenario(w) ==
  /\ state[w] # "SUSPEND"
  /\ Moves(w, "run", "top")
  /\ UNCHANGED <<timerVars, state, late>>

GoToSleep(w) ==
  /\ state[w] # "SUSPEND"
  /\ Moves(w, "run", "sleep")
  /\ \E c \in Ctx, n \in 1 .. TableSize - 1 : Timer!SetUserToSleepTest(w, c, n)
  /\ UNCHANGED <<state, late>>

Sleep(w) ==
  /\ Moves(w, "sleep", "top")
  /\ Timer!SetUserToSleepInsert(w) \/ Timer!SetUserToSleepNoMemory(w)
  /\ UNCHANGED <<state, late>>

(***************************************************************************)
(* A thread dies of a SIGSEGV or SIGPIPE met in an action of a scenario or *)
(* in a select thread: tMainSigHandler counts it as a closed session,      *)
(* without closingMutex, and ends it.                                      *)
(***************************************************************************)
Die(t) ==
  \/ /\ deaths < MaxDeaths
     /\ ReadClosed(t, IF t = Select THEN "serve" ELSE "run", "dying")
     /\ deaths' = deaths + 1
     /\ UNCHANGED <<ctrlC, ctrlZ, late, looked>>
  \/ WriteClosed(t, "dying", "dead")

WorkerStep(w) ==
  \/ EntryPoint(w) \/ LeaveStart(w) \/ LoopTop(w) \/ Resume(w) \/ NothingDue(w)
  \/ TestEnding(w) \/ CountAsClosed(w) \/ Finish(w) \/ StartScenario(w)
  \/ EndScenario(w) \/ GoToSleep(w) \/ Sleep(w)

-----------------------------------------------------------------------------
(***************************************************************************)
(* The main thread's stack.                                                *)
(***************************************************************************)
Running == stack[Len(stack)]
In(procs, pc) == Alive /\ Running.proc \in procs /\ Running.pc = pc
Calls(proc) == \E k \in DOMAIN stack : stack[k].proc = proc
Push(proc, pc) == Append(stack, [proc |-> proc, pc |-> pc, i |-> 1])
Pop == SubSeq(stack, 1, Len(stack) - 1)
At(pc) == Append(Pop, [Running EXCEPT !.pc = pc, !.i = 1])

MoreWorkers == Running.i < tcWThreadNb

(* One turn of a loop that gives every worker a state, in order.           *)
ForEachWorker(s, after) ==
  /\ state' = [state EXCEPT ![Running.i] = s]
  /\ stack' = IF MoreWorkers
                THEN Append(Pop, [Running EXCEPT !.i = @ + 1])
                ELSE after
  /\ UNCHANGED <<timerVars, wpc, seen, nbSessionsClosed, killcalled, alarm>>

(***************************************************************************)
(* main: resume the children, wait for killcalled while watching the       *)
(* server, then end the workers in two phases, closing the timer between.  *)
(***************************************************************************)
MainResume ==
  /\ In({"main"}, "resume")
  /\ ForEachWorker("RUNNING", At("loop"))
  /\ UNCHANGED <<traficOn, counts>>

MainLoopEnds ==
  /\ In({"main"}, "loop") /\ killcalled
  /\ traficOn' = FALSE
  /\ stack' = At("ending")
  /\ UNCHANGED <<timerVars, workerVars, killcalled, alarm, counts>>

EndPhase1 ==
  /\ In({"main"}, "ending")
  /\ ForEachWorker("ENDING", At("close"))
  /\ UNCHANGED <<traficOn, counts>>

CloseTimer ==
  /\ In({"main"}, "close")
  /\ Timer!Close
  /\ looked' = {w \in Worker : wpc[w] \in {"ending?", "ending2?"}}
  /\ stack' = At("ending2")
  /\ UNCHANGED <<workerVars, killcalled, traficOn, alarm, ctrlC, ctrlZ, deaths,
                 late>>

EndPhase2 ==
  /\ In({"main"}, "ending2")
  /\ ForEachWorker("ENDING2", At("wait"))
  /\ UNCHANGED <<traficOn, counts>>

MutAllClosed == nbSessionsClosed >= tcWThreadNb - 1
MutAllClosedLate == nbSessionsClosed > tcWThreadNb
AllClosed == nbSessionsClosed >= tcWThreadNb

MainExit ==
  /\ In({"main"}, "wait") /\ AllClosed
  /\ stack' = At("exit")
  /\ UNCHANGED <<timerVars, workerVars, killcalled, traficOn, alarm, counts>>

-----------------------------------------------------------------------------
(***************************************************************************)
(* tBreak, called by main when the server does not answer or run as the    *)
(* handler of SIGURG: suspend the workers, switch the traffic off, wait    *)
(* for a server, switch the traffic on, resume the workers.                *)
(***************************************************************************)
MutKillTested == FALSE
KillTested == killcalled

BreakStart ==
  /\ HasMatedPair /\ ~KillTested
  /\ \/ In({"main"}, "loop") /\ stack' = Push("tBreak", "suspend")
     \/ Alive /\ ~Calls("SIGURG") /\ stack' = Push("SIGURG", "suspend")
  /\ UNCHANGED <<timerVars, workerVars, killcalled, traficOn, alarm, counts>>

BreakSuspend ==
  /\ In({"tBreak", "SIGURG"}, "suspend")
  /\ ForEachWorker("SUSPEND", At("off"))
  /\ UNCHANGED <<traficOn, counts>>

BreakSwitch ==
  /\ \/ In({"tBreak", "SIGURG"}, "off") /\ traficOn' = FALSE /\ stack' = At("down")
     \/ In({"tBreak", "SIGURG"}, "down") /\ traficOn' = TRUE /\ stack' = At("resume")
  /\ UNCHANGED <<timerVars, workerVars, killcalled, alarm, counts>>

BreakResume ==
  /\ In({"tBreak", "SIGURG"}, "resume")
  /\ ForEachWorker("RUNNING", Pop)
  /\ UNCHANGED <<traficOn, counts>>

(***************************************************************************)
(* tStop, the handler of SIGTSTP (CTRL_Z): switch the traffic, then give   *)
(* each worker the state that traficOn says at that time.                  *)
(***************************************************************************)
StopSwitch ==
  /\ ctrlZ < MaxCtrlZ /\ Alive /\ ~Calls("SIGTSTP") /\ ~KillTested
  /\ ctrlZ' = ctrlZ + 1
  /\ traficOn' = ~traficOn
  /\ stack' = Push("SIGTSTP", "assign")
  /\ UNCHANGED <<timerVars, workerVars, killcalled, alarm, ctrlC, deaths, late,
                 looked>>

StopAssign ==
  /\ In({"SIGTSTP"}, "assign")
  /\ ForEachWorker(IF traficOn THEN "RUNNING" ELSE "SUSPEND", Pop)
  /\ UNCHANGED <<traficOn, counts>>

(***************************************************************************)
(* tEnd, the handler of SIGINT: a first one asks main to end, a second one *)
(* exits at once.  It comes from the operator, or from the statistics      *)
(* thread, which tests killcalled when tcTimeToRun is over (tstat.c:248).  *)
(***************************************************************************)
End ==
  /\ Alive
  /\ killcalled' = TRUE
  /\ stack' = IF killcalled THEN <<[stack[1] EXCEPT !.pc = "quickexit"]>> ELSE stack
  /\ UNCHANGED <<timerVars, workerVars, traficOn>>

CtrlC ==
  /\ ctrlC < MaxCtrlC /\ End
  /\ ctrlC' = ctrlC + 1
  /\ UNCHANGED <<alarm, ctrlZ, deaths, late, looked>>

AlarmTest ==
  /\ Alive /\ alarm = "off" /\ MainPc # "resume" /\ ~killcalled
  /\ alarm' = "pending"
  /\ UNCHANGED <<timerVars, workerVars, stack, killcalled, traficOn, counts>>

AlarmSend ==
  /\ alarm = "pending" /\ End
  /\ alarm' = "sent"
  /\ UNCHANGED counts

TopTU ==
  /\ Alive /\ Timer!TopTU
  /\ UNCHANGED <<workerVars, mainVars, counts>>

MainStep ==
  \/ MainResume \/ MainLoopEnds \/ EndPhase1 \/ CloseTimer \/ EndPhase2 \/ MainExit
  \/ BreakSuspend \/ BreakSwitch \/ BreakResume \/ StopAssign

Next ==
  \/ MainStep \/ TopTU
  \/ BreakStart \/ StopSwitch \/ CtrlC \/ AlarmTest \/ AlarmSend
  \/ \E w \in Worker : WorkerStep(w)
  \/ \E t \in Thread : Die(t)

Spec == Init /\ [][Next]_vars

(***************************************************************************)
(* Every thread keeps running.  A scenario has a finite list of actions,   *)
(* so it does not go on for ever: strong fairness of EndScenario.  Main's  *)
(* fairness includes that tBreak finds a server in the end.                *)
(***************************************************************************)
FairSpec ==
  /\ Spec
  /\ WF_vars(MainStep) /\ WF_vars(TopTU)
  /\ \A w \in Worker : WF_vars(WorkerStep(w)) /\ SF_vars(EndScenario(w))

-----------------------------------------------------------------------------
Closed(w) == wpc[w] \in {"finish", "dead"} \/ state[w] = "FINISHED"

(***************************************************************************)
(* When main leaves its wait and exits, every worker has closed its        *)
(* session or is past counting itself dead: exit cuts no scenario short,   *)
(* although main only looks at a count that several threads increment.     *)
(* (A select thread that dies is counted too, in a worker's stead.)        *)
(***************************************************************************)
ExitAfterWorkers ==
  /\ TypeOK
  /\ MainPc = "exit" /\ wpc[Select] = "serve" => \A w \in Worker : Closed(w)

(***************************************************************************)
(* ... and no context is left in the timer, provided that tTimerClose did  *)
(* not overlap another timer operation and that a worker that looked at    *)
(* the timer afterwards is still alive: each worker decides alone, from an *)
(* empty list, that it has finished, and yet the timer is drained.         *)
(***************************************************************************)
NoSessionLeft ==
  /\ MainPc = "exit" /\ wpc[Select] = "serve" /\ ~raced
  /\ \E w \in Worker \ looked : wpc[w] # "dead"
  => \A i \in Timer!Slot : table[i] = <<>>

(***************************************************************************)
(* A worker that was told to end is never told to run or wait again, but   *)
(* by its own late start: a SIGURG or a SIGTSTP during the ending phases,  *)
(* or one whose handler was interrupted by SIGINT, undoes nothing.  (A     *)
(* worker put back to SUSPEND would never close its session, and main      *)
(* would wait for ever.)                                                   *)
(***************************************************************************)
EndingIsFinal ==
  [][\A w \in Worker : state[w] \in {"ENDING", "ENDING2", "FINISHED"}
        => state'[w] \notin {"RUNNING", "SUSPEND"} \/ wpc[w] = "created"]_vars

(***************************************************************************)
(* Once asked to end, the program does: no worker is left suspended or     *)
(* waiting, and main's count of closed sessions is reached.  (A worker     *)
(* that starts after main resumed it suspends itself; see tthread.c:174.)  *)
(***************************************************************************)
Terminates == killcalled ~> MainPc \in {"exit", "quickexit"} \/ late
=============================================================================
