--------------------------- MODULE TAccountProofs ---------------------------
(***************************************************************************)
(* The accounts of the scenario engine (TExec), for every number of        *)
(* workers and users, every traffic and every scenario: what was started   *)
(* is counted (ScenariosAccounted).  LocalInv of TExecProofs is not        *)
(* enough; it takes EndInv (when a worker finishes), TallyInv (how often a *)
(* scenario may be counted) and CountInv (what is still to count), each    *)
(* kept by a lemma per action.                                             *)
(***************************************************************************)
EXTENDS TExecProofs

-----------------------------------------------------------------------------
(***************************************************************************)
(* The end: what sleeps when the timer is closed is due, and some worker   *)
(* has yet to look at it, unless all had just done so.                     *)
(***************************************************************************)
EndInv ==
  /\ phase \in {"RUNNING", "ENDING"} => ~closed
  /\ phase \in {"CLOSED", "ENDING2"} => closed
  /\ \A w \in Worker : run[w].at = "finished" => closed /\ phase \in {"ENDING2", "exit"}
  /\ closed => \A c \in Ctx : Sleeping(c) => asleep[c] = 0
  /\ closed /\ looked # Worker /\ (\E c \in Ctx : Sleeping(c)) =>
       \E w \in Worker : run[w].at \notin {"ending?", "finished"}

(***************************************************************************)
(* The tally of a scenario has room for one more count as long as          *)
(* first_sce_stat is set, and the abort of scenarios leaves no other.      *)
(***************************************************************************)
TallyOK(w) ==
  /\ run[w].at \in Busy => run[w].tally <= MayCount(run[w].sce, run[w].action - 1)
  /\ run[w].at = "act" /\ run[w].first_sce_stat =>
       run[w].tally <= MayCount(run[w].sce, run[w].action - 1) - 1
  /\ run[w].at = "act" /\ tcAbortScenario => run[w].first_sce_stat
  /\ run[w].at \in Busy \ {"act"} /\ run[w].end # "REACHED" => ~run[w].first_sce_stat
TallyKept(c) ==
  Sleeping(c) => memory[c].tally <= MayCount(memory[c].sce, memory[c].action) - 1

TallyInv == (\A w \in Worker : TallyOK(w)) /\ (\A c \in Ctx : TallyKept(c))

(***************************************************************************)
(* The counters, for the scenarios that an error aborts: those that have   *)
(* been started are counted, or are still to be; the same for the errors.  *)
(***************************************************************************)
InCount(r, s) == r.at \in {"act", "count"} /\ r.sce = s /\ r.user # NULL
InFail(r, s) == r.at = "count" /\ r.sce = s /\ r.end # "REACHED"
ToCount(s) == {w \in Worker : InCount(run[w], s)}
ToWake(s) == {c \in Ctx : Sleeping(c) /\ memory[c].sce = s}
ToFail(s) == {w \in Worker : InFail(run[w], s)}
Cnt(s) == stat[s]["cnt"] + Cardinality(ToCount(s)) + Cardinality(ToWake(s))
Ko(s) == stat[s]["ko"] + Cardinality(ToFail(s))

CountInv ==
  tcAbortScenario =>
    \A s \in Sound : /\ Cnt(s) <= started[s] /\ Ko(s) <= failed[s]
                     /\ ~overlap => Cnt(s) = started[s] /\ Ko(s) = failed[s]

-----------------------------------------------------------------------------
(* EndInv.  A worker that does not come to its test of the end, or finds   *)
(* nothing in the timer, keeps it.                                         *)
LEMMA EndWorker ==
  ASSUME LocalInv, EndInv, NEW w \in Worker, Only(w), UNCHANGED <<phase, closed, looked>>,
         run'[w].at = "finished" => phase = "ENDING2",
         closed => \A c \in Ctx : Sleeping(c)' => asleep'[c] = 0,
         \/ run'[w].at \notin {"ending?", "finished"}
         \/ /\ run[w].at \in {"ending?", "finished"}
            /\ \A c \in Ctx : Sleeping(c)' <=> Sleeping(c)
         \/ \A c \in Ctx : asleep'[c] # 0
  PROVE  EndInv'
<1>1. \A v \in Worker \ {w} : run'[v] = run[v]
  BY Zenon DEF Only
<1>2. \A v \in Worker :
        run'[v].at = "finished" => closed' /\ phase' \in {"ENDING2", "exit"}
  BY <1>1, Zenon DEF EndInv
<1>3. ASSUME closed', looked' # Worker, NEW c \in Ctx, Sleeping(c)'
      PROVE  \E v \in Worker : run'[v].at \notin {"ending?", "finished"}
  <2>1. asleep'[c] = 0
    BY <1>3, Zenon
  <2>2. CASE run'[w].at \notin {"ending?", "finished"}
    BY <2>2, Zenon
  <2>3. CASE /\ run[w].at \in {"ending?", "finished"}
             /\ \A d \in Ctx : Sleeping(d)' <=> Sleeping(d)
    <3>1. PICK v \in Worker : run[v].at \notin {"ending?", "finished"}
      BY <1>3, <2>3, Zenon DEF EndInv
    <3> QED
      BY <1>1, <2>3, <3>1, Zenon
  <2> QED
    BY <2>1, <2>2, <2>3, Zenon
<1>4. /\ phase' \in {"RUNNING", "ENDING"} => ~closed'
      /\ phase' \in {"CLOSED", "ENDING2"} => closed'
  BY Zenon DEF EndInv
<1>5. closed' => \A c \in Ctx : Sleeping(c)' => asleep'[c] = 0
  BY Zenon
<1> QED
  BY <1>2, <1>3, <1>4, <1>5, Zenon DEF EndInv

(* The timer is left alone.                                                *)
LEMMA EndQuiet ==
  ASSUME LocalInv, EndInv, NEW w \in Worker, Only(w),
         UNCHANGED <<phase, closed, looked, asleep>>,
         run'[w].at \notin {"ending?", "finished"}
  PROVE  EndInv'
<1>1. closed => \A c \in Ctx : Sleeping(c)' => asleep'[c] = 0
  BY Zenon DEF EndInv, Sleeping
<1> QED
  BY <1>1, EndWorker, Zenon

(* The head of the loop keeps EndInv.                                      *)
LEMMA EndHead ==
  ASSUME LocalInv, Running, EndInv, NEW w \in Worker, NothingDue(w) \/ TestEnding(w)
  PROVE  EndInv'
<1>1. UNCHANGED <<asleep, closed, phase, looked>> /\ TypeOK
  BY LocalParts, Zenon DEF NothingDue, TestEnding, timerVars, mainVars
<1>2. closed => \A c \in Ctx : Sleeping(c)' => asleep'[c] = 0
  BY <1>1, Zenon DEF EndInv, Sleeping
<1>3. ASSUME NEW p \in Where, Goto(w, p) PROVE Only(w) /\ run'[w].at = p
  <2>1. /\ Only(w)
        /\ LET r == run[w] IN
           run'[w] = Rec(p, r.sce, r.action, r.user, r.first_sce_stat, r.end, r.next,
                         r.tally)
    BY <1>1, <1>3, GotoEffect, Zenon
  <2> QED
    BY <2>1, SMTT(30) DEF Rec
<1>4. CASE NothingDue(w)
  <2>1. Only(w) /\ run'[w].at = "ending?"
    BY <1>3, <1>4, Zenon DEF NothingDue, Where
  <2>2. \A c \in Ctx : asleep'[c] # 0
    BY <1>1, <1>4, Zenon DEF NothingDue
  <2> QED
    BY <1>1, <1>2, <2>1, <2>2, EndWorker, Zenon
<1>5. CASE TestEnding(w)
  <2>1. CASE Over /\ Goto(w, "finished")
    <3>1. Only(w) /\ run'[w].at = "finished" /\ phase = "ENDING2"
      BY <1>3, <2>1, Zenon DEF Over, Where
    <3>2. run[w].at \in {"ending?", "finished"}
      BY <1>5, Zenon DEF TestEnding, At
    <3>3. \A c \in Ctx : Sleeping(c)' <=> Sleeping(c)
      BY <1>1, Zenon DEF Sleeping
    <3> QED
      BY <1>1, <1>2, <3>1, <3>2, <3>3, EndWorker, Zenon
  <2>2. CASE Goto(w, "poll")
    <3>1. Only(w) /\ run'[w].at = "poll"
      BY <1>3, <2>2, Zenon DEF Where
    <3> QED
      BY <1>1, <3>1, EndQuiet, Zenon
  <2>3. ASSUME NEW s \in tSceGet,
               run' = [run EXCEPT ![w] = [Idle EXCEPT !.at = "act", !.sce = s]]
        PROVE  EndInv'
    <3>1. s \in Sound
      <4>1. sceOccurenceTab \in Seq(Sound) /\ Len(sceOccurenceTab) = Places
        BY Zenon DEF LocalInv, TypeOK, SceTypeOK, Running
      <4> QED
        BY <4>1, SMTT(30) DEF tSceGet
    <3>2. Only(w) /\ run'[w] = Rec("act", s, 1, NULL, TRUE, "NOT_REACHED", 0, 0)
      BY <1>1, <2>3, <3>1, DrawEffect, Zenon
    <3>3. run'[w].at = "act"
      BY <3>2, SMTT(30) DEF Rec
    <3> QED
      BY <1>1, <3>2, <3>3, EndQuiet, Zenon
  <2> QED
    BY <1>5, <2>1, <2>2, <2>3, Zenon DEF TestEnding
<1> QED
  BY <1>4, <1>5, Zenon

(* Resume keeps EndInv.                                                    *)
LEMMA EndResume ==
  ASSUME LocalInv, EndInv, NEW w \in Worker, NEW c \in Ctx, Resume(w, c)
  PROVE  EndInv'
<1>1. /\ Only(w)
      /\ run'[w] = Rec("act", memory[c].sce, memory[c].action + 1, memory[c].user,
                       TRUE, "NOT_REACHED", 0, memory[c].tally)
  BY ResumeEffect, Zenon
<1>2. run'[w].at = "act"
  BY <1>1, SMTT(30) DEF Rec
<1>3. UNCHANGED <<phase, closed, looked>> /\ asleep' = [asleep EXCEPT ![c] = Awake]
  BY Zenon DEF Resume, Timer!Resume, mainVars
<1>4. closed => \A d \in Ctx : Sleeping(d)' => asleep'[d] = 0
  <2> SUFFICES ASSUME closed, NEW d \in Ctx, Sleeping(d)' PROVE asleep'[d] = 0
    BY Zenon
  <2>1. TypeRest
    BY LocalParts, Zenon
  <2>2. d # c /\ asleep'[d] = asleep[d]
    BY <1>3, <2>1, MarksAssumption, Zenon DEF TypeRest, Sleeping
  <2> QED
    BY <2>2, Zenon DEF EndInv, Sleeping
<1> QED
  BY <1>1, <1>2, <1>3, <1>4, EndWorker, Zenon

(* The actions of a scenario keep EndInv.                                  *)
LEMMA EndPlay ==
  ASSUME LocalInv, EndInv, NEW w \in Worker, Play(w)
  PROVE  EndInv'
<1>1. UNCHANGED <<phase, looked>> /\ TypeOK /\ run[w] \in Local /\ run[w].at = "act"
  BY LocalParts, Zenon
  DEF Play, SCE_Begin, SCE_Wait, SCE_End, AbortedUser, Request, AccountOn, mainVars, At
<1>2. ASSUME Leave(w) PROVE Only(w) /\ run'[w].at = "poll"
  <2>1. Only(w) /\ run'[w] = IdleAt("poll")
    BY <1>1, <1>2, LeaveEffect, IdleRec, Zenon
  <2> QED
    BY <2>1, SMTT(30) DEF IdleAt, Rec
<1>3. ASSUME NEW e \in {"NOT_REACHED", "SUSPENDED"}, Fails(w, e)
      PROVE  Only(w) /\ run'[w].at \in {"count", "clear", "abort?"}
  <2>1. /\ Only(w)
        /\ LET r == run[w] IN
           run'[w] = IF r.first_sce_stat
                     THEN Rec("count", r.sce, r.action, r.user, FALSE, e, 0, r.tally + 1)
                     ELSE Rec(Stop, r.sce, r.action, r.user, FALSE, e, 0, r.tally)
    BY <1>1, <1>3, FailsEffect, Zenon
  <2> QED
    BY <2>1, SMTT(30) DEF Rec, Stop
<1>4. ASSUME Reached(w) PROVE Only(w) /\ run'[w].at \in {"count", "poll"}
  <2>1. CASE Uncounted(w)
    <3>1. /\ Only(w)
          /\ LET r == run[w] IN
             run'[w] = Rec("count", r.sce, r.action, r.user, r.first_sce_stat, "REACHED",
                           r.next, r.tally + 1)
      BY <1>1, <1>4, <2>1, ReachedEffect, Zenon
    <3> QED
      BY <3>1, SMTT(30) DEF Rec
  <2>2. CASE ~Uncounted(w)
    BY <1>2, <1>4, <2>2, Zenon DEF Reached, Leave
  <2> QED
    BY <2>1, <2>2, Zenon
<1>5. ASSUME Outcome(w) PROVE Only(w) /\ run'[w].at \in {"act", "count", "clear", "abort?"}
  <2>1. CASE GoOn(w)
    <3>1. /\ Only(w)
          /\ LET r == run[w] IN
             run'[w] = Rec(r.at, r.sce, r.action + 1, r.user, r.first_sce_stat, r.end, 0,
                           r.tally)
      BY <1>1, <2>1, GoOnEffect, Zenon
    <3> QED
      BY <1>1, <3>1, SMTT(30) DEF Rec
  <2> QED
    BY <1>3, <1>5, <2>1, Zenon DEF Outcome
<1>6. CASE SCE_Begin(w)
  <2>1. UNCHANGED <<closed, asleep>>
    BY <1>6, Zenon DEF SCE_Begin, timerVars
  <2>2. ASSUME NEW g \in User, run' = [run EXCEPT ![w].user = g, ![w].action = @ + 1]
        PROVE  Only(w) /\ run'[w].at = "act"
    <3>1. /\ Only(w)
          /\ LET r == run[w] IN
             run'[w] = Rec(r.at, r.sce, r.action + 1, g, r.first_sce_stat, r.end, r.next,
                           r.tally)
      BY <1>1, <2>2, BeginEffect, Zenon
    <3> QED
      BY <1>1, <3>1, SMTT(30) DEF Rec
  <2>3. Only(w) /\ run'[w].at \in {"poll", "act"}
    BY <1>2, <1>6, <2>2, Zenon DEF SCE_Begin
  <2> QED
    BY <1>1, <2>1, <2>3, EndQuiet, Zenon
<1>7. CASE SCE_Wait(w)
  <2>1. CASE Fails(w, "SUSPENDED") /\ UNCHANGED <<timerVars, memory>>
    <3>1. Only(w) /\ run'[w].at \in {"count", "clear", "abort?"}
      BY <1>3, <2>1, Zenon
    <3> QED
      BY <1>1, <2>1, <3>1, EndQuiet, Zenon DEF timerVars
  <2>2. ASSUME FreeCtx # {}, NEW n \in 1 .. MaxSleep, Timer!Sleep(NewCtx, n),
               memory' = [memory EXCEPT ![NewCtx] =
                 [sce |-> run[w].sce, action |-> run[w].action, user |-> run[w].user,
                  tally |-> run[w].tally]],
               Leave(w)
        PROVE  EndInv'
    <3>1. PICK c \in Ctx, m \in 0 .. MaxSleep :
             /\ asleep' = [asleep EXCEPT ![c] = m] /\ closed' = closed
             /\ closed => m = 0
      BY <2>2, WaitEffect, Zenon
    <3>2. closed => \A d \in Ctx : Sleeping(d)' => asleep'[d] = 0
      <4> SUFFICES ASSUME closed, NEW d \in Ctx, Sleeping(d)' PROVE asleep'[d] = 0
        BY Zenon
      <4>1. TypeRest
        BY LocalParts, Zenon
      <4>2. asleep'[d] = 0 \/ asleep'[d] = asleep[d]
        BY <3>1, <4>1, Zenon DEF TypeRest
      <4> QED
        BY <4>2, Zenon DEF EndInv, Sleeping
    <3> QED
      BY <1>1, <1>2, <2>2, <3>1, <3>2, EndWorker, Zenon
  <2> QED
    BY <1>7, <2>1, <2>2, Zenon DEF SCE_Wait
<1>8. CASE SCE_End(w) \/ AbortedUser(w)
  BY <1>1, <1>4, <1>8, EndQuiet, Zenon DEF SCE_End, AbortedUser, timerVars
<1>9. CASE Request(w) \/ AccountOn(w)
  <2>1. UNCHANGED <<closed, asleep>>
    BY <1>9, Zenon DEF Request, AccountOn, timerVars
  <2>2. ASSUME run' = [run EXCEPT ![w].next = run[w].next + 1]
        PROVE  Only(w) /\ run'[w].at = "act"
    <3>1. run[w].next + 1 \in Nat
      BY <1>1, RecEta, SMTT(30)
    <3>2. /\ Only(w)
          /\ LET r == run[w] IN
             run'[w] = Rec(r.at, r.sce, r.action, r.user, r.first_sce_stat, r.end,
                           r.next + 1, r.tally)
      BY <1>1, <2>2, <3>1, AccountEffect, Zenon
    <3> QED
      BY <1>1, <3>2, SMTT(30) DEF Rec
  <2>3. Only(w) /\ run'[w].at \in {"act", "count", "clear", "abort?"}
    BY <1>5, <1>9, <2>2, Zenon DEF Request, AccountOn
  <2> QED
    BY <1>1, <2>1, <2>3, EndQuiet, Zenon
<1> QED
  BY <1>6, <1>7, <1>8, <1>9, Zenon DEF Play

(* What follows an action keeps EndInv.                                    *)
LEMMA EndAfter ==
  ASSUME LocalInv, EndInv, NEW w \in Worker,
         ScenarioEnd(w) \/ StopClear(w) \/ AbortTest(w)
  PROVE  EndInv'
<1>1. UNCHANGED <<phase, looked, closed, asleep>> /\ TypeOK
  BY LocalParts, Zenon DEF ScenarioEnd, StopClear, AbortTest, mainVars, timerVars
<1>2. ASSUME Leave(w) PROVE Only(w) /\ run'[w].at = "poll"
  <2>1. Only(w) /\ run'[w] = IdleAt("poll")
    BY <1>1, <1>2, LeaveEffect, IdleRec, Zenon
  <2> QED
    BY <2>1, SMTT(30) DEF IdleAt, Rec
<1>3. ASSUME NEW p \in Where, Goto(w, p) PROVE Only(w) /\ run'[w].at = p
  <2>1. /\ Only(w)
        /\ LET r == run[w] IN
           run'[w] = Rec(p, r.sce, r.action, r.user, r.first_sce_stat, r.end, r.next,
                         r.tally)
    BY <1>1, <1>3, GotoEffect, Zenon
  <2> QED
    BY <2>1, SMTT(30) DEF Rec
<1>4. ASSUME run' = [run EXCEPT ![w].at = "act", ![w].action = @ + 1]
      PROVE  Only(w) /\ run'[w].at = "act"
  <2>1. /\ Only(w)
        /\ LET r == run[w] IN
           run'[w] = Rec("act", r.sce, r.action + 1, r.user, r.first_sce_stat, r.end,
                         r.next, r.tally)
    BY <1>1, <1>4, OnEffect, Zenon
  <2> QED
    BY <2>1, SMTT(30) DEF Rec
<1>5. Only(w) /\ run'[w].at \in {"poll", "act", "clear", "abort?"}
  <2>1. CASE ScenarioEnd(w)
    BY <1>2, <1>3, <2>1, Zenon DEF ScenarioEnd, AfterCount, Stop, Where
  <2>2. CASE StopClear(w)
    BY <1>3, <2>2, Zenon DEF StopClear, Where
  <2>3. CASE AbortTest(w)
    BY <1>2, <1>4, <2>3, Zenon DEF AbortTest
  <2> QED
    BY <2>1, <2>2, <2>3, Zenon
<1> QED
  BY <1>1, <1>5, EndQuiet, Zenon

(* The steps around the workers keep EndInv.                               *)
LEMMA EndAround ==
  ASSUME LocalInv, EndInv, Load \/ Tick \/ CtrlC \/ tEnd \/ MainEnds \/ UNCHANGED vars
  PROVE  EndInv'
<1>1. (\A c \in Ctx : Sleeping(c)' <=> Sleeping(c)) /\ run' = run
  BY SleepersAround, Zenon
<1>2. ASSUME UNCHANGED <<asleep, closed, looked>>,
             \/ phase' = phase \/ phase' = "exit"
             \/ phase = "RUNNING" /\ phase' = "ENDING"
             \/ phase = "CLOSED" /\ phase' = "ENDING2"
      PROVE  EndInv'
  <2>1. \A w \in Worker : run'[w].at = "finished" => closed' /\ phase' \in {"ENDING2", "exit"}
    BY <1>1, <1>2, Zenon DEF EndInv
  <2>2. closed' => \A c \in Ctx : Sleeping(c)' => asleep'[c] = 0
    BY <1>1, <1>2, Zenon DEF EndInv
  <2>3. /\ phase' \in {"RUNNING", "ENDING"} => ~closed'
        /\ phase' \in {"CLOSED", "ENDING2"} => closed'
    BY <1>2, Zenon DEF EndInv
  <2>4. closed' /\ looked' # Worker /\ (\E c \in Ctx : Sleeping(c)') =>
          \E w \in Worker : run'[w].at \notin {"ending?", "finished"}
    BY <1>1, <1>2, Zenon DEF EndInv
  <2> QED
    BY <2>1, <2>2, <2>3, <2>4, Zenon DEF EndInv
<1>3. CASE Load \/ CtrlC \/ tEnd \/ UNCHANGED vars
  BY <1>2, <1>3, Zenon DEF Load, CtrlC, tEnd, vars, timerVars, mainVars
<1>4. CASE Tick
  <2>1. ~closed /\ ~closed' /\ UNCHANGED <<phase, looked>>
    BY <1>4, Zenon DEF Tick, Timer!Tick, mainVars
  <2> QED
    BY <1>1, <2>1, Zenon DEF EndInv
<1>5. CASE MainEnds
  <2>1. CASE phase = "ENDING" /\ phase' = "CLOSED" /\ Timer!Close
             /\ looked' = {w \in Worker : run[w].at = "ending?"}
    <3>1. /\ closed'
          /\ asleep' = [c \in Ctx |-> IF asleep[c] \in 0 .. MaxSleep THEN 0 ELSE asleep[c]]
      BY <2>1, Zenon DEF Timer!Close
    <3>2. \A c \in Ctx : Sleeping(c)' => asleep'[c] = 0
      BY <1>1, <3>1, Zenon DEF Sleeping
    <3>3. \A w \in Worker : run'[w].at # "finished"
      BY <1>1, <2>1, Zenon DEF EndInv
    <3>4. looked' # Worker => \E w \in Worker : run'[w].at \notin {"ending?", "finished"}
      BY <1>1, <2>1, <3>3, Zenon
    <3> QED
      BY <2>1, <3>1, <3>2, <3>3, <3>4, Zenon DEF EndInv
  <2> QED
    BY <1>2, <1>5, <2>1, Zenon DEF MainEnds, timerVars
<1> QED
  BY <1>3, <1>4, <1>5, Zenon

(* EndInv is inductive.                                                    *)
LEMMA EndStep ==
  ASSUME LocalInv, EndInv, [Next]_vars PROVE EndInv'
<1>1. ASSUME NEW w \in Worker, WorkerStep(w) PROVE EndInv'
  BY <1>1, EndHead, EndResume, EndPlay, EndAfter, Zenon DEF WorkerStep
<1> QED
  BY <1>1, EndAround, Zenon DEF Next

-----------------------------------------------------------------------------
(* TallyInv.  An SCE_Wait makes room for one more count.                   *)
LEMMA WaitsStep ==
  ASSUME NEW s \in Sound, NEW n \in Nat
  PROVE  /\ Waits(s, n) \in Nat
         /\ Waits(s, n + 1) = Waits(s, n) + IF Actions[s][n + 1] = "SCE_Wait" THEN 1 ELSE 0
<1> DEFINE S(k) == {i \in 1 .. k : Actions[s][i] = "SCE_Wait"}
<1>1. ASSUME NEW k \in Nat PROVE IsFiniteSet(S(k)) /\ Cardinality(S(k)) \in Nat
  <2>1. IsFiniteSet(1 .. k)
    BY FS_Interval, SMTT(30)
  <2>2. S(k) \subseteq 1 .. k
    BY Zenon
  <2> QED
    BY <2>1, <2>2, FS_Subset, FS_CardinalityType, Zenon
<1>2. CASE Actions[s][n + 1] = "SCE_Wait"
  <2>1. S(n + 1) = S(n) \cup {n + 1} /\ n + 1 \notin S(n)
    BY <1>2, SMTT(30)
  <2> HIDE DEF S
  <2>2. Cardinality(S(n + 1)) = Cardinality(S(n)) + 1
    BY <1>1, <2>1, FS_AddElement, Zenon
  <2> QED
    BY <1>1, <1>2, <2>2, Zenon DEF Waits, S
<1>3. CASE Actions[s][n + 1] # "SCE_Wait"
  <2>1. S(n + 1) = S(n)
    BY <1>3, SMTT(30)
  <2> QED
    BY <1>1, <1>3, <2>1, SMTT(30) DEF Waits
<1> QED
  BY <1>2, <1>3, Zenon

(* How often a scenario may be counted, from action to action.             *)
LEMMA MayCountStep ==
  ASSUME NEW s \in Sound, NEW n \in Nat
  PROVE  /\ MayCount(s, n) \in Nat /\ MayCount(s, n) >= 1
         /\ MayCount(s, n) <= MayCount(s, n + 1)
         /\ tcAbortScenario => MayCount(s, n) = 1
         /\ ~tcAbortScenario /\ Actions[s][n + 1] = "SCE_Wait" =>
              MayCount(s, n + 1) = MayCount(s, n) + 1
<1>1. /\ Waits(s, n) \in Nat
      /\ Waits(s, n + 1) = Waits(s, n) + IF Actions[s][n + 1] = "SCE_Wait" THEN 1 ELSE 0
  BY WaitsStep, Zenon
<1> QED
  BY <1>1, SMTT(30) DEF MayCount

(* The setting never changes.                                              *)
LEMMA AbortSetting ==
  ASSUME [Next]_vars PROVE tcAbortScenario' = tcAbortScenario
<1>1. ASSUME NEW w \in Worker, WorkerStep(w) PROVE tcAbortScenario' = tcAbortScenario
  BY <1>1, Zenon DEF WorkerStep, Play, NothingDue, TestEnding, Resume, SCE_Begin, SCE_Wait, SCE_End,
              AbortedUser, Request, AccountOn, ScenarioEnd, StopClear, AbortTest, confVars
<1> QED
  BY <1>1, Zenon DEF Next, Load, Tick, CtrlC, tEnd, MainEnds, vars, confVars

(* A worker's own step.                                                    *)
LEMMA TallyCombine ==
  ASSUME TallyInv, NEW w \in Worker, Only(w), tcAbortScenario' = tcAbortScenario,
         TallyOK(w)', \A c \in Ctx : TallyKept(c)'
  PROVE  TallyInv'
<1>1. ASSUME NEW v \in Worker, v # w PROVE TallyOK(v)'
  <2>1. run'[v] = run[v] /\ TallyOK(v)
    BY <1>1, Zenon DEF Only, TallyInv
  <2> QED
    BY <2>1, Zenon DEF TallyOK, MayCount
<1> QED
  BY <1>1, Zenon DEF TallyInv

(* The timer is left alone.                                                *)
LEMMA TallyQuiet ==
  ASSUME TallyInv, NEW w \in Worker, Only(w), tcAbortScenario' = tcAbortScenario,
         TallyOK(w)', UNCHANGED <<asleep, memory>>
  PROVE  TallyInv'
<1>1. \A c \in Ctx : TallyKept(c)'
  BY Zenon DEF TallyInv, TallyKept, Sleeping, MayCount
<1> QED
  BY <1>1, TallyCombine, Zenon

(* A worker that has no scenario has nothing to count.                     *)
LEMMA TallyIdle ==
  ASSUME NEW w \in Worker, run'[w].at \notin Busy PROVE TallyOK(w)'
  BY Zenon DEF TallyOK, Busy

(* The head of the loop keeps TallyInv.                                    *)
LEMMA TallyHead ==
  ASSUME LocalInv, Running, TallyInv, tcAbortScenario' = tcAbortScenario,
         NEW w \in Worker, NothingDue(w) \/ TestEnding(w)
  PROVE  TallyInv'
<1>1. UNCHANGED <<asleep, memory>> /\ TypeOK
  BY LocalParts, Zenon DEF NothingDue, TestEnding, timerVars
<1>2. ASSUME NEW p \in Where \ Busy, Goto(w, p) PROVE TallyInv'
  <2>1. /\ Only(w)
        /\ LET r == run[w] IN
           run'[w] = Rec(p, r.sce, r.action, r.user, r.first_sce_stat, r.end, r.next,
                         r.tally)
    BY <1>1, <1>2, GotoEffect, Zenon
  <2>2. run'[w].at \notin Busy
    BY <2>1, SMTT(30) DEF Rec
  <2> QED
    BY <1>1, <2>1, <2>2, TallyIdle, TallyQuiet, Zenon
<1>3. ASSUME NEW s \in tSceGet,
             run' = [run EXCEPT ![w] = [Idle EXCEPT !.at = "act", !.sce = s]]
      PROVE  TallyInv'
  <2>1. s \in Sound
    <3>1. sceOccurenceTab \in Seq(Sound) /\ Len(sceOccurenceTab) = Places
      BY Zenon DEF LocalInv, TypeOK, SceTypeOK, Running
    <3> QED
      BY <3>1, SMTT(30) DEF tSceGet
  <2>2. Only(w) /\ run'[w] = Rec("act", s, 1, NULL, TRUE, "NOT_REACHED", 0, 0)
    BY <1>1, <1>3, <2>1, DrawEffect, Zenon
  <2>3. /\ run'[w].at = "act" /\ run'[w].sce = s /\ run'[w].action = 1
        /\ run'[w].first_sce_stat /\ run'[w].tally = 0
    BY <2>2, SMTT(30) DEF Rec
  <2>4. MayCount(s, 0) \in Nat /\ MayCount(s, 0) >= 1
    BY <2>1, MayCountStep, Zenon
  <2>5. MayCount(run[w].sce, run[w].action - 1)' = MayCount(s, 0)
    BY <2>3, SMTT(30) DEF MayCount
  <2>6. TallyOK(w)'
    BY <2>3, <2>4, <2>5, SMTT(30) DEF TallyOK, Busy
  <2> QED
    BY <1>1, <2>2, <2>6, TallyQuiet, Zenon
<1> QED
  BY <1>2, <1>3, Zenon DEF NothingDue, TestEnding, Where, Busy

(* Resume keeps TallyInv.                                                  *)
LEMMA TallyResume ==
  ASSUME LocalInv, TallyInv, tcAbortScenario' = tcAbortScenario,
         NEW w \in Worker, NEW c \in Ctx, Resume(w, c)
  PROVE  TallyInv'
<1>1. /\ Only(w) /\ memory[c] # NULL /\ Sleeping(c)
      /\ run'[w] = Rec("act", memory[c].sce, memory[c].action + 1, memory[c].user,
                       TRUE, "NOT_REACHED", 0, memory[c].tally)
  BY ResumeEffect, Zenon
<1>2. /\ run'[w].at = "act" /\ run'[w].sce = memory[c].sce
      /\ run'[w].action = memory[c].action + 1
      /\ run'[w].first_sce_stat /\ run'[w].tally = memory[c].tally
  BY <1>1, SMTT(30) DEF Rec
<1>3. memory[c] \in [sce : Sound, action : Nat, user : User, tally : Nat]
  BY <1>1, LocalParts, Zenon DEF TypeRest
<1>4. memory[c].tally <= MayCount(memory[c].sce, memory[c].action) - 1
  BY <1>1, Zenon DEF TallyInv, TallyKept
<1>5. MayCount(memory[c].sce, memory[c].action) \in Nat
  BY <1>3, MayCountStep, Zenon
<1>6. MayCount(run[w].sce, run[w].action - 1)' = MayCount(memory[c].sce, memory[c].action)
  <2>1. run'[w].action - 1 = memory[c].action
    BY <1>2, <1>3, SMTT(30)
  <2> QED
    BY <1>2, <2>1, Zenon DEF MayCount
<1>7. TallyOK(w)'
  BY <1>2, <1>3, <1>4, <1>5, <1>6, SMTT(30) DEF TallyOK, Busy
<1>8. \A d \in Ctx : TallyKept(d)'
  <2> SUFFICES ASSUME NEW d \in Ctx, Sleeping(d)' PROVE TallyKept(d)'
    BY Zenon DEF TallyKept
  <2>1. TypeRest /\ asleep' = [asleep EXCEPT ![c] = Awake]
                 /\ memory' = [memory EXCEPT ![c] = NULL]
    BY LocalParts, Zenon DEF Resume, Timer!Resume
  <2>2. d # c /\ asleep'[d] = asleep[d] /\ memory'[d] = memory[d]
    BY <2>1, MarksAssumption, Zenon DEF TypeRest, Sleeping
  <2> QED
    BY <2>2, Zenon DEF TallyInv, TallyKept, Sleeping, MayCount
<1> QED
  BY <1>1, <1>7, <1>8, TallyCombine, Zenon

(* The room that the tally of a playing scenario has.                      *)
LEMMA TallyRoom ==
  ASSUME LocalInv, TallyInv, NEW w \in Worker, run[w].at \in Busy
  PROVE  LET r == run[w] IN
         /\ r.sce \in Sound /\ r.action \in Nat \ {0} /\ r.tally \in Nat
         /\ r.first_sce_stat \in BOOLEAN
         /\ MayCount(r.sce, r.action - 1) \in Nat /\ MayCount(r.sce, r.action) \in Nat
         /\ r.tally <= MayCount(r.sce, r.action - 1)
         /\ MayCount(r.sce, r.action - 1) <= MayCount(r.sce, r.action)
         /\ r.at = "act" /\ r.first_sce_stat => r.tally <= MayCount(r.sce, r.action - 1) - 1
         /\ tcAbortScenario => /\ MayCount(r.sce, r.action - 1) = 1
                               /\ MayCount(r.sce, r.action) = 1
<1>1. /\ run[w].sce \in Sound /\ run[w].action \in Nat \ {0}
      /\ run[w].tally \in Nat /\ run[w].first_sce_stat \in BOOLEAN
  BY BusyFacts, RecEta, Zenon
<1>2. PICK n \in Nat : n = run[w].action - 1 /\ n + 1 = run[w].action
  BY <1>1, SMTT(30)
<1>3. /\ MayCount(run[w].sce, n) \in Nat /\ MayCount(run[w].sce, n + 1) \in Nat
      /\ MayCount(run[w].sce, n) <= MayCount(run[w].sce, n + 1)
      /\ tcAbortScenario => /\ MayCount(run[w].sce, n) = 1
                            /\ MayCount(run[w].sce, n + 1) = 1
  BY <1>1, MayCountStep, SMTT(30)
<1>4. TallyOK(w)
  BY Zenon DEF TallyInv
<1> QED
  BY <1>1, <1>2, <1>3, <1>4, Zenon DEF TallyOK

(* An error is counted if there is room for it.                            *)
LEMMA TallyFails ==
  ASSUME LocalInv, TallyInv, tcAbortScenario' = tcAbortScenario, NEW w \in Worker,
         At(w, "act"), NEW e \in {"NOT_REACHED", "SUSPENDED"}, Fails(w, e)
  PROVE  Only(w) /\ TallyOK(w)'
<1>1. /\ Only(w)
      /\ LET r == run[w] IN
         run'[w] = IF r.first_sce_stat
                   THEN Rec("count", r.sce, r.action, r.user, FALSE, e, 0, r.tally + 1)
                   ELSE Rec(Stop, r.sce, r.action, r.user, FALSE, e, 0, r.tally)
  BY LocalParts, FailsEffect, Zenon
<1>2. /\ run'[w].at \in {"count", "clear", "abort?"} /\ run'[w].sce = run[w].sce
      /\ run'[w].action = run[w].action /\ run'[w].first_sce_stat = FALSE
      /\ run'[w].tally = IF run[w].first_sce_stat THEN run[w].tally + 1 ELSE run[w].tally
  <2> DEFINE r == run[w]
             p == Rec("count", r.sce, r.action, r.user, FALSE, e, 0, r.tally + 1)
             q == Rec(Stop, r.sce, r.action, r.user, FALSE, e, 0, r.tally)
  <2>1. /\ p.at = "count" /\ p.sce = r.sce /\ p.action = r.action
        /\ p.first_sce_stat = FALSE /\ p.tally = r.tally + 1
        /\ q.at = Stop /\ q.sce = r.sce /\ q.action = r.action
        /\ q.first_sce_stat = FALSE /\ q.tally = r.tally
    BY Zenon DEF Rec
  <2>2. Stop \in {"clear", "abort?"}
    BY Zenon DEF Stop
  <2>3. IF r.first_sce_stat THEN run'[w] = p ELSE run'[w] = q
    BY <1>1, Zenon
  <2> HIDE DEF p, q
  <2> QED
    BY <2>1, <2>2, <2>3, Zenon
<1>3. MayCount(run[w].sce, run[w].action - 1)' = MayCount(run[w].sce, run[w].action - 1)
  BY <1>2, Zenon DEF MayCount
<1>4. run'[w].tally <= MayCount(run[w].sce, run[w].action - 1)
  BY <1>2, TallyRoom, SMTT(30) DEF At, Busy
<1> QED
  BY <1>1, <1>2, <1>3, <1>4, Zenon DEF TallyOK, Busy

(* The values of the local variables of a worker, one by one.              *)
Became(r, a, s, n, u, f, e, x, t) ==
  /\ r.at = a /\ r.sce = s /\ r.action = n /\ r.user = u
  /\ r.first_sce_stat = f /\ r.end = e /\ r.next = x /\ r.tally = t
Rests(r) == r.at = "poll" /\ r.user = NULL

(* What a worker's record holds once it has been written.                  *)
LEMMA RecFields ==
  ASSUME NEW r, NEW a, NEW s, NEW n, NEW u, NEW f, NEW e, NEW x, NEW t,
         r = Rec(a, s, n, u, f, e, x, t)
  PROVE  Became(r, a, s, n, u, f, e, x, t)
  BY Zenon DEF Rec, Became

(* A worker that is done polls again, for nobody.                          *)
LEMMA IdleRests ==
  ASSUME NEW r, r = Idle
  PROVE  Rests(r)
  BY Zenon DEF Idle, Rests

(* A count that gains nothing and loses nothing.                           *)
LEMMA PlusNone ==
  ASSUME NEW n \in Nat
  PROVE  n + 0 - 0 = n
  BY SMT

(* So is the end of the scenario.                                          *)
LEMMA TallyReached ==
  ASSUME LocalInv, TallyInv, tcAbortScenario' = tcAbortScenario, NEW w \in Worker,
         At(w, "act"), Reached(w)
  PROVE  Only(w) /\ TallyOK(w)'
<1>1. CASE Uncounted(w)
  <2>1. /\ Only(w)
        /\ LET r == run[w] IN
           Became(run'[w], "count", r.sce, r.action, r.user, r.first_sce_stat, "REACHED",
                  r.next, r.tally + 1)
    BY <1>1, LocalParts, ReachedEffect, RecFields, Zenon
  <2>2. /\ run'[w].at = "count" /\ run'[w].sce = run[w].sce
        /\ run'[w].action = run[w].action /\ run'[w].end = "REACHED"
        /\ run'[w].tally = run[w].tally + 1
    BY <2>1, Zenon DEF Became
  <2>3. MayCount(run[w].sce, run[w].action - 1)' = MayCount(run[w].sce, run[w].action - 1)
    BY <2>2, Zenon DEF MayCount
  <2>4. run'[w].tally <= MayCount(run[w].sce, run[w].action - 1)
    BY <1>1, <2>2, TallyRoom, SMTT(30) DEF At, Busy, Uncounted
  <2> QED
    BY <2>1, <2>2, <2>3, <2>4, Zenon DEF TallyOK, Busy
<1>2. CASE ~Uncounted(w)
  <2>1. Leave(w)
    BY <1>2, Zenon DEF Reached, Leave
  <2>2. Only(w) /\ Rests(run'[w])
    BY <2>1, LocalParts, LeaveEffect, IdleRests, Zenon
  <2>3. run'[w].at \notin Busy
    BY <2>2, Zenon DEF Rests, Busy
  <2> QED
    BY <2>2, <2>3, TallyIdle, Zenon
<1> QED
  BY <1>1, <1>2, Zenon

(* A worker that goes on with the next action, at "act".                   *)
LEMMA TallyNext ==
  ASSUME LocalInv, TallyInv, tcAbortScenario' = tcAbortScenario, NEW w \in Worker,
         run[w].at \in Busy, Only(w), run'[w].at = "act", run'[w].sce = run[w].sce,
         run'[w].action = run[w].action + 1 \/ run'[w].action = run[w].action,
         run'[w].first_sce_stat = run[w].first_sce_stat, run'[w].tally = run[w].tally,
         \/ run[w].at = "act"
         \/ ~run[w].first_sce_stat /\ ~tcAbortScenario
  PROVE  TallyOK(w)'
<1>1. \/ MayCount(run[w].sce, run[w].action - 1)' = MayCount(run[w].sce, run[w].action)
      \/ MayCount(run[w].sce, run[w].action - 1)' = MayCount(run[w].sce, run[w].action - 1)
  <2>1. run'[w].action - 1 = run[w].action \/ run'[w].action - 1 = run[w].action - 1
    BY TallyRoom, SMTT(30)
  <2> QED
    BY <2>1, Zenon DEF MayCount
<1>2. run[w].at = "act" /\ tcAbortScenario => run[w].first_sce_stat
  BY Zenon DEF TallyInv, TallyOK
<1> QED
  BY <1>1, <1>2, TallyRoom, SMTT(30) DEF TallyOK, Busy

(* The actions of a scenario other than SCE_Wait keep TallyInv.            *)
LEMMA TallyPlay ==
  ASSUME LocalInv, TallyInv, tcAbortScenario' = tcAbortScenario, NEW w \in Worker,
         At(w, "act"),
         SCE_Begin(w) \/ SCE_End(w) \/ AbortedUser(w) \/ Request(w) \/ AccountOn(w)
  PROVE  TallyInv'
<1>1. UNCHANGED <<asleep, memory>> /\ TypeOK /\ run[w].at \in Busy /\ run[w].at = "act"
  BY LocalParts, Zenon
  DEF SCE_Begin, SCE_End, AbortedUser, Request, AccountOn, timerVars, At, Busy
<1>2. ASSUME Leave(w) PROVE Only(w) /\ TallyOK(w)'
  <2>1. Only(w) /\ Rests(run'[w])
    BY <1>1, <1>2, LeaveEffect, IdleRests, Zenon
  <2>2. run'[w].at \notin Busy
    BY <2>1, Zenon DEF Rests, Busy
  <2> QED
    BY <2>1, <2>2, TallyIdle, Zenon
<1>3. ASSUME NEW g \in User, run' = [run EXCEPT ![w].user = g, ![w].action = @ + 1]
      PROVE  Only(w) /\ TallyOK(w)'
  <2>1. /\ Only(w)
        /\ LET r == run[w] IN
           Became(run'[w], r.at, r.sce, r.action + 1, g, r.first_sce_stat, r.end, r.next,
                  r.tally)
    BY <1>1, <1>3, BeginEffect, RecFields, Zenon
  <2>2. /\ run'[w].at = "act" /\ run'[w].sce = run[w].sce
        /\ run'[w].action = run[w].action + 1
        /\ run'[w].first_sce_stat = run[w].first_sce_stat /\ run'[w].tally = run[w].tally
    BY <1>1, <2>1, Zenon DEF Became
  <2> QED
    BY <1>1, <2>1, <2>2, TallyNext, Zenon
<1>4. ASSUME GoOn(w) PROVE Only(w) /\ TallyOK(w)'
  <2>1. /\ Only(w)
        /\ LET r == run[w] IN
           Became(run'[w], r.at, r.sce, r.action + 1, r.user, r.first_sce_stat, r.end, 0,
                  r.tally)
    BY <1>1, <1>4, GoOnEffect, RecFields, Zenon
  <2>2. /\ run'[w].at = "act" /\ run'[w].sce = run[w].sce
        /\ run'[w].action = run[w].action + 1
        /\ run'[w].first_sce_stat = run[w].first_sce_stat /\ run'[w].tally = run[w].tally
    BY <1>1, <2>1, Zenon DEF Became
  <2> QED
    BY <1>1, <2>1, <2>2, TallyNext, Zenon
<1>5. ASSUME run' = [run EXCEPT ![w].next = run[w].next + 1] PROVE Only(w) /\ TallyOK(w)'
  <2>0. run[w].next + 1 \in Nat
    BY <1>1, BusyFacts, RecEta, SMTT(30)
  <2>1. /\ Only(w)
        /\ LET r == run[w] IN
           run'[w] = Rec(r.at, r.sce, r.action, r.user, r.first_sce_stat, r.end,
                         r.next + 1, r.tally)
    BY <1>1, <1>5, <2>0, AccountEffect, Zenon
  <2>2. /\ run'[w].at = "act" /\ run'[w].sce = run[w].sce
        /\ run'[w].action = run[w].action
        /\ run'[w].first_sce_stat = run[w].first_sce_stat /\ run'[w].tally = run[w].tally
    <3> DEFINE r == run[w]
               q == Rec(r.at, r.sce, r.action, r.user, r.first_sce_stat, r.end,
                        r.next + 1, r.tally)
    <3>1. /\ q.at = r.at /\ q.sce = r.sce /\ q.action = r.action
          /\ q.first_sce_stat = r.first_sce_stat /\ q.tally = r.tally
      BY Zenon DEF Rec
    <3>2. run'[w] = q
      BY <2>1, Zenon
    <3> HIDE DEF q
    <3> QED
      BY <1>1, <3>1, <3>2, Zenon DEF At
  <2> QED
    BY <1>1, <2>1, <2>2, TallyNext, Zenon
<1>6. Only(w) /\ TallyOK(w)'
  <2>1. CASE SCE_Begin(w)
    BY <1>2, <1>3, <2>1, Zenon DEF SCE_Begin
  <2>2. CASE SCE_End(w) \/ AbortedUser(w)
    BY <2>2, TallyReached, Zenon DEF SCE_End, AbortedUser
  <2>3. CASE Request(w) \/ AccountOn(w)
    BY <1>4, <1>5, <2>3, TallyFails, Zenon DEF Request, AccountOn, Outcome
  <2> QED
    BY <2>1, <2>2, <2>3, Zenon
<1> QED
  BY <1>1, <1>6, TallyQuiet, Zenon

(* SCE_Wait keeps TallyInv.                                                *)
LEMMA TallyWait ==
  ASSUME LocalInv, TallyInv, tcAbortScenario' = tcAbortScenario, NEW w \in Worker,
         At(w, "act"), SCE_Wait(w)
  PROVE  TallyInv'
<1>1. CASE Fails(w, "SUSPENDED") /\ UNCHANGED <<timerVars, memory>>
  <2>1. Only(w) /\ TallyOK(w)'
    BY <1>1, TallyFails, Zenon
  <2> QED
    BY <1>1, <2>1, TallyQuiet, Zenon DEF timerVars
<1>2. ASSUME FreeCtx # {}, NEW n \in 1 .. MaxSleep, Timer!Sleep(NewCtx, n),
             memory' = [memory EXCEPT ![NewCtx] =
               [sce |-> run[w].sce, action |-> run[w].action, user |-> run[w].user,
                tally |-> run[w].tally]],
             Leave(w)
      PROVE  TallyInv'
  <2>1. PICK c \in Ctx, m \in 0 .. MaxSleep :
           /\ asleep' = [asleep EXCEPT ![c] = m]
           /\ memory' = [memory EXCEPT ![c] =
                [sce |-> run[w].sce, action |-> run[w].action, user |-> run[w].user,
                 tally |-> run[w].tally]]
    BY <1>2, WaitEffect, Zenon
  <2>2. Only(w) /\ Rests(run'[w])
    BY <1>2, LocalParts, LeaveEffect, IdleRests, Zenon
  <2>3. TallyOK(w)'
    <3>1. run'[w].at \notin Busy
      BY <2>2, Zenon DEF Rests, Busy
    <3> QED
      BY <3>1, TallyIdle, Zenon
  <2>4. run[w].tally <= MayCount(run[w].sce, run[w].action) - 1
    <3>1. CASE tcAbortScenario
      <4>1. run[w].first_sce_stat
        BY <3>1, Zenon DEF TallyInv, TallyOK, At
      <4> QED
        BY <3>1, <4>1, TallyRoom, Zenon DEF At, Busy
    <3>2. CASE ~tcAbortScenario
      <4>1. PICK k \in Nat : k = run[w].action - 1 /\ k + 1 = run[w].action
        BY TallyRoom, SMTT(30) DEF At, Busy
      <4>2. run[w].sce \in Sound /\ Actions[run[w].sce][k + 1] = "SCE_Wait"
        BY <4>1, TallyRoom, Zenon DEF At, Busy, SCE_Wait, Plays, Action
      <4>3. MayCount(run[w].sce, k + 1) = MayCount(run[w].sce, k) + 1
        BY <3>2, <4>2, MayCountStep, Zenon
      <4> QED
        BY <4>1, <4>3, TallyRoom, SMTT(30) DEF At, Busy
    <3> QED
      BY <3>1, <3>2, Zenon
  <2>5. \A d \in Ctx : TallyKept(d)'
    <3> TAKE d \in Ctx
    <3>1. TypeRest
      BY LocalParts, Zenon
    <3>2. CASE d = c
      <4>1. /\ memory'[d].tally = run[w].tally /\ memory'[d].sce = run[w].sce
            /\ memory'[d].action = run[w].action
        BY <2>1, <3>1, <3>2, Zenon DEF TypeRest
      <4>2. MayCount(memory[d].sce, memory[d].action)'
            = MayCount(run[w].sce, run[w].action)
        BY <4>1, Zenon DEF MayCount
      <4> QED
        BY <2>4, <4>1, <4>2, Zenon DEF TallyKept
    <3>3. CASE d # c
      <4>1. memory'[d] = memory[d] /\ asleep'[d] = asleep[d]
        BY <2>1, <3>1, <3>3, Zenon DEF TypeRest
      <4> QED
        BY <4>1, Zenon DEF TallyInv, TallyKept, Sleeping, MayCount
    <3> QED
      BY <3>2, <3>3, Zenon
  <2> QED
    BY <2>2, <2>3, <2>5, TallyCombine, Zenon
<1> QED
  BY <1>1, <1>2, Zenon DEF SCE_Wait

(* What follows an action keeps TallyInv.                                  *)
LEMMA TallyAfter ==
  ASSUME LocalInv, TallyInv, tcAbortScenario' = tcAbortScenario, NEW w \in Worker,
         ScenarioEnd(w) \/ StopClear(w) \/ AbortTest(w)
  PROVE  TallyInv'
<1>1. /\ UNCHANGED <<asleep, memory>> /\ TypeOK
      /\ run[w].at \in Busy \ {"act"} /\ WorkerOK(w) /\ TallyOK(w)
  BY LocalParts, Zenon DEF ScenarioEnd, StopClear, AbortTest, timerVars, At, Busy, TallyInv
<1>2. ASSUME Leave(w) PROVE Only(w) /\ TallyOK(w)'
  <2>1. Only(w) /\ Rests(run'[w])
    BY <1>1, <1>2, LeaveEffect, IdleRests, Zenon
  <2>2. run'[w].at \notin Busy
    BY <2>1, Zenon DEF Rests, Busy
  <2> QED
    BY <2>1, <2>2, TallyIdle, Zenon
<1>3. ASSUME NEW p \in {"clear", "abort?"}, Goto(w, p), run[w].end # "REACHED"
      PROVE  Only(w) /\ TallyOK(w)'
  <2>1. /\ Only(w)
        /\ LET r == run[w] IN
           Became(run'[w], p, r.sce, r.action, r.user, r.first_sce_stat, r.end, r.next,
                  r.tally)
    BY <1>1, <1>3, GotoEffect, RecFields, Zenon DEF Where
  <2>2. /\ run'[w].at = p /\ run'[w].sce = run[w].sce /\ run'[w].action = run[w].action
        /\ run'[w].first_sce_stat = run[w].first_sce_stat /\ run'[w].tally = run[w].tally
    BY <2>1, Zenon DEF Became
  <2>3. MayCount(run[w].sce, run[w].action - 1)' = MayCount(run[w].sce, run[w].action - 1)
    BY <2>2, Zenon DEF MayCount
  <2> QED
    BY <1>1, <1>3, <2>1, <2>2, <2>3, Zenon DEF TallyOK, Busy
<1>4. ASSUME run' = [run EXCEPT ![w].at = "act", ![w].action = @ + 1],
             ~tcAbortScenario, run[w].end # "REACHED"
      PROVE  Only(w) /\ TallyOK(w)'
  <2>1. /\ Only(w)
        /\ LET r == run[w] IN
           Became(run'[w], "act", r.sce, r.action + 1, r.user, r.first_sce_stat, r.end,
                  r.next, r.tally)
    BY <1>1, <1>4, OnEffect, RecFields, Zenon
  <2>2. /\ run'[w].at = "act" /\ run'[w].sce = run[w].sce
        /\ run'[w].action = run[w].action + 1
        /\ run'[w].first_sce_stat = run[w].first_sce_stat /\ run'[w].tally = run[w].tally
    BY <2>1, Zenon DEF Became
  <2>3. ~run[w].first_sce_stat
    BY <1>1, <1>4, Zenon DEF TallyOK
  <2> QED
    BY <1>1, <1>4, <2>1, <2>2, <2>3, TallyNext, Zenon
<1>5. Only(w) /\ TallyOK(w)'
  <2>1. CASE ScenarioEnd(w)
    BY <1>2, <1>3, <2>1, Zenon DEF ScenarioEnd, AfterCount, Stop
  <2>2. CASE StopClear(w)
    <3>1. run[w].end # "REACHED"
      BY <1>1, <2>2, Zenon DEF WorkerOK, StopClear, At
    <3> QED
      BY <1>3, <2>2, <3>1, Zenon DEF StopClear
  <2>3. CASE AbortTest(w)
    <3>1. run[w].end # "REACHED"
      BY <1>1, <2>3, Zenon DEF WorkerOK, AbortTest, At
    <3> QED
      BY <1>2, <1>4, <2>3, <3>1, Zenon DEF AbortTest
  <2> QED
    BY <2>1, <2>2, <2>3, Zenon
<1> QED
  BY <1>1, <1>5, TallyQuiet, Zenon

(* TallyInv is inductive.                                                  *)
LEMMA TallyStep ==
  ASSUME LocalInv, TallyInv, [Next]_vars PROVE TallyInv'
<1>1. tcAbortScenario' = tcAbortScenario
  BY AbortSetting, Zenon
<1>2. CASE Load \/ Tick \/ CtrlC \/ tEnd \/ MainEnds \/ UNCHANGED vars
  <2>1. (\A c \in Ctx : Sleeping(c)' <=> Sleeping(c)) /\ UNCHANGED <<run, memory>>
    BY <1>2, SleepersAround, Zenon
  <2> QED
    BY <1>1, <2>1, Zenon DEF TallyInv, TallyOK, TallyKept, MayCount
<1>3. ASSUME NEW w \in Worker, WorkerStep(w) PROVE TallyInv'
  BY <1>1, <1>3, TallyHead, TallyResume, TallyPlay, TallyWait, TallyAfter, Zenon
  DEF WorkerStep, Play
<1> QED
  BY <1>2, <1>3, Zenon DEF Next

-----------------------------------------------------------------------------
(* CountInv.  What a single thing adds to a count.                         *)
One(b) == IF b THEN 1 ELSE 0

(* Two sets that differ in one thing at most: how their sizes differ.      *)
LEMMA CardMove ==
  ASSUME NEW S, NEW T, NEW x, IsFiniteSet(S), T \ {x} = S \ {x}
  PROVE  /\ IsFiniteSet(T) /\ Cardinality(S) \in Nat /\ Cardinality(T) \in Nat
         /\ Cardinality(T) = Cardinality(S) + One(x \in T) - One(x \in S)
<1>1. Cardinality(S) \in Nat
  BY FS_CardinalityType, Zenon
<1>2. CASE x \in S /\ x \notin T
  <2>1. T = S \ {x}
    BY <1>2, Zenon
  <2> QED
    BY <1>1, <1>2, <2>1, FS_RemoveElement, FS_CardinalityType, SMTT(30) DEF One
<1>3. CASE x \notin S /\ x \in T
  <2>1. T = S \cup {x}
    BY <1>3, Zenon
  <2> QED
    BY <1>1, <1>3, <2>1, FS_AddElement, FS_CardinalityType, SMTT(30) DEF One
<1>4. CASE x \in S <=> x \in T
  <2>1. T = S
    BY <1>4, SMTT(30)
  <2> QED
    BY <1>1, <1>4, <2>1, SMTT(30) DEF One
<1> QED
  BY <1>2, <1>3, <1>4, Zenon

(* The scenarios to count are finitely many.                               *)
LEMMA CountFinite ==
  ASSUME NEW s \in Sound
  PROVE  /\ IsFiniteSet(ToCount(s)) /\ Cardinality(ToCount(s)) \in Nat
         /\ IsFiniteSet(ToFail(s)) /\ Cardinality(ToFail(s)) \in Nat
         /\ IsFiniteSet(ToWake(s)) /\ Cardinality(ToWake(s)) \in Nat
<1>1. ToCount(s) \subseteq Worker /\ ToFail(s) \subseteq Worker /\ ToWake(s) \subseteq User
  BY Zenon DEF ToCount, ToFail, ToWake, Ctx
<1> QED
  BY <1>1, FiniteAssumption, FS_Subset, FS_CardinalityType, Zenon

(* The worker that makes a step is the one that changes sides.             *)
LEMMA CountMove ==
  ASSUME NEW w \in Worker, Only(w), NEW s \in Sound
  PROVE  /\ Cardinality(ToCount(s)') \in Nat /\ Cardinality(ToFail(s)') \in Nat
         /\ Cardinality(ToCount(s)') = Cardinality(ToCount(s))
              + One(InCount(run'[w], s)) - One(InCount(run[w], s))
         /\ Cardinality(ToFail(s)') = Cardinality(ToFail(s))
              + One(InFail(run'[w], s)) - One(InFail(run[w], s))
<1>1. /\ ToCount(s)' \ {w} = ToCount(s) \ {w}
      /\ w \in ToCount(s)' <=> InCount(run'[w], s)
      /\ w \in ToCount(s) <=> InCount(run[w], s)
  BY Zenon DEF ToCount, Only, InCount
<1>2. /\ ToFail(s)' \ {w} = ToFail(s) \ {w}
      /\ w \in ToFail(s)' <=> InFail(run'[w], s)
      /\ w \in ToFail(s) <=> InFail(run[w], s)
  BY Zenon DEF ToFail, Only, InFail
<1>3. /\ Cardinality(ToCount(s)') \in Nat
      /\ Cardinality(ToCount(s)') = Cardinality(ToCount(s))
           + One(w \in ToCount(s)') - One(w \in ToCount(s))
  BY <1>1, CountFinite, CardMove, SMTT(30)
<1>4. /\ Cardinality(ToFail(s)') \in Nat
      /\ Cardinality(ToFail(s)') = Cardinality(ToFail(s))
           + One(w \in ToFail(s)') - One(w \in ToFail(s))
  BY <1>2, CountFinite, CardMove, SMTT(30)
<1> QED
  BY <1>1, <1>2, <1>3, <1>4, Zenon DEF One

(* The context that a step puts to sleep or takes out of the timer.        *)
LEMMA WakeMove ==
  ASSUME NEW c \in Ctx, NEW s \in Sound,
         \A d \in Ctx \ {c} : asleep'[d] = asleep[d] /\ memory'[d] = memory[d]
  PROVE  /\ Cardinality(ToWake(s)') \in Nat
         /\ Cardinality(ToWake(s)') = Cardinality(ToWake(s))
              + One(Sleeping(c)' /\ memory'[c].sce = s) - One(Sleeping(c) /\ memory[c].sce = s)
<1>1. /\ ToWake(s)' \ {c} = ToWake(s) \ {c}
      /\ c \in ToWake(s)' <=> Sleeping(c)' /\ memory'[c].sce = s
      /\ c \in ToWake(s) <=> Sleeping(c) /\ memory[c].sce = s
  BY Zenon DEF ToWake, Sleeping
<1>2. /\ Cardinality(ToWake(s)') \in Nat
      /\ Cardinality(ToWake(s)') = Cardinality(ToWake(s))
           + One(c \in ToWake(s)') - One(c \in ToWake(s))
  BY <1>1, CountFinite, CardMove, SMTT(30)
<1> QED
  BY <1>1, <1>2, Zenon DEF One

(* The numbers that CountInv compares.                                     *)
LEMMA CountTypes ==
  ASSUME LocalInv, NEW s \in Sound
  PROVE  /\ stat[s]["cnt"] \in Nat /\ stat[s]["ko"] \in Nat
         /\ started[s] \in Nat /\ failed[s] \in Nat
         /\ Cnt(s) \in Nat /\ Ko(s) \in Nat
<1>1. /\ stat[s]["cnt"] \in Nat /\ stat[s]["ko"] \in Nat
      /\ started[s] \in Nat /\ failed[s] \in Nat
  BY LocalParts, Zenon DEF TypeRest, Counter
<1> QED
  BY <1>1, CountFinite, SMTT(30) DEF Cnt, Ko

(* What the workers that run s lose, the contexts that wait for it gain:   *)
(* its count stays.                                                        *)
LEMMA CountHandedOver ==
  ASSUME NEW s, NEW x \in Nat, NEW y \in Nat,
         stat[s]["cnt"] \in Nat, stat'[s]["cnt"] = stat[s]["cnt"],
         Cardinality(ToCount(s)) \in Nat, Cardinality(ToWake(s)) \in Nat,
         Cardinality(ToCount(s)') = Cardinality(ToCount(s)) + y - x,
         Cardinality(ToWake(s)') = Cardinality(ToWake(s)) + x - y
  PROVE  Cnt(s)' = Cnt(s)
  BY SMTT(30) DEF Cnt

(* A step that counts nothing, and starts and fails what it says.          *)
LEMMA CountWorker ==
  ASSUME LocalInv, CountInv, tcAbortScenario, NEW w \in Worker, Only(w),
         UNCHANGED <<asleep, memory, stat, overlap>>,
         \A s \in Sound :
           /\ started'[s] = started[s]
                + One(InCount(run'[w], s)) - One(InCount(run[w], s))
           /\ failed'[s] = failed[s] + One(InFail(run'[w], s)) - One(InFail(run[w], s))
  PROVE  CountInv'
<1> SUFFICES ASSUME NEW s \in Sound
             PROVE  /\ Cnt(s)' <= started'[s] /\ Ko(s)' <= failed'[s]
                    /\ ~overlap' => Cnt(s)' = started'[s] /\ Ko(s)' = failed'[s]
  BY Zenon DEF CountInv
<1>1. ToWake(s)' = ToWake(s)
  BY Zenon DEF ToWake, Sleeping
<1>2. /\ Cnt(s)' = Cnt(s) + One(InCount(run'[w], s)) - One(InCount(run[w], s))
      /\ Ko(s)' = Ko(s) + One(InFail(run'[w], s)) - One(InFail(run[w], s))
  BY <1>1, CountMove, CountFinite, CountTypes, SMTT(30) DEF Cnt, Ko, One
<1>3. /\ Cnt(s) <= started[s] /\ Ko(s) <= failed[s]
      /\ ~overlap => Cnt(s) = started[s] /\ Ko(s) = failed[s]
  BY Zenon DEF CountInv
<1> QED
  BY <1>2, <1>3, CountTypes, SMTT(30) DEF One

(* The worker is not in the accounts before nor after.                     *)
LEMMA CountNone ==
  ASSUME LocalInv, CountInv, tcAbortScenario, NEW w \in Worker, Only(w),
         UNCHANGED <<asleep, memory, stat, overlap, started, failed>>,
         run[w].at \notin {"act", "count"} \/ (run[w].user = NULL /\ run[w].at = "act"),
         run'[w].at \notin {"act", "count"} \/ (run'[w].user = NULL /\ run'[w].at = "act")
  PROVE  CountInv'
<1>1. \A s \in Sound : /\ ~InCount(run[w], s) /\ ~InCount(run'[w], s)
                       /\ ~InFail(run[w], s) /\ ~InFail(run'[w], s)
  BY Zenon DEF InCount, InFail
<1>2. \A s \in Sound : started[s] \in Nat /\ failed[s] \in Nat
  BY CountTypes, Zenon
<1> QED
  BY <1>1, <1>2, CountWorker, SMTT(30) DEF One

(* The head of the loop keeps CountInv.                                    *)
LEMMA CountHead ==
  ASSUME LocalInv, Running, CountInv, tcAbortScenario,
         NEW w \in Worker, NothingDue(w) \/ TestEnding(w)
  PROVE  CountInv'
<1>1. UNCHANGED <<asleep, memory, stat, overlap, started, failed>> /\ TypeOK
  BY LocalParts, Zenon DEF NothingDue, TestEnding, timerVars, histVars
<1>2. run[w].at \notin {"act", "count"}
  BY Zenon DEF NothingDue, TestEnding, At
<1>3. ASSUME NEW p \in {"poll", "ending?", "finished"}, Goto(w, p) PROVE CountInv'
  <2>1. /\ Only(w)
        /\ LET r == run[w] IN
           Became(run'[w], p, r.sce, r.action, r.user, r.first_sce_stat, r.end, r.next,
                  r.tally)
    BY <1>1, <1>3, GotoEffect, RecFields, Zenon DEF Where
  <2>2. run'[w].at \notin {"act", "count"}
    BY <2>1, Zenon DEF Became
  <2> QED
    BY <1>1, <1>2, <2>1, <2>2, CountNone, Zenon
<1>4. ASSUME NEW s \in tSceGet,
             run' = [run EXCEPT ![w] = [Idle EXCEPT !.at = "act", !.sce = s]]
      PROVE  CountInv'
  <2>1. s \in Sound
    <3>1. sceOccurenceTab \in Seq(Sound) /\ Len(sceOccurenceTab) = Places
      BY Zenon DEF LocalInv, TypeOK, SceTypeOK, Running
    <3> QED
      BY <3>1, SMTT(30) DEF tSceGet
  <2>2. Only(w) /\ Became(run'[w], "act", s, 1, NULL, TRUE, "NOT_REACHED", 0, 0)
    BY <1>1, <1>4, <2>1, DrawEffect, RecFields, Zenon
  <2>3. run'[w].user = NULL /\ run'[w].at = "act"
    BY <2>2, Zenon DEF Became
  <2> QED
    BY <1>1, <1>2, <2>2, <2>3, CountNone, Zenon
<1> QED
  BY <1>3, <1>4, Zenon DEF NothingDue, TestEnding

(* A worker that plays a scenario with a user is in the accounts.          *)
LEMMA CountActing ==
  ASSUME LocalInv, TallyInv, tcAbortScenario, NEW w \in Worker, At(w, "act"),
         Action(w) # "SCE_Begin"
  PROVE  /\ run[w].sce \in Sound /\ run[w].user # NULL /\ run[w].first_sce_stat
         /\ run[w].tally = 0 /\ run[w].end = "NOT_REACHED"
         /\ \A s \in Sound : /\ InCount(run[w], s) <=> s = run[w].sce
                             /\ ~InFail(run[w], s)
<1>1. /\ run[w].sce \in Sound /\ run[w].user # NULL /\ run[w].at = "act"
      /\ run[w].end = "NOT_REACHED"
  BY BusyFacts, NullAssumption, Zenon DEF At, Busy, WorkerOK
<1>2. run[w].first_sce_stat
  BY Zenon DEF TallyInv, TallyOK, At
<1>3. run[w].tally = 0
  BY <1>2, TallyRoom, SMTT(30) DEF At, Busy
<1> QED
  BY <1>1, <1>2, <1>3, Zenon DEF InCount, InFail

(* A worker that stays in the accounts of its scenario.                    *)
LEMMA CountStays ==
  ASSUME LocalInv, TallyInv, CountInv, tcAbortScenario, NEW w \in Worker, At(w, "act"),
         Action(w) # "SCE_Begin", Only(w),
         UNCHANGED <<asleep, memory, stat, overlap, started, failed>>,
         run'[w].sce = run[w].sce, run'[w].user = run[w].user,
         run'[w].at = "act" \/ (run'[w].at = "count" /\ run'[w].end = "REACHED")
  PROVE  CountInv'
<1>1. \A s \in Sound : /\ InCount(run'[w], s) <=> InCount(run[w], s)
                       /\ ~InFail(run'[w], s) /\ ~InFail(run[w], s)
  BY CountActing, Zenon DEF InCount, InFail
<1>2. \A s \in Sound : started[s] \in Nat /\ failed[s] \in Nat
  BY CountTypes, Zenon
<1> QED
  BY <1>1, <1>2, CountWorker, SMTT(30) DEF One

(* A worker whose scenario fails.                                          *)
LEMMA CountFails ==
  ASSUME LocalInv, TallyInv, CountInv, tcAbortScenario, NEW w \in Worker, At(w, "act"),
         Action(w) # "SCE_Begin", NEW e \in {"NOT_REACHED", "SUSPENDED"}, Fails(w, e),
         UNCHANGED <<asleep, memory, stat, overlap, started>>
  PROVE  CountInv'
<1>1. /\ run[w].sce \in Sound /\ run[w].user # NULL /\ run[w].first_sce_stat
      /\ run[w].tally = 0
  BY CountActing, Zenon
<1>2. /\ Only(w)
      /\ LET r == run[w] IN
         Became(run'[w], "count", r.sce, r.action, r.user, FALSE, e, 0, r.tally + 1)
  BY <1>1, LocalParts, FailsEffect, RecFields, Zenon
<1>3. /\ run'[w].at = "count" /\ run'[w].sce = run[w].sce /\ run'[w].user = run[w].user
      /\ run'[w].end # "REACHED"
  BY <1>2, Zenon DEF Became
<1>4. failed' = [failed EXCEPT ![run[w].sce] = @ + 1] /\ failed \in [Sound -> Nat]
  BY <1>1, LocalParts, Zenon DEF Fails, TypeRest
<1>5. \A s \in Sound : /\ InCount(run'[w], s) <=> s = run[w].sce
                       /\ InFail(run'[w], s) <=> s = run[w].sce
  BY <1>1, <1>3, Zenon DEF InCount, InFail
<1>6. \A s \in Sound :
        /\ started'[s] = started[s] + One(InCount(run'[w], s)) - One(InCount(run[w], s))
        /\ failed'[s] = failed[s] + One(InFail(run'[w], s)) - One(InFail(run[w], s))
  <2> TAKE s \in Sound
  <2>1. started[s] \in Nat /\ failed[s] \in Nat
    BY CountTypes, Zenon
  <2>2. failed'[s] = IF s = run[w].sce THEN failed[s] + 1 ELSE failed[s]
    BY <1>4, Zenon
  <2> QED
    BY <1>5, <2>1, <2>2, CountActing, SMTT(30) DEF One
<1> QED
  BY <1>2, <1>6, CountWorker, Zenon

(* A context that goes to sleep or wakes up, with the scenario s, on the   *)
(* other side of the accounts from the worker.                             *)
LEMMA CountCtx ==
  ASSUME LocalInv, CountInv, tcAbortScenario, NEW w \in Worker, Only(w), NEW c \in Ctx,
         \A d \in Ctx \ {c} : asleep'[d] = asleep[d] /\ memory'[d] = memory[d],
         UNCHANGED <<stat, overlap, started, failed>>,
         \A s \in Sound :
           /\ One(Sleeping(c)' /\ memory'[c].sce = s) - One(Sleeping(c) /\ memory[c].sce = s)
              = One(InCount(run[w], s)) - One(InCount(run'[w], s))
           /\ ~InFail(run[w], s) /\ ~InFail(run'[w], s)
  PROVE  CountInv'
<1> SUFFICES ASSUME NEW s \in Sound
             PROVE  /\ Cnt(s)' <= started'[s] /\ Ko(s)' <= failed'[s]
                    /\ ~overlap' => Cnt(s)' = started'[s] /\ Ko(s)' = failed'[s]
  BY Zenon DEF CountInv
<1>1. Cardinality(ToWake(s)')
      = Cardinality(ToWake(s)) + One(InCount(run[w], s)) - One(InCount(run'[w], s))
  BY WakeMove, CountFinite, Zenon DEF One
<1>2. /\ Cardinality(ToCount(s)') = Cardinality(ToCount(s))
           + One(InCount(run'[w], s)) - One(InCount(run[w], s))
      /\ Cardinality(ToFail(s)') = Cardinality(ToFail(s)) + 0 - 0
  BY CountMove, Zenon DEF One
<1>3. /\ Cardinality(ToCount(s)) \in Nat /\ Cardinality(ToFail(s)) \in Nat
      /\ Cardinality(ToWake(s)) \in Nat
      /\ stat[s]["cnt"] \in Nat /\ stat[s]["ko"] \in Nat
  BY CountFinite, CountTypes, Zenon
<1>4. One(InCount(run[w], s)) \in Nat /\ One(InCount(run'[w], s)) \in Nat
  BY SMT DEF One
<1>5. stat'[s]["cnt"] = stat[s]["cnt"] /\ stat'[s]["ko"] = stat[s]["ko"]
  BY Zenon
<1>6. Cnt(s)' = Cnt(s)
  BY <1>1, <1>2, <1>3, <1>4, <1>5, CountHandedOver, Zenon
<1>7. Ko(s)' = Ko(s)
  BY <1>2, <1>3, <1>5, PlusNone, Zenon DEF Ko
<1> QED
  BY <1>6, <1>7, Zenon DEF CountInv

(* Resume keeps CountInv.                                                  *)
LEMMA CountResume ==
  ASSUME LocalInv, CountInv, tcAbortScenario, NEW w \in Worker, NEW c \in Ctx, Resume(w, c)
  PROVE  CountInv'
<1>1. /\ Only(w) /\ memory[c] # NULL /\ Sleeping(c)
      /\ Became(run'[w], "act", memory[c].sce, memory[c].action + 1, memory[c].user,
                TRUE, "NOT_REACHED", 0, memory[c].tally)
  BY ResumeEffect, RecFields, Zenon
<1>2. /\ run'[w].at = "act" /\ run'[w].sce = memory[c].sce
      /\ run'[w].user = memory[c].user
  BY <1>1, Zenon DEF Became
<1>3. memory[c].user # NULL
  <2>1. memory[c].user \in User
    BY <1>1, LocalParts, Zenon DEF TypeRest
  <2> QED
    BY <2>1, NullAssumption, Zenon
<1>4. /\ TypeRest /\ asleep' = [asleep EXCEPT ![c] = Awake]
      /\ memory' = [memory EXCEPT ![c] = NULL]
      /\ UNCHANGED <<stat, overlap, started, failed>>
  BY LocalParts, Zenon DEF Resume, Timer!Resume, histVars
<1>5. /\ \A d \in Ctx \ {c} : asleep'[d] = asleep[d] /\ memory'[d] = memory[d]
      /\ ~Sleeping(c)'
  BY <1>4, MarksAssumption, Zenon DEF TypeRest, Sleeping
<1>6. \A s \in Sound : /\ ~InCount(run[w], s) /\ ~InFail(run[w], s) /\ ~InFail(run'[w], s)
                       /\ InCount(run'[w], s) <=> memory[c].sce = s
  BY <1>2, <1>3, Zenon DEF InCount, InFail, Resume, At
<1>7. \A s \in Sound :
        One(Sleeping(c)' /\ memory'[c].sce = s) - One(Sleeping(c) /\ memory[c].sce = s)
        = One(InCount(run[w], s)) - One(InCount(run'[w], s))
  BY <1>1, <1>5, <1>6, Zenon DEF One
<1> QED
  BY <1>1, <1>4, <1>5, <1>6, <1>7, CountCtx, Zenon

(* SCE_Wait keeps CountInv.                                                *)
LEMMA CountWait ==
  ASSUME LocalInv, TallyInv, CountInv, tcAbortScenario, NEW w \in Worker, At(w, "act"),
         SCE_Wait(w)
  PROVE  CountInv'
<1>1. Action(w) # "SCE_Begin" /\ UNCHANGED <<stat, overlap, started>>
  BY Zenon DEF SCE_Wait, Plays
<1>2. CASE Fails(w, "SUSPENDED") /\ UNCHANGED <<timerVars, memory>>
  BY <1>1, <1>2, CountFails, Zenon DEF timerVars
<1>3. ASSUME FreeCtx # {}, NEW n \in 1 .. MaxSleep, Timer!Sleep(NewCtx, n),
             memory' = [memory EXCEPT ![NewCtx] =
               [sce |-> run[w].sce, action |-> run[w].action, user |-> run[w].user,
                tally |-> run[w].tally]],
             Leave(w), UNCHANGED failed
      PROVE  CountInv'
  <2>1. PICK c \in Ctx, m \in 0 .. MaxSleep :
           /\ ~Sleeping(c) /\ asleep' = [asleep EXCEPT ![c] = m]
           /\ memory' = [memory EXCEPT ![c] =
                [sce |-> run[w].sce, action |-> run[w].action, user |-> run[w].user,
                 tally |-> run[w].tally]]
    BY <1>3, WaitEffect, Zenon
  <2>2. Only(w) /\ Rests(run'[w])
    BY <1>3, LocalParts, LeaveEffect, IdleRests, Zenon
  <2>3. run'[w].at = "poll"
    BY <2>2, Zenon DEF Rests
  <2>4. /\ \A d \in Ctx \ {c} : asleep'[d] = asleep[d] /\ memory'[d] = memory[d]
        /\ Sleeping(c)' /\ memory'[c].sce = run[w].sce
    <3>1. TypeRest
      BY LocalParts, Zenon
    <3> QED
      BY <2>1, <3>1, Zenon DEF TypeRest, Sleeping
  <2>5. \A s \in Sound :
          /\ ~InCount(run'[w], s) /\ ~InFail(run[w], s) /\ ~InFail(run'[w], s)
          /\ InCount(run[w], s) <=> memory'[c].sce = s
    BY <1>1, <2>3, <2>4, CountActing, Zenon DEF InCount, InFail
  <2>6. \A s \in Sound :
          One(Sleeping(c)' /\ memory'[c].sce = s) - One(Sleeping(c) /\ memory[c].sce = s)
          = One(InCount(run[w], s)) - One(InCount(run'[w], s))
    BY <2>1, <2>4, <2>5, Zenon DEF One
  <2> QED
    BY <1>1, <1>3, <2>2, <2>4, <2>5, <2>6, CountCtx, Zenon
<1> QED
  BY <1>2, <1>3, Zenon DEF SCE_Wait

(* SCE_Begin keeps CountInv.                                               *)
LEMMA CountBegin ==
  ASSUME LocalInv, CountInv, tcAbortScenario, NEW w \in Worker, At(w, "act"), SCE_Begin(w)
  PROVE  CountInv'
<1>1. /\ UNCHANGED <<asleep, memory, stat, overlap, failed>> /\ TypeOK
      /\ run[w].user = NULL /\ run[w].at = "act" /\ run[w].sce \in Sound
  BY LocalParts, BusyFacts, Zenon DEF SCE_Begin, Plays, At, Busy, WorkerOK, timerVars
<1>2. CASE Leave(w) /\ UNCHANGED <<userVars, started>>
  <2>1. Only(w) /\ Rests(run'[w])
    BY <1>1, <1>2, LeaveEffect, IdleRests, Zenon
  <2>2. run'[w].at \notin {"act", "count"}
    BY <2>1, Zenon DEF Rests
  <2> QED
    BY <1>1, <1>2, <2>1, <2>2, CountNone, Zenon
<1>3. ASSUME NEW g \in User, run' = [run EXCEPT ![w].user = g, ![w].action = @ + 1],
             started' = [started EXCEPT ![run[w].sce] = @ + 1]
      PROVE  CountInv'
  <2>1. /\ Only(w)
        /\ LET r == run[w] IN
           Became(run'[w], r.at, r.sce, r.action + 1, g, r.first_sce_stat, r.end, r.next,
                  r.tally)
    BY <1>1, <1>3, BeginEffect, RecFields, Zenon
  <2>2. /\ run'[w].at = "act" /\ run'[w].sce = run[w].sce /\ run'[w].user # NULL
    BY <1>1, <2>1, NullAssumption, Zenon DEF Became
  <2>3. \A s \in Sound : /\ ~InCount(run[w], s) /\ ~InFail(run[w], s) /\ ~InFail(run'[w], s)
                         /\ InCount(run'[w], s) <=> s = run[w].sce
    BY <1>1, <2>2, Zenon DEF InCount, InFail
  <2>4. \A s \in Sound :
          /\ started'[s] = started[s]
               + One(InCount(run'[w], s)) - One(InCount(run[w], s))
          /\ failed'[s] = failed[s] + One(InFail(run'[w], s)) - One(InFail(run[w], s))
    <3> TAKE s \in Sound
    <3>1. started[s] \in Nat /\ failed[s] \in Nat
      BY CountTypes, Zenon
    <3>2. started'[s] = IF s = run[w].sce THEN started[s] + 1 ELSE started[s]
      BY <1>3, LocalParts, Zenon DEF TypeRest
    <3> QED
      BY <1>1, <2>3, <3>1, <3>2, SMTT(30) DEF One
  <2> QED
    BY <1>1, <2>1, <2>4, CountWorker, Zenon
<1> QED
  BY <1>2, <1>3, Zenon DEF SCE_Begin

(* The other actions of a scenario keep CountInv.                          *)
LEMMA CountPlay ==
  ASSUME LocalInv, TallyInv, CountInv, tcAbortScenario, NEW w \in Worker, At(w, "act"),
         SCE_End(w) \/ AbortedUser(w) \/ Request(w) \/ AccountOn(w)
  PROVE  CountInv'
<1>1. /\ UNCHANGED <<asleep, memory, stat, overlap, started>> /\ TypeOK
      /\ Action(w) # "SCE_Begin" /\ run[w].at = "act"
  BY LocalParts, Zenon
  DEF SCE_End, AbortedUser, Request, AccountOn, Plays, RADIUS_Rq, timerVars, histVars, At
<1>2. ASSUME Reached(w), UNCHANGED failed PROVE CountInv'
  <2>1. Uncounted(w)
    BY <1>1, CountActing, Zenon DEF Uncounted
  <2>2. /\ Only(w)
        /\ LET r == run[w] IN
           Became(run'[w], "count", r.sce, r.action, r.user, r.first_sce_stat, "REACHED",
                  r.next, r.tally + 1)
    BY <1>1, <1>2, <2>1, ReachedEffect, RecFields, Zenon
  <2>3. /\ run'[w].sce = run[w].sce /\ run'[w].user = run[w].user
        /\ run'[w].at = "count" /\ run'[w].end = "REACHED"
    BY <2>2, Zenon DEF Became
  <2> QED
    BY <1>1, <1>2, <2>2, <2>3, CountStays, Zenon
<1>3. ASSUME GoOn(w), UNCHANGED failed PROVE CountInv'
  <2>1. /\ Only(w)
        /\ LET r == run[w] IN
           Became(run'[w], r.at, r.sce, r.action + 1, r.user, r.first_sce_stat, r.end, 0,
                  r.tally)
    BY <1>1, <1>3, GoOnEffect, RecFields, Zenon
  <2>2. /\ run'[w].sce = run[w].sce /\ run'[w].user = run[w].user
        /\ run'[w].at = "act"
    BY <1>1, <2>1, Zenon DEF Became
  <2> QED
    BY <1>1, <1>3, <2>1, <2>2, CountStays, Zenon
<1>4. ASSUME run' = [run EXCEPT ![w].next = run[w].next + 1], UNCHANGED failed
      PROVE  CountInv'
  <2>0. run[w].next + 1 \in Nat
    BY BusyFacts, RecEta, SMTT(30) DEF At, Busy
  <2>1. /\ Only(w)
        /\ LET r == run[w] IN
           run'[w] = Rec(r.at, r.sce, r.action, r.user, r.first_sce_stat, r.end,
                         r.next + 1, r.tally)
    BY <1>1, <1>4, <2>0, AccountEffect, Zenon
  <2>2. /\ run'[w].sce = run[w].sce /\ run'[w].user = run[w].user
        /\ run'[w].at = "act"
    <3> DEFINE r == run[w]
               q == Rec(r.at, r.sce, r.action, r.user, r.first_sce_stat, r.end,
                        r.next + 1, r.tally)
    <3>1. q.at = r.at /\ q.sce = r.sce /\ q.user = r.user
      BY Zenon DEF Rec
    <3>2. run'[w] = q
      BY <2>1, Zenon
    <3> HIDE DEF q
    <3> QED
      BY <1>1, <3>1, <3>2, Zenon DEF At
  <2> QED
    BY <1>1, <1>4, <2>1, <2>2, CountStays, Zenon
<1>5. CASE SCE_End(w) \/ AbortedUser(w)
  BY <1>2, <1>5, Zenon DEF SCE_End, AbortedUser, histVars
<1>6. CASE Request(w) \/ AccountOn(w)
  BY <1>1, <1>3, <1>4, <1>6, CountFails, Zenon DEF Request, AccountOn, Outcome
<1> QED
  BY <1>5, <1>6, Zenon

(* ScenarioEnd keeps CountInv: what it takes from the accounts it adds to  *)
(* the counters, or less if another worker counts the same scenario.       *)
LEMMA CountEnd ==
  ASSUME LocalInv, CountInv, tcAbortScenario, NEW w \in Worker, ScenarioEnd(w)
  PROVE  CountInv'
<1>1. /\ UNCHANGED <<asleep, memory, started, failed>> /\ TypeOK /\ run[w].at = "count"
      /\ run[w].sce \in Sound /\ run[w].user # NULL
  BY LocalParts, BusyFacts, NullAssumption, Zenon DEF ScenarioEnd, timerVars, histVars, At, Busy
<1>2. Only(w) /\ run'[w].at \notin {"act", "count"}
  <2>1. CASE AfterCount(w) = "poll"
    <3>1. Only(w) /\ Rests(run'[w])
      BY <1>1, <2>1, LeaveEffect, IdleRests, Zenon DEF ScenarioEnd
    <3> QED
      BY <3>1, Zenon DEF Rests
  <2>2. CASE AfterCount(w) # "poll"
    <3>1. PICK p \in {"clear", "abort?"} : Goto(w, p)
      BY <2>2, Zenon DEF ScenarioEnd, AfterCount, Stop
    <3>2. /\ Only(w)
          /\ LET r == run[w] IN
             Became(run'[w], p, r.sce, r.action, r.user, r.first_sce_stat, r.end, r.next,
                    r.tally)
      BY <1>1, <3>1, GotoEffect, RecFields, Zenon DEF Where
    <3> QED
      BY <3>2, Zenon DEF Became
  <2> QED
    BY <2>1, <2>2, Zenon
<1>3. PICK lost \in SUBSET Counts(w) :
        /\ stat' = [stat EXCEPT ![run[w].sce] =
             [k \in Counter |-> IF k \in Counts(w) \ lost THEN @[k] + 1 ELSE @[k]]]
        /\ lost # {} => Racing(w)
  BY Zenon DEF ScenarioEnd
<1>4. overlap' <=> overlap \/ Racing(w)
  BY Zenon DEF ScenarioEnd
<1> SUFFICES ASSUME NEW s \in Sound
             PROVE  /\ Cnt(s)' <= started'[s] /\ Ko(s)' <= failed'[s]
                    /\ ~overlap' => Cnt(s)' = started'[s] /\ Ko(s)' = failed'[s]
  BY Zenon DEF CountInv
<1>5. /\ InCount(run[w], s) <=> s = run[w].sce
      /\ InFail(run[w], s) <=> s = run[w].sce /\ run[w].end # "REACHED"
      /\ ~InCount(run'[w], s) /\ ~InFail(run'[w], s)
  BY <1>1, <1>2, Zenon DEF InCount, InFail
<1>6. ToWake(s)' = ToWake(s)
  BY <1>1, Zenon DEF ToWake, Sleeping
<1>7. stat \in [Sound -> [Counter -> Nat]] /\ "cnt" \in Counter /\ "ko" \in Counter
  BY LocalParts, Zenon DEF TypeRest, Counter
<1>8. CASE s = run[w].sce
  <2>1. stat'[s] = [k \in Counter |-> IF k \in Counts(w) \ lost
                                      THEN stat[s][k] + 1 ELSE stat[s][k]]
    BY <1>3, <1>7, <1>8, Zenon
  <2>2. /\ stat'[s]["cnt"] = stat[s]["cnt"] + One("cnt" \notin lost)
        /\ stat'[s]["ko"] = stat[s]["ko"] + One(run[w].end # "REACHED" /\ "ko" \notin lost)
    <3>1. "cnt" \in Counts(w) /\ ("ko" \in Counts(w) <=> run[w].end # "REACHED")
      BY Zenon DEF Counts, Counter
    <3>2. stat[s]["cnt"] \in Nat /\ stat[s]["ko"] \in Nat
      BY CountTypes, Zenon
    <3> QED
      BY <1>7, <2>1, <3>1, <3>2, SMTT(30) DEF One
  <2>3. /\ Cnt(s)' = Cnt(s) + One("cnt" \notin lost) - 1
        /\ Ko(s)' = Ko(s) + One(run[w].end # "REACHED" /\ "ko" \notin lost)
                          - One(run[w].end # "REACHED")
    BY <1>2, <1>5, <1>6, <1>8, <2>2, CountMove, CountFinite, CountTypes, SMTT(30) DEF Cnt, Ko, One
  <2>4. ~overlap' => lost = {} /\ ~overlap
    BY <1>3, <1>4, Zenon
  <2>5. /\ Cnt(s) <= started[s] /\ Ko(s) <= failed[s]
        /\ ~overlap => Cnt(s) = started[s] /\ Ko(s) = failed[s]
    BY Zenon DEF CountInv
  <2> QED
    BY <1>1, <2>3, <2>4, <2>5, CountTypes, SMTT(30) DEF One
<1>9. CASE s # run[w].sce
  <2>1. stat'[s] = stat[s]
    BY <1>3, <1>7, <1>9, Zenon
  <2>2. Cnt(s)' = Cnt(s) /\ Ko(s)' = Ko(s)
    <3>1. /\ Cardinality(ToCount(s)') = Cardinality(ToCount(s)) + 0 - 0
          /\ Cardinality(ToFail(s)') = Cardinality(ToFail(s)) + 0 - 0
      BY <1>2, <1>5, <1>9, CountMove, Zenon DEF One
    <3>2. /\ Cardinality(ToCount(s)') = Cardinality(ToCount(s))
          /\ Cardinality(ToFail(s)') = Cardinality(ToFail(s))
      BY <3>1, CountFinite, SMTT(30)
    <3> QED
      BY <1>6, <2>1, <3>2, Zenon DEF Cnt, Ko
  <2> QED
    BY <1>1, <1>4, <2>2, Zenon DEF CountInv
<1> QED
  BY <1>8, <1>9, Zenon

(* The stop on error and the abort of the scenario keep CountInv.          *)
LEMMA CountAfter ==
  ASSUME LocalInv, CountInv, tcAbortScenario, NEW w \in Worker, StopClear(w) \/ AbortTest(w)
  PROVE  CountInv'
<1>1. /\ UNCHANGED <<asleep, memory, stat, overlap, started, failed>> /\ TypeOK
      /\ run[w].at \notin {"act", "count"}
  BY LocalParts, Zenon DEF StopClear, AbortTest, timerVars, histVars, At
<1>2. CASE StopClear(w)
  <2>1. /\ Only(w)
        /\ LET r == run[w] IN
           run'[w] = Rec("abort?", r.sce, r.action, r.user, r.first_sce_stat, r.end, r.next,
                         r.tally)
    BY <1>1, <1>2, GotoEffect, Zenon DEF Where, StopClear
  <2>2. run'[w].at \notin {"act", "count"}
    <3> DEFINE r == run[w]
               q == Rec("abort?", r.sce, r.action, r.user, r.first_sce_stat, r.end, r.next,
                        r.tally)
    <3>1. q.at = "abort?"
      BY Zenon DEF Rec
    <3>2. run'[w] = q
      BY <2>1, Zenon
    <3> HIDE DEF q
    <3> QED
      BY <3>1, <3>2, Zenon
  <2> QED
    BY <1>1, <2>1, <2>2, CountNone, Zenon
<1>3. CASE AbortTest(w)
  <2>1. Only(w) /\ Rests(run'[w])
    BY <1>1, <1>3, LeaveEffect, IdleRests, Zenon DEF AbortTest
  <2>2. run'[w].at \notin {"act", "count"}
    BY <2>1, Zenon DEF Rests
  <2> QED
    BY <1>1, <2>1, <2>2, CountNone, Zenon
<1> QED
  BY <1>2, <1>3, Zenon

(* CountInv is inductive.                                                  *)
LEMMA CountStep ==
  ASSUME LocalInv, TallyInv, CountInv, [Next]_vars PROVE CountInv'
<1>1. tcAbortScenario' = tcAbortScenario
  BY AbortSetting, Zenon
<1>2. CASE ~tcAbortScenario
  BY <1>1, <1>2, Zenon DEF CountInv
<1>3. CASE tcAbortScenario /\ (Load \/ Tick \/ CtrlC \/ tEnd \/ MainEnds \/ UNCHANGED vars)
  <2>1. (\A c \in Ctx : Sleeping(c)' <=> Sleeping(c)) /\ UNCHANGED <<run, memory>>
    BY <1>3, SleepersAround, Zenon
  <2>2. UNCHANGED <<stat, overlap, started, failed>>
    BY <1>3, Zenon DEF Load, Tick, CtrlC, tEnd, MainEnds, vars, histVars
  <2>3. \A s \in Sound : Cnt(s)' = Cnt(s) /\ Ko(s)' = Ko(s)
    <3> TAKE s \in Sound
    <3>1. ToCount(s)' = ToCount(s) /\ ToFail(s)' = ToFail(s)
      BY <2>1, Zenon DEF ToCount, ToFail
    <3>2. ToWake(s)' = ToWake(s)
      BY <2>1, Zenon DEF ToWake
    <3> QED
      BY <2>2, <3>1, <3>2, Zenon DEF Cnt, Ko
  <2> QED
    BY <1>3, <2>2, <2>3, Zenon DEF CountInv
<1>4. ASSUME tcAbortScenario, NEW w \in Worker, WorkerStep(w) PROVE CountInv'
  BY <1>4, CountHead, CountResume, CountBegin, CountWait, CountPlay, CountEnd, CountAfter, Zenon
  DEF WorkerStep, Play
<1> QED
  BY <1>2, <1>3, <1>4, Zenon DEF Next

(* Nothing has been started nor counted at the start.                      *)
LEMMA AccountInit ==
  ASSUME Init PROVE EndInv /\ TallyInv /\ CountInv
<1>1. \A w \in Worker : run[w] = IdleAt("poll")
  BY IdleRec, Zenon DEF Init
<1>2. \A w \in Worker : run[w].at = "poll"
  BY <1>1, SMTT(30) DEF IdleAt, Rec
<1>3. \A c \in Ctx : ~Sleeping(c)
  BY MarksAssumption, Zenon DEF Init, Timer!Init, Sleeping
<1>4. EndInv
  BY <1>2, <1>3, Zenon DEF EndInv, Init, Timer!Init
<1>5. TallyInv
  BY <1>2, <1>3, Zenon DEF TallyInv, TallyOK, TallyKept, Busy
<1>6. CountInv
  <2> SUFFICES ASSUME NEW s \in Sound PROVE Cnt(s) = started[s] /\ Ko(s) = failed[s]
    <3>1. LocalInv
      BY LocalInit, Zenon
    <3> QED
      BY <3>1, CountTypes, SMTT(30) DEF CountInv
  <2>1. ToCount(s) = {} /\ ToFail(s) = {} /\ ToWake(s) = {}
    BY <1>2, <1>3, Zenon DEF ToCount, ToFail, ToWake, InCount, InFail
  <2>2. Cardinality(ToCount(s)) = 0 /\ Cardinality(ToFail(s)) = 0 /\ Cardinality(ToWake(s)) = 0
    BY <2>1, FS_EmptySet, Zenon
  <2>3. /\ stat[s]["cnt"] = 0 /\ stat[s]["ko"] = 0
        /\ started[s] = 0 /\ failed[s] = 0
    BY Zenon DEF Init, Counter
  <2> QED
    BY <2>2, <2>3, SMTT(30) DEF Cnt, Ko
<1> QED
  BY <1>4, <1>5, <1>6, Zenon

(* When the workers have finished, nothing is left to do.                  *)
LEMMA AccountImplies ==
  ASSUME LocalInv, HomeInv, EndInv, TallyInv, CountInv PROVE AllAccounted
<1>1. ASSUME NEW w \in Worker, run[w].sce # NULL
      PROVE  run[w].tally <= MayCount(run[w].sce, run[w].action - 1)
  <2>1. WorkerOK(w) /\ TallyOK(w)
    BY LocalParts, Zenon DEF TallyInv
  <2>2. run[w].at \in Busy
    BY <1>1, <2>1, SMTT(30) DEF WorkerOK, IdleAt, Rec
  <2> QED
    BY <2>1, <2>2, Zenon DEF TallyOK
<1>2. \A c \in Ctx : Sleeping(c) =>
        memory[c].tally <= MayCount(memory[c].sce, memory[c].action) - 1
  BY Zenon DEF TallyInv, TallyKept
<1>3. ASSUME Drained
      PROVE  /\ \A w \in Worker : run[w].at = "finished" /\ run[w].user = NULL
             /\ \A c \in Ctx : ~Sleeping(c)
             /\ taken = {}
  <2>1. \A w \in Worker : run[w].at = "finished" /\ run[w].user = NULL
    <3> SUFFICES ASSUME NEW w \in Worker PROVE run[w].at = "finished" /\ run[w].user = NULL
      BY Zenon
    <3>1. run[w].at = "finished" /\ WorkerOK(w)
      BY <1>3, LocalParts, Zenon DEF Drained
    <3>2. run[w] = IdleAt("finished")
      BY <3>1, Zenon DEF WorkerOK, Busy
    <3> QED
      BY <3>1, <3>2, SMTT(30) DEF IdleAt, Rec
  <2>2. PICK w \in Worker : TRUE
    BY <1>3, LocalParts, Zenon DEF Drained, TypeRest
  <2>3. closed
    BY <2>1, <2>2, Zenon DEF EndInv
  <2>4. \A c \in Ctx : ~Sleeping(c)
    BY <1>3, <2>1, <2>3, Zenon DEF EndInv, Drained
  <2>5. \A u \in User : u \notin taken \ stranded
    BY <2>1, <2>4, IdleHolds, Zenon DEF HomeInv, Keeps
  <2>6. taken = {}
    BY <1>3, <2>5, LocalParts, Zenon DEF Drained, TypeRest
  <2> QED
    BY <2>1, <2>4, <2>6, Zenon
<1>4. ASSUME Drained, tcAbortScenario, NEW s \in Sound
      PROVE  /\ stat[s]["cnt"] <= started[s] /\ stat[s]["ko"] <= failed[s]
             /\ ~overlap => stat[s]["cnt"] = started[s] /\ stat[s]["ko"] = failed[s]
  <2>1. ToCount(s) = {} /\ ToFail(s) = {} /\ ToWake(s) = {}
    BY <1>3, <1>4, Zenon DEF ToCount, ToFail, ToWake, InCount, InFail
  <2>2. Cardinality(ToCount(s)) = 0 /\ Cardinality(ToFail(s)) = 0 /\ Cardinality(ToWake(s)) = 0
    BY <2>1, FS_EmptySet, Zenon
  <2>3. Cnt(s) = stat[s]["cnt"] /\ Ko(s) = stat[s]["ko"]
    BY <2>2, CountTypes, SMTT(30) DEF Cnt, Ko
  <2> QED
    BY <1>4, <2>3, Zenon DEF CountInv
<1> QED
  BY <1>1, <1>2, <1>3, <1>4, Zenon DEF AllAccounted

(***************************************************************************)
(* Scenarios are accounted for: when the workers of tExec (texec.c) have   *)
(* finished, every user has been given back and the counters of the        *)
(* scenarios, if errors abort them, tell how many were started and failed, *)
(* for any number of workers, users and scenarios; a scenario is never     *)
(* counted more often than once and once more for each SCE_Wait.           *)
(***************************************************************************)
THEOREM ScenariosAccounted == Spec => []AllAccounted
<1> DEFINE Inv == LocalInv /\ HomeInv /\ EndInv /\ TallyInv /\ CountInv
<1>1. Init => Inv
  BY LocalInit, HomeInit, AccountInit, Zenon
<1>2. Inv /\ [Next]_vars => Inv'
  BY LocalStep, HomeStep, EndStep, TallyStep, CountStep, Zenon
<1>3. Inv => AllAccounted
  BY AccountImplies, Zenon
<1> QED
  BY <1>1, <1>2, <1>3, PTL DEF Spec
=============================================================================
