-------------------------- MODULE TLifecycleProofs --------------------------
(***************************************************************************)
(* Theorems about the life of tgen's threads (TLifecycle), for any number  *)
(* of workers and contexts, any size of the timer and any bound on the     *)
(* signals and the deaths.  The timer's own invariant is that of           *)
(* TTimerProofs.                                                           *)
(***************************************************************************)
EXTENDS TLifecycle, FiniteSetTheorems, SequenceTheorems, TLAPS

-----------------------------------------------------------------------------
(***************************************************************************)
(* The main thread's stack: main is at the bottom, each handler is there   *)
(* at most once.                                                           *)
(***************************************************************************)
StackInv ==
  /\ stack \in Seq(Frame) /\ Len(stack) >= 1
  /\ stack[1].proc = "main"
  /\ \A k \in 2 .. Len(stack) : stack[k].proc # "main"
  /\ \A k, l \in 1 .. Len(stack) : stack[k].proc = stack[l].proc => k = l

(* The stack is not deeper than the number of procedures.                  *)
LEMMA StackDepth ==
  ASSUME StackInv PROVE Len(stack) \in 1 .. 4
<1>1. Len(stack) \in Nat /\ Len(stack) >= 1
  BY LenProperties, Zenon DEF StackInv
<1>2. ASSUME Len(stack) >= 5 PROVE FALSE
  <2>1. {2, 3, 4, 5} \subseteq 2 .. Len(stack)
    BY <1>1, <1>2
  <2>2. \A k \in {2, 3, 4, 5} : stack[k].proc \in {"tBreak", "SIGURG", "SIGTSTP"}
    <3>1. \A k \in 2 .. Len(stack) : stack[k] \in Frame
      BY LenProperties DEF StackInv
    <3> QED
      BY <2>1, <3>1, Zenon DEF StackInv, Frame
  <2>3. \A k, l \in {2, 3, 4, 5} : k # l => stack[k].proc # stack[l].proc
    BY <2>1 DEF StackInv
  <2> QED
    BY <2>2, <2>3
<1>3. ASSUME NEW n \in Nat, n >= 1, ~(n >= 5) PROVE n \in 1 .. 4
  BY <1>3
<1> QED
  BY <1>1, <1>2, <1>3, Zenon

(* The running frame is main's exactly when nothing is above it.           *)
LEMMA RunningFrame ==
  ASSUME StackInv
  PROVE  /\ Len(stack) \in Nat \ {0} /\ Running = stack[Len(stack)] /\ Running \in Frame
         /\ stack[1] \in Frame
         /\ Running.proc = "main" <=> Len(stack) = 1
         /\ Len(stack) = 1 => Running = stack[1]
         /\ 1 \in Worker
<1>1. Len(stack) \in Nat \ {0} /\ stack \in [1 .. Len(stack) -> Frame]
  BY LenProperties DEF StackInv
<1>2. Running = stack[Len(stack)] /\ Running \in Frame /\ stack[1] \in Frame
  BY <1>1 DEF Running
<1>3. Running.proc = "main" <=> Len(stack) = 1
  BY <1>1, <1>2 DEF StackInv
<1> QED
  BY <1>1, <1>2, <1>3, ThreadAssumption DEF Worker

(* The stack without its running frame.                                    *)
LEMMA Below ==
  ASSUME StackInv
  PROVE  /\ Len(stack) \in Nat \ {0} /\ Pop \in Seq(Frame) /\ Len(Pop) = Len(stack) - 1
         /\ \A k \in 1 .. Len(stack) - 1 : Pop[k] = stack[k]
<1> DEFINE n == Len(stack) - 1
<1>1. Len(stack) \in Nat \ {0} /\ stack \in [1 .. Len(stack) -> Frame] /\ n \in Nat
  BY LenProperties DEF StackInv
<1>2. \A k \in 1 .. n : stack[k] \in Frame
  BY <1>1
<1> HIDE DEF n
<1>3. /\ SubSeq(stack, 1, n) \in Seq(Frame)
      /\ Len(SubSeq(stack, 1, n)) = IF 1 <= n THEN n - 1 + 1 ELSE 0
      /\ \A k \in 1 .. n - 1 + 1 : SubSeq(stack, 1, n)[k] = stack[1 + k - 1]
  BY <1>1, <1>2, SubSeqProperties
<1> QED
  BY <1>1, <1>3 DEF Pop, n

(* The running frame is changed.                                           *)
LEMMA FrameChanged ==
  ASSUME StackInv, NEW f \in Frame, f.proc = Running.proc, stack' = Append(Pop, f)
  PROVE  /\ StackInv' /\ Len(stack') = Len(stack) /\ stack'[Len(stack)] = f
         /\ Len(stack) > 1 => stack'[1] = stack[1]
<1> DEFINE n == Len(stack)
<1>1. n \in Nat \ {0} /\ stack \in Seq(Frame)
  BY DEF StackInv
<1>2. /\ stack' \in Seq(Frame) /\ Len(stack') = n
      /\ \A k \in 1 .. n : stack'[k] = IF k = n THEN f ELSE stack[k]
  BY <1>1, Below, AppendProperties
<1>3. \A k \in 1 .. n : stack'[k].proc = stack[k].proc
  BY <1>2, Zenon DEF Running
<1>4. StackInv'
  <2>1. n >= 1 /\ 1 \in 1 .. n /\ 2 .. n \subseteq 1 .. n
    BY <1>1
  <2>2. /\ stack[1].proc = "main"
        /\ \A k \in 2 .. n : stack[k].proc # "main"
        /\ \A k, l \in 1 .. n : stack[k].proc = stack[l].proc => k = l
    BY Zenon DEF StackInv
  <2> HIDE DEF n
  <2>3. /\ stack'[1].proc = "main"
        /\ \A k \in 2 .. n : stack'[k].proc # "main"
        /\ \A k, l \in 1 .. n : stack'[k].proc = stack'[l].proc => k = l
    BY <1>3, <2>1, <2>2, Zenon
  <2> QED
    BY <1>2, <2>1, <2>3, Zenon DEF StackInv
<1> HIDE DEF n
<1> QED
  BY <1>1, <1>2, <1>4 DEF n

(* A handler is called.                                                    *)
LEMMA FramePushed ==
  ASSUME StackInv, NEW f \in Frame, f.proc # "main", ~Calls(f.proc), stack' = Append(stack, f)
  PROVE  StackInv' /\ Len(stack') = Len(stack) + 1 /\ stack'[1] = stack[1]
<1> DEFINE n == Len(stack)
<1>1. n \in Nat \ {0} /\ stack \in Seq(Frame)
  BY DEF StackInv
<1>2. /\ stack' \in Seq(Frame) /\ Len(stack') = n + 1
      /\ \A k \in 1 .. n : stack'[k] = stack[k]
      /\ stack'[n + 1] = f
  BY <1>1
<1>3. \A k \in 1 .. n : stack[k].proc # f.proc
  BY <1>1 DEF Calls
<1> HIDE DEF n
<1>4. StackInv'
  BY <1>1, <1>2, <1>3 DEF StackInv, n
<1> QED
  BY <1>1, <1>2, <1>4 DEF n

(* A handler returns.                                                      *)
LEMMA FramePopped ==
  ASSUME StackInv, Running.proc # "main", stack' = Pop
  PROVE  StackInv' /\ Len(stack') = Len(stack) - 1 /\ stack'[1] = stack[1]
<1> DEFINE n == Len(stack)
<1>1. n \in Nat \ {0, 1} /\ stack \in Seq(Frame)
  BY RunningFrame, Zenon DEF StackInv
<1>2. /\ stack' \in Seq(Frame) /\ Len(stack') = n - 1
      /\ \A k \in 1 .. n - 1 : stack'[k] = stack[k]
  BY <1>1, Below, Zenon
<1> HIDE DEF n
<1>3. StackInv'
  BY <1>1, <1>2 DEF StackInv, n
<1> QED
  BY <1>1, <1>2, <1>3 DEF n

(* tEnd exits.                                                             *)
LEMMA FrameOnly ==
  ASSUME StackInv, NEW f \in Frame, f.proc = "main", stack' = <<f>>
  PROVE  StackInv' /\ Len(stack') = 1 /\ stack'[1] = f
BY DEF StackInv

(* The running procedure goes on elsewhere.                                *)
LEMMA AtFrame ==
  ASSUME StackInv, NEW p, [Running EXCEPT !.pc = p, !.i = 1] \in Frame, stack' = At(p)
  PROVE  /\ StackInv' /\ Len(stack') = Len(stack)
         /\ Len(stack) > 1 => stack'[1] = stack[1]
         /\ Len(stack) = 1 => stack'[1].pc = p /\ stack'[1].i = 1
<1>1. PICK f : f = [Running EXCEPT !.pc = p, !.i = 1]
  BY Zenon
<1>2. f \in Frame /\ f.proc = Running.proc /\ f.pc = p /\ f.i = 1
  BY <1>1, RunningFrame, Zenon DEF Frame
<1> QED
  BY <1>1, <1>2, FrameChanged, Zenon DEF At

(* One turn of a loop over the workers.                                    *)
LEMMA LoopFrame ==
  ASSUME StackInv, NEW s, NEW after, ForEachWorker(s, after)
  PROVE  /\ Running.i \in Worker /\ state' = [state EXCEPT ![Running.i] = s]
         /\ UNCHANGED <<timerVars, wpc, seen, nbSessionsClosed, killcalled, alarm>>
         /\ \/ stack' = after /\ Running.i = tcWThreadNb
            \/ /\ StackInv' /\ Len(stack') = Len(stack)
               /\ Len(stack) > 1 => stack'[1] = stack[1]
               /\ Len(stack) = 1 => /\ stack'[1].pc = stack[1].pc
                                    /\ stack'[1].i = stack[1].i + 1
<1>1. Running \in Frame /\ Running.i \in Worker /\ (Len(stack) = 1 => Running = stack[1])
  BY RunningFrame, Zenon DEF Frame
<1>2. CASE ~MoreWorkers
  <2>1. Running.i = tcWThreadNb
    BY <1>1, <1>2, ThreadAssumption DEF MoreWorkers, Worker
  <2> QED
    BY <1>1, <1>2, <2>1, Zenon DEF ForEachWorker
<1>3. CASE MoreWorkers
  <2>1. PICK f : f = [Running EXCEPT !.i = @ + 1]
    BY Zenon
  <2>2. Running.i + 1 \in Worker
    BY <1>1, <1>3, ThreadAssumption DEF MoreWorkers, Worker
  <2>3. f \in Frame /\ f.proc = Running.proc /\ f.pc = Running.pc /\ f.i = Running.i + 1
    BY <1>1, <2>1, <2>2, Zenon DEF Frame
  <2>4. stack' = Append(Pop, f)
    BY <1>3, <2>1, Zenon DEF ForEachWorker
  <2> QED
    BY <1>1, <2>3, <2>4, FrameChanged, Zenon DEF ForEachWorker
<1> QED
  BY <1>2, <1>3, Zenon

-----------------------------------------------------------------------------
(***************************************************************************)
(* What the phase of the main thread says of the workers: no handler runs  *)
(* once main has begun to end them, and only main's second phase lets a    *)
(* worker count itself as closed.                                          *)
(***************************************************************************)
MainPlace == {"resume", "loop", "ending", "close", "ending2", "wait", "exit", "quickexit"}

Late(w) ==
  MainPc \in {"wait", "exit", "quickexit"} \/ (MainPc = "ending2" /\ w < stack[1].i)

PhaseInv ==
  /\ state \in [Worker -> ThreadState] /\ wpc \in [Thread -> Place]
  /\ MainPc \in MainPlace
  /\ MainPc \in {"ending", "close", "ending2", "wait", "exit"} => killcalled
  /\ MainPc \notin {"resume", "loop"} => Len(stack) = 1
  /\ MainPc \in {"resume", "loop"} => \A w \in Worker : state[w] \in {"SUSPEND", "RUNNING"}
  /\ \A w \in Worker :
       wpc[w] \in {"count", "finish"} \/ state[w] \in {"ENDING2", "FINISHED"} => Late(w)
  /\ \A w \in Worker : state[w] = "FINISHED" => wpc[w] = "top"
  /\ MainPc \in {"ending2", "wait", "exit"} => tableClosed
  /\ tableClosed => MainPc \in {"ending2", "wait", "exit", "quickexit"}
  /\ MainPc = "exit" => AllClosed

(* The threads: the workers and the select threads are apart.              *)
LEMMA Threads ==
  /\ Select \notin Worker /\ Select \in Thread /\ Worker \subseteq Thread
  /\ \A t \in Thread : t # Select => t \in Worker
BY ThreadAssumption DEF Worker, Select, Thread

(* A thread other than main moves.                                         *)
LEMMA ThreadMoves ==
  ASSUME PhaseInv, NEW t \in Thread, NEW p \in Place, Alive,
         wpc' = [wpc EXCEPT ![t] = p],
         UNCHANGED <<stack, killcalled, tableClosed>>,
         t \in Worker /\ p \in {"count", "finish"} =>
           wpc[t] = "count" \/ state[t] = "ENDING2",
         \/ UNCHANGED state /\ (t \in Worker => wpc[t] # "top" \/ state[t] # "FINISHED")
         \/ t \in Worker /\ p = "start" /\ state' = [state EXCEPT ![t] = "SUSPEND"]
         \/ /\ t \in Worker /\ wpc[t] = "finish" /\ p = "top"
            /\ state' = [state EXCEPT ![t] = "FINISHED"]
  PROVE  PhaseInv'
<1>1. MainPc' = MainPc /\ Len(stack)' = Len(stack) /\ MainPc # "exit"
      /\ \A w \in Worker : Late(w)' = Late(w)
  BY Zenon DEF MainPc, Late, Alive
<1>2. wpc' \in [Thread -> Place] /\ state' \in [Worker -> ThreadState]
  BY Zenon DEF PhaseInv, ThreadState
<1>3. \A w \in Worker : w # t => wpc'[w] = wpc[w] /\ state'[w] = state[w]
  BY Threads, Zenon DEF PhaseInv
<1>4. t \in Worker => /\ wpc'[t] = p
                      /\ \/ state'[t] = state[t] /\ (wpc[t] # "top" \/ state[t] # "FINISHED")
                         \/ p = "start" /\ state'[t] = "SUSPEND"
                         \/ wpc[t] = "finish" /\ p = "top" /\ state'[t] = "FINISHED"
  BY Threads, Zenon DEF PhaseInv
<1>5. t \in Worker => /\ p \in {"count", "finish"} \/ state'[t] \in {"ENDING2", "FINISHED"}
                           => Late(t)
                      /\ state'[t] = "FINISHED" => p = "top"
  BY <1>4, Zenon DEF PhaseInv
<1>6. MainPc \in {"resume", "loop"} => \A w \in Worker : state'[w] \in {"SUSPEND", "RUNNING"}
  BY <1>3, <1>4, Zenon DEF PhaseInv, Late
<1> QED
  BY <1>1, <1>2, <1>3, <1>4, <1>5, <1>6, Zenon DEF PhaseInv

(* A handler, or tBreak, works above main.                                 *)
LEMMA HandlerMoves ==
  ASSUME PhaseInv, MainPc \in {"resume", "loop"}, stack'[1] = stack[1],
         UNCHANGED <<wpc, tableClosed>>, killcalled' = TRUE \/ UNCHANGED killcalled,
         \/ UNCHANGED state
         \/ \E w \in Worker, s \in {"RUNNING", "SUSPEND"} : state' = [state EXCEPT ![w] = s]
  PROVE  PhaseInv'
<1>1. MainPc' = MainPc
  BY Zenon DEF MainPc
<1>2. state' \in [Worker -> ThreadState]
      /\ \A w \in Worker : state'[w] \in {"SUSPEND", "RUNNING"}
  BY Zenon DEF PhaseInv, ThreadState
<1>3. \A w \in Worker : wpc[w] \notin {"count", "finish"}
  BY Zenon DEF PhaseInv, Late
<1> QED
  BY <1>1, <1>2, <1>3, Zenon DEF PhaseInv

(* Main moves from one phase to the next, or to the next worker.           *)
LEMMA MainMoves ==
  ASSUME StackInv, PhaseInv, NEW from, In({"main"}, from)
  PROVE  Len(stack) = 1 /\ Running = stack[1] /\ MainPc = from
BY RunningFrame, Zenon DEF In, MainPc

(* tBreak and the handlers run only before main ends the workers.          *)
LEMMA HandlerRuns ==
  ASSUME StackInv, PhaseInv, NEW procs, NEW from, "main" \notin procs, In(procs, from)
  PROVE  Len(stack) > 1 /\ MainPc \in {"resume", "loop"} /\ Running.proc # "main"
<1>1. Running.proc # "main"
  BY Zenon DEF In
<1>2. ASSUME NEW n \in Nat \ {0}, n # 1 PROVE n > 1
  BY <1>2
<1>3. Len(stack) > 1
  BY <1>1, <1>2, RunningFrame, Zenon
<1> QED
  BY <1>1, <1>3, RunningFrame, Zenon DEF PhaseInv

(* The places where main goes.                                             *)
LEMMA PlaceFrame ==
  ASSUME StackInv, NEW p \in {"loop", "ending", "close", "ending2", "wait", "exit", "off",
                              "down", "resume"}
  PROVE  [Running EXCEPT !.pc = p, !.i = 1] \in Frame
BY RunningFrame, Zenon DEF Frame

(* main itself.                                                            *)
LEMMA MainPhase ==
  ASSUME StackInv, PhaseInv,
         \/ MainResume \/ MainLoopEnds \/ EndPhase1 \/ CloseTimer \/ EndPhase2 \/ MainExit
  PROVE  StackInv' /\ PhaseInv'
<1>0. stack[1] \in Frame /\ stack[1].i \in Worker /\ 1 \in Worker
  BY RunningFrame, Zenon DEF Frame
<1>1. CASE MainResume
  <2>1. /\ Len(stack) = 1 /\ Running = stack[1] /\ MainPc = "resume"
        /\ UNCHANGED <<wpc, killcalled, tableClosed, nbSessionsClosed>>
        /\ ForEachWorker("RUNNING", At("loop"))
    BY <1>1, MainMoves, Zenon DEF MainResume, ForEachWorker, timerVars
  <2>2. /\ StackInv' /\ Len(stack') = 1 /\ MainPc' \in {"resume", "loop"}
        /\ state' = [state EXCEPT ![Running.i] = "RUNNING"]
    <3>1. CASE stack' = At("loop")
      BY <2>1, <3>1, AtFrame, PlaceFrame, Zenon DEF MainPc, ForEachWorker
    <3>2. CASE stack' # At("loop")
      BY <2>1, <3>2, LoopFrame, Zenon DEF MainPc
    <3> QED
      BY <3>1, <3>2, Zenon
  <2>3. state' \in [Worker -> ThreadState]
        /\ \A w \in Worker : state'[w] \in {"SUSPEND", "RUNNING"}
    BY <1>0, <2>1, <2>2, Zenon DEF PhaseInv, ThreadState
  <2>4. \A w \in Worker : wpc[w] \notin {"count", "finish"}
    BY <2>1, Zenon DEF PhaseInv, Late
  <2>5. ~tableClosed
    BY <2>1, Zenon DEF PhaseInv
  <2> QED
    BY <2>1, <2>2, <2>3, <2>4, <2>5, Zenon DEF PhaseInv, MainPlace
<1>2. CASE MainLoopEnds
  <2>1. /\ Len(stack) = 1 /\ MainPc = "loop" /\ killcalled
        /\ UNCHANGED <<state, wpc, killcalled, tableClosed, nbSessionsClosed>>
        /\ stack' = At("ending")
    BY <1>2, MainMoves, Zenon DEF MainLoopEnds, timerVars, workerVars
  <2>2. StackInv' /\ Len(stack') = 1 /\ MainPc' = "ending"
    BY <2>1, AtFrame, PlaceFrame, Zenon DEF MainPc
  <2>3. /\ \A w \in Worker : /\ wpc[w] \notin {"count", "finish"}
                             /\ state[w] \notin {"ENDING2", "FINISHED"}
        /\ ~tableClosed
    BY <2>1, Zenon DEF PhaseInv, Late
  <2> QED
    BY <2>1, <2>2, <2>3, Zenon DEF PhaseInv, MainPlace
<1>3. CASE EndPhase1
  <2>1. /\ Len(stack) = 1 /\ Running = stack[1] /\ MainPc = "ending"
        /\ UNCHANGED <<wpc, killcalled, tableClosed, nbSessionsClosed>>
        /\ ForEachWorker("ENDING", At("close"))
    BY <1>3, MainMoves, Zenon DEF EndPhase1, ForEachWorker, timerVars
  <2>2. /\ StackInv' /\ Len(stack') = 1 /\ MainPc' \in {"ending", "close"}
        /\ state' = [state EXCEPT ![Running.i] = "ENDING"]
    <3>1. CASE stack' = At("close")
      BY <2>1, <3>1, AtFrame, PlaceFrame, Zenon DEF MainPc, ForEachWorker
    <3>2. CASE stack' # At("close")
      BY <2>1, <3>2, LoopFrame, Zenon DEF MainPc
    <3> QED
      BY <3>1, <3>2, Zenon
  <2>3. \A w \in Worker : /\ wpc[w] \notin {"count", "finish"}
                          /\ state[w] \notin {"ENDING2", "FINISHED"}
    BY <2>1, Zenon DEF PhaseInv, Late
  <2>4. state' \in [Worker -> ThreadState]
        /\ \A w \in Worker : state'[w] \notin {"ENDING2", "FINISHED"}
    BY <1>0, <2>1, <2>2, <2>3, Zenon DEF PhaseInv, ThreadState
  <2>5. ~tableClosed /\ killcalled
    BY <2>1, Zenon DEF PhaseInv
  <2> QED
    BY <2>1, <2>2, <2>3, <2>4, <2>5, Zenon DEF PhaseInv, MainPlace
<1>4. CASE CloseTimer
  <2>1. /\ Len(stack) = 1 /\ MainPc = "close" /\ stack' = At("ending2")
        /\ UNCHANGED <<state, wpc, killcalled, nbSessionsClosed>> /\ tableClosed' = TRUE
    BY <1>4, MainMoves, Zenon DEF CloseTimer, workerVars, Timer!Close
  <2>2. StackInv' /\ Len(stack') = 1 /\ MainPc' = "ending2"
    BY <2>1, AtFrame, PlaceFrame, Zenon DEF MainPc
  <2>3. /\ \A w \in Worker : /\ wpc[w] \notin {"count", "finish"}
                             /\ state[w] \notin {"ENDING2", "FINISHED"}
        /\ killcalled
    BY <2>1, Zenon DEF PhaseInv, Late
  <2> QED
    BY <2>1, <2>2, <2>3, Zenon DEF PhaseInv, MainPlace
<1>5. CASE EndPhase2
  <2>1. /\ Len(stack) = 1 /\ Running = stack[1] /\ MainPc = "ending2"
        /\ UNCHANGED <<wpc, killcalled, tableClosed, nbSessionsClosed>>
        /\ ForEachWorker("ENDING2", At("wait"))
    BY <1>5, MainMoves, Zenon DEF EndPhase2, ForEachWorker, timerVars
  <2>2. /\ StackInv' /\ Len(stack') = 1
        /\ state' = [state EXCEPT ![stack[1].i] = "ENDING2"]
        /\ \/ MainPc' = "wait"
           \/ MainPc' = "ending2" /\ stack'[1].i = stack[1].i + 1
    <3>1. CASE stack' = At("wait")
      BY <2>1, <3>1, AtFrame, PlaceFrame, Zenon DEF MainPc, ForEachWorker
    <3>2. CASE stack' # At("wait")
      BY <2>1, <3>2, LoopFrame, Zenon DEF MainPc
    <3> QED
      BY <3>1, <3>2, Zenon
  <2>3. \A w \in Worker : Late(w) \/ w = stack[1].i => Late(w)'
    <3>1. ASSUME NEW w \in Worker, MainPc' = "ending2", stack'[1].i = stack[1].i + 1,
                 w < stack[1].i \/ w = stack[1].i
          PROVE  w < stack'[1].i
      BY <1>0, <3>1 DEF Worker
    <3> QED
      BY <2>1, <2>2, <3>1, Zenon DEF Late
  <2>4. \A w \in Worker : state'[w] = IF w = stack[1].i THEN "ENDING2" ELSE state[w]
    BY <2>2, Zenon DEF PhaseInv
  <2>5. state' \in [Worker -> ThreadState]
    BY <2>2, Zenon DEF PhaseInv, ThreadState
  <2>6. /\ \A w \in Worker :
             wpc[w] \in {"count", "finish"} \/ state'[w] \in {"ENDING2", "FINISHED"} => Late(w)'
        /\ \A w \in Worker : state'[w] = "FINISHED" => wpc[w] = "top"
    BY <2>3, <2>4, Zenon DEF PhaseInv
  <2>7. tableClosed /\ killcalled
    BY <2>1, Zenon DEF PhaseInv
  <2> QED
    BY <2>1, <2>2, <2>5, <2>6, <2>7, Zenon DEF PhaseInv, MainPlace
<1>6. CASE MainExit
  <2>1. /\ Len(stack) = 1 /\ MainPc = "wait" /\ stack' = At("exit") /\ AllClosed
        /\ UNCHANGED <<state, wpc, killcalled, tableClosed, nbSessionsClosed>>
    BY <1>6, MainMoves, Zenon DEF MainExit, workerVars, timerVars
  <2>2. StackInv' /\ Len(stack') = 1 /\ MainPc' = "exit" /\ AllClosed'
    BY <2>1, AtFrame, PlaceFrame, Zenon DEF MainPc, AllClosed
  <2>3. killcalled /\ tableClosed /\ \A w \in Worker : Late(w)'
    BY <2>1, <2>2, Zenon DEF PhaseInv, Late
  <2> QED
    BY <2>1, <2>2, <2>3, Zenon DEF PhaseInv, MainPlace
<1> QED
  BY <1>1, <1>2, <1>3, <1>4, <1>5, <1>6, Zenon

(* tBreak and tStop: a turn of their loops, and their other steps.         *)
LEMMA HandlerPhase ==
  ASSUME StackInv, PhaseInv, BreakSuspend \/ BreakSwitch \/ BreakResume \/ StopAssign
  PROVE  StackInv' /\ PhaseInv'
<1>1. /\ MainPc \in {"resume", "loop"} /\ Running.proc # "main"
      /\ Len(stack) > 1 /\ Running.i \in Worker
  BY HandlerRuns, RunningFrame, Zenon DEF BreakSuspend, BreakSwitch, BreakResume, StopAssign, Frame
<1>2. ASSUME NEW s \in {"RUNNING", "SUSPEND"}, NEW after, ForEachWorker(s, after),
             after = Pop \/ after = At("off")
      PROVE  StackInv' /\ PhaseInv'
  <2>1. StackInv' /\ stack'[1] = stack[1]
    <3>1. CASE stack' = Pop
      BY <1>1, <3>1, FramePopped, Zenon
    <3>2. CASE stack' = At("off")
      BY <1>1, <3>2, AtFrame, PlaceFrame, Zenon
    <3>3. CASE stack' # after
      BY <1>1, <1>2, <3>3, LoopFrame, Zenon
    <3> QED
      BY <1>2, <3>1, <3>2, <3>3, Zenon
  <2>2. /\ UNCHANGED <<wpc, killcalled, tableClosed>>
        /\ state' = [state EXCEPT ![Running.i] = s]
    BY <1>2, Zenon DEF ForEachWorker, timerVars
  <2> QED
    BY <1>1, <2>1, <2>2, HandlerMoves, Zenon
<1>3. CASE BreakSuspend
  BY <1>2, <1>3, Zenon DEF BreakSuspend
<1>4. CASE BreakResume
  BY <1>2, <1>4, Zenon DEF BreakResume
<1>5. CASE StopAssign
  <2>1. (IF traficOn THEN "RUNNING" ELSE "SUSPEND") \in {"RUNNING", "SUSPEND"}
    BY Zenon
  <2> QED
    BY <1>2, <1>5, <2>1, Zenon DEF StopAssign
<1>6. CASE BreakSwitch
  <2>1. /\ UNCHANGED <<state, wpc, killcalled, tableClosed>>
        /\ stack' = At("down") \/ stack' = At("resume")
    BY <1>6, Zenon DEF BreakSwitch, timerVars, workerVars
  <2>2. StackInv' /\ stack'[1] = stack[1]
    BY <1>1, <2>1, AtFrame, PlaceFrame, Zenon
  <2> QED
    BY <1>1, <2>1, <2>2, HandlerMoves, Zenon
<1> QED
  BY <1>3, <1>4, <1>5, <1>6, Zenon

(* A handler is only entered, and tBreak called, while killcalled is not   *)
(* set.                                                                    *)
LEMMA HandlerCalled ==
  ASSUME StackInv, PhaseInv, Alive, ~killcalled, UNCHANGED <<state, wpc, killcalled, tableClosed>>,
         NEW proc \in {"tBreak", "SIGURG", "SIGTSTP"}, NEW pc \in {"suspend", "assign"},
         ~Calls(proc), stack' = Push(proc, pc)
  PROVE  StackInv' /\ PhaseInv'
<1>1. MainPc \in {"resume", "loop"}
  BY Zenon DEF PhaseInv, MainPlace, Alive
<1>2. PICK f : f = [proc |-> proc, pc |-> pc, i |-> 1]
  BY Zenon
<1>3. f \in Frame /\ f.proc = proc /\ proc # "main"
  BY <1>2, RunningFrame, Zenon DEF Frame
<1>4. StackInv' /\ stack'[1] = stack[1]
  BY <1>2, <1>3, FramePushed, Zenon DEF Push
<1> QED
  BY <1>1, <1>4, HandlerMoves, Zenon

(* The signals.                                                            *)
LEMMA SignalPhase ==
  ASSUME StackInv, PhaseInv, BreakStart \/ StopSwitch \/ CtrlC \/ AlarmTest \/ AlarmSend
  PROVE  StackInv' /\ PhaseInv'
<1>1. CASE BreakStart
  <2>1. ~killcalled /\ Alive /\ UNCHANGED <<state, wpc, killcalled, tableClosed>>
    BY <1>1, Zenon DEF BreakStart, KillTested, In, timerVars, workerVars
  <2>2. CASE In({"main"}, "loop") /\ stack' = Push("tBreak", "suspend")
    <3>1. Len(stack) = 1 /\ stack[1].proc = "main"
      BY <2>2, MainMoves, Zenon DEF StackInv
    <3>2. \A k \in DOMAIN stack : k = 1
      BY <3>1 DEF StackInv
    <3>3. ~Calls("tBreak")
      BY <3>1, <3>2, Zenon DEF Calls
    <3> QED
      BY <2>1, <2>2, <3>3, HandlerCalled, Zenon
  <2>3. CASE ~Calls("SIGURG") /\ stack' = Push("SIGURG", "suspend")
    BY <2>1, <2>3, HandlerCalled, Zenon
  <2> QED
    BY <1>1, <2>2, <2>3, Zenon DEF BreakStart
<1>2. CASE StopSwitch
  <2>1. /\ ~killcalled /\ Alive /\ UNCHANGED <<state, wpc, killcalled, tableClosed>>
        /\ ~Calls("SIGTSTP") /\ stack' = Push("SIGTSTP", "assign")
    BY <1>2, Zenon DEF StopSwitch, KillTested, timerVars, workerVars
  <2> QED
    BY <2>1, HandlerCalled, Zenon
<1>3. CASE End
  <2>1. /\ Alive /\ killcalled' = TRUE
        /\ UNCHANGED <<state, wpc, tableClosed, nbSessionsClosed>>
    BY <1>3, Zenon DEF End, timerVars, workerVars
  <2>2. CASE stack' = stack
    BY <2>1, <2>2, Zenon DEF StackInv, PhaseInv, MainPc, Late, AllClosed
  <2>3. CASE stack' = <<[stack[1] EXCEPT !.pc = "quickexit"]>>
    <3>1. PICK f : f = [stack[1] EXCEPT !.pc = "quickexit"]
      BY Zenon
    <3>2. f \in Frame /\ f.proc = "main" /\ f.pc = "quickexit"
      BY <3>1, RunningFrame, Zenon DEF Frame, StackInv
    <3>3. StackInv' /\ Len(stack') = 1 /\ MainPc' = "quickexit"
      BY <2>3, <3>1, <3>2, FrameOnly, Zenon DEF MainPc
    <3> QED
      BY <2>1, <3>3, Zenon DEF PhaseInv, Late, MainPlace
  <2> QED
    BY <1>3, <2>2, <2>3, Zenon DEF End
<1>4. CASE AlarmTest
  BY <1>4, Zenon DEF AlarmTest, timerVars, workerVars, StackInv, PhaseInv, MainPc, Late, AllClosed
<1> QED
  BY <1>1, <1>2, <1>3, <1>4, Zenon DEF CtrlC, AlarmSend

(* A worker, a select thread, the statistics thread.                       *)
LEMMA ThreadPhase ==
  ASSUME StackInv, PhaseInv,
         TopTU \/ (\E w \in Worker : WorkerStep(w)) \/ (\E t \in Thread : Die(t))
  PROVE  StackInv' /\ PhaseInv'
<1>1. CASE TopTU
  <2>1. UNCHANGED <<stack, state, wpc, killcalled, nbSessionsClosed>> /\ UNCHANGED tableClosed
    BY <1>1, Zenon DEF TopTU, workerVars, mainVars, Timer!TopTU, Timer!TopTUCheck, Timer!TopTUPop,
       Timer!TopTUTest, Timer!TopTUPush, Timer!TopTUNoMemory, Timer!TopTUAdvance,
       Timer!tableVars
  <2> QED
    BY <2>1, Zenon DEF StackInv, PhaseInv, MainPc, Late, AllClosed
<1>2. ASSUME NEW w \in Worker, WorkerStep(w) PROVE StackInv' /\ PhaseInv'
  <2>1. w \in Thread /\ Alive /\ UNCHANGED <<stack, killcalled>>
    BY <1>2, Threads, Zenon DEF WorkerStep, EntryPoint, LeaveStart, LoopTop, Resume, NothingDue,
       TestEnding, StartScenario, CountAsClosed, ReadClosed, WriteClosed, Finish,
       EndScenario, GoToSleep, Sleep, Moves, mainVars
  <2>2. UNCHANGED tableClosed
    BY <1>2, Zenon DEF WorkerStep, EntryPoint, LeaveStart, LoopTop, Resume, NothingDue,
       TestEnding, StartScenario, CountAsClosed, ReadClosed, WriteClosed, Finish,
       EndScenario, GoToSleep, Sleep, timerVars, Timer!GetUserToResume,
       Timer!SetUserToSleepTest, Timer!SetUserToSleepInsert, Timer!SetUserToSleepNoMemory,
       Timer!tableVars
  <2>3. CASE EntryPoint(w)
    BY <2>1, <2>2, <2>3, ThreadMoves, Zenon DEF EntryPoint, Moves, Goto, StackInv, Place
  <2>4. CASE LeaveStart(w) \/ LoopTop(w) \/ Resume(w) \/ NothingDue(w) \/ TestEnding(w)
             \/ StartScenario(w) \/ EndScenario(w) \/ GoToSleep(w) \/ Sleep(w)
    <3>1. PICK p \in Place \ {"count", "finish"} : wpc' = [wpc EXCEPT ![w] = p]
      BY <2>4, Zenon DEF LeaveStart, LoopTop, Resume, NothingDue, TestEnding, StartScenario,
         EndScenario, GoToSleep, Sleep, Moves, Goto, Place
    <3>2. UNCHANGED state /\ (wpc[w] # "top" \/ state[w] # "FINISHED")
      BY <2>4, Zenon DEF LeaveStart, LoopTop, Resume, NothingDue, TestEnding, StartScenario,
         EndScenario, GoToSleep, Sleep, Moves
    <3> QED
      BY <2>1, <2>2, <3>1, <3>2, ThreadMoves, Zenon DEF StackInv
  <2>5. CASE CountAsClosed(w)
    <3>1. PICK p \in Place : /\ wpc' = [wpc EXCEPT ![w] = p]
                             /\ wpc[w] = "count" \/ state[w] = "ENDING2"
      BY <2>5, Zenon DEF CountAsClosed, ReadClosed, WriteClosed, IsEnding2, Goto, Place
    <3>2. UNCHANGED state /\ wpc[w] # "top"
      BY <2>5, Zenon DEF CountAsClosed, ReadClosed, WriteClosed
    <3> QED
      BY <2>1, <2>2, <3>1, <3>2, ThreadMoves, Zenon DEF StackInv
  <2>6. CASE Finish(w)
    BY <2>1, <2>2, <2>6, ThreadMoves, Zenon DEF Finish, Moves, Goto, StackInv, Place
  <2> QED
    BY <1>2, <2>3, <2>4, <2>5, <2>6, Zenon DEF WorkerStep
<1>3. ASSUME NEW t \in Thread, Die(t) PROVE StackInv' /\ PhaseInv'
  <2>1. Alive /\ UNCHANGED <<stack, killcalled, tableClosed, state>> /\ wpc[t] # "top"
    BY <1>3, Zenon DEF Die, ReadClosed, WriteClosed, mainVars, timerVars
  <2>2. PICK p \in {"dying", "dead"} : wpc' = [wpc EXCEPT ![t] = p]
    BY <1>3, Zenon DEF Die, ReadClosed, WriteClosed, Goto
  <2> QED
    BY <2>1, <2>2, ThreadMoves, Zenon DEF StackInv, Place
<1> QED
  BY <1>1, <1>2, <1>3, Zenon

(* Every step.                                                             *)
LEMMA PhaseStep == StackInv /\ PhaseInv /\ [Next]_vars => StackInv' /\ PhaseInv'
<1>1. ASSUME StackInv, PhaseInv, UNCHANGED vars PROVE StackInv' /\ PhaseInv'
  BY <1>1, Zenon DEF vars, timerVars, workerVars, mainVars, StackInv, PhaseInv, MainPc, Late,
     AllClosed
<1> QED
  BY <1>1, MainPhase, HandlerPhase, SignalPhase, ThreadPhase, Zenon DEF Next, MainStep

(* The start.                                                              *)
LEMMA PhaseInit == Init => StackInv /\ PhaseInv
<1> SUFFICES ASSUME Init PROVE StackInv /\ PhaseInv
  BY Zenon
<1>1. PICK f : f = [proc |-> "main", pc |-> "resume", i |-> 1]
  BY Zenon
<1>2. f \in Frame /\ f.proc = "main" /\ f.pc = "resume" /\ stack = <<f>>
  BY <1>1, ThreadAssumption DEF Init, Frame, Worker
<1>3. StackInv /\ MainPc = "resume"
  BY <1>2 DEF StackInv, MainPc
<1>4. /\ state \in [Worker -> ThreadState] /\ \A w \in Worker : state[w] = "SUSPEND"
      /\ wpc \in [Thread -> Place]
      /\ \A w \in Worker : wpc[w] = "created"
  BY Threads, Zenon DEF Init, ThreadState, Place
<1>5. ~tableClosed
  BY Zenon DEF Init, Timer!Init
<1> QED
  BY <1>3, <1>4, <1>5, Zenon DEF PhaseInv, MainPlace

(* What each step of TLifecycle does with the timer.                       *)
LEMMA TimerSteps ==
  ASSUME [Next]_vars
  PROVE  \/ UNCHANGED timerVars
         \/ TopTU \/ CloseTimer
         \/ \E w \in Worker : Resume(w) \/ GoToSleep(w) \/ Sleep(w)
BY Zenon DEF Next, vars, WorkerStep, EntryPoint, LeaveStart, LoopTop, NothingDue, TestEnding,
   StartScenario, ReadClosed, WriteClosed, CountAsClosed, Finish, EndScenario, Die,
   ForEachWorker, MainStep, MainResume, MainLoopEnds, EndPhase1, EndPhase2, MainExit,
   BreakStart, BreakSuspend, BreakSwitch, BreakResume, StopSwitch, StopAssign, End, CtrlC,
   AlarmTest, AlarmSend

(* Who changes the state of a worker.                                      *)
LEMMA StateSteps ==
  ASSUME [Next]_vars
  PROVE  \/ UNCHANGED state
         \/ MainResume \/ EndPhase1 \/ EndPhase2
         \/ BreakSuspend \/ BreakResume \/ StopAssign
         \/ \E v \in Worker : EntryPoint(v) \/ Finish(v)
BY Zenon DEF Next, vars, workerVars, MainStep, WorkerStep, LeaveStart, LoopTop, Resume, NothingDue,
   TestEnding, StartScenario, ReadClosed, WriteClosed, CountAsClosed, EndScenario, GoToSleep,
   Sleep, Die, MainLoopEnds, CloseTimer, MainExit, BreakStart, BreakSwitch, StopSwitch, End,
   CtrlC, AlarmTest, AlarmSend, TopTU

-----------------------------------------------------------------------------
(***************************************************************************)
(* EndingIsFinal, for any number of workers, of signals and of handlers    *)
(* interrupting one another: tBreak and tStop, who give back RUNNING or    *)
(* SUSPEND to the workers, test killcalled when they start and run above   *)
(* main, which cannot have left its loop before they return; so none of    *)
(* them is at work once main has told a worker to end.                     *)
(***************************************************************************)
LEMMA FinalStep ==
  ASSUME StackInv, PhaseInv, [Next]_vars, NEW w \in Worker,
         state[w] \in {"ENDING", "ENDING2", "FINISHED"}
  PROVE  state'[w] \notin {"RUNNING", "SUSPEND"} \/ wpc[w] = "created"
<1>1. MainPc \notin {"resume", "loop"}
  BY Zenon DEF PhaseInv
<1>2. Running.i \in Worker /\ state \in [Worker -> ThreadState]
  BY RunningFrame, Zenon DEF Frame, PhaseInv
<1>3. CASE UNCHANGED state
  BY <1>3, Zenon
<1>4. CASE EndPhase1 \/ EndPhase2
  <2>1. PICK s \in {"ENDING", "ENDING2"} : state' = [state EXCEPT ![Running.i] = s]
    BY <1>4, Zenon DEF EndPhase1, EndPhase2, ForEachWorker
  <2> QED
    BY <1>2, <2>1, Zenon
<1>5. CASE MainResume
  BY <1>1, <1>5, MainMoves, Zenon DEF MainResume
<1>6. CASE BreakSuspend \/ BreakResume \/ StopAssign
  BY <1>1, <1>6, HandlerRuns, Zenon DEF BreakSuspend, BreakResume, StopAssign
<1>7. ASSUME NEW v \in Worker, EntryPoint(v) \/ Finish(v)
      PROVE  state'[w] \notin {"RUNNING", "SUSPEND"} \/ wpc[w] = "created"
  <2>1. v # w => state'[w] = state[w]
    BY <1>2, <1>7, Zenon DEF EntryPoint, Finish
  <2>2. v = w /\ Finish(v) => state'[w] = "FINISHED"
    BY <1>2, Zenon DEF Finish
  <2> QED
    BY <1>7, <2>1, <2>2, Zenon DEF EntryPoint, Moves
<1> QED
  BY <1>3, <1>4, <1>5, <1>6, <1>7, StateSteps, Zenon

(* The theorem: no handler takes back what main told a worker.             *)
THEOREM EndingHolds == Spec => EndingIsFinal
<1>1. Init => StackInv /\ PhaseInv
  BY PhaseInit, Zenon
<1>2. StackInv /\ PhaseInv /\ [Next]_vars => (StackInv /\ PhaseInv)'
  BY PhaseStep, Zenon
<1>3. StackInv /\ PhaseInv /\ [Next]_vars
        => [\A w \in Worker : state[w] \in {"ENDING", "ENDING2", "FINISHED"}
              => state'[w] \notin {"RUNNING", "SUSPEND"} \/ wpc[w] = "created"]_vars
  BY FinalStep, Zenon
<1> QED
  BY <1>1, <1>2, <1>3, PTL DEF Spec, EndingIsFinal

-----------------------------------------------------------------------------
(***************************************************************************)
(* The count of closed sessions: it is at most the number of threads that  *)
(* have counted themselves, whatever increments are lost between a worker  *)
(* and a dying thread, and no thread counts itself twice.                  *)
(***************************************************************************)
Counted ==
  {t \in Thread : wpc[t] \in {"finish", "dead"} \/ (t \in Worker /\ state[t] = "FINISHED")}

CountInv ==
  /\ seen \in [Thread -> Nat] /\ nbSessionsClosed \in Nat
  /\ wpc[Select] \in {"serve", "dying", "dead"}
  /\ wpc[Select] # "serve" => deaths >= 1
  /\ nbSessionsClosed <= Cardinality(Counted)
  /\ \A t \in Thread : seen[t] <= Cardinality(Counted)

(* The number of threads.                                                  *)
LEMMA ThreadCount ==
  /\ IsFiniteSet(Worker) /\ Cardinality(Worker) = tcWThreadNb
  /\ IsFiniteSet(Thread) /\ Cardinality(Thread) = tcWThreadNb + 1
<1>1. IsFiniteSet(Worker) /\ Cardinality(Worker) = tcWThreadNb
  <2>1. /\ IsFiniteSet(1 .. tcWThreadNb)
        /\ Cardinality(1 .. tcWThreadNb) = IF 1 > tcWThreadNb THEN 0 ELSE tcWThreadNb - 1 + 1
    BY ThreadAssumption, FS_Interval
  <2> QED
    BY <2>1, ThreadAssumption DEF Worker
<1>2. IsFiniteSet(Thread) /\ Cardinality(Thread) = Cardinality(Worker) + 1
  BY <1>1, Threads, FS_AddElement, Zenon DEF Thread
<1> QED
  BY <1>1, <1>2, Zenon

(* A set of threads is finite; the more threads, the higher its number.    *)
LEMMA ThreadSets ==
  ASSUME NEW S \in SUBSET Thread
  PROVE  /\ IsFiniteSet(S) /\ Cardinality(S) \in Nat
         /\ \A T \in SUBSET S : Cardinality(T) <= Cardinality(S)
         /\ \A T \in SUBSET S : T # S => Cardinality(T) < Cardinality(S)
<1>1. IsFiniteSet(S)
  BY ThreadCount, FS_Subset, Zenon
<1>2. Cardinality(S) \in Nat
  BY <1>1, FS_CardinalityType, Zenon
<1>3. ASSUME NEW T \in SUBSET S
      PROVE  Cardinality(T) <= Cardinality(S) /\ (T # S => Cardinality(T) < Cardinality(S))
  <2>1. IsFiniteSet(T) /\ Cardinality(T) \in Nat /\ Cardinality(T) <= Cardinality(S)
        /\ (Cardinality(S) = Cardinality(T) => S = T)
    BY <1>1, FS_Subset, FS_CardinalityType, Zenon
  <2> QED
    BY <1>2, <2>1
<1> QED
  BY <1>1, <1>2, <1>3, Zenon

(* Who moves, and from where: a thread that has counted itself goes no     *)
(* further, but for a worker that says it is FINISHED.                     *)
LEMMA PlaceSteps ==
  ASSUME PhaseInv, [Next]_vars
  PROVE  \/ UNCHANGED wpc
         \/ \E v \in Worker : Finish(v)
         \/ \E v \in Thread, p \in Place :
              wpc' = [wpc EXCEPT ![v] = p] /\ wpc[v] \notin {"finish", "dead"}
<1>1. ASSUME NEW v \in Worker, WorkerStep(v)
      PROVE  \/ Finish(v)
             \/ \E p \in Place : wpc' = [wpc EXCEPT ![v] = p] /\ wpc[v] \notin {"finish", "dead"}
  BY <1>1, Zenon DEF WorkerStep, EntryPoint, LeaveStart, LoopTop, Resume, NothingDue, TestEnding,
     StartScenario, CountAsClosed, ReadClosed, WriteClosed, EndScenario, GoToSleep, Sleep,
     Moves, Goto, Place
<1>2. ASSUME NEW v \in Thread, Die(v)
      PROVE  \E p \in Place : wpc' = [wpc EXCEPT ![v] = p] /\ wpc[v] \notin {"finish", "dead"}
  BY <1>2, Zenon DEF Die, ReadClosed, WriteClosed, Goto, Place
<1>3. CASE ~((\E v \in Worker : WorkerStep(v)) \/ (\E v \in Thread : Die(v)))
  BY <1>3, Zenon DEF Next, vars, workerVars, MainStep, MainResume, MainLoopEnds, EndPhase1,
     CloseTimer, EndPhase2, MainExit, BreakStart, BreakSuspend, BreakSwitch, BreakResume,
     StopSwitch, StopAssign, End, CtrlC, AlarmTest, AlarmSend, TopTU, ForEachWorker
<1> QED
  BY <1>1, <1>2, <1>3, Threads, Zenon

(* A session counted as closed stays so.                                   *)
LEMMA CountedGrows ==
  ASSUME StackInv, PhaseInv, [Next]_vars PROVE Counted \subseteq Counted'
<1>1. ASSUME NEW w \in Worker, state[w] = "FINISHED" PROVE state'[w] = "FINISHED"
  <2>1. Late(w) /\ wpc[w] = "top" /\ state \in [Worker -> ThreadState] /\ Running.i \in Worker
    BY <1>1, RunningFrame, Zenon DEF PhaseInv, Frame
  <2>2. CASE UNCHANGED state
    BY <1>1, <2>2, Zenon
  <2>3. CASE MainResume \/ EndPhase1
    BY <2>1, <2>3, MainMoves DEF MainResume, EndPhase1, Late
  <2>4. CASE EndPhase2
    <3>1. Running = stack[1] /\ MainPc = "ending2"
      BY <2>4, MainMoves, Zenon DEF EndPhase2
    <3>2. w # Running.i
      BY <2>1, <3>1 DEF Late, Worker
    <3> QED
      BY <1>1, <2>1, <2>4, <3>2, Zenon DEF EndPhase2, ForEachWorker
  <2>5. CASE BreakSuspend \/ BreakResume \/ StopAssign
    BY <2>1, <2>5, HandlerRuns, Zenon DEF BreakSuspend, BreakResume, StopAssign, Late
  <2>6. ASSUME NEW v \in Worker, EntryPoint(v) \/ Finish(v) PROVE state'[w] = "FINISHED"
    <3>1. v # w
      BY <2>1, <2>6, Zenon DEF EntryPoint, Finish, Moves
    <3> QED
      BY <1>1, <2>1, <2>6, <3>1, Zenon DEF EntryPoint, Finish
  <2> QED
    BY <2>2, <2>3, <2>4, <2>5, <2>6, StateSteps, Zenon
<1>2. ASSUME NEW t \in Thread, wpc[t] \in {"finish", "dead"}
      PROVE  wpc'[t] \in {"finish", "dead"} \/ (t \in Worker /\ state'[t] = "FINISHED")
  <2>1. wpc \in [Thread -> Place] /\ state \in [Worker -> ThreadState]
    BY Zenon DEF PhaseInv
  <2>2. CASE UNCHANGED wpc
    BY <1>2, <2>2, Zenon
  <2>3. ASSUME NEW v \in Worker, Finish(v)
        PROVE  wpc'[t] \in {"finish", "dead"} \/ (t \in Worker /\ state'[t] = "FINISHED")
    BY <1>2, <2>1, <2>3, Threads, Zenon DEF Finish, Moves, Goto
  <2>4. ASSUME NEW v \in Thread, NEW p \in Place, wpc' = [wpc EXCEPT ![v] = p],
               wpc[v] \notin {"finish", "dead"}
        PROVE  wpc'[t] \in {"finish", "dead"}
    BY <1>2, <2>1, <2>4, Zenon
  <2> QED
    BY <2>2, <2>3, <2>4, PlaceSteps, Zenon
<1> QED
  BY <1>1, <1>2, Zenon DEF Counted

(* The other types.                                                        *)
RestInv ==
  /\ killcalled \in BOOLEAN /\ traficOn \in BOOLEAN /\ alarm \in {"off", "pending", "sent"}
  /\ ctrlC \in 0 .. MaxCtrlC /\ ctrlZ \in 0 .. MaxCtrlZ /\ deaths \in 0 .. MaxDeaths
  /\ late \in BOOLEAN /\ looked \subseteq Worker

(* They are kept: a counter is tested against its bound before each step.  *)
LEMMA RestStep == ASSUME RestInv, [Next]_vars PROVE RestInv'
<1> USE DEF RestInv
<1>1. CASE CtrlC
  BY <1>1, BoundAssumption DEF CtrlC, End
<1>2. CASE StopSwitch
  BY <1>2, BoundAssumption DEF StopSwitch
<1>3. ASSUME NEW t \in Thread, Die(t) PROVE RestInv'
  BY <1>3, BoundAssumption DEF Die, ReadClosed, WriteClosed, mainVars, counts
<1>4. CASE MainStep
  BY <1>4, Zenon DEF MainStep, MainResume, MainLoopEnds, EndPhase1, CloseTimer, EndPhase2, MainExit,
     BreakSuspend, BreakSwitch, BreakResume, StopAssign, ForEachWorker, counts
<1>5. CASE BreakStart \/ AlarmTest \/ AlarmSend \/ TopTU
  BY <1>5, Zenon DEF BreakStart, AlarmTest, AlarmSend, TopTU, End, mainVars, counts
<1>6. ASSUME NEW w \in Worker, WorkerStep(w) PROVE RestInv'
  BY <1>6, Zenon DEF WorkerStep, EntryPoint, LeaveStart, LoopTop, Resume, NothingDue, TestEnding,
     StartScenario, CountAsClosed, ReadClosed, WriteClosed, Finish, EndScenario, GoToSleep,
     Sleep, Moves, mainVars, counts
<1>7. CASE UNCHANGED vars
  BY <1>7, Zenon DEF vars, mainVars, counts
<1> QED
  BY <1>1, <1>2, <1>3, <1>4, <1>5, <1>6, <1>7, Zenon DEF Next

(* Who reads and who writes the count.                                     *)
LEMMA CountSteps ==
  ASSUME [Next]_vars
  PROVE  \/ UNCHANGED <<seen, nbSessionsClosed>>
         \/ \E t \in Thread : \/ /\ seen' = [seen EXCEPT ![t] = nbSessionsClosed]
                                 /\ UNCHANGED nbSessionsClosed
                              \/ WriteClosed(t, "count", "finish") /\ t \in Worker
                              \/ WriteClosed(t, "dying", "dead")
<1>1. ASSUME NEW w \in Worker, CountAsClosed(w)
      PROVE  \/ /\ seen' = [seen EXCEPT ![w] = nbSessionsClosed]
                /\ UNCHANGED nbSessionsClosed
             \/ WriteClosed(w, "count", "finish")
  BY <1>1, Zenon DEF CountAsClosed, ReadClosed
<1>2. ASSUME NEW t \in Thread, Die(t)
      PROVE  \/ /\ seen' = [seen EXCEPT ![t] = nbSessionsClosed]
                /\ UNCHANGED nbSessionsClosed
             \/ WriteClosed(t, "dying", "dead")
  BY <1>2, Zenon DEF Die, ReadClosed
<1>3. ASSUME NEW w \in Worker, WorkerStep(w), ~CountAsClosed(w)
      PROVE  UNCHANGED <<seen, nbSessionsClosed>>
  BY <1>3, Zenon DEF WorkerStep, EntryPoint, LeaveStart, LoopTop, Resume, NothingDue, TestEnding,
     StartScenario, Finish, EndScenario, GoToSleep, Sleep, Moves
<1>4. CASE ~((\E v \in Worker : WorkerStep(v)) \/ (\E v \in Thread : Die(v)))
  BY <1>4, Zenon DEF Next, vars, workerVars, MainStep, MainResume, MainLoopEnds, EndPhase1,
     CloseTimer, EndPhase2, MainExit, BreakStart, BreakSuspend, BreakSwitch, BreakResume,
     StopSwitch, StopAssign, End, CtrlC, AlarmTest, AlarmSend, TopTU, ForEachWorker
<1> QED
  BY <1>1, <1>2, <1>3, <1>4, Threads, Zenon

(* The select threads serve until one dies.                                *)
LEMMA SelectStep ==
  ASSUME PhaseInv, RestInv, [Next]_vars, wpc[Select] \in {"serve", "dying", "dead"},
         wpc[Select] # "serve" => deaths >= 1
  PROVE  wpc'[Select] \in {"serve", "dying", "dead"} /\ (wpc'[Select] # "serve" => deaths' >= 1)
<1>1. wpc \in [Thread -> Place] /\ Select \in Thread /\ deaths \in Nat
  BY Threads, BoundAssumption DEF PhaseInv, RestInv
<1>2. ASSUME NEW w \in Worker, WorkerStep(w) PROVE wpc'[Select] = wpc[Select] /\ deaths' = deaths
  BY <1>1, <1>2, Threads, Zenon DEF WorkerStep, EntryPoint, LeaveStart, LoopTop, Resume, NothingDue,
     TestEnding, StartScenario, CountAsClosed, ReadClosed, WriteClosed, Finish, EndScenario,
     GoToSleep, Sleep, Moves, Goto, counts
<1>3. ASSUME NEW t \in Thread, Die(t)
      PROVE  /\ wpc'[Select] \in {"serve", "dying", "dead"}
             /\ wpc'[Select] # "serve" => deaths' >= 1
  <2>1. CASE WriteClosed(t, "dying", "dead")
    BY <1>1, <2>1, Zenon DEF WriteClosed, Goto, counts
  <2>2. CASE ~WriteClosed(t, "dying", "dead")
    <3>1. deaths' = deaths + 1 /\ wpc' = [wpc EXCEPT ![t] = "dying"]
      BY <1>3, <2>2, Zenon DEF Die, ReadClosed, Goto
    <3>2. deaths' >= 1
      BY <1>1, <3>1
    <3> QED
      BY <1>1, <3>1, <3>2, Zenon
  <2> QED
    BY <2>1, <2>2, Zenon
<1>4. CASE ~((\E v \in Worker : WorkerStep(v)) \/ (\E v \in Thread : Die(v)))
  <2>1. UNCHANGED <<wpc, deaths>>
    BY <1>4, Zenon DEF Next, vars, workerVars, MainStep, MainResume, MainLoopEnds, EndPhase1,
       CloseTimer, EndPhase2, MainExit, BreakStart, BreakSuspend, BreakSwitch, BreakResume,
       StopSwitch, StopAssign, End, CtrlC, AlarmTest, AlarmSend, TopTU, ForEachWorker, counts
  <2> QED
    BY <2>1, Zenon
<1> QED
  BY <1>2, <1>3, <1>4, Zenon

(* Every step keeps the count right: what a thread read before another one *)
(* incremented the count may be too low, never too high.                   *)
LEMMA CountStep ==
  ASSUME StackInv, PhaseInv, RestInv, CountInv, [Next]_vars PROVE CountInv'
<1> DEFINE k == Cardinality(Counted)
           m == Cardinality(Counted')
<1>1. /\ k \in Nat /\ m \in Nat /\ k <= m
      /\ Counted # Counted' => k < m
  BY CountedGrows, ThreadSets, Zenon DEF Counted
<1>2. /\ wpc'[Select] \in {"serve", "dying", "dead"}
      /\ wpc'[Select] # "serve" => deaths' >= 1
  BY SelectStep, Zenon DEF CountInv
<1> HIDE DEF k, m
<1>3. seen \in [Thread -> Nat] /\ nbSessionsClosed \in Nat /\ nbSessionsClosed <= k
      /\ \A t \in Thread : seen[t] <= k
  BY Zenon DEF CountInv, k
<1>4. SUFFICES seen' \in [Thread -> Nat] /\ nbSessionsClosed' \in Nat /\ nbSessionsClosed' <= m
               /\ \A t \in Thread : seen'[t] <= m
  BY <1>2, Zenon DEF CountInv, m
<1>5. \A n \in Nat : n <= k => n <= m
  BY <1>1
<1>6. CASE UNCHANGED <<seen, nbSessionsClosed>>
  BY <1>3, <1>5, <1>6, Zenon
<1>7. ASSUME NEW t \in Thread, seen' = [seen EXCEPT ![t] = nbSessionsClosed],
             UNCHANGED nbSessionsClosed
      PROVE  seen' \in [Thread -> Nat] /\ nbSessionsClosed' \in Nat /\ nbSessionsClosed' <= m
             /\ \A u \in Thread : seen'[u] <= m
  BY <1>3, <1>5, <1>7, Zenon
<1>8. ASSUME NEW t \in Thread, NEW from, NEW to \in {"finish", "dead"}, WriteClosed(t, from, to),
             from \in {"count", "dying"}
      PROVE  seen' \in [Thread -> Nat] /\ nbSessionsClosed' \in Nat /\ nbSessionsClosed' <= m
             /\ \A u \in Thread : seen'[u] <= m
  <2>1. wpc[t] \in {"count", "dying"} /\ wpc'[t] \in {"finish", "dead"}
        /\ nbSessionsClosed' = seen[t] + 1 /\ seen' = [seen EXCEPT ![t] = 0]
    BY <1>8, Zenon DEF WriteClosed, Goto, PhaseInv
  <2>2. t \notin Counted /\ t \in Counted'
    BY <2>1, Zenon DEF Counted, PhaseInv
  <2>3. k < m
    BY <1>1, <2>2, Zenon
  <2>4. seen[t] + 1 <= m /\ 0 <= m
    BY <1>1, <1>3, <2>3
  <2> QED
    BY <1>3, <1>5, <2>1, <2>4
<1> QED
  BY <1>6, <1>7, <1>8, CountSteps, Zenon

(* The start.                                                              *)
LEMMA CountInit == Init => RestInv /\ CountInv
<1> SUFFICES ASSUME Init PROVE RestInv /\ CountInv
  BY Zenon
<1>1. RestInv
  <2>1. 0 \in 0 .. MaxCtrlC /\ 0 \in 0 .. MaxCtrlZ /\ 0 \in 0 .. MaxDeaths
    BY BoundAssumption
  <2> QED
    BY <2>1, Zenon DEF Init, RestInv
<1>2. wpc[Select] = "serve" /\ seen \in [Thread -> Nat] /\ nbSessionsClosed = 0
      /\ \A t \in Thread : seen[t] = 0
  BY Threads, Zenon DEF Init
<1>3. Cardinality(Counted) \in Nat
  BY ThreadSets, Zenon DEF Counted
<1>4. nbSessionsClosed <= Cardinality(Counted) /\ \A t \in Thread : seen[t] <= Cardinality(Counted)
  BY <1>2, <1>3
<1> QED
  BY <1>1, <1>2, <1>4, Zenon DEF CountInv

(* The count stays in its type.                                            *)
LEMMA CountTypes ==
  ASSUME StackInv, PhaseInv, RestInv, CountInv, Timer!TypeOK PROVE TypeOK
<1> DEFINE k == Cardinality(Counted)
<1>1. k \in Nat /\ k <= tcWThreadNb + MaxDeaths
  <2>1. Counted \subseteq Thread /\ k \in Nat /\ k <= tcWThreadNb + 1
    BY ThreadSets, ThreadCount, Zenon DEF Counted
  <2>2. CASE Select \in Counted
    <3>1. deaths >= 1 /\ deaths \in 0 .. MaxDeaths
      BY <2>2, Threads, Zenon DEF Counted, CountInv, RestInv
    <3> QED
      BY <2>1, <3>1, BoundAssumption, ThreadAssumption
  <2>3. CASE Select \notin Counted
    <3>1. Counted \subseteq Worker /\ Worker \subseteq Thread
      BY <2>1, <2>3, Threads, Zenon
    <3>2. k <= tcWThreadNb
      BY <3>1, ThreadSets, ThreadCount, Zenon
    <3> QED
      BY <2>1, <3>2, BoundAssumption, ThreadAssumption
  <2> QED
    BY <2>2, <2>3, Zenon
<1> HIDE DEF k
<1>2. \A n \in Nat : n <= k => n \in 0 .. tcWThreadNb + MaxDeaths
  BY <1>1, BoundAssumption, ThreadAssumption
<1>3. nbSessionsClosed \in 0 .. tcWThreadNb + MaxDeaths
  BY <1>2, Zenon DEF CountInv, k
<1>4. seen \in [Thread -> 0 .. tcWThreadNb + MaxDeaths]
  BY <1>2, Zenon DEF CountInv, k
<1> QED
  BY <1>3, <1>4, StackDepth, Zenon DEF TypeOK, StackInv, PhaseInv, RestInv

(* When main exits and the select threads live, each worker has counted    *)
(* itself.                                                                 *)
LEMMA ExitClosed ==
  ASSUME PhaseInv, CountInv, MainPc = "exit", wpc[Select] = "serve", NEW w \in Worker
  PROVE  Closed(w)
<1>1. Counted \subseteq Worker /\ Worker \in SUBSET Thread
  BY Threads, Zenon DEF Counted
<1>2. /\ nbSessionsClosed \in Nat /\ nbSessionsClosed >= tcWThreadNb
      /\ nbSessionsClosed <= Cardinality(Counted)
  BY Zenon DEF PhaseInv, AllClosed, CountInv
<1>3. /\ Cardinality(Counted) \in Nat /\ Cardinality(Worker) = tcWThreadNb
      /\ Counted # Worker => Cardinality(Counted) < Cardinality(Worker)
  BY <1>1, ThreadSets, ThreadCount, Zenon
<1>4. Counted = Worker
  BY <1>2, <1>3, ThreadAssumption
<1> QED
  BY <1>4, Zenon DEF Counted, Closed

-----------------------------------------------------------------------------
(***************************************************************************)
(* The draining of the timer.  Once tTimerClose has made one list of it,   *)
(* and once a worker has found that list empty, each context put there     *)
(* since came from a worker that is now on its way to look at the list     *)
(* again: there are at most as many contexts as such workers.              *)
(***************************************************************************)
Quit(w) == wpc[w] \in {"ending?", "ending2?", "count", "finish"} \/ state[w] = "FINISHED"

Ready == {w \in Worker : wpc[w] \in {"top", "poll"} /\ state[w] # "FINISHED"}

Enough ==
  (\E w \in Worker \ looked : Quit(w)) => Len(table[0]) <= Cardinality(Ready)

Drained ==
  /\ currentIndex = 0 /\ top.pc = "idle"
  /\ \A i \in Timer!Slot \ {0} : table[i] = <<>>
  /\ \A w \in Worker : call[w].delay = 0
  /\ Enough

DrainInv ==
  /\ \A w \in Worker : call[w] # Timer!NoCall => wpc[w] = "sleep"
  /\ tableClosed /\ ~raced => Drained

(* A thread that moves leaves the others as they are.                      *)
LEMMA OthersKept ==
  ASSUME PhaseInv, NEW t \in Thread, NEW p, wpc' = [wpc EXCEPT ![t] = p],
         \A v \in Worker : v # t => state'[v] = state[v]
  PROVE  /\ wpc'[t] = p
         /\ \A v \in Worker : v # t => /\ v \in Ready' <=> v \in Ready
                                       /\ Quit(v)' <=> Quit(v)
<1>1. wpc'[t] = p /\ \A v \in Worker : v # t => wpc'[v] = wpc[v]
  BY Threads, Zenon DEF PhaseInv
<1> QED
  BY <1>1, Zenon DEF Ready, Quit

(* A worker takes a step of its loop after the timer was closed, other     *)
(* than those that look at the timer or put a context there.               *)
LEMMA QuietWorker ==
  ASSUME StackInv, PhaseInv, NEW w \in Worker, WorkerStep(w),
         ~Resume(w), ~NothingDue(w), ~Sleep(w)
  PROVE  Ready \subseteq Ready' /\ \A v \in Worker : Quit(v)' => Quit(v)
<1>1. w \in Thread /\ state \in [Worker -> ThreadState] /\ (state[w] = "FINISHED" => wpc[w] = "top")
  BY Threads, Zenon DEF PhaseInv
<1> SUFFICES ASSUME NEW p \in Place, wpc' = [wpc EXCEPT ![w] = p],
                    \A v \in Worker : v # w => state'[v] = state[v],
                    w \in Ready => p \in {"top", "poll"} /\ state'[w] # "FINISHED",
                    \/ p \notin {"ending?", "ending2?", "count", "finish"}
                    \/ wpc[w] \in {"ending?", "ending2?", "count", "finish"},
                    \/ state'[w] # "FINISHED" \/ wpc[w] = "finish" \/ state[w] = "FINISHED"
             PROVE  Ready \subseteq Ready' /\ \A v \in Worker : Quit(v)' => Quit(v)
  <2>1. CASE EntryPoint(w)
    <3>1. wpc[w] = "created" /\ wpc' = [wpc EXCEPT ![w] = "start"]
          /\ state'[w] = "SUSPEND" /\ \A v \in Worker : v # w => state'[v] = state[v]
      BY <1>1, <2>1, Zenon DEF EntryPoint, Moves, Goto
    <3> QED
      BY <3>1, Zenon DEF Place, Ready
  <2>2. CASE Finish(w)
    <3>1. wpc[w] = "finish" /\ wpc' = [wpc EXCEPT ![w] = "top"]
          /\ \A v \in Worker : v # w => state'[v] = state[v]
      BY <1>1, <2>2, Zenon DEF Finish, Moves, Goto
    <3> QED
      BY <3>1, Zenon DEF Place, Ready
  <2>3. CASE CountAsClosed(w)
    <3>1. UNCHANGED state /\ wpc[w] \in {"ending2?", "count"}
          /\ \E p \in {"count", "finish"} : wpc' = [wpc EXCEPT ![w] = p]
      BY <2>3, Zenon DEF CountAsClosed, ReadClosed, WriteClosed, Goto
    <3> QED
      BY <3>1, Zenon DEF Place, Ready
  <2>4. CASE TestEnding(w)
    <3>1. UNCHANGED state /\ wpc[w] = "ending?"
          /\ \E p \in {"top", "ending2?"} : wpc' = [wpc EXCEPT ![w] = p]
      BY <2>4, Zenon DEF TestEnding, Moves, Goto
    <3> QED
      BY <3>1, Zenon DEF Place, Ready
  <2>5. CASE LeaveStart(w) \/ LoopTop(w) \/ StartScenario(w) \/ EndScenario(w) \/ GoToSleep(w)
    <3>1. UNCHANGED state
          /\ \/ wpc[w] \in {"start", "run"} /\ wpc' = [wpc EXCEPT ![w] = "top"]
             \/ wpc[w] = "top" /\ wpc' = [wpc EXCEPT ![w] = "poll"]
             \/ wpc[w] = "ending2?" /\ wpc' = [wpc EXCEPT ![w] = "run"]
             \/ wpc[w] = "run" /\ wpc' = [wpc EXCEPT ![w] = "sleep"]
      BY <2>5, Zenon DEF LeaveStart, LoopTop, StartScenario, EndScenario, GoToSleep, Moves, Goto
    <3> QED
      BY <3>1, Zenon DEF Place, Ready
  <2> QED
    BY <2>1, <2>2, <2>3, <2>4, <2>5, Zenon DEF WorkerStep
<1>2. wpc'[w] = p /\ \A v \in Worker : v # w => /\ v \in Ready' <=> v \in Ready
                                                /\ Quit(v)' <=> Quit(v)
  BY <1>1, OthersKept, Zenon
<1>3. w \in Ready => w \in Ready'
  BY <1>2, Zenon DEF Ready
<1>4. Quit(w)' => Quit(w)
  BY <1>2, Zenon DEF Quit
<1>5. \A v \in Ready : v \in Ready'
  <2>1. Ready \subseteq Worker
    BY Zenon DEF Ready
  <2> QED
    BY <1>2, <1>3, <2>1, Zenon
<1> QED
  BY <1>2, <1>4, <1>5, Zenon

(* The other threads, after the timer was closed.                          *)
LEMMA QuietOthers ==
  ASSUME StackInv, PhaseInv, tableClosed, [Next]_vars, ~(\E w \in Worker : WorkerStep(w))
  PROVE  Ready \subseteq Ready' /\ \A v \in Worker : Quit(v)' => Quit(v)
<1>1. state \in [Worker -> ThreadState] /\ MainPc \notin {"resume", "loop", "ending", "close"}
      /\ Running.i \in Worker
  BY RunningFrame, Zenon DEF PhaseInv, Frame
<1>2. ASSUME NEW t \in Thread, Die(t)
      PROVE  Ready \subseteq Ready' /\ \A v \in Worker : Quit(v)' => Quit(v)
  <2>1. PICK p \in {"dying", "dead"} :
          /\ wpc' = [wpc EXCEPT ![t] = p] /\ UNCHANGED state
          /\ wpc[t] \in {"serve", "run", "dying"}
    BY <1>2, Zenon DEF Die, ReadClosed, WriteClosed, Goto
  <2>2. wpc'[t] = p /\ \A v \in Worker : v # t => /\ v \in Ready' <=> v \in Ready
                                                  /\ Quit(v)' <=> Quit(v)
    BY <2>1, OthersKept, Zenon
  <2>3. t \notin Ready /\ (t \in Worker => (Quit(t)' => Quit(t)))
    BY <2>1, <2>2, Zenon DEF Ready, Quit
  <2>4. Ready \subseteq Worker
    BY Zenon DEF Ready
  <2> QED
    BY <2>2, <2>3, <2>4, Zenon
<1>3. CASE ~(\E t \in Thread : Die(t))
  <2>1. UNCHANGED wpc
    BY <1>3, Zenon DEF Next, vars, workerVars, MainStep, MainResume, MainLoopEnds, EndPhase1,
       CloseTimer, EndPhase2, MainExit, BreakStart, BreakSuspend, BreakSwitch, BreakResume,
       StopSwitch, StopAssign, End, CtrlC, AlarmTest, AlarmSend, TopTU, ForEachWorker
  <2>2. \A v \in Worker : state'[v] = "FINISHED" <=> state[v] = "FINISHED"
    <3>1. CASE EndPhase2
      <4>1. Running = stack[1] /\ MainPc = "ending2"
        BY <3>1, MainMoves, Zenon DEF EndPhase2
      <4>2. state[Running.i] # "FINISHED"
        <5>1. ~(Running.i < Running.i)
          BY <1>1 DEF Worker
        <5> QED
          BY <1>1, <4>1, <5>1, Zenon DEF PhaseInv, Late
      <4>3. state' = [state EXCEPT ![Running.i] = "ENDING2"]
        BY <3>1, Zenon DEF EndPhase2, ForEachWorker
      <4> QED
        BY <1>1, <4>2, <4>3, Zenon
    <3>2. ~MainResume /\ ~EndPhase1
      BY <1>1, MainMoves, Zenon DEF MainResume, EndPhase1
    <3>3. ~BreakSuspend /\ ~BreakResume /\ ~StopAssign
      BY <1>1, HandlerRuns, Zenon DEF BreakSuspend, BreakResume, StopAssign
    <3>4. ~(\E v \in Worker : EntryPoint(v) \/ Finish(v))
      BY Zenon DEF WorkerStep
    <3> QED
      BY <3>1, <3>2, <3>3, <3>4, StateSteps, Zenon
  <2> QED
    BY <2>1, <2>2, Zenon DEF Ready, Quit
<1> QED
  BY <1>2, <1>3, Zenon

(* As many contexts, and no fewer workers on their way to them.            *)
LEMMA EnoughKept ==
  ASSUME Enough, Len(table[0]) \in Nat, Len(table'[0]) = Len(table[0]), UNCHANGED looked,
         Ready \subseteq Ready', \A v \in Worker : Quit(v)' => Quit(v)
  PROVE  Enough'
<1>1. /\ Cardinality(Ready) \in Nat /\ Cardinality(Ready') \in Nat
      /\ Cardinality(Ready) <= Cardinality(Ready')
  BY ThreadSets, Threads, Zenon DEF Ready
<1>2. (\E w \in Worker \ looked' : Quit(w)') => Len(table'[0]) <= Cardinality(Ready')
  BY <1>1 DEF Enough
<1> QED
  BY <1>2, Zenon DEF Enough

(* A worker looks at the timer.                                            *)
LEMMA EnoughPoll ==
  ASSUME PhaseInv, Enough, Timer!TypeOK, currentIndex = 0, NEW w \in Worker,
         Resume(w) \/ NothingDue(w)
  PROVE  Enough'
<1>1. table[0] \in Seq(Ctx)
  BY Zenon DEF Timer!TypeOK
<1>2. CASE Resume(w)
  <2>1. /\ table[0] # <<>> /\ table' = [table EXCEPT ![0] = Tail(table[0])]
        /\ wpc[w] = "poll" /\ wpc' = [wpc EXCEPT ![w] = "run"] /\ UNCHANGED <<state, looked>>
    BY <1>2, Zenon DEF Resume, Moves, Goto, Timer!GetUserToResume, Timer!PopCurrent
  <2>2. Len(table[0]) \in Nat \ {0} /\ Len(table'[0]) = Len(table[0]) - 1
    BY <1>1, <2>1 DEF Timer!TypeOK
  <2>3. wpc'[w] = "run" /\ \A v \in Worker : v # w => /\ v \in Ready' <=> v \in Ready
                                                      /\ Quit(v)' <=> Quit(v)
    BY <2>1, Threads, OthersKept, Zenon
  <2>4. w \in Ready /\ w \notin Ready' /\ ~Quit(w)'
    BY <2>1, <2>3, Zenon DEF Ready, Quit, PhaseInv
  <2>5. Ready' = Ready \ {w} /\ Ready \subseteq Thread
    BY <2>3, <2>4, Threads, Zenon DEF Ready
  <2>6. Cardinality(Ready) \in Nat /\ Cardinality(Ready') = Cardinality(Ready) - 1
    BY <2>4, <2>5, ThreadSets, FS_RemoveElement, Zenon
  <2>7. (\E v \in Worker \ looked' : Quit(v)') => Len(table'[0]) <= Cardinality(Ready')
    <3> SUFFICES ASSUME NEW v \in Worker \ looked', Quit(v)'
                 PROVE  Len(table'[0]) <= Cardinality(Ready')
      BY Zenon
    <3>1. Len(table[0]) <= Cardinality(Ready)
      BY <2>1, <2>3, <2>4, Zenon DEF Enough
    <3> QED
      BY <2>2, <2>6, <3>1
  <2> QED
    BY <2>7, Zenon DEF Enough
<1>3. CASE NothingDue(w)
  <2>1. table' = table /\ table[0] = <<>>
    BY <1>3, Zenon DEF NothingDue, timerVars
  <2>2. Cardinality(Ready') \in Nat
    BY ThreadSets, Threads, Zenon DEF Ready
  <2>3. Len(table'[0]) = 0
    BY <2>1, Zenon
  <2> QED
    BY <2>2, <2>3 DEF Enough
<1> QED
  BY <1>2, <1>3, Zenon

(* A worker puts a context in the closed timer: in the one list there is.  *)
LEMMA SleepsInList ==
  ASSUME Timer!TypeOK, Drained, NEW w \in Worker, Timer!SetUserToSleepInsert(w)
  PROVE  /\ Len(table[0]) \in Nat /\ Len(table'[0]) = Len(table[0]) + 1
         /\ \A i \in Timer!Slot \ {0} : table'[i] = table[i]
<1>1. table \in [Timer!Slot -> Seq(Ctx)] /\ 0 \in Timer!Slot /\ call \in [Worker -> Timer!Call]
  BY TimerAssumption DEF Timer!TypeOK, Timer!Slot
<1>2. PICK c : c = call[w].ctx
  BY Zenon
<1>3. PICK i : i = Timer!ResumeIndex(call[w].delay)
  BY Zenon
<1>4. i = 0
  <2>1. i = (0 + 0) % TableSize
    BY <1>3, Zenon DEF Timer!ResumeIndex, Drained
  <2> QED
    BY <2>1, TimerAssumption
<1>5. table' = [table EXCEPT ![0] = <<c>> \o table[0]]
  BY <1>2, <1>3, <1>4, Zenon DEF Timer!SetUserToSleepInsert, Timer!PushFront
<1>6. c \in Ctx \cup {NULL}
  BY <1>1, <1>2, Zenon DEF Timer!Call
<1>7. table[0] \in Seq(Ctx \cup {NULL}) /\ <<c>> \in Seq(Ctx \cup {NULL}) /\ Len(<<c>>) = 1
  BY <1>1, <1>6
<1>8. Len(<<c>> \o table[0]) = 1 + Len(table[0]) /\ Len(table[0]) \in Nat
  BY <1>7
<1>9. table'[0] = <<c>> \o table[0] /\ \A j \in Timer!Slot \ {0} : table'[j] = table[j]
  BY <1>1, <1>5, Zenon
<1>10. Len(table'[0]) = Len(table[0]) + 1
  BY <1>8, <1>9
<1> QED
  BY <1>8, <1>9, <1>10, Zenon

(* ... and is on its way to look at that list.                             *)
LEMMA EnoughSleep ==
  ASSUME PhaseInv, Drained, Timer!TypeOK, NEW w \in Worker, Sleep(w)
  PROVE  Enough'
<1>1. /\ wpc[w] = "sleep" /\ wpc' = [wpc EXCEPT ![w] = "top"] /\ UNCHANGED <<state, looked>>
      /\ state[w] # "FINISHED"
  BY Zenon DEF Sleep, Moves, Goto, PhaseInv
<1>2. wpc'[w] = "top" /\ \A v \in Worker : v # w => /\ v \in Ready' <=> v \in Ready
                                                    /\ Quit(v)' <=> Quit(v)
  BY <1>1, Threads, OthersKept, Zenon
<1>3. w \notin Ready /\ w \in Ready' /\ ~Quit(w)'
  BY <1>1, <1>2, Zenon DEF Ready, Quit
<1>4. Ready \subseteq Ready' /\ Ready # Ready' /\ Ready' \subseteq Thread
  BY <1>2, <1>3, Threads, Zenon DEF Ready
<1>5. Cardinality(Ready) \in Nat /\ Cardinality(Ready') \in Nat
      /\ Cardinality(Ready) < Cardinality(Ready')
  BY <1>4, ThreadSets, Zenon
<1>6. Len(table[0]) \in Nat
  BY TimerAssumption DEF Timer!TypeOK, Timer!Slot
<1>7. Len(table'[0]) = Len(table[0]) + 1 \/ Len(table'[0]) = Len(table[0])
  BY SleepsInList, Zenon DEF Sleep, Timer!SetUserToSleepNoMemory, Timer!tableVars
<1>8. (\E v \in Worker \ looked' : Quit(v)') => Len(table'[0]) <= Cardinality(Ready')
  <2> SUFFICES ASSUME NEW v \in Worker \ looked', Quit(v)'
               PROVE  Len(table'[0]) <= Cardinality(Ready')
    BY Zenon
  <2>1. Len(table[0]) <= Cardinality(Ready)
    BY <1>1, <1>2, <1>3, Zenon DEF Drained, Enough
  <2> QED
    BY <1>5, <1>6, <1>7, <2>1
<1> QED
  BY <1>8, Zenon DEF Enough

(* A pending tTimerSetUserToSleep belongs to a worker that waits for it.   *)
LEMMA CallStep ==
  ASSUME PhaseInv, Timer!TypeOK, [Next]_vars,
         \A w \in Worker : call[w] # Timer!NoCall => wpc[w] = "sleep"
  PROVE  \A w \in Worker : call'[w] # Timer!NoCall => wpc'[w] = "sleep"
<1>1. call \in [Worker -> Timer!Call] /\ wpc \in [Thread -> Place] /\ Worker \subseteq Thread
  BY Threads, Zenon DEF Timer!TypeOK, PhaseInv
<1>2. ASSUME NEW v \in Worker, GoToSleep(v)
      PROVE  \A w \in Worker : call'[w] # Timer!NoCall => wpc'[w] = "sleep"
  <2>1. wpc' = [wpc EXCEPT ![v] = "sleep"] /\ \E d : call' = [call EXCEPT ![v] = d]
    BY <1>2, Zenon DEF GoToSleep, Moves, Goto, Timer!SetUserToSleepTest
  <2> QED
    BY <1>1, <2>1, Zenon
<1>3. ASSUME NEW v \in Worker, Sleep(v)
      PROVE  \A w \in Worker : call'[w] # Timer!NoCall => wpc'[w] = "sleep"
  <2>1. wpc' = [wpc EXCEPT ![v] = "top"] /\ call' = [call EXCEPT ![v] = Timer!NoCall]
    BY <1>3, Zenon DEF Sleep, Moves, Goto, Timer!SetUserToSleepInsert, Timer!SetUserToSleepNoMemory
  <2> QED
    BY <1>1, <2>1, Zenon
<1>4. CASE ~(\E v \in Worker : GoToSleep(v) \/ Sleep(v))
  <2>1. UNCHANGED call
    BY <1>4, TimerSteps, Zenon DEF timerVars, TopTU, CloseTimer, Resume, Timer!TopTU, Timer!TopTUCheck,
       Timer!TopTUPop, Timer!TopTUTest, Timer!TopTUPush, Timer!TopTUNoMemory,
       Timer!TopTUAdvance, Timer!Close, Timer!GetUserToResume
  <2>2. \A w \in Worker : wpc[w] = "sleep" => wpc'[w] = "sleep"
    <3>1. ASSUME NEW v \in Worker, WorkerStep(v)
          PROVE  wpc[v] # "sleep" /\ \E p : wpc' = [wpc EXCEPT ![v] = p]
      BY <1>4, <3>1, Zenon DEF WorkerStep, EntryPoint, LeaveStart, LoopTop, Resume, NothingDue,
         TestEnding, StartScenario, CountAsClosed, ReadClosed, WriteClosed, Finish,
         EndScenario, Moves, Goto
    <3>2. ASSUME NEW v \in Thread, Die(v)
          PROVE  wpc[v] # "sleep" /\ \E p : wpc' = [wpc EXCEPT ![v] = p]
      BY <3>2, Zenon DEF Die, ReadClosed, WriteClosed, Goto
    <3>3. CASE ~((\E v \in Worker : WorkerStep(v)) \/ (\E v \in Thread : Die(v)))
      BY <3>3, Zenon DEF Next, vars, workerVars, MainStep, MainResume, MainLoopEnds, EndPhase1,
         CloseTimer, EndPhase2, MainExit, BreakStart, BreakSuspend, BreakSwitch, BreakResume,
         StopSwitch, StopAssign, End, CtrlC, AlarmTest, AlarmSend, TopTU, ForEachWorker
    <3> QED
      BY <1>1, <3>1, <3>2, <3>3, Zenon
  <2> QED
    BY <2>1, <2>2, Zenon
<1> QED
  BY <1>2, <1>3, <1>4, Zenon

(* The closed timer: nothing moves its index, and it stays one list.       *)
LEMMA DrainedStep ==
  ASSUME StackInv, PhaseInv, Timer!TypeOK, tableClosed, Drained, [Next]_vars
  PROVE  Drained' /\ UNCHANGED <<tableClosed, raced>>
<1>1. /\ call \in [Worker -> Timer!Call] /\ table \in [Timer!Slot -> Seq(Ctx)]
      /\ currentIndex = 0 /\ 0 \in Timer!Slot /\ Len(table[0]) \in Nat /\ Enough
  BY TimerAssumption DEF Timer!TypeOK, Drained, Timer!Slot
<1>2. ~TopTU /\ ~CloseTimer
  BY Zenon DEF TopTU, CloseTimer, Drained, Timer!TopTU, Timer!TopTUCheck, Timer!TopTUPop,
     Timer!TopTUTest, Timer!TopTUPush, Timer!TopTUNoMemory, Timer!TopTUAdvance, Timer!Close
<1>3. UNCHANGED <<currentIndex, top, tableClosed, raced>>
  BY <1>2, TimerSteps, Zenon DEF timerVars, Resume, GoToSleep, Sleep, Timer!GetUserToResume,
     Timer!SetUserToSleepTest, Timer!SetUserToSleepInsert, Timer!SetUserToSleepNoMemory,
     Timer!tableVars, Timer!history
<1>4. UNCHANGED looked
  BY <1>2, Zenon DEF Next, vars, counts, MainStep, MainResume, MainLoopEnds, EndPhase1, EndPhase2,
     MainExit, BreakStart, BreakSuspend, BreakSwitch, BreakResume, StopSwitch, StopAssign,
     End, CtrlC, AlarmTest, AlarmSend, WorkerStep, EntryPoint, LeaveStart, LoopTop, Resume,
     NothingDue, TestEnding, StartScenario, CountAsClosed, ReadClosed, WriteClosed, Finish,
     EndScenario, GoToSleep, Sleep, Moves, Die
<1>5. \A i \in Timer!Slot \ {0} : table'[i] = <<>>
  <2>1. \A i \in Timer!Slot \ {0} : table'[i] = table[i]
    <3>1. ASSUME NEW w \in Worker, Resume(w)
          PROVE  \A i \in Timer!Slot \ {0} : table'[i] = table[i]
      BY <1>1, <3>1, Zenon DEF Resume, Timer!GetUserToResume, Timer!PopCurrent
    <3>2. ASSUME NEW w \in Worker, Sleep(w)
          PROVE  \A i \in Timer!Slot \ {0} : table'[i] = table[i]
      BY <3>2, SleepsInList, Zenon DEF Sleep, Timer!SetUserToSleepNoMemory, Timer!tableVars
    <3>3. ASSUME NEW w \in Worker, GoToSleep(w) PROVE UNCHANGED table
      BY <3>3, Zenon DEF GoToSleep, Timer!SetUserToSleepTest, Timer!tableVars
    <3> QED
      BY <1>2, <3>1, <3>2, <3>3, TimerSteps, Zenon DEF timerVars
  <2> QED
    BY <2>1, Zenon DEF Drained
<1>6. \A w \in Worker : call'[w].delay = 0
  <2>1. ASSUME NEW v \in Worker, GoToSleep(v) PROVE \A w \in Worker : call'[w].delay = 0
    <3>1. PICK d : d.delay = 0 /\ call' = [call EXCEPT ![v] = d]
      BY <2>1, Zenon DEF GoToSleep, Timer!SetUserToSleepTest, Timer!ChosenDelay
    <3> QED
      BY <1>1, <3>1, Zenon DEF Drained
  <2>2. ASSUME NEW v \in Worker, Sleep(v) PROVE \A w \in Worker : call'[w].delay = 0
    <3>1. call' = [call EXCEPT ![v] = Timer!NoCall] /\ Timer!NoCall.delay = 0
      BY <2>2, Zenon DEF Sleep, Timer!SetUserToSleepInsert, Timer!SetUserToSleepNoMemory, Timer!NoCall
    <3> QED
      BY <1>1, <3>1, Zenon DEF Drained
  <2>3. ASSUME NEW v \in Worker, Resume(v) PROVE UNCHANGED call
    BY <2>3, Zenon DEF Resume, Timer!GetUserToResume
  <2> QED
    BY <1>2, <2>1, <2>2, <2>3, TimerSteps, Zenon DEF timerVars, Drained
<1>7. Enough'
  <2>1. CASE \E w \in Worker : Resume(w) \/ NothingDue(w)
    BY <1>1, <2>1, EnoughPoll, Zenon
  <2>2. CASE \E w \in Worker : Sleep(w)
    BY <2>2, EnoughSleep, Zenon
  <2>3. CASE ~(\E w \in Worker : Resume(w) \/ NothingDue(w) \/ Sleep(w))
    <3>1. UNCHANGED table
      BY <1>2, <2>3, TimerSteps, Zenon DEF timerVars, GoToSleep, Timer!SetUserToSleepTest,
         Timer!tableVars
    <3>2. Ready \subseteq Ready' /\ \A v \in Worker : Quit(v)' => Quit(v)
      BY <2>3, QuietWorker, QuietOthers, Zenon
    <3> QED
      BY <1>1, <1>4, <3>1, <3>2, EnoughKept, Zenon
  <2> QED
    BY <2>1, <2>2, <2>3, Zenon
<1> QED
  BY <1>1, <1>3, <1>5, <1>6, <1>7, Zenon DEF Drained

(* tTimerClose, when no other operation on the timer is open.              *)
LEMMA CloseDrains ==
  ASSUME StackInv, PhaseInv, Timer!TypeOK, CloseTimer, ~raced' PROVE Drained'
<1>1. /\ MainPc = "close" /\ UNCHANGED <<wpc, state>>
      /\ looked' = {w \in Worker : wpc[w] \in {"ending?", "ending2?"}}
  BY MainMoves, Zenon DEF CloseTimer, workerVars
<1>2. \A w \in Worker \ looked' : ~Quit(w)'
  BY <1>1, Zenon DEF Quit, PhaseInv, Late
<1>3. Enough'
  BY <1>2, Zenon DEF Enough
<1>4. /\ table' = [i \in Timer!Slot |-> IF i = 0 THEN Timer!ClosedList ELSE <<>>]
      /\ currentIndex' = 0 /\ UNCHANGED <<call, top>>
      /\ top.pc = "idle" /\ \A w \in Worker : call[w] = Timer!NoCall
  BY Zenon DEF CloseTimer, Timer!Close, Timer!ClosedIndex
<1>5. \A i \in Timer!Slot \ {0} : table'[i] = <<>>
  BY <1>4, Zenon
<1>6. \A w \in Worker : call'[w].delay = 0
  BY <1>4 DEF Timer!NoCall
<1> QED
  BY <1>3, <1>4, <1>5, <1>6, Zenon DEF Drained

(* Every step.                                                             *)
LEMMA DrainStep ==
  ASSUME StackInv, PhaseInv, Timer!TypeOK, DrainInv, [Next]_vars PROVE DrainInv'
<1>1. \A w \in Worker : call'[w] # Timer!NoCall => wpc'[w] = "sleep"
  BY CallStep, Zenon DEF DrainInv
<1>2. CASE tableClosed /\ ~raced
  BY <1>1, <1>2, DrainedStep, Zenon DEF DrainInv
<1>3. CASE CloseTimer
  BY <1>1, <1>3, CloseDrains, Zenon DEF DrainInv
<1>4. CASE ~CloseTimer
  <2>1. UNCHANGED <<tableClosed, raced>>
    BY <1>4, TimerSteps, Zenon DEF timerVars, TopTU, Resume, GoToSleep, Sleep, Timer!GetUserToResume,
       Timer!SetUserToSleepTest, Timer!SetUserToSleepInsert, Timer!SetUserToSleepNoMemory,
       Timer!TopTU, Timer!TopTUCheck, Timer!TopTUPop, Timer!TopTUTest, Timer!TopTUPush,
       Timer!TopTUNoMemory, Timer!TopTUAdvance, Timer!tableVars, Timer!history
  <2>2. CASE ~(tableClosed /\ ~raced)
    BY <1>1, <2>1, <2>2, Zenon DEF DrainInv
  <2> QED
    BY <1>2, <2>2, Zenon
<1> QED
  BY <1>3, <1>4, Zenon

(* When main exits after the workers, the list is empty.                   *)
LEMMA ExitDrained ==
  ASSUME PhaseInv, CountInv, DrainInv, Timer!TypeOK, MainPc = "exit", wpc[Select] = "serve",
         ~raced, NEW w \in Worker \ looked, wpc[w] # "dead"
  PROVE  \A i \in Timer!Slot : table[i] = <<>>
<1>1. \A v \in Worker : Closed(v)
  BY ExitClosed, Zenon
<1>2. Quit(w) /\ tableClosed
  BY <1>1, Zenon DEF Quit, Closed, PhaseInv
<1>3. Ready = {}
  BY <1>1, Zenon DEF Ready, Closed
<1>4. Len(table[0]) <= 0 /\ \A i \in Timer!Slot \ {0} : table[i] = <<>>
  <2>1. Len(table[0]) <= Cardinality({})
    BY <1>2, <1>3, Zenon DEF DrainInv, Drained, Enough
  <2> QED
    BY <1>2, <2>1, FS_EmptySet, Zenon DEF DrainInv, Drained
<1>5. table[0] = <<>>
  <2>1. table[0] \in Seq(Ctx)
    BY TimerAssumption DEF Timer!TypeOK, Timer!Slot
  <2>2. Len(table[0]) = 0
    BY <1>4, <2>1
  <2> QED
    BY <2>1, <2>2
<1> QED
  BY <1>4, <1>5, Zenon

(* The proofs about the timer, for the timer of TLifecycle.                *)
Ring == INSTANCE TTimerProofs WITH Awake <- -1, Lost <- -2

-----------------------------------------------------------------------------
(***************************************************************************)
(* The timer: every step of TLifecycle is one of TTimer, or leaves it      *)
(* alone.                                                                  *)
(***************************************************************************)
LEMMA RingHomeStep == Ring!HomeInv /\ [Ring!Next]_(Ring!vars) => Ring!HomeInv'
<1>1. -1 \notin Ring!Slot /\ -2 \notin Ring!Slot
  BY TimerAssumption DEF Ring!Slot
<1> QED
  BY <1>1, TimerAssumption, Ring!HomeStep

(* The timer is empty at the start.                                        *)
LEMMA RingHomeInit == Timer!Init => Ring!HomeInv
<1>1. -1 \notin Ring!Slot /\ -2 \notin Ring!Slot
  BY TimerAssumption DEF Ring!Slot
<1>2. Timer!Init => Ring!Init
  BY Zenon DEF Timer!Init, Ring!Init, Timer!Slot, Ring!Slot, Timer!NoCall, Ring!NoCall
<1> QED
  BY <1>1, <1>2, TimerAssumption, Ring!HomeInit

(* tTimerClose.                                                            *)
LEMMA RingClose == Timer!Close => Ring!Close
<1>1. Timer!ClosedList = Ring!ClosedList
  BY Zenon DEF Timer!ClosedList, Ring!ClosedList, Timer!FlattenSeq, Ring!FlattenSeq,
     Timer!Reverse, Ring!Reverse
<1> QED
  BY <1>1, Zenon DEF Timer!Close, Ring!Close, Timer!ClosedIndex, Ring!ClosedIndex, Timer!Slot,
     Ring!Slot, Timer!NoCall, Ring!NoCall

(* The steps of a worker.                                                  *)
LEMMA RingWorker ==
  ASSUME NEW w \in Worker,
         \/ Timer!GetUserToResume(w)
         \/ \E c \in Ctx, n \in 1 .. TableSize - 1 : Timer!SetUserToSleepTest(w, c, n)
         \/ Timer!SetUserToSleepInsert(w) \/ Timer!SetUserToSleepNoMemory(w)
  PROVE  Ring!WorkerStep(w)
<1> USE DEF Timer!NoCall, Ring!NoCall, Timer!tableVars, Ring!tableVars, Timer!history,
            Ring!history
<1>1. CASE Timer!GetUserToResume(w)
  BY <1>1, Zenon DEF Timer!GetUserToResume, Ring!GetUserToResume, Timer!PopCurrent,
     Ring!PopCurrent, Ring!WorkerStep
<1>2. ASSUME NEW c \in Ctx, NEW n \in 1 .. TableSize - 1, Timer!SetUserToSleepTest(w, c, n)
      PROVE  Ring!WorkerStep(w)
  <2>1. n \in Ring!Slot \ {0}
    BY TimerAssumption DEF Ring!Slot
  <2>2. Timer!InTable = Ring!InTable
    BY Zenon DEF Timer!InTable, Ring!InTable, Timer!ToSet, Ring!ToSet, Timer!Slot, Ring!Slot
  <2>3. Timer!InHand = Ring!InHand
    BY Zenon DEF Timer!InHand, Ring!InHand
  <2>4. Ring!SetUserToSleepTest(w, c, n)
    BY <1>2, <2>2, <2>3, Zenon DEF Timer!SetUserToSleepTest, Ring!SetUserToSleepTest,
       Timer!ChosenDelay, Ring!ChosenDelay
  <2> QED
    BY <2>1, <2>4, Zenon DEF Ring!WorkerStep
<1>3. CASE Timer!SetUserToSleepInsert(w)
  BY <1>3, Zenon DEF Timer!SetUserToSleepInsert, Ring!SetUserToSleepInsert, Timer!PushFront,
     Ring!PushFront, Timer!ResumeIndex, Ring!ResumeIndex, Ring!WorkerStep
<1>4. CASE Timer!SetUserToSleepNoMemory(w)
  BY <1>4, Zenon DEF Timer!SetUserToSleepNoMemory, Ring!SetUserToSleepNoMemory, Ring!WorkerStep
<1> QED
  BY <1>1, <1>2, <1>3, <1>4, Zenon

(* The statistics thread.                                                  *)
LEMMA RingTopTU == Timer!TopTU => Ring!TopTU
BY Zenon DEF Timer!TopTU, Ring!TopTU, Timer!TopTUCheck, Ring!TopTUCheck, Timer!TopTUPop,
   Ring!TopTUPop, Timer!TopTUTest, Ring!TopTUTest, Timer!TopTUPush, Ring!TopTUPush,
   Timer!TopTUNoMemory, Ring!TopTUNoMemory, Timer!TopTUAdvance, Ring!TopTUAdvance,
   Timer!tableVars, Ring!tableVars, Timer!history, Ring!history, Timer!DueHead, Ring!DueHead,
   Timer!PopCurrent, Ring!PopCurrent, Timer!ChosenDelay, Ring!ChosenDelay, Timer!PushFront,
   Ring!PushFront, Timer!ResumeIndex, Ring!ResumeIndex, Timer!NextIndex, Ring!NextIndex

(* Who does not touch the timer.                                           *)
LEMMA TimerUntouched == UNCHANGED timerVars => UNCHANGED Ring!vars
BY Zenon DEF timerVars, Ring!vars, Ring!tableVars, Ring!history

(* So the invariant of the timer is one of TLifecycle.                     *)
LEMMA RingStep == Ring!HomeInv /\ [Next]_vars => Ring!HomeInv'
<1> SUFFICES ASSUME Ring!HomeInv, [Next]_vars PROVE [Ring!Next]_(Ring!vars)
  BY RingHomeStep, Zenon
<1>1. CASE UNCHANGED timerVars
  BY <1>1, TimerUntouched, Zenon
<1>2. CASE TopTU
  BY <1>2, RingTopTU, Zenon DEF TopTU, Ring!Next
<1>3. CASE CloseTimer
  BY <1>3, RingClose, Zenon DEF CloseTimer, Ring!Next
<1>4. CASE \E w \in Worker : Resume(w) \/ GoToSleep(w) \/ Sleep(w)
  BY <1>4, RingWorker, Zenon DEF Resume, GoToSleep, Sleep, Ring!Next
<1> QED
  BY <1>1, <1>2, <1>3, <1>4, TimerSteps, Zenon

(* The types of the timer.                                                 *)
LEMMA RingTypes == Ring!HomeInv => Timer!TypeOK
BY Zenon DEF Ring!HomeInv, Ring!OneHome, Timer!TypeOK, Ring!TypeOK, Timer!Slot, Ring!Slot,
   Timer!Call, Ring!Call, Timer!TopStep, Ring!TopStep

-----------------------------------------------------------------------------

-----------------------------------------------------------------------------
(***************************************************************************)
(* The inductive invariant, and what it says of the exit of main.          *)
(***************************************************************************)
LifeInv ==
  StackInv /\ PhaseInv /\ RestInv /\ CountInv /\ DrainInv /\ Ring!HomeInv

(* It holds at the start.                                                  *)
LEMMA LifeInit == Init => LifeInv
<1> SUFFICES ASSUME Init PROVE LifeInv
  BY Zenon
<1>1. Timer!Init
  BY Zenon DEF Init
<1>2. DrainInv
  BY <1>1, Zenon DEF Timer!Init, DrainInv
<1> QED
  BY <1>1, <1>2, PhaseInit, CountInit, RingHomeInit, Zenon DEF LifeInv

(* Every step keeps it.                                                    *)
LEMMA LifeStep == LifeInv /\ [Next]_vars => LifeInv'
<1> SUFFICES ASSUME LifeInv, [Next]_vars PROVE LifeInv'
  BY Zenon
<1>1. StackInv /\ PhaseInv /\ RestInv /\ CountInv /\ DrainInv /\ Ring!HomeInv
  BY Zenon DEF LifeInv
<1>2. Timer!TypeOK
  BY <1>1, RingTypes, Zenon
<1>3. StackInv' /\ PhaseInv'
  BY <1>1, PhaseStep, Zenon
<1>4. RestInv' /\ CountInv'
  BY <1>1, RestStep, CountStep, Zenon
<1>5. DrainInv'
  BY <1>1, <1>2, DrainStep, Zenon
<1>6. Ring!HomeInv'
  BY <1>1, RingStep, Zenon
<1> QED
  BY <1>3, <1>4, <1>5, <1>6, Zenon DEF LifeInv

(***************************************************************************)
(* ExitAfterWorkers: main, which only compares a count with the number of  *)
(* workers, exits when each worker has closed its session or died, for any *)
(* number of workers and deaths; the increments that race and are lost     *)
(* only make it wait longer.                                               *)
(***************************************************************************)
THEOREM WorkersClosedAtExit == Spec => []ExitAfterWorkers
<1>1. LifeInv => ExitAfterWorkers
  <2> SUFFICES ASSUME LifeInv PROVE ExitAfterWorkers
    BY Zenon
  <2>1. TypeOK
    BY CountTypes, RingTypes, Zenon DEF LifeInv
  <2> QED
    BY <2>1, ExitClosed, Zenon DEF LifeInv, ExitAfterWorkers
<1> QED
  BY <1>1, LifeInit, LifeStep, PTL DEF Spec

(***************************************************************************)
(* NoSessionLeft: no context is left in the timer when main exits, for any *)
(* number of workers and contexts and any size of the timer, although each *)
(* worker decides alone, from an empty list, that it has finished.         *)
(***************************************************************************)
THEOREM TimerDrainedAtExit == Spec => []NoSessionLeft
<1>1. LifeInv => NoSessionLeft
  BY ExitDrained, RingTypes, Zenon DEF LifeInv, NoSessionLeft
<1> QED
  BY <1>1, LifeInit, LifeStep, PTL DEF Spec

=============================================================================
