------------------------------- MODULE TSleep -------------------------------
(***************************************************************************)
(* What the timer of Src/ttimer.c promises to its users, without the ring: *)
(* a context put to sleep for n time units becomes due after n of them and *)
(* only then may be resumed, once; closing the timer makes every sleeping  *)
(* context due, and so is whatever goes to sleep later.                    *)
(***************************************************************************)
EXTENDS Integers

CONSTANTS Ctx,       \* the contexts
          MaxSleep,  \* the longest sleep (tTimerGetMaxSleepTime)
          CanLose,   \* whether a context may be dropped for want of memory
          Awake,     \* not in the timer
          Lost       \* dropped

VARIABLES asleep,    \* context -> time units left, Awake or Lost
          closed

vars == <<asleep, closed>>

Init == asleep = [c \in Ctx |-> Awake] /\ closed = FALSE

Sleep(c, n) ==
  /\ asleep[c] = Awake
  /\ asleep' = [asleep EXCEPT ![c] = IF closed THEN 0 ELSE n]
  /\ UNCHANGED closed

Resume(c) ==
  /\ asleep[c] = 0
  /\ asleep' = [asleep EXCEPT ![c] = Awake]
  /\ UNCHANGED closed

Lose(c) ==
  /\ CanLose
  /\ asleep[c] \in {Awake, 0}
  /\ asleep' = [asleep EXCEPT ![c] = Lost]
  /\ UNCHANGED closed

Tick ==
  /\ ~closed
  /\ asleep' = [c \in Ctx |-> IF asleep[c] \in 1 .. MaxSleep
                              THEN asleep[c] - 1 ELSE asleep[c]]
  /\ UNCHANGED closed

Close ==
  /\ ~closed
  /\ closed' = TRUE
  /\ asleep' = [c \in Ctx |-> IF asleep[c] \in 0 .. MaxSleep
                              THEN 0 ELSE asleep[c]]

Next ==
  \/ Tick \/ Close
  \/ \E c \in Ctx : Resume(c) \/ Lose(c) \/ \E n \in 0 .. MaxSleep : Sleep(c, n)

Spec == Init /\ [][Next]_vars
=============================================================================
