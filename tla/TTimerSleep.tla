----------------------------- MODULE TTimerSleep -----------------------------
(***************************************************************************)
(* How TTimer implements TSleep: the time a context still has to sleep, as *)
(* seen by who put it to sleep, from the ring and the hands of tTimerTopTU.*)
(***************************************************************************)
EXTENDS TTimer

CONSTANTS Awake, Lost  \* as in TSleep: not in the timer, dropped

ASSUME MarksAssumption == Awake \notin Slot /\ Lost \notin Slot /\ Awake # Lost

(***************************************************************************)
(* A context that tTimerTopTU is carrying to the next slot still sleeps.   *)
(***************************************************************************)
Asleep(c) ==
  IF c \in lost THEN Lost
  ELSE IF c \notin InTable /\ c # top.ctx THEN Awake
  ELSE IF tableClosed THEN 0 ELSE left[c]

Sleeping == [c \in Ctx |-> Asleep(c)]

TSleepBar ==
  INSTANCE TSleep WITH MaxSleep <- TableSize - 1, CanLose <- MallocFails,
                       asleep <- Sleeping, closed <- tableClosed

(***************************************************************************)
(* The ring of ttimer.c, with the statistics thread and the workers        *)
(* interleaved in the middle of each other's operations, implements the    *)
(* timer of TSleep: no context is resumed early, late, twice or lost.      *)
(***************************************************************************)
ImplementsTSleep == TSleepBar!Spec
=============================================================================
