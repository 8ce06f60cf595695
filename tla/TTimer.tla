------------------------------- MODULE TTimer -------------------------------
(***************************************************************************)
(* The circular timer of Src/ttimer.c: a ring of lists of sleeping         *)
(* contexts (tSleep pointers), indexed by time unit.                       *)
(*                                                                         *)
(* Three kinds of thread use it.  Workers (texec.c) put a context to sleep *)
(* and ask for a context to resume; the statistics thread (tstat.c) calls  *)
(* tTimerTopTU once per time unit; the main thread (tmain.c) calls         *)
(* tTimerClose once, when the program ends.                                *)
(*                                                                         *)
(* Grain of atomicity: one action per section protected by tTimerMutex,    *)
(* plus one per unprotected read of tableClosed (ttimer.c:222).            *)
(***************************************************************************)
EXTENDS Integers, Sequences

CONSTANTS Ctx,          \* the contexts that may be put to sleep
          Worker,       \* the worker threads
          TableSize,    \* tTimerCircularTableSize (TIMER_MAX_WAIT in ttimer.h)
          MallocFails,  \* whether the malloc of a list element may fail
          NULL          \* the null pointer

ASSUME TableSizeAssumption == TableSize \in Nat /\ TableSize >= 2
ASSUME NullAssumption == NULL \notin Ctx
ASSUME MallocAssumption == MallocFails \in BOOLEAN

VARIABLES table,         \* tTimerCircularTable: slot -> list, head first
          currentIndex,
          tableClosed,
          call,          \* worker -> its pending tTimerSetUserToSleep
          top            \* the statistics thread inside tTimerTopTU

(***************************************************************************)
(* History variables: they are never read by the actions of the code.      *)
(***************************************************************************)
VARIABLES left,          \* context -> time units it still has to sleep
          moved,         \* contexts the running tTimerTopTU put in the next TU
          lost,          \* contexts dropped because their malloc failed
          raced          \* tTimerClose ran while another operation was open

tableVars == <<table, currentIndex, tableClosed>>
history == <<left, moved, lost, raced>>
vars == <<tableVars, call, top, history>>

Slot == 0 .. TableSize - 1
NoCall == [ctx |-> NULL, delay |-> 0]
Call == [ctx : Ctx \cup {NULL}, delay : Slot]
TopStep == {"idle", "pop", "test", "push", "advance"}

(***************************************************************************)
(* Lists of tSleep elements: the contexts of a list, the list as pushing   *)
(* its elements one by one on another leaves it, and lists end to end.     *)
(* These are ToSet, Reverse and FlattenSeq of SequencesExt, for the lists  *)
(* used here; a module that instances this one does not import the rest.   *)
(***************************************************************************)
ToSet(list) == {list[i] : i \in DOMAIN list}
Reverse(list) == [i \in 1 .. Len(list) |-> list[Len(list) - i + 1]]
FlattenSeq(lists) ==
  LET flatten[i \in 1 .. Len(lists)] ==
        IF i = 1 THEN lists[i] ELSE flatten[i - 1] \o lists[i]
  IN  flatten[Len(lists)]

InTable == UNION {ToSet(table[i]) : i \in Slot}
InHand == {call[w].ctx : w \in Worker} \cup {top.ctx}

TypeOK ==
  /\ table \in [Slot -> Seq(Ctx)]
  /\ currentIndex \in Slot
  /\ tableClosed \in BOOLEAN
  /\ call \in [Worker -> Call]
  /\ top \in [pc : TopStep, ctx : Ctx \cup {NULL}, delay : Slot]
  /\ left \in [Ctx -> Slot]
  /\ moved \subseteq Ctx
  /\ lost \subseteq Ctx
  /\ raced \in BOOLEAN

(***************************************************************************)
(* tTimerInit: empty lists, table open.                                    *)
(***************************************************************************)
Init ==
  /\ table = [i \in Slot |-> <<>>]
  /\ currentIndex = 0
  /\ tableClosed = FALSE
  /\ call = [w \in Worker |-> NoCall]
  /\ top = [pc |-> "idle", ctx |-> NULL, delay |-> 0]
  /\ left = [c \in Ctx |-> 0]
  /\ moved = {}
  /\ lost = {}
  /\ raced = FALSE

-----------------------------------------------------------------------------
(***************************************************************************)
(* tTimerSetUserToSleep in two sections: the unprotected test of           *)
(* tableClosed chooses the delay, then the element is linked in front of   *)
(* its slot.  A sleep of TableSize or more is refused before anything is   *)
(* done (ttimer.c:217) and so is no step of the timer.                     *)
(* (Operators named Mut... are plausible slips in the operator that        *)
(* follows them; they show that a property below can fail.)                *)
(***************************************************************************)
ChosenDelay(n) == IF tableClosed THEN 0 ELSE n

MutResumeIndex(delay) == delay % TableSize
ResumeIndex(delay) == (currentIndex + delay) % TableSize

PushFront(c, i) == [table EXCEPT ![i] = <<c>> \o @]

SetUserToSleepTest(w, c, n) ==
  /\ call[w] = NoCall
  /\ c \notin InTable \cup InHand \cup lost
  /\ call' = [call EXCEPT ![w] = [ctx |-> c, delay |-> ChosenDelay(n)]]
  /\ UNCHANGED <<tableVars, top, history>>

SetUserToSleepInsert(w) ==
  /\ call[w] # NoCall
  /\ table' = PushFront(call[w].ctx, ResumeIndex(call[w].delay))
  /\ left' = [left EXCEPT ![call[w].ctx] = call[w].delay]
  /\ call' = [call EXCEPT ![w] = NoCall]
  /\ UNCHANGED <<currentIndex, tableClosed, top, moved, lost, raced>>

SetUserToSleepNoMemory(w) ==
  /\ MallocFails
  /\ call[w] # NoCall
  /\ lost' = lost \cup {call[w].ctx}
  /\ call' = [call EXCEPT ![w] = NoCall]
  /\ UNCHANGED <<tableVars, top, left, moved, raced>>

(***************************************************************************)
(* tTimerGetUserToResume called by a worker that found a context: the      *)
(* worker frees the element and carries on with the scenario.              *)
(***************************************************************************)
DueHead == Head(table[currentIndex])
MutPopCurrent == table
PopCurrent == [table EXCEPT ![currentIndex] = Tail(@)]

GetUserToResume(w) ==
  /\ call[w] = NoCall
  /\ table[currentIndex] # <<>>
  /\ table' = PopCurrent
  /\ UNCHANGED <<currentIndex, tableClosed, call, top, history>>

-----------------------------------------------------------------------------
(***************************************************************************)
(* tTimerTopTU, run by the statistics thread: give up if the table is      *)
(* closed; move every context nobody resumed to the next time unit, one    *)
(* tTimerGetUserToResume and one tTimerSetUserToSleep at a time; advance.  *)
(***************************************************************************)
TopTUCheck ==
  /\ top.pc = "idle"
  /\ ~tableClosed
  /\ top' = [top EXCEPT !.pc = "pop"]
  /\ UNCHANGED <<tableVars, call, history>>

TopTUPop ==
  /\ top.pc = "pop"
  /\ IF table[currentIndex] = <<>>
       THEN /\ top' = [top EXCEPT !.pc = "advance"]
            /\ UNCHANGED table
       ELSE /\ top' = [top EXCEPT !.pc = "test", !.ctx = DueHead]
            /\ table' = PopCurrent
  /\ UNCHANGED <<currentIndex, tableClosed, call, history>>

TopTUTest ==
  /\ top.pc = "test"
  /\ top' = [top EXCEPT !.pc = "push", !.delay = ChosenDelay(1)]
  /\ UNCHANGED <<tableVars, call, history>>

TopTUPush ==
  /\ top.pc = "push"
  /\ table' = PushFront(top.ctx, ResumeIndex(top.delay))
  /\ moved' = moved \cup {top.ctx}
  /\ top' = [pc |-> "pop", ctx |-> NULL, delay |-> 0]
  /\ UNCHANGED <<currentIndex, tableClosed, call, left, lost, raced>>

(***************************************************************************)
(* A failed malloc also ends the loop: the popped context is dropped.      *)
(***************************************************************************)
TopTUNoMemory ==
  /\ MallocFails
  /\ top.pc = "push"
  /\ lost' = lost \cup {top.ctx}
  /\ top' = [pc |-> "advance", ctx |-> NULL, delay |-> 0]
  /\ UNCHANGED <<tableVars, call, left, moved, raced>>

NextIndex == (currentIndex + 1) % TableSize

MutTopTUAdvance ==
  /\ top.pc = "advance"
  /\ top' = [top EXCEPT !.pc = "idle"]
  /\ moved' = {}
  /\ UNCHANGED <<tableVars, call, left, lost, raced>>

TopTUAdvance ==
  /\ top.pc = "advance"
  /\ currentIndex' = NextIndex
  /\ top' = [top EXCEPT !.pc = "idle"]
  /\ left' = [c \in Ctx |-> IF left[c] > 0 THEN left[c] - 1 ELSE 0]
  /\ moved' = {}
  /\ UNCHANGED <<table, tableClosed, call, lost, raced>>

TopTU == TopTUCheck \/ TopTUPop \/ TopTUTest \/ TopTUPush \/ TopTUNoMemory
           \/ TopTUAdvance

-----------------------------------------------------------------------------
(***************************************************************************)
(* tTimerClose: slots are emptied from the last to the first, each element *)
(* going in front of one list, which becomes slot 0; then the table is     *)
(* closed.  Every slot therefore comes out reversed, slot 0 first.         *)
(***************************************************************************)
MutClosedList ==
  FlattenSeq([k \in 1 .. TableSize - 1 |-> Reverse(table[k - 1])])
ClosedList == FlattenSeq([k \in 1 .. TableSize |-> Reverse(table[k - 1])])

MutClosedIndex == currentIndex
ClosedIndex == 0

Close ==
  /\ ~tableClosed
  /\ table' = [i \in Slot |-> IF i = 0 THEN ClosedList ELSE <<>>]
  /\ currentIndex' = ClosedIndex
  /\ tableClosed' = TRUE
  /\ raced' = (top.pc # "idle" \/ \E w \in Worker : call[w] # NoCall)
  /\ UNCHANGED <<call, top, left, moved, lost>>

WorkerStep(w) ==
  \/ \E c \in Ctx, n \in Slot \ {0} : SetUserToSleepTest(w, c, n)
  \/ SetUserToSleepInsert(w)
  \/ SetUserToSleepNoMemory(w)
  \/ GetUserToResume(w)

Next == TopTU \/ Close \/ \E w \in Worker : WorkerStep(w)

Spec == Init /\ [][Next]_vars

(***************************************************************************)
(* The statistics thread calls tTimerTopTU at every turn of its loop       *)
(* (tstat.c:247), whatever the workers do.                                 *)
(***************************************************************************)
FairSpec == Spec /\ WF_vars(TopTU)

-----------------------------------------------------------------------------
(***************************************************************************)
(* A context is in one place only: linked once in the ring, or in the      *)
(* hands of one thread, or dropped.  tExec frees a resumed context, so a   *)
(* context linked twice would be freed twice.                              *)
(***************************************************************************)
OneHome ==
  /\ TypeOK
  /\ \A i, j \in Slot : \A p \in DOMAIN table[i], q \in DOMAIN table[j] :
        table[i][p] = table[j][q] => i = j /\ p = q
  /\ \A w \in Worker : call[w] # NoCall =>
        call[w].ctx \notin InTable \cup lost \cup {top.ctx, NULL}
  /\ \A w, v \in Worker : call[w].ctx = call[v].ctx => w = v \/ call[w] = NoCall
  /\ top.ctx \notin InTable \cup lost
  /\ InTable \cap lost = {}

(***************************************************************************)
(* While the table is open, a context is in the slot its remaining time    *)
(* says, unless it is overdue and tTimerTopTU is carrying it to the next   *)
(* time unit.  So it is reached by currentIndex exactly when it is due,    *)
(* although the list operations of several threads interleave with every   *)
(* step of tTimerTopTU.  (If a malloc of tTimerTopTU fails its loop ends  *)
(* early, and what it leaves in the slot waits for a whole turn.)          *)
(***************************************************************************)
OnSchedule ==
  ~tableClosed /\ lost = {} =>
    /\ \A i \in Slot : \A c \in ToSet(table[i]) :
         IF c \in moved THEN i = NextIndex /\ left[c] = 0
                        ELSE i = ResumeIndex(left[c])
    /\ top.ctx # NULL => left[top.ctx] = 0

(***************************************************************************)
(* While the table stays open every sleeping context becomes due: the loop *)
(* of tTimerTopTU terminates at every time unit and the index goes round.  *)
(***************************************************************************)
EventuallyDue ==
  \A c \in Ctx : (c \in InTable /\ ~tableClosed) ~> (tableClosed \/ left[c] = 0)

=============================================================================
