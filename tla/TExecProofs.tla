---------------------------- MODULE TExecProofs -----------------------------
(***************************************************************************)
(* Theorems about the scenario engine (TExec), for every number of workers *)
(* and users, every traffic and every scenario: the first error ends the   *)
(* test (FirstErrorStops), a user that is taken is somewhere               *)
(* (EveryUserHasHome) and the table of scenarios has the shares of the     *)
(* configuration (TableHasShares).  The inductive invariant: LocalInv (the *)
(* locals of a worker), HomeInv (who holds which user) and ShareInv, each  *)
(* kept by a lemma per action.  TAccountProofs goes on from here.          *)
(***************************************************************************)
EXTENDS TExec, FiniteSetTheorems, TLAPS

-----------------------------------------------------------------------------
(***************************************************************************)
(* What the local variables of a worker are at each of its steps: nothing  *)
(* is left of a scenario that it has let go; a scenario that it plays has  *)
(* a user from its second action on; a scenario that goes on after an      *)
(* error has not come to its end.                                          *)
(***************************************************************************)
Busy == {"act", "count", "clear", "abort?"}
Rec(a, s, n, u, f, e, x, t) ==
  [at |-> a, sce |-> s, action |-> n, user |-> u, first_sce_stat |-> f, end |-> e,
   next |-> x, tally |-> t]
IdleAt(p) == Rec(p, NULL, 1, NULL, TRUE, "NOT_REACHED", 0, 0)

WorkerOK(w) ==
  /\ run[w].at \notin Busy => run[w] = IdleAt(run[w].at)
  /\ run[w].at \in Busy => /\ run[w].sce \in Sound
                           /\ run[w].action \in 1 .. Len(Actions[run[w].sce])
                           /\ run[w].user = NULL <=> run[w].action = 1
  /\ run[w].at = "act" => run[w].end = "NOT_REACHED"
  /\ run[w].at \in Busy \ {"act"} => run[w].user # NULL
  /\ run[w].end = "REACHED" => run[w].at = "count"
  /\ run[w].at \in Busy \ {"act"} /\ run[w].end # "REACHED" => Action(w) # "SCE_End"

(***************************************************************************)
(* A context that holds a scenario is one that the timer has, and the      *)
(* scenario is at an SCE_Wait.                                             *)
(***************************************************************************)
CtxOK(c) ==
  /\ asleep[c] # Lost
  /\ memory[c] # NULL <=> Sleeping(c)
  /\ memory[c] # NULL => /\ memory[c].action \in 1 .. Len(Actions[memory[c].sce])
                         /\ Actions[memory[c].sce][memory[c].action] = "SCE_Wait"

(***************************************************************************)
(* The SIGINT of the workers: one for each worker that has found the flag  *)
(* of stop_on_error before the first of them has cleared it.               *)
(***************************************************************************)
Clearing == {w \in Worker : run[w].at = "clear"}

SigintInv ==
  /\ stopOnError => sigint <= ctrlC
  /\ sigint + Cardinality(Clearing) <= Cardinality(Worker) + ctrlC \/ stopOnError

LocalInv ==
  /\ TypeOK /\ rc <= isce
  /\ (loading = "done" => Len(sceOccurenceTab) = Places)
  /\ \A w \in Worker : WorkerOK(w)
  /\ \A c \in Ctx : CtxOK(c)
  /\ SigintInv

(***************************************************************************)
(* The two pairs of hands, and that they are one.                          *)
(***************************************************************************)
Holds(w, u) == Playing(w) /\ run[w].user = u
Keeps(c, u) == Sleeping(c) /\ memory[c].user = u

HomeInv ==
  /\ stranded \subseteq taken
  /\ \A u \in User :
       /\ \A w \in Worker : Holds(w, u) => u \in taken \ stranded
       /\ \A c \in Ctx : Keeps(c, u) => u \in taken \ stranded
       /\ u \in taken \ stranded =>
            (\E w \in Worker : Holds(w, u)) \/ (\E c \in Ctx : Keeps(c, u))
       /\ \A w \in Worker, c \in Ctx : ~(Holds(w, u) /\ Keeps(c, u))
       /\ \A w, v \in Worker : Holds(w, u) /\ Holds(v, u) => w = v
       /\ \A c, d \in Ctx : Keeps(c, u) /\ Keeps(d, u) => c = d

-----------------------------------------------------------------------------
(* A step of one worker leaves the others alone.                           *)
Only(w) == \A v \in Worker \ {w} : run'[v] = run[v]

(* A worker's local variables have their values, whatever they are.        *)
LEMMA RecLocal ==
  ASSUME NEW a \in Where, NEW s \in Sound \cup {NULL}, NEW n \in Nat,
         NEW u \in User \cup {NULL}, NEW f \in BOOLEAN,
         NEW e \in {"NOT_REACHED", "REACHED", "SUSPENDED"}, NEW x \in Nat, NEW t \in Nat
  PROVE  Rec(a, s, n, u, f, e, x, t) \in Local
  BY Zenon DEF Rec, Local

(* The values of a worker's local variables determine them.                *)
LEMMA RecEta ==
  ASSUME NEW r \in Local
  PROVE  /\ r = Rec(r.at, r.sce, r.action, r.user, r.first_sce_stat, r.end, r.next, r.tally)
         /\ r.at \in Where /\ r.sce \in Sound \cup {NULL} /\ r.action \in Nat
         /\ r.user \in User \cup {NULL} /\ r.first_sce_stat \in BOOLEAN
         /\ r.end \in {"NOT_REACHED", "REACHED", "SUSPENDED"} /\ r.next \in Nat
         /\ r.tally \in Nat
  BY Zenon DEF Rec, Local

(* Idle.                                                                   *)
LEMMA IdleRec ==
  Idle = IdleAt("poll") /\ Idle \in Local
  BY Zenon DEF Idle, IdleAt, Rec, Local, Where

(* A step of a worker changes its own local variables.                     *)
LEMMA Placed ==
  ASSUME TypeOK, NEW w \in Worker, NEW r \in Local, run' = [run EXCEPT ![w] = r]
  PROVE  run' \in [Worker -> Local] /\ Only(w) /\ run'[w] = r
  BY Zenon DEF Only, TypeOK

(* Resume: the scenario of a context goes on after its SCE_Wait.           *)
LEMMA ResumeEffect ==
  ASSUME LocalInv, NEW w \in Worker, NEW c \in Ctx, Resume(w, c)
  PROVE  /\ run' \in [Worker -> Local] /\ Only(w)
         /\ memory[c] # NULL /\ Sleeping(c)
         /\ run'[w] = Rec("act", memory[c].sce, memory[c].action + 1, memory[c].user,
                          TRUE, "NOT_REACHED", 0, memory[c].tally)
<1>1. memory[c] # NULL /\ Sleeping(c)
  BY BoundAssumption DEF Resume, Timer!Resume, LocalInv, CtxOK, Sleeping
<1>2. memory[c] \in [sce : Sound, action : Nat, user : User, tally : Nat]
  BY <1>1, Zenon DEF LocalInv, TypeOK
<1> DEFINE r == Rec("act", memory[c].sce, memory[c].action + 1, memory[c].user,
                    TRUE, "NOT_REACHED", 0, memory[c].tally)
<1>3. r \in Local
  <2>1. /\ memory[c].sce \in Sound \cup {NULL} /\ memory[c].action + 1 \in Nat
        /\ memory[c].user \in User \cup {NULL} /\ memory[c].tally \in Nat
    BY <1>2
  <2> QED
    BY <2>1, RecLocal, Zenon DEF Where
<1>4. run' = [run EXCEPT ![w] = r]
  <2>1. PICK s, n, u, t : /\ s = memory[c].sce /\ n = memory[c].action + 1
                          /\ u = memory[c].user /\ t = memory[c].tally
    BY Zenon
  <2>2. PICK q :
          q = [Idle EXCEPT !.at = "act", !.sce = s, !.action = n, !.user = u, !.tally = t]
    BY Zenon
  <2>3. q = Rec("act", s, n, u, TRUE, "NOT_REACHED", 0, t)
    BY <2>2, Zenon DEF Idle, Rec
  <2>4. run' = [run EXCEPT ![w] = q]
    BY <2>1, <2>2, Zenon DEF Resume, FirstAfter
  <2> QED
    BY <2>1, <2>3, <2>4, Zenon
<1> HIDE DEF r
<1>5. run' \in [Worker -> Local] /\ Only(w) /\ run'[w] = r
  BY <1>3, <1>4, Placed, Zenon DEF LocalInv
<1> QED
  BY <1>1, <1>5, Zenon DEF r

(* A new scenario.                                                         *)
LEMMA DrawEffect ==
  ASSUME TypeOK, NEW w \in Worker, NEW s \in Sound,
         run' = [run EXCEPT ![w] = [Idle EXCEPT !.at = "act", !.sce = s]]
  PROVE  /\ run' \in [Worker -> Local] /\ Only(w)
         /\ run'[w] = Rec("act", s, 1, NULL, TRUE, "NOT_REACHED", 0, 0)
<1> DEFINE r == Rec("act", s, 1, NULL, TRUE, "NOT_REACHED", 0, 0)
<1>1. r \in Local
  BY RecLocal, Zenon DEF Where
<1>2. r = [Idle EXCEPT !.at = "act", !.sce = s]
  <2>1. PICK q : q = [Idle EXCEPT !.at = "act", !.sce = s]
    BY Zenon
  <2>2. q = r
    BY <2>1, Zenon DEF Idle, Rec
  <2> QED
    BY <2>1, <2>2, Zenon
<1> HIDE DEF r
<1>3. run' \in [Worker -> Local] /\ Only(w) /\ run'[w] = r
  BY <1>1, <1>2, Placed, Zenon
<1> QED
  BY <1>3, Zenon DEF r

(* Leave: the worker lets the scenario go.                                 *)
LEMMA LeaveEffect ==
  ASSUME TypeOK, NEW w \in Worker, Leave(w)
  PROVE  run' \in [Worker -> Local] /\ Only(w) /\ run'[w] = Idle
  BY IdleRec, Placed, Zenon DEF Leave

(* Goto.                                                                   *)
LEMMA GotoEffect ==
  ASSUME TypeOK, NEW w \in Worker, NEW p \in Where, Goto(w, p)
  PROVE  /\ run' \in [Worker -> Local] /\ Only(w)
         /\ LET r == run[w] IN
            run'[w] = Rec(p, r.sce, r.action, r.user, r.first_sce_stat, r.end, r.next,
                          r.tally)
<1>1. PICK r \in Local : r = run[w]
  BY Zenon DEF TypeOK
<1>2. PICK q : q = [r EXCEPT !.at = p]
  BY Zenon
<1>3. q = Rec(p, r.sce, r.action, r.user, r.first_sce_stat, r.end, r.next, r.tally)
  BY <1>2, Zenon DEF Local, Rec
<1>4. q \in Local
  BY <1>3, RecEta, RecLocal, Zenon
<1>5. run' = [run EXCEPT ![w] = q]
  BY <1>1, <1>2, Zenon DEF Goto
<1>6. run' \in [Worker -> Local] /\ Only(w) /\ run'[w] = q
  BY <1>4, <1>5, Placed, Zenon
<1> QED
  BY <1>1, <1>3, <1>6, Zenon

(* GoOn: the next action.                                                  *)
LEMMA GoOnEffect ==
  ASSUME TypeOK, NEW w \in Worker, GoOn(w)
  PROVE  /\ run' \in [Worker -> Local] /\ Only(w)
         /\ LET r == run[w] IN
            run'[w] = Rec(r.at, r.sce, r.action + 1, r.user, r.first_sce_stat, r.end, 0,
                          r.tally)
<1>1. run \in [Worker -> Local]
  BY Zenon DEF TypeOK
<1>2. PICK r \in Local : r = run[w]
  BY <1>1, Zenon
<1>3. r.action + 1 \in Nat
  BY RecEta
<1>4. PICK n \in Nat : n = r.action + 1
  BY <1>3, Zenon
<1>5. PICK q : q = [r EXCEPT !.action = n, !.next = 0]
  BY Zenon
<1>6. q = Rec(r.at, r.sce, n, r.user, r.first_sce_stat, r.end, 0, r.tally)
  BY <1>5, Zenon DEF Local, Rec
<1>7. q \in Local
  BY <1>6, RecEta, RecLocal, Zenon
<1>8. run' = [run EXCEPT ![w] = q]
  BY <1>1, <1>2, <1>4, <1>5, Zenon DEF GoOn
<1> QED
  BY <1>2, <1>4, <1>6, <1>7, <1>8, Placed, Zenon

(* The first half of Reached.                                              *)
LEMMA ReachedEffect ==
  ASSUME TypeOK, NEW w \in Worker, Reached(w), Uncounted(w)
  PROVE  /\ run' \in [Worker -> Local] /\ Only(w)
         /\ LET r == run[w] IN
            run'[w] = Rec("count", r.sce, r.action, r.user, r.first_sce_stat, "REACHED",
                          r.next, r.tally + 1)
<1>1. run \in [Worker -> Local]
  BY Zenon DEF TypeOK
<1>2. PICK r \in Local : r = run[w]
  BY <1>1, Zenon
<1>3. r.tally + 1 \in Nat
  BY RecEta
<1>4. PICK n \in Nat : n = r.tally + 1
  BY <1>3, Zenon
<1>5. PICK q : q = [r EXCEPT !.at = "count", !.end = "REACHED", !.tally = n]
  BY Zenon
<1>6. q = Rec("count", r.sce, r.action, r.user, r.first_sce_stat, "REACHED", r.next, n)
  BY <1>5, Zenon DEF Local, Rec
<1>7. q \in Local
  BY <1>6, RecEta, RecLocal, Zenon DEF Where
<1>8. run' = [run EXCEPT ![w] = q]
  BY <1>1, <1>2, <1>4, <1>5, Zenon DEF Reached
<1> QED
  BY <1>2, <1>4, <1>6, <1>7, <1>8, Placed, Zenon

(* Fails: an error is counted once, and then only tested for the stop.     *)
LEMMA FailsEffect ==
  ASSUME TypeOK, NEW w \in Worker, NEW e \in {"NOT_REACHED", "SUSPENDED"}, Fails(w, e)
  PROVE  /\ run' \in [Worker -> Local] /\ Only(w)
         /\ LET r == run[w] IN
            run'[w] = IF r.first_sce_stat
                      THEN Rec("count", r.sce, r.action, r.user, FALSE, e, 0, r.tally + 1)
                      ELSE Rec(Stop, r.sce, r.action, r.user, FALSE, e, 0, r.tally)
<1>1. run \in [Worker -> Local]
  BY Zenon DEF TypeOK
<1>2. PICK r \in Local : r = run[w]
  BY <1>1, Zenon
<1>3. r.tally + 1 \in Nat
  BY RecEta
<1>4. PICK n \in Nat : n = r.tally + 1
  BY <1>3, Zenon
<1>5. PICK p \in Where : p = Stop
  BY Zenon DEF Stop, Where
<1>6. PICK q0 : q0 = [r EXCEPT !.end = e, !.next = 0]
  BY Zenon
<1>7. q0 = Rec(r.at, r.sce, r.action, r.user, r.first_sce_stat, e, 0, r.tally)
  BY <1>6, Zenon DEF Local, Rec
<1>a. q0 \in Local
  BY <1>7, RecEta, RecLocal, Zenon
<1>b. CASE r.first_sce_stat
  <2>1. PICK q : q = [q0 EXCEPT !.at = "count", !.tally = n, !.first_sce_stat = FALSE]
    BY Zenon
  <2>2. q = Rec("count", r.sce, r.action, r.user, FALSE, e, 0, n)
    BY <2>1, <1>7, Zenon DEF Rec
  <2>3. q \in Local
    BY <2>2, RecEta, RecLocal, Zenon DEF Where
  <2>4. q0.tally = r.tally
    BY <1>7, Zenon DEF Rec
  <2>5. run' = [run EXCEPT ![w] = q]
    BY <1>b, <1>1, <1>2, <1>4, <1>6, <2>1, <2>4, Zenon DEF Fails, Uncounted
  <2> QED
    BY <1>b, <1>2, <1>4, <2>2, <2>3, <2>5, Placed, Zenon
<1>c. CASE ~r.first_sce_stat
  <2>1. PICK q : q = [q0 EXCEPT !.at = p]
    BY Zenon
  <2>2. q = Rec(p, r.sce, r.action, r.user, FALSE, e, 0, r.tally)
    <3>1. r.first_sce_stat = FALSE
      BY <1>c, RecEta, Zenon
    <3> QED
      BY <2>1, <1>7, <3>1, Zenon DEF Rec
  <2>3. q \in Local
    BY <2>2, RecEta, RecLocal, Zenon
  <2>4. run' = [run EXCEPT ![w] = q]
    BY <1>c, <1>1, <1>2, <1>5, <1>6, <2>1, Zenon DEF Fails, Uncounted
  <2> QED
    BY <1>c, <1>2, <1>5, <2>2, <2>3, <2>4, Placed, Zenon
<1> QED
  BY <1>b, <1>c, Zenon

(* SCE_Begin, when it reserves a user.                                     *)
LEMMA BeginEffect ==
  ASSUME TypeOK, NEW w \in Worker, NEW u \in User,
         run' = [run EXCEPT ![w].user = u, ![w].action = @ + 1]
  PROVE  /\ run' \in [Worker -> Local] /\ Only(w)
         /\ LET r == run[w] IN
            run'[w] = Rec(r.at, r.sce, r.action + 1, u, r.first_sce_stat, r.end, r.next,
                          r.tally)
<1>1. run \in [Worker -> Local]
  BY Zenon DEF TypeOK
<1>2. PICK r \in Local : r = run[w]
  BY <1>1, Zenon
<1>3. r.action + 1 \in Nat
  BY RecEta
<1>4. PICK n \in Nat : n = r.action + 1
  BY <1>3, Zenon
<1>5. PICK q : q = [r EXCEPT !.user = u, !.action = n]
  BY Zenon
<1>6. q = Rec(r.at, r.sce, n, u, r.first_sce_stat, r.end, r.next, r.tally)
  BY <1>5, Zenon DEF Local, Rec
<1>7. q \in Local
  BY <1>6, RecEta, RecLocal, Zenon
<1>8. run' = [run EXCEPT ![w] = q]
  BY <1>1, <1>2, <1>4, <1>5, Zenon
<1> QED
  BY <1>2, <1>4, <1>6, <1>7, <1>8, Placed, Zenon

(* The step of RADIUS_AccountOn_Rq that aborts one user of several.        *)
LEMMA AccountEffect ==
  ASSUME TypeOK, NEW w \in Worker, NEW u \in Nat, run' = [run EXCEPT ![w].next = u]
  PROVE  /\ run' \in [Worker -> Local] /\ Only(w)
         /\ LET r == run[w] IN
            run'[w] = Rec(r.at, r.sce, r.action, r.user, r.first_sce_stat, r.end, u,
                          r.tally)
<1>1. run \in [Worker -> Local]
  BY Zenon DEF TypeOK
<1>2. PICK r \in Local : r = run[w]
  BY <1>1, Zenon
<1>5. PICK q : q = [r EXCEPT !.next = u]
  BY Zenon
<1>6. q = Rec(r.at, r.sce, r.action, r.user, r.first_sce_stat, r.end, u, r.tally)
  BY <1>5, Zenon DEF Local, Rec
<1>7. q \in Local
  BY <1>6, RecEta, RecLocal, Zenon
<1>8. run' = [run EXCEPT ![w] = q]
  BY <1>1, <1>2, <1>5, Zenon
<1> QED
  BY <1>2, <1>6, <1>7, <1>8, Placed, Zenon

(* AbortTest, when the scenario goes on after an error.                    *)
LEMMA OnEffect ==
  ASSUME TypeOK, NEW w \in Worker,
         run' = [run EXCEPT ![w].at = "act", ![w].action = @ + 1]
  PROVE  /\ run' \in [Worker -> Local] /\ Only(w)
         /\ LET r == run[w] IN
            run'[w] = Rec("act", r.sce, r.action + 1, r.user, r.first_sce_stat, r.end,
                          r.next, r.tally)
<1>1. run \in [Worker -> Local]
  BY Zenon DEF TypeOK
<1>2. PICK r \in Local : r = run[w]
  BY <1>1, Zenon
<1>3. r.action + 1 \in Nat
  BY RecEta
<1>4. PICK n \in Nat : n = r.action + 1
  BY <1>3, Zenon
<1>5. PICK q : q = [r EXCEPT !.at = "act", !.action = n]
  BY Zenon
<1>6. q = Rec("act", r.sce, n, r.user, r.first_sce_stat, r.end, r.next, r.tally)
  BY <1>5, Zenon DEF Local, Rec
<1>7. q \in Local
  BY <1>6, RecEta, RecLocal, Zenon DEF Where
<1>8. run' = [run EXCEPT ![w] = q]
  BY <1>1, <1>2, <1>4, <1>5, Zenon
<1> QED
  BY <1>2, <1>4, <1>6, <1>7, <1>8, Placed, Zenon

-----------------------------------------------------------------------------
(***************************************************************************)
(* LocalInv is inductive.  TypeRest is what TypeOK says of the variables   *)
(* other than those of the loading, run and sigint.                        *)
(***************************************************************************)
TypeRest ==
  /\ asleep \in [Ctx -> 0 .. MaxSleep \cup {Awake, Lost}] /\ closed \in BOOLEAN
  /\ taken \subseteq User /\ aborted \subseteq taken
  /\ {tcAbortScenario, stop_on_error, stopOnError, killcalled, overlap} \subseteq BOOLEAN
  /\ memory \in [Ctx -> [sce : Sound, action : Nat, user : User, tally : Nat] \cup {NULL}]
  /\ stat \in [Sound -> [Counter -> Nat]]
  /\ phase \in {"RUNNING", "ENDING", "CLOSED", "ENDING2", "exit"}
  /\ sigint \in Nat /\ ctrlC \in 0 .. MaxCtrlC
  /\ started \in [Sound -> Nat] /\ failed \in [Sound -> Nat]
  /\ stranded \subseteq User /\ looked \subseteq Worker

(* The parts of LocalInv.                                                  *)
LEMMA LocalParts ==
  ASSUME LocalInv
  PROVE  /\ TypeOK /\ TypeRest /\ SceTypeOK /\ rc <= isce /\ SigintInv
         /\ run \in [Worker -> Local]
         /\ \A w \in Worker : WorkerOK(w)
         /\ \A c \in Ctx : CtxOK(c)
<1>1. sigint \in Nat
  BY DEF LocalInv, TypeOK
<1> QED
  BY <1>1, Zenon DEF LocalInv, TypeOK, TypeRest

(* The workers that clear the flag are finitely many.                      *)
LEMMA ClearingFinite ==
  /\ IsFiniteSet(Worker) /\ Cardinality(Worker) \in Nat
  /\ IsFiniteSet(Clearing) /\ Cardinality(Clearing) \in Nat
  /\ Cardinality(Clearing) <= Cardinality(Worker)
<1>1. Clearing \subseteq Worker
  BY Zenon DEF Clearing
<1> QED
  BY <1>1, FiniteAssumption, FS_CardinalityType, FS_Subset, Zenon

(* A worker's own step, when it leaves the loading alone.                  *)
LEMMA LocalCombine ==
  ASSUME LocalInv, NEW w \in Worker, run' \in [Worker -> Local], Only(w),
         UNCHANGED sceVars, TypeRest', WorkerOK(w)', \A c \in Ctx : CtxOK(c)', SigintInv'
  PROVE  LocalInv'
<1>1. \A v \in Worker : WorkerOK(v)'
  <2> SUFFICES ASSUME NEW v \in Worker, v # w PROVE WorkerOK(v)'
    BY Zenon
  <2>1. run'[v] = run[v]
    BY Zenon DEF Only
  <2>2. WorkerOK(v)
    BY LocalParts, Zenon
  <2> QED
    BY <2>1, <2>2, Zenon DEF WorkerOK, Action
<1>2. \A v \in Worker : run'[v].sce # NULL => run'[v].action \in DOMAIN Actions[run'[v].sce]
  <2> SUFFICES ASSUME NEW v \in Worker, run'[v].sce # NULL
               PROVE  run'[v].action \in DOMAIN Actions[run'[v].sce]
    BY Zenon
  <2>1. WorkerOK(v)'
    BY <1>1, Zenon
  <2>2. run'[v].at \in Busy
    BY <2>1 DEF WorkerOK, IdleAt, Rec
  <2>3. run'[v].sce \in Sound /\ run'[v].action \in 1 .. Len(Actions[run'[v].sce])
    BY <2>1, <2>2, Zenon DEF WorkerOK
  <2> QED
    BY <2>3, ActionAssumption
<1>3. sigint' \in 0 .. Cardinality(Worker) + MaxCtrlC
  <2>1. sigint' \in Nat /\ ctrlC' \in 0 .. MaxCtrlC
    BY Zenon DEF TypeRest
  <2>2. IsFiniteSet(Clearing') /\ Cardinality(Clearing') \in Nat
    <3>1. Clearing' \subseteq Worker
      BY Zenon DEF Clearing
    <3> QED
      BY <3>1, FiniteAssumption, FS_CardinalityType, FS_Subset, Zenon
  <2> QED
    BY <2>1, <2>2, ClearingFinite, BoundAssumption DEF SigintInv
<1>4. SceTypeOK' /\ rc' <= isce' /\ (loading' = "done" => Len(sceOccurenceTab') = Places)
  BY Zenon DEF LocalInv, TypeOK, SceTypeOK, sceVars
<1>5. TypeOK'
  BY <1>2, <1>3, <1>4, Zenon DEF TypeOK, TypeRest
<1> QED
  BY <1>1, <1>4, <1>5, Zenon DEF LocalInv

(* A worker that does not go to clear a flag that is already cleared.      *)
LEMMA SigintKept ==
  ASSUME LocalInv, NEW w \in Worker, Only(w), UNCHANGED <<sigint, ctrlC, stopOnError>>,
         run'[w].at = "clear" => stopOnError \/ run[w].at = "clear"
  PROVE  SigintInv'
<1>1. CASE stopOnError
  BY <1>1, LocalParts, Zenon DEF SigintInv
<1>2. CASE ~stopOnError
  <2>1. Clearing' \subseteq Clearing
    BY <1>2, Zenon DEF Clearing, Only
  <2>2. Cardinality(Clearing') <= Cardinality(Clearing) /\ Cardinality(Clearing') \in Nat
    BY <2>1, ClearingFinite, FS_Subset, FS_CardinalityType, Zenon
  <2>3. sigint \in Nat /\ ctrlC \in Nat
    BY LocalParts DEF TypeRest
  <2> QED
    BY <1>2, <2>2, <2>3, ClearingFinite, LocalParts DEF SigintInv
<1> QED
  BY <1>1, <1>2, Zenon

(* Contexts that a step leaves alone.                                      *)
LEMMA CtxKept ==
  ASSUME LocalInv, UNCHANGED <<asleep, memory>>
  PROVE  \A c \in Ctx : CtxOK(c)'
  BY LocalParts, Zenon DEF CtxOK, Sleeping

(* What a worker that has a scenario knows of it.                          *)
LEMMA BusyFacts ==
  ASSUME LocalInv, NEW w \in Worker, run[w].at \in Busy
  PROVE  /\ run[w] \in Local /\ WorkerOK(w)
         /\ run[w].sce \in Sound /\ run[w].action \in Nat \ {0}
         /\ run[w].action <= Len(Actions[run[w].sce]) /\ Len(Actions[run[w].sce]) \in Nat
         /\ Action(w) = "SCE_Begin" <=> run[w].action = 1
         /\ Action(w) # "SCE_End" => run[w].action + 1 <= Len(Actions[run[w].sce])
         /\ Action(w) # "SCE_Begin" => run[w].user \in User
         /\ run[w].at # "act" => run[w].user \in User /\ Action(w) # "SCE_Begin"
<1>1. run[w] \in Local /\ WorkerOK(w)
  BY LocalParts, Zenon
<1>2. /\ run[w].sce \in Sound /\ run[w].action \in 1 .. Len(Actions[run[w].sce])
      /\ run[w].user = NULL <=> run[w].action = 1
      /\ run[w].at # "act" => run[w].user # NULL
  BY <1>1, Zenon DEF WorkerOK
<1>3. /\ Len(Actions[run[w].sce]) \in Nat
      /\ DOMAIN Actions[run[w].sce] = 1 .. Len(Actions[run[w].sce])
  BY <1>2, ActionAssumption
<1>4. /\ Action(w) = "SCE_Begin" <=> run[w].action = 1
      /\ Action(w) = "SCE_End" <=> run[w].action = Len(Actions[run[w].sce])
  <2>1. PICK s \in Sound : s = run[w].sce
    BY <1>2, Zenon
  <2>a. PICK n \in DOMAIN Actions[s] : n = run[w].action
    BY <1>2, <1>3, <2>1, Zenon
  <2>2. /\ Actions[s][n] = "SCE_Begin" <=> n = 1
        /\ Actions[s][n] = "SCE_End" <=> n = Len(Actions[s])
    BY ActionAssumption, Zenon
  <2> QED
    BY <2>1, <2>a, <2>2, Zenon DEF Action
<1>5. run[w].user \in User \cup {NULL}
  BY <1>1, RecEta, Zenon
<1> QED
  BY <1>1, <1>2, <1>3, <1>4, <1>5

(* The requests of a scenario do not overlap.                              *)
LEMMA NextAction ==
  ASSUME NEW s \in Sound, NEW n \in 1 .. Len(Actions[s]), Actions[s][n] # "SCE_End"
  PROVE  n + 1 \in 1 .. Len(Actions[s])
  BY ActionAssumption

(* A worker without a scenario.                                            *)
LEMMA IdleAtOK ==
  ASSUME NEW w \in Worker, NEW p \in Where \ Busy, run'[w] = IdleAt(p)
  PROVE  WorkerOK(w)'
<1>1. /\ run'[w].at = p /\ run'[w].end = "NOT_REACHED"
  BY DEF IdleAt, Rec
<1> QED
  BY <1>1, Zenon DEF WorkerOK, Busy

(* NothingDue keeps LocalInv.                                              *)
LEMMA LocalNothingDue ==
  ASSUME LocalInv, NEW w \in Worker, NothingDue(w)
  PROVE  LocalInv'
<1>1. /\ run' \in [Worker -> Local] /\ Only(w)
      /\ LET r == run[w] IN
         run'[w] = Rec("ending?", r.sce, r.action, r.user, r.first_sce_stat, r.end,
                       r.next, r.tally)
  BY LocalParts, GotoEffect, Zenon DEF NothingDue, Where
<1>2. TypeRest' /\ UNCHANGED sceVars
  BY LocalParts, Zenon DEF TypeRest, NothingDue, timerVars, userVars, confVars, mainVars, histVars
<1>3. SigintInv'
  <2>1. run'[w].at = "ending?"
    BY <1>1 DEF Rec
  <2> QED
    BY <1>1, <2>1, SigintKept, Zenon DEF NothingDue, mainVars
<1>4. \A c \in Ctx : CtxOK(c)'
  BY CtxKept, Zenon DEF NothingDue, timerVars
<1>5. WorkerOK(w)'
  <2>1. run[w] = IdleAt("poll")
    BY LocalParts, Zenon DEF WorkerOK, NothingDue, At, Busy
  <2>2. run'[w] = IdleAt("ending?")
    BY <1>1, <2>1 DEF IdleAt, Rec
  <2> QED
    BY <2>2, IdleAtOK, Zenon DEF Where, Busy
<1> QED
  BY <1>1, <1>2, <1>3, <1>4, <1>5, LocalCombine, Zenon

(* TestEnding keeps LocalInv.                                              *)
LEMMA LocalTestEnding ==
  ASSUME LocalInv, Running, NEW w \in Worker, TestEnding(w)
  PROVE  LocalInv'
<1>1. TypeRest' /\ UNCHANGED sceVars /\ UNCHANGED <<sigint, ctrlC, stopOnError>>
  BY LocalParts, Zenon DEF TypeRest, TestEnding, timerVars, userVars, confVars, mainVars, histVars
<1>2. \A c \in Ctx : CtxOK(c)'
  BY CtxKept, Zenon DEF TestEnding, timerVars
<1>3. ASSUME run' \in [Worker -> Local], Only(w), WorkerOK(w)', run'[w].at # "clear"
      PROVE  LocalInv'
  <2>1. SigintInv'
    BY <1>1, <1>3, SigintKept, Zenon
  <2> QED
    BY <1>1, <1>2, <1>3, <2>1, LocalCombine, Zenon
<1>4. run[w] = IdleAt("ending?")
  BY LocalParts, Zenon DEF WorkerOK, TestEnding, At, Busy
<1>5. ASSUME NEW p \in {"poll", "finished"}, Goto(w, p)
      PROVE  LocalInv'
  <2>1. p \in Where \ Busy
    BY Zenon DEF Where, Busy
  <2>2. run' \in [Worker -> Local] /\ Only(w) /\ run'[w] = IdleAt(p)
    <3>1. /\ run' \in [Worker -> Local] /\ Only(w)
          /\ LET r == run[w] IN
             run'[w] = Rec(p, r.sce, r.action, r.user, r.first_sce_stat, r.end, r.next,
                           r.tally)
      BY <1>5, <2>1, LocalParts, GotoEffect, Zenon
    <3> QED
      BY <1>4, <3>1, SMTT(30) DEF IdleAt, Rec
  <2>3. WorkerOK(w)'
    BY <2>1, <2>2, IdleAtOK, Zenon
  <2>4. run'[w].at # "clear"
    BY <2>2, SMTT(30) DEF IdleAt, Rec
  <2> QED
    BY <1>3, <2>2, <2>3, <2>4, Zenon
<1>6. ASSUME NEW s \in tSceGet,
             run' = [run EXCEPT ![w] = [Idle EXCEPT !.at = "act", !.sce = s]]
      PROVE  LocalInv'
  <2>1. s \in Sound
    <3>1. sceOccurenceTab \in Seq(Sound) /\ Len(sceOccurenceTab) = Places
      BY Zenon DEF LocalInv, TypeOK, SceTypeOK, Running
    <3> QED
      BY <3>1, SMTT(30) DEF tSceGet
  <2>2. /\ run' \in [Worker -> Local] /\ Only(w)
        /\ run'[w] = Rec("act", s, 1, NULL, TRUE, "NOT_REACHED", 0, 0)
    BY <1>6, <2>1, LocalParts, DrawEffect, Zenon
  <2>3. 1 \in 1 .. Len(Actions[s])
    BY <2>1, ActionAssumption, SMTT(30)
  <2>4. run'[w].at # "clear"
    BY <2>2, SMTT(30) DEF Rec
  <2>5. WorkerOK(w)'
    BY <2>1, <2>2, <2>3, SMTT(30) DEF WorkerOK, Rec, Busy
  <2> QED
    BY <1>3, <2>2, <2>4, <2>5, Zenon
<1> QED
  BY <1>5, <1>6, Zenon DEF TestEnding

(* Resume keeps LocalInv.                                                  *)
LEMMA LocalResume ==
  ASSUME LocalInv, NEW w \in Worker, NEW c \in Ctx, Resume(w, c)
  PROVE  LocalInv'
<1>1. /\ run' \in [Worker -> Local] /\ Only(w)
      /\ memory[c] # NULL /\ Sleeping(c)
      /\ run'[w] = Rec("act", memory[c].sce, memory[c].action + 1, memory[c].user,
                       TRUE, "NOT_REACHED", 0, memory[c].tally)
  BY ResumeEffect, Zenon
<1>2. memory' = [memory EXCEPT ![c] = NULL] /\ asleep' = [asleep EXCEPT ![c] = Awake]
  BY Zenon DEF Resume, Timer!Resume
<1>3. TypeRest' /\ UNCHANGED sceVars /\ UNCHANGED <<sigint, ctrlC, stopOnError>>
  <2>1. closed' = closed
    BY Zenon DEF Resume, Timer!Resume
  <2> QED
    BY <1>2, <2>1, LocalParts, Zenon DEF TypeRest, Resume, userVars, confVars, mainVars, histVars
<1>4. \A d \in Ctx : CtxOK(d)'
  <2> TAKE d \in Ctx
  <2>1. CtxOK(d) /\ TypeRest
    BY LocalParts, Zenon
  <2>2. CASE d = c
    <3>1. memory'[d] = NULL /\ asleep'[d] = Awake
      BY <1>2, <2>1, <2>2, Zenon DEF TypeRest
    <3> QED
      BY <3>1, MarksAssumption, Zenon DEF CtxOK, Sleeping
  <2>3. CASE d # c
    <3>1. memory'[d] = memory[d] /\ asleep'[d] = asleep[d]
      BY <1>2, <2>1, <2>3, Zenon DEF TypeRest
    <3> QED
      BY <2>1, <3>1, Zenon DEF CtxOK, Sleeping
  <2> QED
    BY <2>2, <2>3, Zenon
<1>5. run'[w].at # "clear"
  BY <1>1, SMTT(30) DEF Rec
<1>6. WorkerOK(w)'
  <2>1. CtxOK(c) /\ memory[c] \in [sce : Sound, action : Nat, user : User, tally : Nat]
    BY <1>1, LocalParts, Zenon DEF TypeRest
  <2>2. /\ memory[c].sce \in Sound /\ memory[c].user # NULL
        /\ memory[c].action \in 1 .. Len(Actions[memory[c].sce])
        /\ Actions[memory[c].sce][memory[c].action] # "SCE_End"
    BY <1>1, <2>1, NullAssumption, Zenon DEF CtxOK
  <2>3. memory[c].action + 1 \in 1 .. Len(Actions[memory[c].sce])
    BY <2>2, NextAction, Zenon
  <2>4. memory[c].action + 1 # 1
    BY <2>2, SMTT(30)
  <2> QED
    BY <1>1, <2>2, <2>3, <2>4, SMTT(30) DEF WorkerOK, Rec, Busy
<1>7. SigintInv'
  BY <1>1, <1>3, <1>5, SigintKept, Zenon
<1> QED
  BY <1>1, <1>3, <1>4, <1>6, <1>7, LocalCombine, Zenon

(* A worker that lets its scenario go, and changes neither the timer nor   *)
(* the signals.                                                            *)
LEMMA LocalLeave ==
  ASSUME LocalInv, NEW w \in Worker, Leave(w), TypeRest', UNCHANGED sceVars,
         UNCHANGED <<sigint, ctrlC, stopOnError>>, \A c \in Ctx : CtxOK(c)'
  PROVE  LocalInv'
<1>1. run' \in [Worker -> Local] /\ Only(w) /\ run'[w] = IdleAt("poll")
  BY LocalParts, LeaveEffect, IdleRec, Zenon
<1>2. WorkerOK(w)'
  BY <1>1, IdleAtOK, Zenon DEF Where, Busy
<1>3. run'[w].at # "clear"
  BY <1>1, SMTT(30) DEF IdleAt, Rec
<1>4. SigintInv'
  BY <1>1, <1>3, SigintKept, Zenon
<1> QED
  BY <1>1, <1>2, <1>4, LocalCombine, Zenon

(* SCE_Begin keeps LocalInv.                                               *)
LEMMA LocalBegin ==
  ASSUME LocalInv, NEW w \in Worker, At(w, "act"), SCE_Begin(w)
  PROVE  LocalInv'
<1>1. UNCHANGED sceVars /\ UNCHANGED <<sigint, ctrlC, stopOnError>>
  BY Zenon DEF SCE_Begin, confVars, mainVars
<1>2. \A c \in Ctx : CtxOK(c)'
  BY CtxKept, Zenon DEF SCE_Begin, timerVars
<1>3. /\ run[w].sce \in Sound /\ run[w].action = 1 /\ run[w].end = "NOT_REACHED"
      /\ run[w].at = "act" /\ run[w].sce \in Sound
      /\ 1 \in 1 .. Len(Actions[run[w].sce]) /\ Actions[run[w].sce][1] # "SCE_End"
  BY BusyFacts, Zenon DEF SCE_Begin, Plays, Action, At, Busy, WorkerOK
<1>4. CASE Leave(w) /\ UNCHANGED <<userVars, started>>
  <2>1. TypeRest'
    BY <1>4, LocalParts, Zenon DEF TypeRest, SCE_Begin, timerVars, userVars, confVars, mainVars
  <2> QED
    BY <1>1, <1>2, <1>4, <2>1, LocalLeave, Zenon
<1>5. ASSUME NEW u \in User, Reserve!Get(u),
             run' = [run EXCEPT ![w].user = u, ![w].action = @ + 1],
             started' = [started EXCEPT ![run[w].sce] = @ + 1]
      PROVE  LocalInv'
  <2>1. TypeRest'
    <3>1. started' \in [Sound -> Nat]
      BY <1>3, <1>5, LocalParts, SMTT(30) DEF TypeRest
    <3>2. taken' \subseteq User /\ aborted' \subseteq taken'
      BY <1>5, LocalParts, Zenon DEF TypeRest, Reserve!Get
    <3> QED
      BY <3>1, <3>2, LocalParts, Zenon DEF TypeRest, SCE_Begin, timerVars, confVars, mainVars
  <2>2. /\ run' \in [Worker -> Local] /\ Only(w)
        /\ LET r == run[w] IN
           run'[w] = Rec(r.at, r.sce, r.action + 1, u, r.first_sce_stat, r.end, r.next,
                         r.tally)
    BY <1>5, LocalParts, BeginEffect, Zenon
  <2>3. WorkerOK(w)'
    <3>1. run[w].action + 1 \in 1 .. Len(Actions[run[w].sce])
      BY <1>3, NextAction, Zenon
    <3>2. u # NULL /\ run[w].action + 1 # 1
      BY <1>3, NullAssumption, SMTT(30)
    <3> QED
      BY <1>3, <2>2, <3>1, <3>2, SMTT(30) DEF WorkerOK, Rec, Busy
  <2>4. SigintInv'
    <3>1. run'[w].at # "clear"
      BY <1>3, <2>2, SMTT(30) DEF Rec
    <3> QED
      BY <1>1, <2>2, <3>1, SigintKept, Zenon
  <2> QED
    BY <1>1, <1>2, <2>1, <2>2, <2>3, <2>4, LocalCombine, Zenon
<1> QED
  BY <1>4, <1>5, Zenon DEF SCE_Begin

(* A worker at an action other than SCE_Begin and SCE_End may fail.        *)
LEMMA LocalFails ==
  ASSUME LocalInv, NEW w \in Worker, At(w, "act"), Action(w) # "SCE_End",
         Action(w) # "SCE_Begin", NEW e \in {"NOT_REACHED", "SUSPENDED"}, Fails(w, e)
  PROVE  /\ run' \in [Worker -> Local] /\ Only(w)
         /\ WorkerOK(w)'
         /\ run'[w].at = "clear" => stopOnError
         /\ failed' \in [Sound -> Nat]
<1>1. /\ run' \in [Worker -> Local] /\ Only(w)
      /\ LET r == run[w] IN
         run'[w] = IF r.first_sce_stat
                   THEN Rec("count", r.sce, r.action, r.user, FALSE, e, 0, r.tally + 1)
                   ELSE Rec(Stop, r.sce, r.action, r.user, FALSE, e, 0, r.tally)
  BY LocalParts, FailsEffect, Zenon
<1>2. /\ run[w].sce \in Sound /\ run[w].action \in 1 .. Len(Actions[run[w].sce])
      /\ run[w].user \in User /\ run[w].action # 1
  BY BusyFacts, SMTT(30) DEF At, Busy
<1>3. PICK p \in {"count", "clear", "abort?"}, t \in Nat :
        /\ run'[w] = Rec(p, run[w].sce, run[w].action, run[w].user, FALSE, e, 0, t)
        /\ p = "clear" => stopOnError
  <2>0. run[w].tally \in Nat /\ run[w].tally + 1 \in Nat
    BY BusyFacts, RecEta, SMTT(30) DEF At, Busy
  <2>1. CASE run[w].first_sce_stat
    BY <1>1, <2>0, <2>1, Zenon
  <2>2. CASE ~run[w].first_sce_stat
    BY <1>1, <2>0, <2>2, Zenon DEF Stop
  <2> QED
    BY <2>1, <2>2, Zenon
<1>4. /\ run'[w].at = p /\ run'[w].sce = run[w].sce /\ run'[w].action = run[w].action
      /\ run'[w].user = run[w].user /\ run'[w].end = e
  BY <1>3, SMTT(30) DEF Rec
<1>5. WorkerOK(w)'
  <2>1. Action(w)' # "SCE_End"
    BY <1>4, Zenon DEF Action
  <2>2. run[w].user # NULL
    BY <1>2, NullAssumption, Zenon
  <2> QED
    BY <1>2, <1>4, <2>1, <2>2, Zenon DEF WorkerOK, Busy
<1>6. failed' \in [Sound -> Nat]
  BY <1>2, LocalParts, SMTT(30) DEF Fails, TypeRest
<1> QED
  BY <1>1, <1>3, <1>4, <1>5, <1>6, Zenon

(* A worker at an action other than SCE_Begin and SCE_End may go on.       *)
LEMMA LocalGoOn ==
  ASSUME LocalInv, NEW w \in Worker, At(w, "act"), Action(w) # "SCE_End",
         Action(w) # "SCE_Begin", GoOn(w)
  PROVE  run' \in [Worker -> Local] /\ Only(w) /\ WorkerOK(w)' /\ run'[w].at = "act"
<1>1. /\ run' \in [Worker -> Local] /\ Only(w)
      /\ LET r == run[w] IN
         run'[w] = Rec(r.at, r.sce, r.action + 1, r.user, r.first_sce_stat, r.end, 0,
                       r.tally)
  BY LocalParts, GoOnEffect, Zenon
<1>2. /\ run[w].sce \in Sound /\ run[w].action \in 1 .. Len(Actions[run[w].sce])
      /\ run[w].user \in User /\ run[w].at = "act" /\ run[w].end = "NOT_REACHED"
      /\ Actions[run[w].sce][run[w].action] # "SCE_End"
  BY BusyFacts, Zenon DEF At, Busy, WorkerOK, Action
<1>3. run[w].action + 1 \in 1 .. Len(Actions[run[w].sce]) /\ run[w].action + 1 # 1
  BY <1>2, NextAction, SMTT(30)
<1>4. /\ run'[w].at = "act" /\ run'[w].sce = run[w].sce
      /\ run'[w].action = run[w].action + 1
      /\ run'[w].user = run[w].user /\ run'[w].end = "NOT_REACHED"
  BY <1>1, <1>2, SMTT(30) DEF Rec
<1>5. run[w].user # NULL
  BY <1>2, NullAssumption, Zenon
<1> QED
  BY <1>1, <1>2, <1>3, <1>4, <1>5, Zenon DEF WorkerOK, Busy

(* A worker whose scenario comes to an end.                                *)
LEMMA LocalReached ==
  ASSUME LocalInv, NEW w \in Worker, At(w, "act"), Action(w) # "SCE_Begin", Reached(w)
  PROVE  run' \in [Worker -> Local] /\ Only(w) /\ WorkerOK(w)' /\ run'[w].at # "clear"
<1>1. CASE Uncounted(w)
  <2>1. /\ run' \in [Worker -> Local] /\ Only(w)
        /\ LET r == run[w] IN
           run'[w] = Rec("count", r.sce, r.action, r.user, r.first_sce_stat, "REACHED",
                         r.next, r.tally + 1)
    BY <1>1, LocalParts, ReachedEffect, Zenon
  <2>2. /\ run[w].sce \in Sound /\ run[w].action \in 1 .. Len(Actions[run[w].sce])
        /\ run[w].user \in User /\ run[w].action # 1
    BY BusyFacts, SMTT(30) DEF At, Busy
  <2>3. /\ run'[w].at = "count" /\ run'[w].sce = run[w].sce
        /\ run'[w].action = run[w].action
        /\ run'[w].user = run[w].user /\ run'[w].end = "REACHED"
    BY <2>1, SMTT(30) DEF Rec
  <2>4. run[w].user # NULL
    BY <2>2, NullAssumption, Zenon
  <2> QED
    BY <2>1, <2>2, <2>3, <2>4, Zenon DEF WorkerOK, Busy
<1>2. CASE ~Uncounted(w)
  <2>1. Leave(w)
    BY <1>2, Zenon DEF Reached, Leave
  <2>2. run' \in [Worker -> Local] /\ Only(w) /\ run'[w] = IdleAt("poll")
    BY <2>1, LocalParts, LeaveEffect, IdleRec, Zenon
  <2>3. WorkerOK(w)'
    BY <2>2, IdleAtOK, Zenon DEF Where, Busy
  <2>4. run'[w].at # "clear"
    BY <2>2, SMTT(30) DEF IdleAt, Rec
  <2> QED
    BY <2>2, <2>3, <2>4, Zenon
<1> QED
  BY <1>1, <1>2, Zenon

(* SCE_Wait, when it puts the scenario to sleep in a context c.            *)
LEMMA WaitEffect ==
  ASSUME LocalInv, NEW w \in Worker, FreeCtx # {},
         NEW n \in 1 .. MaxSleep, Timer!Sleep(NewCtx, n),
         memory' = [memory EXCEPT ![NewCtx] =
           [sce |-> run[w].sce, action |-> run[w].action, user |-> run[w].user,
            tally |-> run[w].tally]]
  PROVE  \E c \in Ctx, m \in 0 .. MaxSleep :
           /\ memory[c] = NULL /\ asleep[c] = Awake /\ ~Sleeping(c)
           /\ asleep' = [asleep EXCEPT ![c] = m] /\ closed' = closed
           /\ closed => m = 0
           /\ memory' = [memory EXCEPT ![c] =
                [sce |-> run[w].sce, action |-> run[w].action, user |-> run[w].user,
                 tally |-> run[w].tally]]
<1>1. NewCtx \in FreeCtx
  BY Zenon DEF NewCtx
<1>2. PICK c \in Ctx : c = NewCtx /\ memory[c] = NULL /\ asleep[c] = Awake
  BY <1>1, Zenon DEF FreeCtx
<1>3. ~Sleeping(c)
  BY <1>2, MarksAssumption, Zenon DEF Sleeping
<1>4. PICK m \in 0 .. MaxSleep : m = (IF closed THEN 0 ELSE n)
  BY BoundAssumption, SMTT(30)
<1>5. asleep' = [asleep EXCEPT ![c] = m] /\ closed' = closed
  BY <1>2, <1>4, Zenon DEF Timer!Sleep
<1> QED
  BY <1>2, <1>3, <1>4, <1>5, Zenon

(* SCE_Wait keeps LocalInv.                                                *)
LEMMA LocalWait ==
  ASSUME LocalInv, NEW w \in Worker, At(w, "act"), SCE_Wait(w)
  PROVE  LocalInv'
<1>1. UNCHANGED sceVars /\ UNCHANGED <<sigint, ctrlC, stopOnError>>
  BY Zenon DEF SCE_Wait, confVars, mainVars
<1>2. /\ run[w].sce \in Sound /\ run[w].action \in 1 .. Len(Actions[run[w].sce])
      /\ run[w].user \in User /\ run[w].tally \in Nat /\ Action(w) = "SCE_Wait"
  BY BusyFacts, RecEta, SMTT(30) DEF At, Busy, SCE_Wait, Plays
<1>3. ASSUME FreeCtx # {}, NEW n \in 1 .. MaxSleep, Timer!Sleep(NewCtx, n),
             memory' = [memory EXCEPT ![NewCtx] =
               [sce |-> run[w].sce, action |-> run[w].action, user |-> run[w].user,
                tally |-> run[w].tally]],
             Leave(w), UNCHANGED failed
      PROVE  LocalInv'
  <2>1. PICK c \in Ctx, m \in 0 .. MaxSleep :
           /\ memory[c] = NULL /\ asleep[c] = Awake
           /\ asleep' = [asleep EXCEPT ![c] = m] /\ closed' = closed
           /\ memory' = [memory EXCEPT ![c] =
                [sce |-> run[w].sce, action |-> run[w].action, user |-> run[w].user,
                 tally |-> run[w].tally]]
    BY <1>3, WaitEffect, Zenon
  <2>2. PICK k \in [sce : Sound, action : Nat, user : User, tally : Nat] :
          k = [sce |-> run[w].sce, action |-> run[w].action, user |-> run[w].user,
               tally |-> run[w].tally]
    <3>1. run[w].action \in Nat
      BY BusyFacts, Zenon DEF At, Busy
    <3> QED
      BY <1>2, <3>1, Zenon
  <2>3. memory' = [memory EXCEPT ![c] = k]
    BY <2>1, <2>2, Zenon
  <2>4. TypeRest'
    <3>1. asleep' \in [Ctx -> 0 .. MaxSleep \cup {Awake, Lost}] /\ closed' \in BOOLEAN
      BY <2>1, LocalParts, Zenon DEF TypeRest
    <3>2. memory' \in [Ctx -> [sce : Sound, action : Nat, user : User, tally : Nat]
                              \cup {NULL}]
      BY <2>3, LocalParts, Zenon DEF TypeRest
    <3> QED
      BY <1>3, <3>1, <3>2, LocalParts, Zenon
      DEF TypeRest, SCE_Wait, userVars, confVars, mainVars
  <2>5. \A d \in Ctx : CtxOK(d)'
    <3> TAKE d \in Ctx
    <3>1. CtxOK(d) /\ TypeRest
      BY LocalParts, Zenon
    <3>2. CASE d = c
      <4>1. memory'[d] = k /\ asleep'[d] = m
        BY <2>1, <2>3, <3>1, <3>2, Zenon DEF TypeRest
      <4>2. k # NULL
        BY NullAssumption, Zenon
      <4>3. k.sce = run[w].sce /\ k.action = run[w].action
        BY <2>2, Zenon
      <4>4. m # Lost
        BY MarksAssumption, Zenon
      <4> QED
        BY <1>2, <4>1, <4>2, <4>3, <4>4, Zenon DEF CtxOK, Sleeping, Action
    <3>3. CASE d # c
      <4>1. memory'[d] = memory[d] /\ asleep'[d] = asleep[d]
        BY <2>1, <2>3, <3>1, <3>3, Zenon DEF TypeRest
      <4> QED
        BY <3>1, <4>1, Zenon DEF CtxOK, Sleeping
    <3> QED
      BY <3>2, <3>3, Zenon
  <2> QED
    BY <1>1, <1>3, <2>4, <2>5, LocalLeave, Zenon
<1>4. ASSUME Fails(w, "SUSPENDED"), UNCHANGED <<timerVars, memory>>
      PROVE  LocalInv'
  <2>1. /\ run' \in [Worker -> Local] /\ Only(w) /\ WorkerOK(w)'
        /\ run'[w].at = "clear" => stopOnError
        /\ failed' \in [Sound -> Nat]
    BY <1>2, <1>4, LocalFails, Zenon
  <2>2. TypeRest'
    BY <1>4, <2>1, LocalParts, Zenon DEF TypeRest, SCE_Wait, timerVars, userVars, confVars, mainVars
  <2>3. SigintInv'
    BY <1>1, <2>1, SigintKept, Zenon
  <2>4. \A c \in Ctx : CtxOK(c)'
    BY <1>4, CtxKept, Zenon DEF timerVars
  <2> QED
    BY <1>1, <2>1, <2>2, <2>3, <2>4, LocalCombine, Zenon
<1> QED
  BY <1>3, <1>4, Zenon DEF SCE_Wait

(* SCE_End, and the end of the scenario of an aborted user, keep LocalInv. *)
LEMMA LocalEnd ==
  ASSUME LocalInv, NEW w \in Worker, At(w, "act"), SCE_End(w) \/ AbortedUser(w)
  PROVE  LocalInv'
<1>1. UNCHANGED sceVars /\ UNCHANGED <<sigint, ctrlC, stopOnError>>
  BY Zenon DEF SCE_End, AbortedUser, confVars, mainVars
<1>2. \A c \in Ctx : CtxOK(c)'
  BY CtxKept, Zenon DEF SCE_End, AbortedUser, timerVars
<1>3. Action(w) # "SCE_Begin" /\ Reached(w) /\ Reserve!Free(run[w].user)
  BY Zenon DEF SCE_End, AbortedUser, Plays, RADIUS_Rq
<1>4. run' \in [Worker -> Local] /\ Only(w) /\ WorkerOK(w)' /\ run'[w].at # "clear"
  BY <1>3, LocalReached, Zenon
<1>5. TypeRest'
  <2>1. taken' \subseteq User /\ aborted' \subseteq taken'
    BY <1>3, LocalParts, Zenon DEF TypeRest, Reserve!Free
  <2> QED
    BY <2>1, LocalParts, Zenon
    DEF TypeRest, SCE_End, AbortedUser, timerVars, confVars, mainVars, histVars
<1>6. SigintInv'
  BY <1>1, <1>4, SigintKept, Zenon
<1> QED
  BY <1>1, <1>2, <1>4, <1>5, <1>6, LocalCombine, Zenon

(* Outcome: the next action, or an error.                                  *)
LEMMA LocalOutcome ==
  ASSUME LocalInv, NEW w \in Worker, At(w, "act"), Action(w) # "SCE_End",
         Action(w) # "SCE_Begin", Outcome(w)
  PROVE  /\ run' \in [Worker -> Local] /\ Only(w) /\ WorkerOK(w)'
         /\ run'[w].at = "clear" => stopOnError
         /\ failed' \in [Sound -> Nat]
<1>1. CASE GoOn(w) /\ UNCHANGED failed
  BY <1>1, LocalParts, LocalGoOn, Zenon DEF TypeRest
<1>2. CASE Fails(w, "NOT_REACHED")
  BY <1>2, LocalFails, Zenon
<1> QED
  BY <1>1, <1>2, Zenon DEF Outcome

(* Request and AccountOn keep LocalInv.                                    *)
LEMMA LocalRequest ==
  ASSUME LocalInv, NEW w \in Worker, At(w, "act"), Request(w) \/ AccountOn(w)
  PROVE  LocalInv'
<1>1. UNCHANGED sceVars /\ UNCHANGED <<sigint, ctrlC, stopOnError>>
  BY Zenon DEF Request, AccountOn, confVars, mainVars
<1>2. \A c \in Ctx : CtxOK(c)'
  BY CtxKept, Zenon DEF Request, AccountOn, timerVars
<1>3. Action(w) # "SCE_End" /\ Action(w) # "SCE_Begin"
  BY Zenon DEF Request, AccountOn, Plays
<1>4. taken' \subseteq User /\ aborted' \subseteq taken'
  BY LocalParts, Zenon DEF TypeRest, Request, AccountOn, userVars, Reserve!Abort
<1>5. ASSUME run' \in [Worker -> Local], Only(w), WorkerOK(w)',
             run'[w].at = "clear" => stopOnError, failed' \in [Sound -> Nat]
      PROVE  LocalInv'
  <2>1. TypeRest'
    BY <1>4, <1>5, LocalParts, Zenon
    DEF TypeRest, Request, AccountOn, timerVars, userVars, confVars, mainVars
  <2>2. SigintInv'
    BY <1>1, <1>5, SigintKept, Zenon
  <2> QED
    BY <1>1, <1>2, <1>5, <2>1, <2>2, LocalCombine, Zenon
<1>6. CASE Outcome(w)
  BY <1>3, <1>5, <1>6, LocalOutcome, Zenon
<1>7. CASE run' = [run EXCEPT ![w].next = run[w].next + 1] /\ UNCHANGED failed
  <2>1. run[w].next + 1 \in Nat
    BY BusyFacts, RecEta, SMTT(30) DEF At, Busy
  <2>2. /\ run' \in [Worker -> Local] /\ Only(w)
        /\ LET r == run[w] IN
           run'[w] = Rec(r.at, r.sce, r.action, r.user, r.first_sce_stat, r.end,
                         r.next + 1, r.tally)
    BY <1>7, <2>1, LocalParts, AccountEffect, Zenon
  <2>3. WorkerOK(w) /\ run[w].at = "act"
    BY LocalParts, Zenon DEF At
  <2>4. WorkerOK(w)' /\ run'[w].at = "act"
    BY <2>2, <2>3, SMTT(30) DEF WorkerOK, Rec, Busy
  <2> QED
    BY <1>5, <1>7, <2>2, <2>4, LocalParts, Zenon DEF TypeRest
<1> QED
  BY <1>6, <1>7, Zenon DEF Request, AccountOn

(* ScenarioEnd keeps LocalInv.                                             *)
LEMMA LocalScenarioEnd ==
  ASSUME LocalInv, NEW w \in Worker, ScenarioEnd(w)
  PROVE  LocalInv'
<1>1. UNCHANGED sceVars /\ UNCHANGED <<sigint, ctrlC, stopOnError>>
  BY Zenon DEF ScenarioEnd, confVars, mainVars
<1>2. \A c \in Ctx : CtxOK(c)'
  BY CtxKept, Zenon DEF ScenarioEnd, timerVars
<1>3. /\ run[w].at = "count" /\ run[w].sce \in Sound /\ WorkerOK(w)
      /\ run[w].action \in 1 .. Len(Actions[run[w].sce])
      /\ run[w].user \in User /\ run[w].user # NULL /\ run[w].action # 1
  BY BusyFacts, NullAssumption, SMTT(30) DEF ScenarioEnd, At, Busy
<1>4. TypeRest'
  <2>1. stat' \in [Sound -> [Counter -> Nat]]
    <3>1. PICK lost \in SUBSET Counts(w) :
            stat' = [stat EXCEPT ![run[w].sce] =
              [k \in Counter |-> IF k \in Counts(w) \ lost THEN @[k] + 1 ELSE @[k]]]
      BY Zenon DEF ScenarioEnd
    <3>2. stat \in [Sound -> [Counter -> Nat]]
      BY LocalParts, Zenon DEF TypeRest
    <3> QED
      BY <1>3, <3>1, <3>2, SMTT(30)
  <2>2. overlap' \in BOOLEAN
    <3>1. overlap \in BOOLEAN
      BY LocalParts, Zenon DEF TypeRest
    <3> QED
      BY <3>1, Zenon DEF ScenarioEnd
  <2> QED
    BY <2>1, <2>2, LocalParts, Zenon
    DEF TypeRest, ScenarioEnd, timerVars, userVars, confVars, mainVars, histVars
<1>5. CASE AfterCount(w) = "poll"
  BY <1>1, <1>2, <1>4, <1>5, LocalLeave, Zenon DEF ScenarioEnd
<1>6. CASE AfterCount(w) # "poll"
  <2>1. PICK p \in {"clear", "abort?"} :
          Goto(w, p) /\ (p = "clear" => stopOnError) /\ run[w].end # "REACHED"
    BY <1>6, Zenon DEF ScenarioEnd, AfterCount, Stop
  <2>2. /\ run' \in [Worker -> Local] /\ Only(w)
        /\ LET r == run[w] IN
           run'[w] = Rec(p, r.sce, r.action, r.user, r.first_sce_stat, r.end, r.next,
                         r.tally)
    BY <2>1, LocalParts, GotoEffect, Zenon DEF Where
  <2>3. /\ run'[w].at = p /\ run'[w].sce = run[w].sce /\ run'[w].action = run[w].action
        /\ run'[w].user = run[w].user /\ run'[w].end = run[w].end
    BY <2>2, SMTT(30) DEF Rec
  <2>4. WorkerOK(w)'
    BY <1>3, <2>1, <2>3, Zenon DEF WorkerOK, Busy, Action
  <2>5. SigintInv'
    BY <1>1, <2>1, <2>2, <2>3, SigintKept, Zenon
  <2> QED
    BY <1>1, <1>2, <1>4, <2>2, <2>4, <2>5, LocalCombine, Zenon
<1> QED
  BY <1>5, <1>6, Zenon

(* StopClear keeps LocalInv.                                               *)
LEMMA LocalStopClear ==
  ASSUME LocalInv, NEW w \in Worker, StopClear(w)
  PROVE  LocalInv'
<1>1. UNCHANGED sceVars /\ ctrlC' = ctrlC /\ stopOnError' = FALSE
  BY Zenon DEF StopClear, confVars
<1>2. \A c \in Ctx : CtxOK(c)'
  BY CtxKept, Zenon DEF StopClear, timerVars
<1>3. sigint \in Nat /\ ctrlC \in Nat /\ sigint' \in Nat /\ sigint' <= sigint + 1
  BY LocalParts, BoundAssumption, SMTT(30) DEF TypeRest, StopClear
<1>4. TypeRest'
  BY <1>3, LocalParts, Zenon
  DEF TypeRest, StopClear, timerVars, userVars, confVars, histVars
<1>5. /\ run' \in [Worker -> Local] /\ Only(w)
      /\ LET r == run[w] IN
         run'[w] = Rec("abort?", r.sce, r.action, r.user, r.first_sce_stat, r.end, r.next,
                       r.tally)
  BY LocalParts, GotoEffect, Zenon DEF Where, StopClear
<1>6. /\ run'[w].at = "abort?" /\ run'[w].sce = run[w].sce
      /\ run'[w].action = run[w].action
      /\ run'[w].user = run[w].user /\ run'[w].end = run[w].end
  BY <1>5, SMTT(30) DEF Rec
<1>7. WorkerOK(w)'
  <2>1. WorkerOK(w) /\ run[w].at = "clear"
    BY LocalParts, Zenon DEF StopClear, At
  <2> QED
    BY <1>6, <2>1, Zenon DEF WorkerOK, Busy, Action
<1>8. SigintInv'
  <2>1. Clearing' = Clearing \ {w} /\ w \in Clearing
    BY <1>5, <1>6, Zenon DEF Clearing, Only, StopClear, At
  <2>2. Cardinality(Clearing') = Cardinality(Clearing) - 1
    BY <2>1, ClearingFinite, FS_RemoveElement, Zenon
  <2> QED
    BY <1>1, <1>3, <2>2, ClearingFinite, LocalParts, SMTT(30) DEF SigintInv
<1> QED
  BY <1>1, <1>2, <1>4, <1>5, <1>7, <1>8, LocalCombine, Zenon

(* AbortTest keeps LocalInv.                                               *)
LEMMA LocalAbortTest ==
  ASSUME LocalInv, NEW w \in Worker, AbortTest(w)
  PROVE  LocalInv'
<1>1. UNCHANGED sceVars /\ UNCHANGED <<sigint, ctrlC, stopOnError>>
  BY Zenon DEF AbortTest, confVars, mainVars
<1>2. \A c \in Ctx : CtxOK(c)'
  BY CtxKept, Zenon DEF AbortTest, timerVars
<1>3. /\ run[w].at = "abort?" /\ run[w].sce \in Sound /\ WorkerOK(w)
      /\ run[w].action \in 1 .. Len(Actions[run[w].sce])
      /\ run[w].user \in User /\ run[w].user # NULL /\ run[w].action # 1
      /\ run[w] \in Local
  BY BusyFacts, NullAssumption, SMTT(30) DEF AbortTest, At, Busy
<1>4. TypeRest'
  <2>1. taken' \subseteq User /\ aborted' \subseteq taken'
    BY LocalParts, Zenon DEF TypeRest, AbortTest, Reserve!Free, userVars
  <2>2. stranded' \subseteq User
    BY <1>3, LocalParts, Zenon DEF TypeRest, AbortTest
  <2> QED
    BY <2>1, <2>2, LocalParts, Zenon
    DEF TypeRest, AbortTest, timerVars, confVars, mainVars
<1>5. CASE tcAbortScenario \/ run[w].end = "SUSPENDED"
  BY <1>1, <1>2, <1>4, <1>5, LocalLeave, Zenon DEF AbortTest
<1>6. CASE ~(tcAbortScenario \/ run[w].end = "SUSPENDED")
  <2>1. /\ run' \in [Worker -> Local] /\ Only(w)
        /\ LET r == run[w] IN
           run'[w] = Rec("act", r.sce, r.action + 1, r.user, r.first_sce_stat, r.end,
                         r.next, r.tally)
    BY <1>6, LocalParts, OnEffect, Zenon DEF AbortTest
  <2>2. /\ run'[w].at = "act" /\ run'[w].sce = run[w].sce
        /\ run'[w].action = run[w].action + 1
        /\ run'[w].user = run[w].user /\ run'[w].end = run[w].end
    BY <2>1, SMTT(30) DEF Rec
  <2>3. run[w].end = "NOT_REACHED" /\ Actions[run[w].sce][run[w].action] # "SCE_End"
    BY <1>3, <1>6, RecEta, Zenon DEF WorkerOK, Action, Busy
  <2>4. run[w].action + 1 \in 1 .. Len(Actions[run[w].sce]) /\ run[w].action + 1 # 1
    BY <1>3, <2>3, NextAction, SMTT(30)
  <2>5. WorkerOK(w)'
    BY <1>3, <2>2, <2>3, <2>4, Zenon DEF WorkerOK, Busy
  <2>6. SigintInv'
    BY <1>1, <2>1, <2>2, SigintKept, Zenon
  <2> QED
    BY <1>1, <1>2, <1>4, <2>1, <2>5, <2>6, LocalCombine, Zenon
<1> QED
  BY <1>5, <1>6, Zenon

(* The loading of the traffic keeps its types and fills the table.         *)
LEMMA LoadTypes ==
  ASSUME SceTypeOK, rc <= isce, loading = "done" => Len(sceOccurenceTab) = Places,
         tSceLoadScenario \/ tsceRegisterCheck
  PROVE  /\ SceTypeOK' /\ rc' <= isce'
         /\ loading' = "done" => Len(sceOccurenceTab') = Places
<1>1. trafic \in Seq(Rate) /\ Len(trafic) \in Nat
  BY SceAssumption, SMTT(30) DEF SceTypeOK
<1>2. CASE tsceRegisterCheck
  BY <1>2, Zenon DEF tsceRegisterCheck, SceTypeOK, Full
<1>3. CASE tSceLoadScenario
  <2>1. /\ loading = "on" /\ isce \in Nat /\ rc \in Nat /\ isce < Len(trafic)
        /\ isce' = isce + 1 /\ trafic' = trafic /\ loading' = loading
    BY <1>1, <1>3, SMTT(30) DEF tSceLoadScenario, SceTypeOK
  <2>2. PICK s \in Rate : s = trafic[isce']
    BY <1>1, <2>1, SMTT(30)
  <2>3. CASE Fits(s)
    <3>1. PICK t : t = [i \in 1 .. s.rate |-> s.sce]
      BY Zenon
    <3>2. s.sce \in Sound /\ s.rate \in Nat
      BY <2>3, Zenon DEF Fits, Rate
    <3>3. t \in Seq(Sound) /\ Len(t) = s.rate
      BY <3>1, <3>2, SMTT(30)
    <3>4. sceOccurenceTab' = sceOccurenceTab \o t /\ rc' = rc
      BY <1>3, <2>2, <2>3, <3>1, Zenon DEF tSceLoadScenario
    <3>5. /\ sceOccurenceTab' \in Seq(Sound)
          /\ Len(sceOccurenceTab') = Len(sceOccurenceTab) + s.rate
      <4>1. sceOccurenceTab \in Seq(Sound)
        BY Zenon DEF SceTypeOK
      <4> QED
        BY <3>3, <3>4, <4>1, SMTT(30)
    <3>6. Len(sceOccurenceTab') <= Places
      BY <2>3, <3>5, Zenon DEF Fits
    <3> QED
      BY <1>1, <2>1, <3>4, <3>5, <3>6, SMTT(30) DEF SceTypeOK
  <2>4. CASE ~Fits(s)
    <3>1. sceOccurenceTab' = sceOccurenceTab /\ rc' = rc + 1
      BY <1>3, <2>2, <2>4, Zenon DEF tSceLoadScenario
    <3> QED
      BY <1>1, <2>1, <3>1, SMTT(30) DEF SceTypeOK
  <2> QED
    BY <2>3, <2>4, Zenon
<1> QED
  BY <1>2, <1>3, Zenon

(* A step that leaves the workers' local variables alone.                  *)
LEMMA LocalSteady ==
  ASSUME LocalInv, UNCHANGED run, TypeRest', \A c \in Ctx : CtxOK(c)', SigintInv',
         SceTypeOK', rc' <= isce', loading' = "done" => Len(sceOccurenceTab') = Places
  PROVE  LocalInv'
<1>1. \A v \in Worker : WorkerOK(v)'
  BY LocalParts, Zenon DEF WorkerOK, Action
<1>2. /\ run' \in [Worker -> Local]
      /\ \A v \in Worker :
           run'[v].sce # NULL => run'[v].action \in DOMAIN Actions[run'[v].sce]
  BY Zenon DEF LocalInv, TypeOK
<1>3. sigint' \in 0 .. Cardinality(Worker) + MaxCtrlC
  <2>1. sigint' \in Nat /\ ctrlC' \in 0 .. MaxCtrlC
    BY Zenon DEF TypeRest
  <2>2. Clearing' = Clearing
    BY Zenon DEF Clearing
  <2> QED
    BY <2>1, <2>2, ClearingFinite, BoundAssumption, SMTT(30) DEF SigintInv
<1>4. TypeOK'
  BY <1>2, <1>3, Zenon DEF TypeOK, TypeRest
<1> QED
  BY <1>1, <1>4, Zenon DEF LocalInv

(* The steps around the workers keep LocalInv.                             *)
LEMMA LocalAround ==
  ASSUME LocalInv, Load \/ Tick \/ CtrlC \/ tEnd \/ MainEnds
  PROVE  LocalInv'
<1>1. UNCHANGED run /\ Clearing' = Clearing
  BY Zenon DEF Load, Tick, CtrlC, tEnd, MainEnds, Clearing
<1>2. SceTypeOK /\ rc <= isce /\ (loading = "done" => Len(sceOccurenceTab) = Places)
  BY Zenon DEF LocalInv, TypeOK
<1>3. ASSUME UNCHANGED sceVars
      PROVE  /\ SceTypeOK' /\ rc' <= isce'
             /\ loading' = "done" => Len(sceOccurenceTab') = Places
  BY <1>2, <1>3, Zenon DEF SceTypeOK, sceVars
<1>4. CASE Load
  <2>1. /\ SceTypeOK' /\ rc' <= isce'
        /\ loading' = "done" => Len(sceOccurenceTab') = Places
    BY <1>2, <1>4, LoadTypes, Zenon DEF Load
  <2>2. TypeRest' /\ UNCHANGED <<sigint, ctrlC, stopOnError>>
    BY <1>4, LocalParts, Zenon DEF TypeRest, Load, timerVars, userVars, mainVars, histVars
  <2>3. SigintInv'
    BY <1>1, <2>2, LocalParts, Zenon DEF SigintInv
  <2>4. \A c \in Ctx : CtxOK(c)'
    BY <1>4, CtxKept, Zenon DEF Load, timerVars
  <2> QED
    BY <1>1, <2>1, <2>2, <2>3, <2>4, LocalSteady, Zenon
<1>5. CASE Tick
  <2>1. UNCHANGED sceVars /\ UNCHANGED <<sigint, ctrlC, stopOnError, memory>>
    BY <1>5, Zenon DEF Tick, confVars, mainVars
  <2>2. /\ asleep' = [c \in Ctx |-> IF asleep[c] \in 1 .. MaxSleep
                                    THEN asleep[c] - 1 ELSE asleep[c]]
        /\ closed' = closed
    BY <1>5, Zenon DEF Tick, Timer!Tick
  <2>3. \A c \in Ctx : /\ asleep'[c] \in 0 .. MaxSleep \cup {Awake, Lost}
                       /\ Sleeping(c)' <=> Sleeping(c)
                       /\ asleep'[c] = Lost => asleep[c] = Lost
    <3> TAKE c \in Ctx
    <3>1. asleep[c] \in 0 .. MaxSleep \cup {Awake, Lost}
      BY LocalParts, Zenon DEF TypeRest
    <3>2. asleep'[c] = IF asleep[c] \in 1 .. MaxSleep THEN asleep[c] - 1 ELSE asleep[c]
      BY <2>2, Zenon
    <3>3. CASE asleep[c] \in 1 .. MaxSleep
      <4>1. asleep'[c] \in 0 .. MaxSleep
        BY <3>2, <3>3, BoundAssumption, SMTT(30)
      <4> QED
        BY <3>3, <4>1, MarksAssumption, BoundAssumption, SMTT(30) DEF Sleeping
    <3>4. CASE asleep[c] \notin 1 .. MaxSleep
      BY <3>1, <3>2, <3>4, Zenon DEF Sleeping
    <3> QED
      BY <3>3, <3>4, Zenon
  <2>4. TypeRest'
    <3>1. asleep' \in [Ctx -> 0 .. MaxSleep \cup {Awake, Lost}]
      BY <2>2, <2>3, Zenon
    <3> QED
      BY <1>5, <2>2, <3>1, LocalParts, Zenon
      DEF TypeRest, Tick, userVars, confVars, mainVars, histVars
  <2>5. \A c \in Ctx : CtxOK(c)'
    BY <2>1, <2>3, LocalParts, Zenon DEF CtxOK
  <2>6. SigintInv'
    BY <1>1, <2>1, LocalParts, Zenon DEF SigintInv
  <2> QED
    BY <1>1, <1>3, <2>1, <2>4, <2>5, <2>6, LocalSteady, Zenon
<1>6. CASE CtrlC
  <2>1. UNCHANGED sceVars
    BY <1>6, Zenon DEF CtrlC, confVars
  <2>2. TypeRest'
    BY <1>6, LocalParts, BoundAssumption, SMTT(30)
    DEF TypeRest, CtrlC, timerVars, userVars, confVars, histVars
  <2>3. SigintInv'
    <3>1. sigint \in Nat /\ ctrlC \in Nat
      BY LocalParts, BoundAssumption, SMTT(30) DEF TypeRest
    <3> QED
      BY <1>1, <1>6, <3>1, ClearingFinite, LocalParts, SMTT(30) DEF SigintInv, CtrlC
  <2>4. \A c \in Ctx : CtxOK(c)'
    BY <1>6, CtxKept, Zenon DEF CtrlC, timerVars
  <2> QED
    BY <1>1, <1>3, <2>1, <2>2, <2>3, <2>4, LocalSteady, Zenon
<1>7. CASE tEnd
  <2>1. UNCHANGED sceVars
    BY <1>7, Zenon DEF tEnd, confVars
  <2>2. TypeRest'
    BY <1>7, LocalParts, SMTT(30) DEF TypeRest, tEnd, timerVars, userVars, confVars, histVars
  <2>3. SigintInv'
    <3>1. sigint \in Nat /\ ctrlC \in Nat
      BY LocalParts, BoundAssumption, SMTT(30) DEF TypeRest
    <3> QED
      BY <1>1, <1>7, <3>1, ClearingFinite, LocalParts, SMTT(30) DEF SigintInv, tEnd
  <2>4. \A c \in Ctx : CtxOK(c)'
    BY <1>7, CtxKept, Zenon DEF tEnd, timerVars
  <2> QED
    BY <1>1, <1>3, <2>1, <2>2, <2>3, <2>4, LocalSteady, Zenon
<1>8. CASE MainEnds
  <2>1. UNCHANGED sceVars /\ UNCHANGED <<sigint, ctrlC, stopOnError, memory>>
    BY <1>8, Zenon DEF MainEnds, confVars
  <2>2. /\ asleep' \in [Ctx -> 0 .. MaxSleep \cup {Awake, Lost}]
        /\ closed' \in BOOLEAN
        /\ \A c \in Ctx : Sleeping(c)' <=> Sleeping(c)
        /\ \A c \in Ctx : asleep'[c] = Lost => asleep[c] = Lost
    <3>1. TypeRest
      BY LocalParts, Zenon
    <3>2. CASE UNCHANGED timerVars
      BY <3>1, <3>2, Zenon DEF timerVars, TypeRest, Sleeping
    <3>3. CASE Timer!Close
      <4>1. 0 \in 0 .. MaxSleep
        BY BoundAssumption, SMTT(30)
      <4>2. closed' \in BOOLEAN /\ asleep' = [c \in Ctx |-> IF asleep[c] \in 0 .. MaxSleep
                                                            THEN 0 ELSE asleep[c]]
        BY <3>3, Zenon DEF Timer!Close
      <4> QED
        BY <3>1, <4>1, <4>2, MarksAssumption, Zenon DEF TypeRest, Sleeping
    <3> QED
      BY <1>8, <3>2, <3>3, Zenon DEF MainEnds, timerVars
  <2>3. looked' \subseteq Worker /\ phase' \in {"ENDING", "CLOSED", "ENDING2", "exit"}
    BY <1>8, LocalParts, Zenon DEF MainEnds, TypeRest
  <2>4. TypeRest'
    BY <1>8, <2>2, <2>3, LocalParts, Zenon DEF TypeRest, MainEnds, userVars, confVars, histVars
  <2>5. SigintInv'
    BY <1>1, <2>1, LocalParts, Zenon DEF SigintInv
  <2>6. \A c \in Ctx : CtxOK(c)'
    BY <2>1, <2>2, LocalParts, Zenon DEF CtxOK
  <2> QED
    BY <1>1, <1>3, <2>1, <2>4, <2>5, <2>6, LocalSteady, Zenon
<1> QED
  BY <1>4, <1>5, <1>6, <1>7, <1>8, Zenon

(* LocalInv holds at the start.                                            *)
LEMMA LocalInit ==
  ASSUME Init PROVE LocalInv
<1>1. run = [w \in Worker |-> Idle] /\ \A w \in Worker : run[w] = IdleAt("poll")
  BY IdleRec, Zenon DEF Init
<1>2. Clearing = {}
  <2>1. \A w \in Worker : run[w].at = "poll"
    BY <1>1, SMTT(30) DEF IdleAt, Rec
  <2> QED
    BY <2>1, Zenon DEF Clearing
<1>3. Cardinality(Clearing) = 0 /\ SigintInv
  BY <1>2, FS_EmptySet, ClearingFinite, SMTT(30) DEF SigintInv, Init
<1>4. \A w \in Worker : WorkerOK(w) /\ run[w].sce = NULL
  BY <1>1, SMTT(30) DEF WorkerOK, Busy, IdleAt, Rec
<1>5. \A c \in Ctx : CtxOK(c)
  BY MarksAssumption, Zenon DEF Init, Timer!Init, CtxOK, Sleeping
<1>6. SceTypeOK /\ rc <= isce /\ loading = "on"
  <2>1. trafic \in Trafics /\ Len(trafic) \in Nat
    BY SceAssumption, SMTT(30) DEF Init, SceInit
  <2> QED
    BY <2>1, SceAssumption, SMTT(30) DEF Init, SceInit, SceTypeOK
<1>7. {tcAbortScenario, stop_on_error, stopOnError, killcalled, overlap} \subseteq BOOLEAN
  <2>1. PICK st \in BOOLEAN \X BOOLEAN : tcAbortScenario = st[1] /\ stop_on_error = st[2]
    BY BoundAssumption, Zenon DEF Init
  <2> QED
    BY <2>1, Zenon DEF Init
<1>8. TypeOK
  <2>1. run \in [Worker -> Local]
    BY <1>1, IdleRec, Zenon
  <2>2. sigint \in 0 .. Cardinality(Worker) + MaxCtrlC /\ ctrlC \in 0 .. MaxCtrlC
    BY ClearingFinite, BoundAssumption, SMTT(30) DEF Init
  <2>3. asleep \in [Ctx -> 0 .. MaxSleep \cup {Awake, Lost}] /\ closed \in BOOLEAN
    BY Zenon DEF Init, Timer!Init
  <2>4. taken \subseteq User /\ aborted \subseteq taken
    BY Zenon DEF Init, Reserve!Init
  <2>5. stat \in [Sound -> [Counter -> Nat]]
    BY Zenon DEF Init
  <2> QED
    BY <1>4, <1>6, <1>7, <2>1, <2>2, <2>3, <2>4, <2>5, Zenon DEF TypeOK, Init
<1> QED
  BY <1>3, <1>4, <1>5, <1>6, <1>8, Zenon DEF LocalInv

(* LocalInv is inductive.                                                  *)
LEMMA LocalStep ==
  ASSUME LocalInv, [Next]_vars PROVE LocalInv'
<1>1. CASE UNCHANGED vars
  <2>1. /\ UNCHANGED <<run, sceVars, asleep, memory, sigint, ctrlC, stopOnError>>
    BY <1>1, Zenon DEF vars, timerVars, confVars, mainVars
  <2>2. TypeRest'
    BY <1>1, LocalParts, Zenon
    DEF TypeRest, vars, timerVars, userVars, confVars, mainVars, histVars
  <2>3. SigintInv'
    BY <2>1, LocalParts, Zenon DEF SigintInv, Clearing
  <2>4. \A c \in Ctx : CtxOK(c)'
    BY <2>1, CtxKept, Zenon
  <2>5. /\ SceTypeOK' /\ rc' <= isce'
        /\ loading' = "done" => Len(sceOccurenceTab') = Places
    BY <2>1, Zenon DEF LocalInv, TypeOK, SceTypeOK, sceVars
  <2> QED
    BY <2>1, <2>2, <2>3, <2>4, <2>5, LocalSteady, Zenon
<1>2. CASE Load \/ Tick \/ CtrlC \/ tEnd \/ MainEnds
  BY <1>2, LocalAround, Zenon
<1>3. ASSUME NEW w \in Worker, WorkerStep(w) PROVE LocalInv'
  BY <1>3, LocalNothingDue, LocalTestEnding, LocalResume, LocalBegin, LocalWait, LocalEnd,
     LocalRequest, LocalScenarioEnd, LocalStopClear, LocalAbortTest, Zenon
  DEF WorkerStep, Play
<1> QED
  BY <1>1, <1>2, <1>3, Zenon DEF Next

-----------------------------------------------------------------------------
(* StopsOnError is kept: the flag is cleared by StopClear, and SIGINT is   *)
(* taken by tEnd.                                                          *)
LEMMA StopStep ==
  ASSUME LocalInv, StopsOnError, [Next]_vars PROVE StopsOnError'
<1>1. sigint \in Nat
  BY LocalParts, Zenon DEF TypeRest
<1>2. ASSUME UNCHANGED <<stop_on_error, stopOnError, killcalled, sigint>>
      PROVE  StopsOnError'
  BY <1>2, Zenon DEF StopsOnError
<1>3. CASE UNCHANGED vars
  BY <1>2, <1>3, Zenon DEF vars, confVars, mainVars
<1>4. CASE Load \/ Tick \/ MainEnds
  BY <1>2, <1>4, Zenon DEF Load, Tick, MainEnds, confVars, mainVars
<1>5. CASE CtrlC
  BY <1>1, <1>5, SMTT(30) DEF CtrlC, StopsOnError
<1>6. CASE tEnd
  BY <1>6, Zenon DEF tEnd, StopsOnError
<1>7. ASSUME NEW w \in Worker, WorkerStep(w) PROVE StopsOnError'
  <2>1. CASE StopClear(w)
    BY <1>1, <2>1, SMTT(30) DEF StopClear, Asked, StopsOnError
  <2>2. CASE NothingDue(w) \/ TestEnding(w) \/ \E c \in Ctx : Resume(w, c)
    BY <1>2, <2>2, Zenon DEF NothingDue, TestEnding, Resume, confVars, mainVars
  <2>3. CASE Play(w)
    BY <1>2, <2>3, Zenon DEF Play, SCE_Begin, SCE_Wait, SCE_End, AbortedUser, Request, AccountOn,
                      confVars, mainVars
  <2>4. CASE ScenarioEnd(w) \/ AbortTest(w)
    BY <1>2, <2>4, Zenon DEF ScenarioEnd, AbortTest, confVars, mainVars
  <2> QED
    BY <1>7, <2>1, <2>2, <2>3, <2>4, Zenon DEF WorkerStep
<1> QED
  BY <1>3, <1>4, <1>5, <1>6, <1>7, Zenon DEF Next

(***************************************************************************)
(* With stop_on_error the first error ends the test, whichever of the      *)
(* workers test and clear the flag of tExec (texec.c) at the same time.    *)
(***************************************************************************)
THEOREM FirstErrorStops == Spec => []StopsOnError
<1>1. Init => LocalInv /\ StopsOnError
  <2> SUFFICES ASSUME Init PROVE LocalInv /\ StopsOnError
    BY Zenon
  <2>1. stopOnError = stop_on_error
    BY Zenon DEF Init
  <2> QED
    BY <2>1, LocalInit, Zenon DEF StopsOnError
<1>2. LocalInv /\ StopsOnError /\ [Next]_vars => LocalInv' /\ StopsOnError'
  BY LocalStep, StopStep, Zenon
<1> QED
  BY <1>1, <1>2, PTL DEF Spec

-----------------------------------------------------------------------------
(***************************************************************************)
(* HomeInv.  A step leaves the hands that users are in as they are, or     *)
(* moves one user: into a worker's (Get), out of them (Free, or a failed   *)
(* malloc), from a worker to a context or back.                            *)
(***************************************************************************)
SameKeeps == \A c \in Ctx, u \in User : Keeps(c, u)' <=> Keeps(c, u)

(* Only the worker that makes a step gives or takes a user.                *)
LEMMA OthersHold ==
  ASSUME NEW w \in Worker, Only(w), NEW v \in Worker \ {w}, NEW u \in User
  PROVE  Holds(v, u)' <=> Holds(v, u)
  BY Zenon DEF Only, Holds, Playing

(* The timer keeps what it has.                                            *)
LEMMA SameKept ==
  ASSUME UNCHANGED <<asleep, memory>> PROVE SameKeeps
  BY Zenon DEF SameKeeps, Keeps, Sleeping

(* No user moves.                                                          *)
LEMMA HomeSame ==
  ASSUME HomeInv, NEW w \in Worker, Only(w), SameKeeps, UNCHANGED <<taken, stranded>>,
         \A u \in User : Holds(w, u)' <=> Holds(w, u)
  PROVE  HomeInv'
<1>1. \A v \in Worker, u \in User : Holds(v, u)' <=> Holds(v, u)
  BY OthersHold, Zenon
<1> QED
  BY <1>1, Zenon DEF HomeInv, SameKeeps

(* A worker gets a user.                                                   *)
LEMMA HomeGet ==
  ASSUME HomeInv, NEW w \in Worker, Only(w), SameKeeps, NEW g \in User \ taken,
         taken' = taken \cup {g}, stranded' = stranded,
         \A u \in User : ~Holds(w, u) /\ (Holds(w, u)' <=> u = g)
  PROVE  HomeInv'
<1>1. \A v \in Worker, u \in User : Holds(v, u)' <=> Holds(v, u) \/ (v = w /\ u = g)
  BY OthersHold, Zenon
<1>2. \A v \in Worker : ~Holds(v, g)
  BY Zenon DEF HomeInv
<1>3. \A c \in Ctx : ~Keeps(c, g)
  BY Zenon DEF HomeInv
<1> QED
  BY <1>1, <1>2, <1>3, Zenon DEF HomeInv, SameKeeps

(* A worker gives a user back, or strands it.                              *)
LEMMA HomeDrop ==
  ASSUME HomeInv, NEW w \in Worker, Only(w), SameKeeps, NEW g \in User, Holds(w, g),
         \/ taken' = taken \ {g} /\ stranded' = stranded
         \/ taken' = taken /\ stranded' = stranded \cup {g},
         \A u \in User : ~Holds(w, u)'
  PROVE  HomeInv'
<1>1. \A u \in User : Holds(w, u) <=> u = g
  BY Zenon DEF Holds
<1>2. \A v \in Worker, u \in User : Holds(v, u)' <=> Holds(v, u) /\ v # w
  BY OthersHold, Zenon
<1>3. g \in taken \ stranded /\ \A v \in Worker : Holds(v, g) => v = w
  BY Zenon DEF HomeInv
<1>4. \A c \in Ctx : ~Keeps(c, g)
  BY Zenon DEF HomeInv
<1>5. stranded' \subseteq taken'
  BY <1>3, Zenon DEF HomeInv
<1>6. \A u \in User : u \in taken' \ stranded' <=> u \in taken \ stranded /\ u # g
  BY <1>3, SMTT(30)
<1> QED
  BY <1>1, <1>2, <1>3, <1>4, <1>5, <1>6, SMTT(30) DEF HomeInv, SameKeeps

(* A worker leaves its user to a context.                                  *)
LEMMA HomeSleep ==
  ASSUME HomeInv, NEW w \in Worker, Only(w), NEW g \in User, NEW c \in Ctx, Holds(w, g),
         UNCHANGED <<taken, stranded>>, \A u \in User : ~Holds(w, u)',
         \A u \in User, d \in Ctx : Keeps(d, u)' <=> Keeps(d, u) \/ (d = c /\ u = g)
  PROVE  HomeInv'
<1>1. \A u \in User : Holds(w, u) <=> u = g
  BY Zenon DEF Holds
<1>2. \A v \in Worker, u \in User : Holds(v, u)' <=> Holds(v, u) /\ v # w
  BY OthersHold, Zenon
<1>3. g \in taken \ stranded /\ \A v \in Worker : Holds(v, g) => v = w
  BY Zenon DEF HomeInv
<1>4. \A d \in Ctx : ~Keeps(d, g)
  BY Zenon DEF HomeInv
<1> QED
  BY <1>1, <1>2, <1>3, <1>4, SMTT(30) DEF HomeInv

(* A worker takes the user of a context over.                              *)
LEMMA HomeWake ==
  ASSUME HomeInv, NEW w \in Worker, Only(w), NEW g \in User, NEW c \in Ctx, Keeps(c, g),
         UNCHANGED <<taken, stranded>>,
         \A u \in User : ~Holds(w, u) /\ (Holds(w, u)' <=> u = g),
         \A u \in User, d \in Ctx : Keeps(d, u)' <=> Keeps(d, u) /\ d # c
  PROVE  HomeInv'
<1>1. \A u \in User : Keeps(c, u) <=> u = g
  BY Zenon DEF Keeps
<1>2. \A v \in Worker, u \in User : Holds(v, u)' <=> Holds(v, u) \/ (v = w /\ u = g)
  BY OthersHold, Zenon
<1>3. g \in taken \ stranded /\ \A d \in Ctx : Keeps(d, g) => d = c
  BY Zenon DEF HomeInv
<1>4. \A v \in Worker : ~Holds(v, g)
  BY Zenon DEF HomeInv
<1> QED
  BY <1>1, <1>2, <1>3, <1>4, SMTT(30) DEF HomeInv

(* A worker without a scenario, or without a user yet, has none.           *)
LEMMA IdleHolds ==
  ASSUME NEW w \in Worker, NEW u \in User
  PROVE  /\ run[w].user = NULL => ~Holds(w, u)
         /\ run'[w].user = NULL => ~Holds(w, u)'
  BY NullAssumption, Zenon DEF Holds, Playing

(* The same user, and the end is reached neither before nor after.         *)
LEMMA SameHolds ==
  ASSUME NEW w \in Worker, run'[w].user = run[w].user,
         run[w].end # "REACHED", run'[w].end # "REACHED"
  PROVE  \A u \in User : Holds(w, u)' <=> Holds(w, u)
  BY Zenon DEF Holds, Playing

(* The head of the loop keeps HomeInv.                                     *)
LEMMA HomeHead ==
  ASSUME LocalInv, Running, HomeInv, NEW w \in Worker, NothingDue(w) \/ TestEnding(w)
  PROVE  HomeInv'
<1>1. UNCHANGED <<asleep, memory, taken, stranded>>
  BY Zenon DEF NothingDue, TestEnding, timerVars, userVars, histVars
<1>2. run[w].user = NULL /\ TypeOK
  <2>1. run[w].at \notin Busy /\ WorkerOK(w)
    BY LocalParts, Zenon DEF NothingDue, TestEnding, At, Busy
  <2> QED
    BY <2>1, LocalParts, SMTT(30) DEF WorkerOK, IdleAt, Rec
<1>3. ASSUME NEW p \in Where, Goto(w, p) PROVE Only(w) /\ run'[w].user = NULL
  <2>1. /\ Only(w)
        /\ LET r == run[w] IN
           run'[w] = Rec(p, r.sce, r.action, r.user, r.first_sce_stat, r.end, r.next,
                         r.tally)
    BY <1>2, <1>3, GotoEffect, Zenon
  <2> QED
    BY <1>2, <2>1, SMTT(30) DEF Rec
<1>4. ASSUME Running, NEW s \in tSceGet,
             run' = [run EXCEPT ![w] = [Idle EXCEPT !.at = "act", !.sce = s]]
      PROVE  Only(w) /\ run'[w].user = NULL
  <2>1. s \in Sound
    <3>1. sceOccurenceTab \in Seq(Sound) /\ Len(sceOccurenceTab) = Places
      BY <1>4, Zenon DEF LocalInv, TypeOK, SceTypeOK, Running
    <3> QED
      BY <3>1, SMTT(30) DEF tSceGet
  <2>2. Only(w) /\ run'[w] = Rec("act", s, 1, NULL, TRUE, "NOT_REACHED", 0, 0)
    BY <1>2, <1>4, <2>1, DrawEffect, Zenon
  <2> QED
    BY <2>2, SMTT(30) DEF Rec
<1>5. Only(w) /\ run'[w].user = NULL
  BY <1>3, <1>4, Zenon DEF NothingDue, TestEnding, Where
<1> QED
  BY <1>1, <1>2, <1>5, SameKept, IdleHolds, HomeSame, Zenon

(* Resume keeps HomeInv.                                                   *)
LEMMA HomeResume ==
  ASSUME LocalInv, HomeInv, NEW w \in Worker, NEW c \in Ctx, Resume(w, c)
  PROVE  HomeInv'
<1>1. /\ run' \in [Worker -> Local] /\ Only(w)
      /\ memory[c] # NULL /\ Sleeping(c)
      /\ run'[w] = Rec("act", memory[c].sce, memory[c].action + 1, memory[c].user,
                       TRUE, "NOT_REACHED", 0, memory[c].tally)
  BY ResumeEffect, Zenon
<1>2. memory' = [memory EXCEPT ![c] = NULL] /\ asleep' = [asleep EXCEPT ![c] = Awake]
  BY Zenon DEF Resume, Timer!Resume
<1>3. PICK g \in User : g = memory[c].user
  BY <1>1, LocalParts, Zenon DEF TypeRest
<1>4. Keeps(c, g)
  BY <1>1, <1>3, Zenon DEF Keeps
<1>5. \A u \in User : ~Holds(w, u)
  <2>1. run[w].user = NULL
    <3>1. run[w].at \notin Busy /\ WorkerOK(w)
      BY LocalParts, Zenon DEF Resume, At, Busy
    <3> QED
      BY <3>1, SMTT(30) DEF WorkerOK, IdleAt, Rec
  <2> QED
    BY <2>1, IdleHolds, Zenon
<1>6. \A u \in User : Holds(w, u)' <=> u = g
  <2>1. run'[w].user = g /\ run'[w].end = "NOT_REACHED" /\ g # NULL
    BY <1>1, <1>3, NullAssumption, SMTT(30) DEF Rec
  <2> QED
    BY <2>1, Zenon DEF Holds, Playing
<1>7. \A u \in User, d \in Ctx : Keeps(d, u)' <=> Keeps(d, u) /\ d # c
  <2> TAKE u \in User, d \in Ctx
  <2>1. TypeRest
    BY LocalParts, Zenon
  <2>2. CASE d = c
    <3>1. asleep'[d] = Awake
      BY <1>2, <2>1, <2>2, Zenon DEF TypeRest
    <3> QED
      BY <2>2, <3>1, MarksAssumption, Zenon DEF Keeps, Sleeping
  <2>3. CASE d # c
    <3>1. memory'[d] = memory[d] /\ asleep'[d] = asleep[d]
      BY <1>2, <2>1, <2>3, Zenon DEF TypeRest
    <3> QED
      BY <2>3, <3>1, Zenon DEF Keeps, Sleeping
  <2> QED
    BY <2>2, <2>3, Zenon
<1>8. UNCHANGED <<taken, stranded>>
  BY Zenon DEF Resume, userVars, histVars
<1> QED
  BY <1>1, <1>4, <1>5, <1>6, <1>7, <1>8, HomeWake, SMTT(30)

(* SCE_Begin keeps HomeInv.                                                *)
LEMMA HomeBegin ==
  ASSUME LocalInv, HomeInv, NEW w \in Worker, At(w, "act"), SCE_Begin(w)
  PROVE  HomeInv'
<1>1. SameKeeps /\ stranded' = stranded
  BY SameKept, Zenon DEF SCE_Begin, timerVars
<1>2. run[w].user = NULL /\ run[w].end = "NOT_REACHED" /\ TypeOK
  BY BusyFacts, LocalParts, Zenon DEF SCE_Begin, Plays, At, Busy, WorkerOK
<1>3. CASE Leave(w) /\ UNCHANGED <<userVars, started>>
  <2>1. Only(w) /\ run'[w] = IdleAt("poll")
    BY <1>2, <1>3, LeaveEffect, IdleRec, Zenon
  <2>2. run'[w].user = NULL
    BY <2>1, SMTT(30) DEF IdleAt, Rec
  <2> QED
    BY <1>1, <1>2, <1>3, <2>1, <2>2, IdleHolds, HomeSame, Zenon DEF userVars
<1>4. ASSUME NEW g \in User, Reserve!Get(g),
             run' = [run EXCEPT ![w].user = g, ![w].action = @ + 1]
      PROVE  HomeInv'
  <2>1. /\ Only(w)
        /\ LET r == run[w] IN
           run'[w] = Rec(r.at, r.sce, r.action + 1, g, r.first_sce_stat, r.end, r.next,
                         r.tally)
    BY <1>2, <1>4, BeginEffect, Zenon
  <2>2. run'[w].user = g /\ run'[w].end = "NOT_REACHED" /\ g # NULL
    BY <1>2, <2>1, NullAssumption, SMTT(30) DEF Rec
  <2>3. \A u \in User : ~Holds(w, u) /\ (Holds(w, u)' <=> u = g)
    BY <1>2, <2>2, IdleHolds, Zenon DEF Holds, Playing
  <2>4. g \in User \ taken /\ taken' = taken \cup {g}
    BY <1>4, Zenon DEF Reserve!Get
  <2> QED
    BY <1>1, <2>1, <2>3, <2>4, HomeGet, Zenon
<1> QED
  BY <1>3, <1>4, Zenon DEF SCE_Begin

(* An error, or the next action, leaves the user with the worker.          *)
LEMMA HomeOutcome ==
  ASSUME LocalInv, NEW w \in Worker, At(w, "act"), Action(w) # "SCE_Begin",
         NEW e \in {"NOT_REACHED", "SUSPENDED"}, GoOn(w) \/ Fails(w, e)
  PROVE  Only(w) /\ \A u \in User : Holds(w, u)' <=> Holds(w, u)
<1>1. run[w].end = "NOT_REACHED" /\ TypeOK
  BY BusyFacts, LocalParts, Zenon DEF At, Busy, WorkerOK
<1>2. CASE GoOn(w)
  <2>1. /\ Only(w)
        /\ LET r == run[w] IN
           run'[w] = Rec(r.at, r.sce, r.action + 1, r.user, r.first_sce_stat, r.end, 0,
                         r.tally)
    BY <1>1, <1>2, GoOnEffect, Zenon
  <2>2. run'[w].user = run[w].user /\ run'[w].end = "NOT_REACHED"
    BY <1>1, <2>1, SMTT(30) DEF Rec
  <2> QED
    BY <1>1, <2>1, <2>2, SameHolds, Zenon
<1>3. CASE Fails(w, e)
  <2>1. /\ Only(w)
        /\ LET r == run[w] IN
           run'[w] = IF r.first_sce_stat
                     THEN Rec("count", r.sce, r.action, r.user, FALSE, e, 0, r.tally + 1)
                     ELSE Rec(Stop, r.sce, r.action, r.user, FALSE, e, 0, r.tally)
    BY <1>1, <1>3, FailsEffect, Zenon
  <2>2. run'[w].user = run[w].user /\ run'[w].end = e
    BY <2>1, SMTT(30) DEF Rec
  <2> QED
    BY <1>1, <2>1, <2>2, SameHolds, Zenon
<1> QED
  BY <1>2, <1>3, Zenon

(* SCE_Wait keeps HomeInv.                                                 *)
LEMMA HomeWait ==
  ASSUME LocalInv, HomeInv, NEW w \in Worker, At(w, "act"), SCE_Wait(w)
  PROVE  HomeInv'
<1>1. UNCHANGED <<taken, stranded>>
  BY Zenon DEF SCE_Wait, userVars
<1>2. /\ run[w].user \in User /\ run[w].end = "NOT_REACHED" /\ TypeOK
      /\ Action(w) # "SCE_Begin"
  BY BusyFacts, LocalParts, Zenon DEF SCE_Wait, Plays, At, Busy, WorkerOK
<1>3. ASSUME FreeCtx # {}, NEW n \in 1 .. MaxSleep, Timer!Sleep(NewCtx, n),
             memory' = [memory EXCEPT ![NewCtx] =
               [sce |-> run[w].sce, action |-> run[w].action, user |-> run[w].user,
                tally |-> run[w].tally]],
             Leave(w)
      PROVE  HomeInv'
  <2>1. PICK c \in Ctx, m \in 0 .. MaxSleep :
           /\ memory[c] = NULL /\ asleep[c] = Awake /\ ~Sleeping(c)
           /\ asleep' = [asleep EXCEPT ![c] = m]
           /\ memory' = [memory EXCEPT ![c] =
                [sce |-> run[w].sce, action |-> run[w].action, user |-> run[w].user,
                 tally |-> run[w].tally]]
    BY <1>3, WaitEffect, Zenon
  <2>2. PICK g \in User : g = run[w].user
    BY <1>2, Zenon
  <2>3. Holds(w, g)
    BY <1>2, <2>2, NullAssumption, Zenon DEF Holds, Playing
  <2>4. Only(w) /\ run'[w] = IdleAt("poll")
    BY <1>2, <1>3, LeaveEffect, IdleRec, Zenon
  <2>5. \A u \in User : ~Holds(w, u)'
    <3>1. run'[w].user = NULL
      BY <2>4, SMTT(30) DEF IdleAt, Rec
    <3> QED
      BY <3>1, IdleHolds, Zenon
  <2>6. \A u \in User, d \in Ctx : Keeps(d, u)' <=> Keeps(d, u) \/ (d = c /\ u = g)
    <3> TAKE u \in User, d \in Ctx
    <3>1. TypeRest
      BY LocalParts, Zenon
    <3>2. CASE d = c
      <4>1. asleep'[d] = m /\ memory'[d].user = g
        BY <2>1, <2>2, <3>1, <3>2, Zenon DEF TypeRest
      <4> QED
        BY <2>1, <3>2, <4>1, Zenon DEF Keeps, Sleeping
    <3>3. CASE d # c
      <4>1. memory'[d] = memory[d] /\ asleep'[d] = asleep[d]
        BY <2>1, <3>1, <3>3, Zenon DEF TypeRest
      <4> QED
        BY <3>3, <4>1, Zenon DEF Keeps, Sleeping
    <3> QED
      BY <3>2, <3>3, Zenon
  <2> QED
    BY <1>1, <2>3, <2>4, <2>5, <2>6, HomeSleep, Zenon
<1>4. CASE Fails(w, "SUSPENDED") /\ UNCHANGED <<timerVars, memory>>
  <2>1. Only(w) /\ \A u \in User : Holds(w, u)' <=> Holds(w, u)
    BY <1>2, <1>4, HomeOutcome, Zenon
  <2>2. SameKeeps
    BY <1>4, SameKept, Zenon DEF timerVars
  <2> QED
    BY <1>1, <2>1, <2>2, HomeSame, Zenon
<1> QED
  BY <1>3, <1>4, Zenon DEF SCE_Wait

(* SCE_End, and the end of the scenario of an aborted user, keep HomeInv.  *)
LEMMA HomeEnd ==
  ASSUME LocalInv, HomeInv, NEW w \in Worker, At(w, "act"), SCE_End(w) \/ AbortedUser(w)
  PROVE  HomeInv'
<1>1. SameKeeps /\ stranded' = stranded
  BY SameKept, Zenon DEF SCE_End, AbortedUser, timerVars, histVars
<1>2. Action(w) # "SCE_Begin" /\ Reached(w) /\ Reserve!Free(run[w].user)
  BY Zenon DEF SCE_End, AbortedUser, Plays, RADIUS_Rq
<1>3. run[w].user \in User /\ run[w].end = "NOT_REACHED" /\ TypeOK
  BY <1>2, BusyFacts, LocalParts, Zenon DEF At, Busy, WorkerOK
<1>4. PICK g \in User : g = run[w].user
  BY <1>3, Zenon
<1>5. Holds(w, g)
  BY <1>3, <1>4, NullAssumption, Zenon DEF Holds, Playing
<1>6. taken' = taken \ {g}
  BY <1>2, <1>4, Zenon DEF Reserve!Free
<1>7. Only(w) /\ \A u \in User : ~Holds(w, u)'
  <2>1. CASE Uncounted(w)
    <3>1. /\ Only(w)
          /\ LET r == run[w] IN
             run'[w] = Rec("count", r.sce, r.action, r.user, r.first_sce_stat, "REACHED",
                           r.next, r.tally + 1)
      BY <1>2, <1>3, <2>1, ReachedEffect, Zenon
    <3>2. run'[w].end = "REACHED"
      BY <3>1, SMTT(30) DEF Rec
    <3> QED
      BY <3>1, <3>2, Zenon DEF Holds, Playing
  <2>2. CASE ~Uncounted(w)
    <3>1. Leave(w)
      BY <1>2, <2>2, Zenon DEF Reached, Leave
    <3>2. Only(w) /\ run'[w] = IdleAt("poll")
      BY <1>3, <3>1, LeaveEffect, IdleRec, Zenon
    <3>3. run'[w].user = NULL
      BY <3>2, SMTT(30) DEF IdleAt, Rec
    <3> QED
      BY <3>2, <3>3, IdleHolds, Zenon
  <2> QED
    BY <2>1, <2>2, Zenon
<1> QED
  BY <1>1, <1>5, <1>6, <1>7, HomeDrop, Zenon

(* Request and AccountOn keep HomeInv.                                     *)
LEMMA HomeRequest ==
  ASSUME LocalInv, HomeInv, NEW w \in Worker, At(w, "act"), Request(w) \/ AccountOn(w)
  PROVE  HomeInv'
<1>1. SameKeeps /\ UNCHANGED <<taken, stranded>>
  BY SameKept, Zenon DEF Request, AccountOn, timerVars, userVars, Reserve!Abort
<1>2. Action(w) # "SCE_Begin" /\ run[w].end = "NOT_REACHED" /\ run[w] \in Local /\ TypeOK
  BY BusyFacts, LocalParts, Zenon DEF Request, AccountOn, Plays, At, Busy, WorkerOK
<1>3. CASE Outcome(w)
  <2>1. Only(w) /\ \A u \in User : Holds(w, u)' <=> Holds(w, u)
    BY <1>2, <1>3, HomeOutcome, Zenon DEF Outcome
  <2> QED
    BY <1>1, <2>1, HomeSame, Zenon
<1>4. CASE run' = [run EXCEPT ![w].next = run[w].next + 1]
  <2>1. run[w].next + 1 \in Nat
    BY <1>2, RecEta, SMTT(30)
  <2>2. /\ Only(w)
        /\ LET r == run[w] IN
           run'[w] = Rec(r.at, r.sce, r.action, r.user, r.first_sce_stat, r.end,
                         r.next + 1, r.tally)
    BY <1>2, <1>4, <2>1, AccountEffect, Zenon
  <2>3. run'[w].user = run[w].user /\ run'[w].end = "NOT_REACHED"
    BY <1>2, <2>2, SMTT(30) DEF Rec
  <2>4. \A u \in User : Holds(w, u)' <=> Holds(w, u)
    BY <1>2, <2>3, SameHolds, Zenon
  <2> QED
    BY <1>1, <2>2, <2>4, HomeSame, Zenon
<1> QED
  BY <1>3, <1>4, Zenon DEF Request, AccountOn

(* The count of a scenario and the stop on error keep HomeInv.             *)
LEMMA HomeCount ==
  ASSUME LocalInv, HomeInv, NEW w \in Worker, ScenarioEnd(w) \/ StopClear(w)
  PROVE  HomeInv'
<1>1. SameKeeps /\ UNCHANGED <<taken, stranded>> /\ TypeOK
  BY SameKept, LocalParts, Zenon DEF ScenarioEnd, StopClear, timerVars, userVars, histVars
<1>2. ASSUME Leave(w), run[w].end = "REACHED" PROVE HomeInv'
  <2>1. Only(w) /\ run'[w] = IdleAt("poll")
    BY <1>1, <1>2, LeaveEffect, IdleRec, Zenon
  <2>2. run'[w].user = NULL
    BY <2>1, SMTT(30) DEF IdleAt, Rec
  <2>3. \A u \in User : ~Holds(w, u) /\ ~Holds(w, u)'
    BY <1>2, <2>2, IdleHolds, Zenon DEF Holds, Playing
  <2> QED
    BY <1>1, <2>1, <2>3, HomeSame, Zenon
<1>3. ASSUME NEW p \in Where, Goto(w, p), run[w].end # "REACHED" PROVE HomeInv'
  <2>1. /\ Only(w)
        /\ LET r == run[w] IN
           run'[w] = Rec(p, r.sce, r.action, r.user, r.first_sce_stat, r.end, r.next,
                         r.tally)
    BY <1>1, <1>3, GotoEffect, Zenon
  <2>2. run'[w].user = run[w].user /\ run'[w].end = run[w].end
    BY <2>1, SMTT(30) DEF Rec
  <2>3. \A u \in User : Holds(w, u)' <=> Holds(w, u)
    BY <1>3, <2>2, SameHolds, Zenon
  <2> QED
    BY <1>1, <2>1, <2>3, HomeSame, Zenon
<1>4. CASE StopClear(w)
  <2>1. run[w].at = "clear" /\ run[w].end # "REACHED"
    BY <1>4, LocalParts, Zenon DEF StopClear, At, WorkerOK
  <2> QED
    BY <1>3, <1>4, <2>1, Zenon DEF StopClear, Where
<1>5. CASE ScenarioEnd(w)
  BY <1>2, <1>3, <1>5, Zenon DEF ScenarioEnd, AfterCount, Stop, Where
<1> QED
  BY <1>4, <1>5, Zenon

(* AbortTest keeps HomeInv.                                                *)
LEMMA HomeAbortTest ==
  ASSUME LocalInv, HomeInv, NEW w \in Worker, AbortTest(w)
  PROVE  HomeInv'
<1>1. SameKeeps /\ TypeOK
  BY SameKept, LocalParts, Zenon DEF AbortTest, timerVars
<1>2. run[w].user \in User /\ run[w].end # "REACHED" /\ run[w].at = "abort?"
  BY BusyFacts, Zenon DEF AbortTest, At, Busy, WorkerOK
<1>3. PICK g \in User : g = run[w].user
  BY <1>2, Zenon
<1>4. Holds(w, g)
  BY <1>2, <1>3, NullAssumption, Zenon DEF Holds, Playing
<1>5. CASE tcAbortScenario \/ run[w].end = "SUSPENDED"
  <2>1. Only(w) /\ run'[w] = IdleAt("poll")
    BY <1>1, <1>5, LeaveEffect, IdleRec, Zenon DEF AbortTest
  <2>2. run'[w].user = NULL
    BY <2>1, SMTT(30) DEF IdleAt, Rec
  <2>3. \A u \in User : ~Holds(w, u)'
    BY <2>2, IdleHolds, Zenon
  <2>4. \/ taken' = taken \ {g} /\ stranded' = stranded
        \/ taken' = taken /\ stranded' = stranded \cup {g}
    BY <1>3, <1>5, Zenon DEF AbortTest, GivesBack, Reserve!Free, userVars
  <2> QED
    BY <1>1, <1>4, <2>1, <2>3, <2>4, HomeDrop, Zenon
<1>6. CASE ~(tcAbortScenario \/ run[w].end = "SUSPENDED")
  <2>1. /\ Only(w)
        /\ LET r == run[w] IN
           run'[w] = Rec("act", r.sce, r.action + 1, r.user, r.first_sce_stat, r.end,
                         r.next, r.tally)
    BY <1>1, <1>6, OnEffect, Zenon DEF AbortTest
  <2>2. run'[w].user = run[w].user /\ run'[w].end = run[w].end
    BY <2>1, SMTT(30) DEF Rec
  <2>3. \A u \in User : Holds(w, u)' <=> Holds(w, u)
    BY <1>2, <2>2, SameHolds, Zenon
  <2>4. UNCHANGED <<taken, stranded>>
    BY <1>6, Zenon DEF AbortTest, GivesBack, userVars
  <2> QED
    BY <1>1, <2>1, <2>3, <2>4, HomeSame, Zenon
<1> QED
  BY <1>5, <1>6, Zenon

(* The steps around the workers keep HomeInv: a context that sleeps still  *)
(* does, for a shorter time.                                               *)
LEMMA SleepersAround ==
  ASSUME LocalInv, Load \/ Tick \/ CtrlC \/ tEnd \/ MainEnds \/ UNCHANGED vars
  PROVE  /\ \A c \in Ctx : Sleeping(c)' <=> Sleeping(c)
         /\ UNCHANGED <<run, memory, taken, stranded>>
<1>1. UNCHANGED <<run, memory, taken, stranded>>
  BY Zenon DEF Load, Tick, CtrlC, tEnd, MainEnds, vars, userVars, histVars
<1>2. ASSUME UNCHANGED asleep PROVE \A c \in Ctx : Sleeping(c)' <=> Sleeping(c)
  BY <1>2, Zenon DEF Sleeping
<1>3. ASSUME NEW c \in Ctx, Timer!Tick \/ Timer!Close PROVE Sleeping(c)' <=> Sleeping(c)
  <2>1. 0 \in 0 .. MaxSleep /\ MaxSleep \in Nat
    BY BoundAssumption, SMTT(30)
  <2>2. CASE Timer!Tick
    <3>1. asleep'[c] = IF asleep[c] \in 1 .. MaxSleep THEN asleep[c] - 1 ELSE asleep[c]
      BY <2>2, Zenon DEF Timer!Tick
    <3>2. CASE asleep[c] \in 1 .. MaxSleep
      <4>1. asleep'[c] = asleep[c] - 1
        BY <3>1, <3>2, Zenon
      <4>2. asleep'[c] \in 0 .. MaxSleep /\ asleep[c] \in 0 .. MaxSleep
        BY <2>1, <3>2, <4>1, SMTT(30)
      <4> QED
        BY <4>2, Zenon DEF Sleeping
    <3>3. CASE asleep[c] \notin 1 .. MaxSleep
      BY <3>1, <3>3, Zenon DEF Sleeping
    <3> QED
      BY <3>2, <3>3, Zenon
  <2>3. CASE Timer!Close
    <3>1. asleep'[c] = IF asleep[c] \in 0 .. MaxSleep THEN 0 ELSE asleep[c]
      BY <2>3, Zenon DEF Timer!Close
    <3> QED
      BY <2>1, <3>1, Zenon DEF Sleeping
  <2> QED
    BY <1>3, <2>2, <2>3, Zenon
<1>4. UNCHANGED asleep \/ Timer!Tick \/ Timer!Close
  BY Zenon DEF Load, Tick, CtrlC, tEnd, MainEnds, vars, timerVars
<1> QED
  BY <1>1, <1>2, <1>3, <1>4, Zenon

(* HomeInv is inductive.                                                   *)
LEMMA HomeStep ==
  ASSUME LocalInv, HomeInv, [Next]_vars PROVE HomeInv'
<1>1. CASE Load \/ Tick \/ CtrlC \/ tEnd \/ MainEnds \/ UNCHANGED vars
  <2>1. /\ \A c \in Ctx : Sleeping(c)' <=> Sleeping(c)
        /\ UNCHANGED <<run, memory, taken, stranded>>
    BY <1>1, SleepersAround, Zenon
  <2>2. SameKeeps
    BY <2>1, Zenon DEF SameKeeps, Keeps
  <2>3. \A w \in Worker, u \in User : Holds(w, u)' <=> Holds(w, u)
    BY <2>1, Zenon DEF Holds, Playing
  <2> QED
    BY <2>1, <2>2, <2>3, Zenon DEF HomeInv, SameKeeps
<1>2. ASSUME NEW w \in Worker, WorkerStep(w) PROVE HomeInv'
  BY <1>2, HomeHead, HomeResume, HomeBegin, HomeWait, HomeEnd, HomeRequest, HomeCount,
     HomeAbortTest, Zenon
  DEF WorkerStep, Play
<1> QED
  BY <1>1, <1>2, Zenon DEF Next

(* HomeInv says that the two pairs of hands are one.                       *)
LEMMA HomeImplies ==
  ASSUME LocalInv, HomeInv PROVE UserHasHome
<1> SUFFICES ASSUME NEW u \in User
             PROVE  Cardinality({w \in Worker : Playing(w) /\ run[w].user = u})
                      + Cardinality({c \in Ctx : Sleeping(c) /\ memory[c].user = u})
                    = IF u \in taken \ stranded THEN 1 ELSE 0
  BY Zenon DEF UserHasHome, LocalInv
<1> DEFINE W == {w \in Worker : Playing(w) /\ run[w].user = u}
           C == {c \in Ctx : Sleeping(c) /\ memory[c].user = u}
<1>1. \A w : w \in W <=> w \in Worker /\ Holds(w, u)
  BY Zenon DEF Holds
<1>2. \A c : c \in C <=> c \in Ctx /\ Keeps(c, u)
  BY Zenon DEF Keeps
<1> HIDE DEF W, C
<1>3. ASSUME NEW S, NEW x \in S, \A y \in S : y = x PROVE Cardinality(S) = 1
  <2>1. S = {x}
    BY <1>3, Zenon
  <2> QED
    BY <2>1, FS_Singleton, Zenon
<1>4. CASE u \notin taken \ stranded
  <2>1. W = {} /\ C = {}
    BY <1>1, <1>2, <1>4, Zenon DEF HomeInv
  <2> QED
    BY <1>4, <2>1, FS_EmptySet, SMTT(30) DEF W, C
<1>5. ASSUME u \in taken \ stranded, NEW w \in Worker, Holds(w, u)
      PROVE  Cardinality(W) = 1 /\ Cardinality(C) = 0
  <2>1. w \in W /\ \A v \in W : v = w
    BY <1>1, <1>5, Zenon DEF HomeInv
  <2>2. C = {}
    BY <1>2, <1>5, Zenon DEF HomeInv
  <2> QED
    BY <1>3, <2>1, <2>2, FS_EmptySet, Zenon
<1>6. ASSUME u \in taken \ stranded, NEW c \in Ctx, Keeps(c, u)
      PROVE  Cardinality(W) = 0 /\ Cardinality(C) = 1
  <2>1. c \in C /\ \A d \in C : d = c
    BY <1>2, <1>6, Zenon DEF HomeInv
  <2>2. W = {}
    BY <1>1, <1>6, Zenon DEF HomeInv
  <2> QED
    BY <1>3, <2>1, <2>2, FS_EmptySet, Zenon
<1>7. CASE u \in taken \ stranded
  <2>1. (\E w \in Worker : Holds(w, u)) \/ (\E c \in Ctx : Keeps(c, u))
    BY <1>7, Zenon DEF HomeInv
  <2> QED
    BY <1>5, <1>6, <1>7, <2>1, SMTT(30) DEF W, C
<1> QED
  BY <1>4, <1>7, Zenon

(* Nobody has a user at the start.                                         *)
LEMMA HomeInit ==
  ASSUME Init PROVE HomeInv
<1>1. LocalInv /\ taken = {} /\ stranded = {}
  BY LocalInit, Zenon DEF Init, Reserve!Init
<1>2. \A w \in Worker : run[w].user = NULL
  BY IdleRec, Zenon DEF Init, IdleAt, Rec
<1>3. \A c \in Ctx : ~Sleeping(c)
  BY MarksAssumption, Zenon DEF Init, Timer!Init, Sleeping
<1>4. \A u \in User : (\A w \in Worker : ~Holds(w, u)) /\ (\A c \in Ctx : ~Keeps(c, u))
  BY <1>2, <1>3, IdleHolds, Zenon DEF Keeps
<1> QED
  BY <1>1, <1>4, Zenon DEF HomeInv

(***************************************************************************)
(* A reserved user is in one pair of hands, a worker's or a context's,     *)
(* while tExec (texec.c) passes scenarios from worker to worker through    *)
(* the timer, for any number of workers, users and scenarios.              *)
(***************************************************************************)
THEOREM EveryUserHasHome == Spec => []UserHasHome
<1>1. Init => LocalInv /\ HomeInv
  BY LocalInit, HomeInit, Zenon
<1>2. LocalInv /\ HomeInv /\ [Next]_vars => LocalInv' /\ HomeInv'
  BY LocalStep, HomeStep, Zenon
<1>3. LocalInv /\ HomeInv => UserHasHome
  BY HomeImplies, Zenon
<1> QED
  BY <1>1, <1>2, <1>3, PTL DEF Spec

-----------------------------------------------------------------------------
(***************************************************************************)
(* Shares.  While nothing has failed, a scenario has as many places as the *)
(* part of the traffic that has been read gives it; the threads are only   *)
(* started when all of it has been read, nothing has failed and no place   *)
(* is left.                                                                *)
(***************************************************************************)
PlacesOf(s) == {i \in DOMAIN sceOccurenceTab : sceOccurenceTab[i] = s}

ShareInv ==
  /\ SceTypeOK
  /\ rc = 0 => \A s \in Section : /\ IsFiniteSet(Units(s, isce))
                                  /\ Cardinality(PlacesOf(s)) = Cardinality(Units(s, isce))
  /\ loading = "done" => /\ rc = 0 /\ isce = Len(trafic)
                         /\ Len(sceOccurenceTab) = Places

(* A disjoint union has the sum of the sizes.                              *)
LEMMA SizeOfBoth ==
  ASSUME NEW S, NEW T, IsFiniteSet(S), IsFiniteSet(T), S \cap T = {}
  PROVE  /\ IsFiniteSet(S \cup T) /\ Cardinality(S) \in Nat /\ Cardinality(T) \in Nat
         /\ Cardinality(S \cup T) = Cardinality(S) + Cardinality(T)
<1>1. /\ IsFiniteSet(S \cup T)
      /\ Cardinality(S \cup T) = Cardinality(S) + Cardinality(T) - Cardinality(S \cap T)
  BY FS_Union, Zenon
<1>2. Cardinality(S) \in Nat /\ Cardinality(T) \in Nat /\ Cardinality(S \cap T) = 0
  BY FS_CardinalityType, FS_EmptySet, Zenon
<1> QED
  BY <1>1, <1>2, SMT

(* The places from the first to the n-th are n.                            *)
LEMMA IntervalSize ==
  ASSUME NEW n \in Nat
  PROVE  IsFiniteSet(1 .. n) /\ Cardinality(1 .. n) = n
<1>1. /\ IsFiniteSet(1 .. n)
      /\ Cardinality(1 .. n) = IF 1 > n THEN 0 ELSE n - 1 + 1
  <2>1. 1 \in Int /\ n \in Int
    BY SMT
  <2> QED
    BY <2>1, FS_Interval, Zenon
<1> QED
  BY <1>1, SMT

(* The next scenario of the traffic adds its rate to its units.            *)
LEMMA UnitsGrow ==
  ASSUME NEW s, NEW n \in Nat, NEW r \in Rate, r = trafic[n + 1], IsFiniteSet(Units(s, n))
  PROVE  /\ IsFiniteSet(Units(s, n + 1))
         /\ Cardinality(Units(s, n + 1))
            = Cardinality(Units(s, n)) + (IF r.sce = s THEN r.rate ELSE 0)
<1> DEFINE New == {n + 1} \X (1 .. r.rate)
<1>1. r.rate \in Nat /\ Cardinality(Units(s, n)) \in Nat
  BY FS_CardinalityType, Zenon DEF Rate
<1>2. CASE r.sce = s
  <2>1. {j \in 1 .. n + 1 : trafic[j].sce = s}
        = {j \in 1 .. n : trafic[j].sce = s} \cup {n + 1}
    BY <1>2, SMT
  <2>2. Units(s, n + 1) = Units(s, n) \cup New
    BY <2>1, Zenon DEF Units
  <2>3. Units(s, n) \cap New = {}
    <3>1. n + 1 \notin 1 .. n
      BY SMT
    <3>2. \A x \in Units(s, n) : \E i \in 1 .. n : x \in {i} \X (1 .. trafic[i].rate)
      BY Zenon DEF Units
    <3> QED
      BY <3>1, <3>2, SMTT(30)
  <2>4. IsFiniteSet(New) /\ Cardinality(New) = r.rate
    <3>1. IsFiniteSet({n + 1}) /\ Cardinality({n + 1}) = 1
      BY FS_Singleton, Zenon
    <3>2. IsFiniteSet(1 .. r.rate) /\ Cardinality(1 .. r.rate) = r.rate
      BY <1>1, IntervalSize, Zenon
    <3>3. /\ IsFiniteSet(New)
          /\ Cardinality(New) = Cardinality({n + 1}) * Cardinality(1 .. r.rate)
      BY <3>1, <3>2, FS_Product, Zenon
    <3> QED
      BY <1>1, <3>1, <3>2, <3>3, SMT
  <2> HIDE DEF New
  <2>5. /\ IsFiniteSet(Units(s, n) \cup New)
        /\ Cardinality(Units(s, n) \cup New) = Cardinality(Units(s, n)) + Cardinality(New)
    BY <2>3, <2>4, SizeOfBoth, Zenon
  <2> QED
    BY <1>2, <2>2, <2>4, <2>5, Zenon
<1>3. CASE r.sce # s
  <2>1. {j \in 1 .. n + 1 : trafic[j].sce = s} = {j \in 1 .. n : trafic[j].sce = s}
    BY <1>3, SMT
  <2>2. Units(s, n + 1) = Units(s, n)
    BY <2>1, Zenon DEF Units
  <2> QED
    BY <1>1, <1>3, <2>2, SMT
<1> QED
  BY <1>2, <1>3, Zenon

(* A scenario that is registered gets its rate of the places.              *)
LEMMA PlacesGrow ==
  ASSUME NEW s, NEW r \in Rate, sceOccurenceTab \in Seq(Sound),
         sceOccurenceTab' = sceOccurenceTab \o [i \in 1 .. r.rate |-> r.sce]
  PROVE  Cardinality(PlacesOf(s)')
         = Cardinality(PlacesOf(s)) + (IF r.sce = s THEN r.rate ELSE 0)
<1> DEFINE n == Len(sceOccurenceTab)
           New == n + 1 .. n + r.rate
<1>1. r.rate \in Nat /\ n \in Nat /\ DOMAIN sceOccurenceTab = 1 .. n
  BY SMT DEF Rate
<1>2. PICK t : t = [i \in 1 .. r.rate |-> r.sce]
  BY Zenon
<1>3. t \in Seq({r.sce}) /\ Len(t) = r.rate /\ \A i \in 1 .. r.rate : t[i] = r.sce
  BY <1>1, <1>2, SMTT(30)
<1>4. sceOccurenceTab' = sceOccurenceTab \o t
  BY <1>2, Zenon
<1>5. /\ DOMAIN sceOccurenceTab' = 1 .. n + r.rate
      /\ \A i \in 1 .. n : sceOccurenceTab'[i] = sceOccurenceTab[i]
      /\ \A i \in New : sceOccurenceTab'[i] = r.sce
  BY <1>1, <1>3, <1>4, SMTT(30)
<1>6. IsFiniteSet(PlacesOf(s)) /\ Cardinality(PlacesOf(s)) \in Nat
  <2>1. PlacesOf(s) \subseteq 1 .. n
    BY <1>1, Zenon DEF PlacesOf
  <2>2. IsFiniteSet(1 .. n)
    BY <1>1, FS_Interval, SMT
  <2> QED
    BY <2>1, <2>2, FS_Subset, FS_CardinalityType, Zenon
<1>7. 1 .. n + r.rate = (1 .. n) \cup New /\ (1 .. n) \cap New = {}
  BY <1>1, SMT
<1>8. IsFiniteSet(New) /\ Cardinality(New) = r.rate
  <2>1. n + 1 \in Int /\ n + r.rate \in Int
    BY <1>1, SMT
  <2>2. /\ IsFiniteSet(New)
        /\ Cardinality(New) = IF n + 1 > n + r.rate THEN 0 ELSE (n + r.rate) - (n + 1) + 1
    BY <2>1, FS_Interval, Zenon
  <2> QED
    BY <1>1, <2>2, SMT
<1> HIDE DEF n, New
<1>9. CASE r.sce = s
  <2>1. PlacesOf(s)' = PlacesOf(s) \cup New /\ PlacesOf(s) \cap New = {}
    BY <1>1, <1>5, <1>7, <1>9, Zenon DEF PlacesOf
  <2> QED
    BY <1>6, <1>8, <1>9, <2>1, SizeOfBoth, Zenon
<1>10. CASE r.sce # s
  <2>1. PlacesOf(s)' = PlacesOf(s)
    BY <1>1, <1>5, <1>7, <1>10, Zenon DEF PlacesOf
  <2> QED
    BY <1>6, <1>10, <2>1, SMT
<1> QED
  BY <1>9, <1>10, Zenon

(* The loading keeps ShareInv.                                             *)
LEMMA ShareLoad ==
  ASSUME ShareInv, rc <= isce, tSceLoadScenario \/ tsceRegisterCheck
  PROVE  ShareInv'
<1>1. SceTypeOK'
  BY LoadTypes, Zenon DEF ShareInv
<1>2. isce \in Nat /\ rc \in Nat /\ trafic \in Seq(Rate) /\ sceOccurenceTab \in Seq(Sound)
  BY SceAssumption, SMTT(30) DEF ShareInv, SceTypeOK
<1>3. CASE tsceRegisterCheck
  <2>1. /\ isce' = isce /\ rc' = rc /\ trafic' = trafic
        /\ sceOccurenceTab' = sceOccurenceTab /\ isce = Len(trafic)
        /\ loading' = "done" => Full
    BY <1>3, Zenon DEF tsceRegisterCheck
  <2>2. \A s \in Section : Units(s, isce)' = Units(s, isce) /\ PlacesOf(s)' = PlacesOf(s)
    BY <2>1, Zenon DEF Units, PlacesOf
  <2> QED
    BY <1>1, <2>1, <2>2, Zenon DEF ShareInv, Full
<1>4. CASE tSceLoadScenario
  <2>1. /\ loading' = "on" /\ isce' = isce + 1 /\ isce < Len(trafic) /\ trafic' = trafic
    BY <1>4, Zenon DEF tSceLoadScenario
  <2>2. PICK r \in Rate : r = trafic[isce + 1]
    BY <1>2, <2>1, SMTT(30)
  <2>3. CASE rc' = 0
    <3>1. Fits(r)
      BY <1>2, <1>4, <2>1, <2>2, <2>3, SMTT(30) DEF tSceLoadScenario
    <3>2. /\ rc = 0
          /\ sceOccurenceTab' = sceOccurenceTab \o [i \in 1 .. r.rate |-> r.sce]
      BY <1>4, <2>1, <2>2, <2>3, <3>1, Zenon DEF tSceLoadScenario
    <3>3. ASSUME NEW s \in Section
          PROVE  /\ IsFiniteSet(Units(s, isce)')
                 /\ Cardinality(PlacesOf(s)') = Cardinality(Units(s, isce)')
      <4>1. /\ IsFiniteSet(Units(s, isce))
            /\ Cardinality(PlacesOf(s)) = Cardinality(Units(s, isce))
        BY <3>2, Zenon DEF ShareInv
      <4>2. Units(s, isce)' = Units(s, isce + 1)
        BY <2>1, Zenon DEF Units
      <4>3. Cardinality(PlacesOf(s)') = Cardinality(PlacesOf(s)) + (IF r.sce = s THEN r.rate ELSE 0)
        BY <1>2, <3>2, PlacesGrow, Zenon
      <4>4. /\ IsFiniteSet(Units(s, isce + 1))
            /\ Cardinality(Units(s, isce + 1))
               = Cardinality(Units(s, isce)) + (IF r.sce = s THEN r.rate ELSE 0)
        BY <1>2, <2>2, <4>1, UnitsGrow, Zenon
      <4> QED
        BY <4>1, <4>2, <4>3, <4>4, Zenon
    <3> QED
      BY <1>1, <2>1, <3>3, Zenon DEF ShareInv
  <2>4. CASE rc' # 0
    BY <1>1, <2>1, <2>4, Zenon DEF ShareInv
  <2> QED
    BY <2>3, <2>4, Zenon
<1> QED
  BY <1>3, <1>4, Zenon

(* Every other step leaves the loading alone.                              *)
LEMMA SceKept ==
  ASSUME [Next]_vars
  PROVE  Load \/ UNCHANGED sceVars
<1>1. CASE Tick \/ CtrlC \/ tEnd \/ MainEnds \/ UNCHANGED vars
  BY <1>1, Zenon DEF Tick, CtrlC, tEnd, MainEnds, vars, confVars
<1>2. ASSUME NEW w \in Worker, NEW c \in Ctx, Resume(w, c)
      PROVE  UNCHANGED sceVars
  BY <1>2, Zenon DEF Resume, confVars
<1>3. ASSUME NEW w \in Worker, Play(w)
      PROVE  UNCHANGED sceVars
  BY <1>3, Zenon
  DEF Play, SCE_Begin, SCE_Wait, SCE_End, AbortedUser, Request, AccountOn, confVars
<1>4. ASSUME NEW w \in Worker,
             \/ NothingDue(w) \/ TestEnding(w) \/ ScenarioEnd(w)
             \/ StopClear(w) \/ AbortTest(w)
      PROVE  UNCHANGED sceVars
  BY <1>4, Zenon
  DEF NothingDue, TestEnding, ScenarioEnd, StopClear, AbortTest, confVars
<1> QED
  BY <1>1, <1>2, <1>3, <1>4, Zenon DEF Next, WorkerStep

(* A step keeps ShareInv.                                                  *)
LEMMA ShareStep ==
  ASSUME LocalInv, ShareInv, [Next]_vars
  PROVE  ShareInv'
<1>1. CASE Load
  BY <1>1, ShareLoad, Zenon DEF Load, LocalInv
<1>2. CASE UNCHANGED sceVars
  <2>1. /\ isce' = isce /\ rc' = rc /\ trafic' = trafic /\ loading' = loading
        /\ sceOccurenceTab' = sceOccurenceTab
    BY <1>2, Zenon DEF sceVars
  <2>2. \A s \in Section : Units(s, isce)' = Units(s, isce) /\ PlacesOf(s)' = PlacesOf(s)
    BY <2>1, Zenon DEF Units, PlacesOf
  <2>3. SceTypeOK'
    BY <2>1, Zenon DEF ShareInv, SceTypeOK
  <2> QED
    BY <2>1, <2>2, <2>3, Zenon DEF ShareInv
<1> QED
  BY <1>1, <1>2, SceKept, Zenon

(* Initially no scenario has been read.                                    *)
LEMMA ShareInit ==
  ASSUME Init
  PROVE  ShareInv
<1>1. SceTypeOK /\ isce = 0 /\ rc = 0 /\ sceOccurenceTab = <<>> /\ loading = "on"
  BY LocalInit, Zenon DEF LocalInv, TypeOK, Init, SceInit
<1>2. ASSUME NEW s \in Section
      PROVE  Units(s, isce) = {} /\ PlacesOf(s) = {}
  <2>1. 1 .. 0 = {} /\ DOMAIN sceOccurenceTab = {}
    BY <1>1, SMT
  <2> QED
    BY <1>1, <2>1, Zenon DEF Units, PlacesOf
<1> QED
  BY <1>1, <1>2, FS_EmptySet, Zenon DEF ShareInv

(***************************************************************************)
(* Threads start on a table without a hole in which every scenario has the *)
(* share of the traffic (tSceLoadScenario, tSceRegister and the checks of  *)
(* tsce.c), for every traffic, every table size and whatever could not be  *)
(* loaded, and no later step of the engine changes it.                     *)
(***************************************************************************)
THEOREM TableHasShares == Spec => []Shares
<1>1. Init => LocalInv /\ ShareInv
  BY LocalInit, ShareInit, Zenon
<1>2. LocalInv /\ ShareInv /\ [Next]_vars => LocalInv' /\ ShareInv'
  BY LocalStep, ShareStep, Zenon
<1>3. ShareInv => Shares
  BY Zenon DEF ShareInv, Shares, Share, Rates, PlacesOf
<1> QED
  BY <1>1, <1>2, <1>3, PTL DEF Spec

=============================================================================
