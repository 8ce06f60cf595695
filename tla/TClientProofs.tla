---------------------------- MODULE TClientProofs ---------------------------
(***************************************************************************)
(* Theorems about what the workers use while they play their scenarios,    *)
(* for any number of workers, users and scenarios, any rate, and any       *)
(* number of identifiers, transmissions and packets.                       *)
(*                                                                         *)
(* TUser: two workers never work on the same user when users are checked;  *)
(* what they see of the reservation is TReserve; the time of a release is  *)
(* recorded; and policy 1 ends the program once, after the last user.      *)
(* TStat: the regulation keeps the rate, and no request is missing from    *)
(* the counters.  TRadius: a worker takes no reply for another's.  The     *)
(* three share nothing but the threads: each has a specification, and an   *)
(* invariant, of its own.                                                  *)
(***************************************************************************)
EXTENDS TUser, TStat, TRadius, TLAPS

(***************************************************************************)
(* Exclusive is not inductive.  What it rests on: a user that is held is   *)
(* not IDLE and has a last scenario (tUserAbort does not make it IDLE);    *)
(* the user a walk is about to take is held by nobody, since only the      *)
(* owner of tUserMutex gives users out; and policy 1 has given out only    *)
(* users up to its index.                                                  *)
(***************************************************************************)
WalkOwned ==
  walk.pc # "none" => tcUserGetPolicy # 1 /\ mutex # NULL /\ walk.sce # NULL

HeldMarked ==
  \A w \in Worker : holding[w] # NULL =>
    exeState[holding[w]] # "IDLE" /\ lastSce[holding[w]] # NULL

TakenFree == walk.pc = "take" => \A w \in Worker : holding[w] # walk.at

GivenInOrder ==
  tcUserGetPolicy = 1 => \A w \in Worker : holding[w] # NULL =>
                  tUseri = -2 \/ holding[w] <= tUseri

TypeInv == TypeOK /\ WalkOwned

HoldInv == SameUserNever /\ HeldMarked /\ TakenFree /\ GivenInOrder

-----------------------------------------------------------------------------
(***************************************************************************)
(* The population of a scenario lies within the users, and so does the     *)
(* next index that tUserCheckExclusion or policy 2 computes.               *)
(***************************************************************************)
LEMMA PopulBounds ==
  ASSUME NEW s \in Sce
  PROVE  /\ First(s) \in Nat /\ Nb(s) \in Nat \ {0}
         /\ First(s) + Nb(s) <= UserNb
         /\ Popul(s) \subseteq User
<1>1. First(s) \in Nat /\ Nb(s) \in Nat \ {0} /\ First(s) + Nb(s) <= UserNb
  BY UserNbAssumption, SceAssumption DEF First, Nb, User
<1> QED
  BY <1>1, UserNbAssumption DEF Popul, User

(***************************************************************************)
(* The step of a walk stays inside the table of users, from any index the  *)
(* static tUseri can have.                                                 *)
(***************************************************************************)
LEMMA AfterInUsers ==
  ASSUME NEW s \in Sce, NEW i \in Int
  PROVE  After(i, s) \in User
<1>1. (i + 1) % Nb(s) \in 0 .. Nb(s) - 1
  BY PopulBounds
<1> QED
  BY <1>1, PopulBounds, UserNbAssumption DEF After, User

(***************************************************************************)
(* The first user of a NAS, where an Accounting-On starts to abort, is a   *)
(* user.                                                                   *)
(***************************************************************************)
LEMMA FirstOfNas ==
  ASSUME NEW u \in User
  PROVE  u % NbNas \in User
<1>1. ASSUME NEW a \in Nat, NEW b \in Nat \ {0}
      PROVE  a % b \in 0 .. a
  OBVIOUS
<1>2. u \in Nat /\ u < UserNb /\ NbNas \in Nat \ {0} /\ UserNb \in Nat
  BY UserNbAssumption DEF User
<1>3. u % NbNas \in 0 .. u
  BY <1>1, <1>2
<1> QED
  BY <1>2, <1>3 DEF User

(***************************************************************************)
(* A reservation keeps the types and ends the walk.                        *)
(***************************************************************************)
LEMMA ReserveType ==
  ASSUME TypeInv, NEW w \in Worker, NEW u \in User, NEW s \in Sce, Reserve(w, u, s)
  PROVE  TypeInv'
<1> USE DEF TypeInv, TypeOK, WalkOwned, Reserve, NoWalk, mainVars
<1>1. walk' \in [pc : {"none", "look", "take"}, sce : Sce \cup {NULL},
                 first : User, at : User]
  BY UserNbAssumption DEF User
<1> QED
  BY <1>1

(***************************************************************************)
(* Starting tUserCheckExclusion at a user keeps the types.                 *)
(***************************************************************************)
LEMMA StartWalkType ==
  ASSUME TypeInv, tcUserGetPolicy # 1, NEW w \in Worker, NEW u \in User, NEW s \in Sce,
         StartWalk(w, s, u)
  PROVE  TypeInv'
BY NullAssumption DEF TypeInv, TypeOK, WalkOwned, StartWalk, userVars, mainVars

-----------------------------------------------------------------------------
(***************************************************************************)
(* The types hold initially, whatever realloc left in the table.           *)
(***************************************************************************)
LEMMA TypeInit == Init => TypeInv
<1> SUFFICES ASSUME Init PROVE TypeInv
  OBVIOUS
<1>1. 0 \in User /\ MaxAge \in 0 .. MaxAge
  BY UserNbAssumption, SceAssumption DEF User
<1>2. walk \in [pc : {"none", "look", "take"}, sce : Sce \cup {NULL},
                first : User, at : User]
  BY <1>1 DEF Init, NoWalk
<1> QED
  BY <1>1, <1>2 DEF Init, TypeInv, TypeOK, WalkOwned, NoWalk

(***************************************************************************)
(* Every step keeps the types: in particular every index the code computes *)
(* is an index of the table of users.                                      *)
(***************************************************************************)
LEMMA TypeStep == TypeInv /\ [Next]_vars => TypeInv'
<1> SUFFICES ASSUME TypeInv, [Next]_vars PROVE TypeInv'
  OBVIOUS
<1> USE DEF TypeInv, TypeOK, WalkOwned
<1>1. ASSUME NEW w \in Worker, NEW s \in Sce, GetRandom(w, s) PROVE TypeInv'
  BY <1>1, PopulBounds, StartWalkType DEF GetRandom
<1>2. ASSUME NEW w \in Worker, NEW s \in Sce, GetLoop(w, s) PROVE TypeInv'
  <2>1. tUseri \in Int
    BY DEF User
  <2>2. After(tUseri, s) \in User
    BY <2>1, AfterInUsers
  <2>3. tcUserGetPolicy # 1 /\ StartWalk(w, s, After(tUseri, s))
    BY <1>2 DEF GetLoop
  <2> HIDE DEF TypeInv
  <2> QED
    BY <2>2, <2>3, StartWalkType
<1>3. ASSUME NEW w \in Worker, NEW s \in Sce, GetSequential(w, s) PROVE TypeInv'
  <2>1. tUseri + 1 \in User
    BY <1>3, UserNbAssumption DEF GetSequential, LastGiven, User
  <2> QED
    BY <1>3, <2>1, ReserveType DEF GetSequential
<1>4. ASSUME NEW w \in Worker, NEW s \in Sce, GetFixed(w, s) PROVE TypeInv'
  BY <1>4, PolicyAssumption, ReserveType DEF GetFixed
<1>5. ASSUME NEW w \in Worker, GetSequentialEnd(w) PROVE TypeInv'
  BY <1>5 DEF GetSequentialEnd, OverIndex, userVars, mainVars
<1>6. ASSUME NEW w \in Worker, Look(w) PROVE TypeInv'
  <2>1. walk.sce \in Sce /\ walk.at \in Int
    BY <1>6 DEF Look, User
  <2>2. After(walk.at, walk.sce) \in User
    BY <2>1, AfterInUsers
  <2>3. /\ UNCHANGED <<userVars, holding, releasing, aborting, mainVars, idleFor>>
        /\ \/ walk' = [walk EXCEPT !.pc = "take"] /\ UNCHANGED <<mutex, tUseri>>
           \/ /\ walk' = [walk EXCEPT !.at = After(walk.at, walk.sce)]
              /\ UNCHANGED <<mutex, tUseri>>
           \/ walk' = NoWalk /\ mutex' = NULL /\ tUseri' = -1
    BY <1>6 DEF Look
  <2>4. CASE walk' = NoWalk /\ mutex' = NULL /\ tUseri' = -1
    <3>1. walk' \in [pc : {"none", "look", "take"}, sce : Sce \cup {NULL},
                     first : User, at : User] /\ walk'.pc = "none"
      BY <2>4, UserNbAssumption DEF NoWalk, User
    <3> QED
      BY <2>3, <2>4, <3>1 DEF userVars, mainVars
  <2> QED
    BY <1>6, <2>2, <2>3, <2>4 DEF Look, userVars, mainVars
<1>7. ASSUME NEW w \in Worker, Take(w) PROVE TypeInv'
  <2>1. walk.sce \in Sce /\ walk.at \in User
    BY <1>7 DEF Take
  <2> QED
    BY <1>7, <2>1, ReserveType DEF Take
<1>8. ASSUME NEW w \in Worker, FreeState(w) PROVE TypeInv'
  BY <1>8, SceAssumption DEF FreeState, mainVars
<1>9. ASSUME NEW w \in Worker, FreeTime(w) PROVE TypeInv'
  BY <1>9, SceAssumption DEF FreeTime, FreedAge, mainVars
<1>10. ASSUME NEW w \in Worker, AbortFirst(w) \/ Abort(w) PROVE TypeInv'
  <2>1. CASE AbortFirst(w)
    <3>1. holding[w] \in User
      BY <2>1 DEF AbortFirst
    <3>2. holding[w] % NbNas \in User
      BY <3>1, FirstOfNas
    <3> QED
      BY <2>1, <3>2 DEF AbortFirst, userVars, mainVars
  <2>2. CASE Abort(w)
    BY <2>2, SceAssumption DEF Abort, NextOfNas, mainVars
  <2> QED
    BY <1>10, <2>1, <2>2
<1>11. CASE Tick
  BY <1>11, SceAssumption DEF Tick, Older, mainVars
<1>12. CASE UNCHANGED vars
  BY <1>12 DEF vars, userVars, mainVars
<1> QED
  BY <1>1, <1>2, <1>3, <1>4, <1>5, <1>6, <1>7, <1>8, <1>9, <1>10, <1>11, <1>12
  DEF Next, Get

(***************************************************************************)
(* TypeOK is an invariant, for any policy and any populations: no walk     *)
(* leaves the table of users.                                              *)
(***************************************************************************)
THEOREM TypeCorrect == Spec => []TypeOK
<1>1. TypeInv => TypeOK
  BY DEF TypeInv
<1> QED
  BY <1>1, TypeInit, TypeStep, PTL DEF Spec

-----------------------------------------------------------------------------
(***************************************************************************)
(* Giving a user that nobody holds to one more worker keeps the invariant. *)
(***************************************************************************)
LEMMA ReserveHold ==
  ASSUME TypeInv, HoldInv, UNCHANGED tcUserGetPolicy, NEW w \in Worker, NEW u \in User, NEW s \in Sce,
         Reserve(w, u, s), \A v \in Worker : holding[v] # u,
         tcUserGetPolicy = 1 => tUseri # -2 /\ u = tUseri + 1
  PROVE  HoldInv'
<1> USE DEF TypeInv, TypeOK, HoldInv, SameUserNever, HeldMarked, TakenFree,
            GivenInOrder, Reserve
<1>1. SameUserNever' /\ HeldMarked'
  BY NullAssumption
<1>2. TakenFree'
  BY DEF NoWalk
<1>3. GivenInOrder'
  BY DEF User
<1> QED
  BY <1>1, <1>2, <1>3

(***************************************************************************)
(* Steps that give no user out and make no user IDLE.                      *)
(***************************************************************************)
LEMMA QuietHold ==
  ASSUME TypeInv, HoldInv, UNCHANGED <<tcUserGetPolicy, holding, lastSce>>,
         tUseri' = tUseri \/ tcUserGetPolicy # 1 \/ tUseri' = -2,
         exeState' \in [User -> {"IDLE", "RUNNING", "ABORT"}],
         \A u \in User : exeState'[u] = "IDLE" => exeState[u] = "IDLE",
         walk'.pc = "take" => \A w \in Worker : holding[w] # walk'.at
  PROVE  HoldInv'
BY DEF TypeInv, TypeOK, HoldInv, SameUserNever, HeldMarked, TakenFree, GivenInOrder

(***************************************************************************)
(* The policy is the one of the configuration for the whole run.           *)
(***************************************************************************)
LEMMA PolicyFixed == [Next]_vars => UNCHANGED tcUserGetPolicy
BY DEF Next, vars, mainVars, Get, GetRandom, GetLoop, GetSequential, GetFixed,
       GetSequentialEnd, Look, Take, FreeState, FreeTime, AbortFirst, Abort, Tick,
       StartWalk, Reserve

(***************************************************************************)
(* Every step keeps the exclusion invariant, under the settings for which  *)
(* the reservation is meant to be exclusive.                               *)
(***************************************************************************)
LEMMA HoldStep ==
  ASSUME Checked, TypeInv, HoldInv, [Next]_vars
  PROVE  HoldInv'
<1> USE PolicyFixed DEF TypeInv, TypeOK, WalkOwned
<1>1. ASSUME NEW w \in Worker, NEW s \in Sce, GetRandom(w, s) \/ GetLoop(w, s)
      PROVE  HoldInv'
  <2>1. walk'.pc = "look" /\ UNCHANGED <<holding, lastSce, tUseri, exeState>>
    BY <1>1 DEF GetRandom, GetLoop, StartWalk, userVars, mainVars
  <2> QED
    BY <2>1, QuietHold
<1>2. ASSUME NEW w \in Worker, NEW s \in Sce, GetSequential(w, s) PROVE HoldInv'
  <2>1. tUseri + 1 \in User
    BY <1>2, UserNbAssumption DEF GetSequential, LastGiven, User
  <2>2. \A v \in Worker : holding[v] # tUseri + 1
    BY <1>2, <2>1, NullAssumption DEF GetSequential, HoldInv, GivenInOrder, User
  <2> QED
    BY <1>2, <2>1, <2>2, ReserveHold DEF GetSequential
<1>3. ASSUME NEW w \in Worker, NEW s \in Sce, GetFixed(w, s) PROVE HoldInv'
  BY <1>3 DEF GetFixed, Checked
<1>4. ASSUME NEW w \in Worker, GetSequentialEnd(w) PROVE HoldInv'
  BY <1>4, QuietHold DEF GetSequentialEnd, OverIndex, userVars, mainVars, HoldInv, TakenFree
<1>5. ASSUME NEW w \in Worker, Look(w) PROVE HoldInv'
  <2>1. tcUserGetPolicy # 1 /\ \A s \in Sce : Exclusion[s] > 0
    BY <1>5 DEF Look, Checked
  <2>2. UNCHANGED <<holding, lastSce, exeState>>
    BY <1>5 DEF Look, userVars, mainVars
  <2>3. ASSUME NEW v \in Worker, Acceptable(walk.at) PROVE holding[v] # walk.at
    <3> SUFFICES ASSUME holding[v] = walk.at PROVE FALSE
      OBVIOUS
    <3>1. walk.at \in User /\ walk.at # NULL
      BY NullAssumption
    <3>2. exeState[walk.at] # "IDLE" /\ lastSce[walk.at] \in Sce
      BY <3>1 DEF HoldInv, HeldMarked
    <3>3. GetExclusion(walk.at) # 0
      BY <2>1, <3>2, NullAssumption, SceAssumption DEF GetExclusion
    <3> QED
      BY <2>3, <3>2, <3>3 DEF Acceptable, Free
  <2>4. walk'.pc = "take" => Acceptable(walk.at) /\ walk'.at = walk.at
    BY <1>5 DEF Look, NoWalk
  <2> QED
    BY <2>1, <2>2, <2>3, <2>4, QuietHold
<1>6. ASSUME NEW w \in Worker, Take(w) PROVE HoldInv'
  <2>1. walk.sce \in Sce /\ walk.at \in User /\ tcUserGetPolicy # 1
    BY <1>6 DEF Take
  <2>2. \A v \in Worker : holding[v] # walk.at
    BY <1>6 DEF Take, HoldInv, TakenFree
  <2> QED
    BY <1>6, <2>1, <2>2, ReserveHold DEF Take
<1>7. ASSUME NEW w \in Worker, FreeState(w) PROVE HoldInv'
  <2> USE <1>7 DEF FreeState, HoldInv, SameUserNever, HeldMarked, TakenFree, GivenInOrder
  <2>1. \A v \in Worker : holding'[v] = IF v = w THEN NULL ELSE holding[v]
    OBVIOUS
  <2>2. \A v \in Worker : v # w /\ holding[v] # NULL => holding[v] # holding[w]
    OBVIOUS
  <2>3. SameUserNever' /\ HeldMarked'
    BY <2>1, <2>2
  <2>4. TakenFree' /\ GivenInOrder'
    BY <2>1, NullAssumption
  <2> QED
    BY <2>3, <2>4
<1>8. ASSUME NEW w \in Worker, FreeTime(w) PROVE HoldInv'
  BY <1>8, QuietHold DEF FreeTime, HoldInv, TakenFree
<1>9. ASSUME NEW w \in Worker, AbortFirst(w) \/ Abort(w) PROVE HoldInv'
  <2>1. /\ exeState' \in [User -> {"IDLE", "RUNNING", "ABORT"}]
        /\ \A u \in User : exeState'[u] = "IDLE" => exeState[u] = "IDLE"
    BY <1>9 DEF AbortFirst, Abort, userVars, mainVars
  <2> QED
    BY <1>9, <2>1, QuietHold DEF AbortFirst, Abort, userVars, mainVars, HoldInv, TakenFree
<1>10. CASE Tick \/ UNCHANGED vars
  BY <1>10, QuietHold DEF Tick, vars, userVars, mainVars, HoldInv, TakenFree
<1> QED
  BY <1>1, <1>2, <1>3, <1>4, <1>5, <1>6, <1>7, <1>8, <1>9, <1>10 DEF Next, Get

(***************************************************************************)
(* tUserGetRandomly never gives a user to two workers when users are       *)
(* checked, for any number of workers, users and scenarios, whatever       *)
(* tUserFree and tUserAbort do outside of tUserMutex and whatever the      *)
(* memory of the users held at the start.                                  *)
(***************************************************************************)
THEOREM UsersExclusive == Spec => []Exclusive
<1> DEFINE Inv == TypeInv /\ (Checked => HoldInv)
<1>1. Init => Inv
  BY TypeInit DEF Init, HoldInv, SameUserNever, HeldMarked, TakenFree, GivenInOrder,
                  NoWalk
<1>2. Inv /\ [Next]_vars => Inv'
  BY TypeStep, HoldStep, PolicyFixed DEF Checked
<1>3. Inv => Exclusive
  BY DEF Exclusive, HoldInv
<1> QED
  BY <1>1, <1>2, <1>3, PTL DEF Spec

-----------------------------------------------------------------------------
(***************************************************************************)
(* A worker does one thing at a time: it asks for a user only when it has  *)
(* none and has finished giving the last one back.                         *)
(***************************************************************************)
OneTask ==
  \A w \in Worker : /\ mutex = w => holding[w] = NULL /\ releasing[w] = NULL
                    /\ holding[w] = NULL \/ releasing[w] = NULL

(***************************************************************************)
(* Every step keeps OneTask.                                               *)
(***************************************************************************)
LEMMA OneTaskStep ==
  ASSUME TypeInv, OneTask, [Next]_vars
  PROVE  OneTask'
<1> USE DEF TypeInv, TypeOK, OneTask
<1>1. ASSUME NEW w \in Worker, NEW s \in Sce, Get(w, s) PROVE OneTask'
  BY <1>1, NullAssumption
  DEF Get, GetRandom, GetLoop, GetSequential, GetFixed, StartWalk, Reserve, CanGet
<1>2. ASSUME NEW w \in Worker, GetSequentialEnd(w) \/ Look(w) PROVE OneTask'
  BY <1>2, NullAssumption DEF GetSequentialEnd, Look
<1>3. ASSUME NEW w \in Worker, Take(w) PROVE OneTask'
  BY <1>3, NullAssumption DEF Take, Reserve
<1>4. ASSUME NEW w \in Worker, FreeState(w) PROVE OneTask'
  BY <1>4, NullAssumption DEF FreeState
<1>5. ASSUME NEW w \in Worker, FreeTime(w) \/ AbortFirst(w) \/ Abort(w) PROVE OneTask'
  BY <1>5, NullAssumption DEF FreeTime, AbortFirst, Abort
<1>6. CASE Tick \/ UNCHANGED vars
  BY <1>6 DEF Tick, vars
<1> QED
  BY <1>1, <1>2, <1>3, <1>4, <1>5, <1>6 DEF Next

(***************************************************************************)
(* Growing older keeps the order of ages.                                  *)
(***************************************************************************)
LEMMA OlderMonotone ==
  ASSUME NEW a \in -1 .. MaxAge, NEW b \in 0 .. MaxAge, a <= b
  PROVE  Older(a) <= Older(b)
BY SceAssumption DEF Older

(***************************************************************************)
(* Every step keeps ReleaseTimeRecorded: a user becomes IDLE only in       *)
(* tUserFree, whose second write is still to come.                         *)
(***************************************************************************)
LEMMA ReleaseStep ==
  ASSUME TypeInv, OneTask, ReleaseTimeRecorded, [Next]_vars
  PROVE  ReleaseTimeRecorded'
<1> USE DEF TypeInv, TypeOK
<1> SUFFICES ASSUME NEW u \in User, exeState'[u] = "IDLE", lastSce'[u] # NULL,
                    \A w \in Worker : releasing'[w] # u
             PROVE  age'[u] <= idleFor'[u]
  BY DEF ReleaseTimeRecorded, User
<1>0. /\ age[u] \in -1 .. MaxAge /\ idleFor[u] \in 0 .. MaxAge /\ MaxAge \in Nat
      /\ age[u] \in Int /\ idleFor[u] \in Nat
  BY SceAssumption
<1>i. exeState[u] = "IDLE" /\ lastSce[u] # NULL /\ (\A w \in Worker : releasing[w] # u)
        => age[u] <= idleFor[u]
  BY DEF ReleaseTimeRecorded
<1>1. ASSUME NEW w \in Worker, NEW x \in User, NEW s \in Sce, Reserve(w, x, s)
      PROVE  age'[u] <= idleFor'[u]
  <2>1. u # x
    BY <1>1 DEF Reserve
  <2> QED
    BY <1>i, <1>1, <2>1 DEF Reserve
<1>2. ASSUME NEW w \in Worker, NEW s \in Sce, Get(w, s) PROVE age'[u] <= idleFor'[u]
  <2>1. CASE GetRandom(w, s) \/ GetLoop(w, s)
    BY <1>i, <2>1 DEF GetRandom, GetLoop, StartWalk, userVars
  <2>2. CASE GetSequential(w, s)
    <3>1. tUseri + 1 \in User
      BY <2>2, UserNbAssumption DEF GetSequential, LastGiven, User
    <3> QED
      BY <1>1, <2>2, <3>1 DEF GetSequential
  <2>3. CASE GetFixed(w, s)
    BY <1>1, <2>3, PolicyAssumption DEF GetFixed
  <2> QED
    BY <1>2, <2>1, <2>2, <2>3 DEF Get
<1>3. ASSUME NEW w \in Worker, Take(w) PROVE age'[u] <= idleFor'[u]
  BY <1>1, <1>3 DEF Take, WalkOwned
<1>4. ASSUME NEW w \in Worker, GetSequentialEnd(w) \/ Look(w) \/ AbortFirst(w)
      PROVE  age'[u] <= idleFor'[u]
  BY <1>i, <1>4 DEF GetSequentialEnd, Look, AbortFirst, userVars
<1>5. ASSUME NEW w \in Worker, FreeState(w) PROVE age'[u] <= idleFor'[u]
  <2>1. releasing[w] = NULL /\ holding[w] \in User
    BY <1>5 DEF FreeState, OneTask
  <2>2. u # holding[w] /\ \A v \in Worker : releasing[v] # u
    BY <1>5, <2>1, NullAssumption DEF FreeState
  <2> QED
    BY <1>i, <1>5, <2>1, <2>2 DEF FreeState
<1>6. ASSUME NEW w \in Worker, FreeTime(w) PROVE age'[u] <= idleFor'[u]
  <2>1. CASE releasing[w] = u
    BY <1>0, <1>6, <2>1 DEF FreeTime, FreedAge
  <2>2. CASE releasing[w] # u
    BY <1>i, <1>6, <2>2 DEF FreeTime
  <2> QED
    BY <2>1, <2>2
<1>7. ASSUME NEW w \in Worker, Abort(w) PROVE age'[u] <= idleFor'[u]
  BY <1>i, <1>7 DEF Abort
<1>8. CASE Tick
  <2>1. age[u] <= idleFor[u]
    BY <1>i, <1>8 DEF Tick
  <2> QED
    BY <1>0, <1>8, <2>1, OlderMonotone DEF Tick
<1>9. CASE UNCHANGED vars
  BY <1>i, <1>9 DEF vars, userVars
<1> QED
  BY <1>2, <1>3, <1>4, <1>5, <1>6, <1>7, <1>8, <1>9 DEF Next

(***************************************************************************)
(* The time recorded for a release is never earlier than the release once  *)
(* tUserFree has made both of its writes, for any policy and whatever      *)
(* tUserAbort writes in between.                                           *)
(***************************************************************************)
THEOREM ReleaseRecorded == Spec => []ReleaseTimeRecorded
<1> DEFINE Inv == TypeInv /\ OneTask /\ ReleaseTimeRecorded
<1>1. Init => Inv
  BY TypeInit, NullAssumption DEF Init, OneTask, ReleaseTimeRecorded
<1>2. Inv /\ [Next]_vars => Inv'
  BY TypeStep, OneTaskStep, ReleaseStep
<1> QED
  BY <1>1, <1>2, PTL DEF Spec

-----------------------------------------------------------------------------
(***************************************************************************)
(* SequentialEnd rests on this: policy 1 has given out every user up to    *)
(* its index, all of them once the index says it is over (-2), and has     *)
(* interrupted the main thread only then; no other policy does.            *)
(***************************************************************************)
GivenOut ==
  /\ tcUserGetPolicy # 1 => sigint = 0
  /\ tcUserGetPolicy = 1 =>
       /\ tUseri # -2 => sigint = 0 /\ \A u \in User : u <= tUseri => lastSce[u] # NULL
       /\ tUseri = -2 => sigint <= 1 /\ \A u \in User : lastSce[u] # NULL

(***************************************************************************)
(* Every step keeps GivenOut: a last scenario is never taken back.         *)
(***************************************************************************)
LEMMA GivenOutStep ==
  ASSUME TypeInv, GivenOut, [Next]_vars
  PROVE  GivenOut'
<1> USE PolicyFixed DEF TypeInv, TypeOK
<1>1. ASSUME NEW w \in Worker, NEW s \in Sce, GetSequential(w, s) PROVE GivenOut'
  <2>1. tUseri + 1 \in User /\ tUseri # -2
    BY <1>1, UserNbAssumption DEF GetSequential, LastGiven, User
  <2>2. /\ tUseri' = tUseri + 1 /\ sigint' = 0
        /\ \A u \in User : lastSce'[u] = IF u = tUseri + 1 THEN s ELSE lastSce[u]
    BY <1>1, <2>1 DEF GetSequential, Reserve, mainVars, GivenOut
  <2>3. \A u \in User : u <= tUseri + 1 => u <= tUseri \/ u = tUseri + 1
    BY <2>1 DEF User
  <2>4. \A u \in User : u <= tUseri' => lastSce'[u] # NULL
    BY <1>1, <2>1, <2>2, <2>3, NullAssumption DEF GivenOut, GetSequential
  <2>5. tUseri' # -2
    BY <2>1, <2>2 DEF User
  <2> QED
    BY <1>1, <2>2, <2>4, <2>5 DEF GivenOut, GetSequential, User
<1>2. ASSUME NEW w \in Worker, GetSequentialEnd(w) PROVE GivenOut'
  <2>1. tcUserGetPolicy = 1 /\ tUseri # -2 /\ tUseri + 1 >= UserNb
    BY <1>2 DEF GetSequentialEnd, SequentialOver, LastGiven
  <2>2. \A u \in User : u <= tUseri
    BY <2>1, UserNbAssumption DEF User
  <2>3. sigint = 0 /\ \A u \in User : lastSce[u] # NULL
    BY <2>1, <2>2 DEF GivenOut
  <2>4. sigint' <= 1 /\ tUseri' = -2 /\ UNCHANGED lastSce
    BY <1>2, <2>3 DEF GetSequentialEnd, OverIndex, userVars
  <2> QED
    BY <2>1, <2>3, <2>4 DEF GivenOut, User
<1>3. ASSUME tcUserGetPolicy # 1, UNCHANGED sigint PROVE GivenOut'
  BY <1>3 DEF GivenOut
<1>4. ASSUME UNCHANGED <<sigint, tUseri, lastSce>> PROVE GivenOut'
  BY <1>4 DEF GivenOut, User
<1>5. ASSUME NEW w \in Worker, NEW s \in Sce, GetRandom(w, s) \/ GetLoop(w, s) \/ GetFixed(w, s)
      PROVE  GivenOut'
  BY <1>3, <1>5 DEF GetRandom, GetLoop, GetFixed, StartWalk, Reserve, mainVars
<1>6. ASSUME NEW w \in Worker, Look(w) \/ Take(w) PROVE GivenOut'
  BY <1>3, <1>6 DEF Look, Take, Reserve, mainVars, WalkOwned
<1>7. ASSUME NEW w \in Worker, FreeState(w) \/ FreeTime(w) \/ AbortFirst(w) \/ Abort(w)
      PROVE  GivenOut'
  BY <1>4, <1>7 DEF FreeState, FreeTime, AbortFirst, Abort, mainVars, userVars
<1>8. CASE Tick \/ UNCHANGED vars
  BY <1>4, <1>8 DEF Tick, vars, mainVars, userVars
<1> QED
  BY <1>1, <1>2, <1>5, <1>6, <1>7, <1>8 DEF Next, Get

(***************************************************************************)
(* Policy 1 interrupts the main thread at most once and only after every   *)
(* user has been given out, for any number of workers and users.           *)
(***************************************************************************)
THEOREM EndsAfterLast == Spec => []SequentialEnd
<1> DEFINE Inv == TypeInv /\ GivenOut
<1>1. Init => Inv
  BY TypeInit DEF Init, GivenOut, User
<1>2. Inv /\ [Next]_vars => Inv'
  BY TypeStep, GivenOutStep
<1>3. Inv => SequentialEnd
  BY DEF GivenOut, SequentialEnd, TypeInv, TypeOK
<1> QED
  BY <1>1, <1>2, <1>3, PTL DEF Spec

-----------------------------------------------------------------------------
(***************************************************************************)
(* A step under the settings that check users is a step of TReserve, or    *)
(* one that TReserve does not see.                                         *)
(***************************************************************************)
LEMMA ReservationStep ==
  ASSUME Checked, TypeInv, HoldInv, OneTask, HoldInv', [Next]_vars
  PROVE  [Reservation!Next]_(Reservation!vars)
<1> USE DEF TypeInv, TypeOK
<1> DEFINE Aborted == {u \in Held : exeState[u] = "ABORT"}
<1>h. \A u : u \in Held <=> u # NULL /\ \E w \in Worker : holding[w] = u
  BY DEF Held
<1>g. \A u : u \in Held' <=> u # NULL /\ \E w \in Worker : holding'[w] = u
  BY DEF Held
<1>t. Held \subseteq User
  BY <1>h
<1>1. ASSUME UNCHANGED <<holding, exeState>> PROVE UNCHANGED Reservation!vars
  BY <1>1 DEF Reservation!vars, Held
<1>2. ASSUME NEW w \in Worker, NEW u \in User, NEW s \in Sce, holding[w] = NULL,
             Reserve(w, u, s), u \notin Held
      PROVE  Reservation!Next
  <2>1. \A v \in Worker : holding'[v] = IF v = w THEN u ELSE holding[v]
    BY <1>2 DEF Reserve
  <2>2. Held' = Held \cup {u}
    BY <1>2, <1>h, <1>g, <2>1, NullAssumption
  <2>3. \A x \in User : exeState'[x] = IF x = u THEN "RUNNING" ELSE exeState[x]
    BY <1>2 DEF Reserve
  <2>4. Aborted' = Aborted
    BY <1>t, <1>2, <2>2, <2>3
  <2>5. Reservation!Get(u)
    BY <1>2, <2>2, <2>4 DEF Reservation!Get
  <2> QED
    BY <2>5 DEF Reservation!Next
<1>3. ASSUME NEW w \in Worker, NEW s \in Sce, GetRandom(w, s) \/ GetLoop(w, s)
      PROVE  UNCHANGED Reservation!vars
  BY <1>1, <1>3 DEF GetRandom, GetLoop, StartWalk, userVars
<1>4. ASSUME NEW w \in Worker, NEW s \in Sce, GetSequential(w, s) PROVE Reservation!Next
  <2>1. tUseri + 1 \in User
    BY <1>4, UserNbAssumption DEF GetSequential, LastGiven, User
  <2>2. tUseri + 1 \notin Held
    BY <1>h, <1>4, <2>1, NullAssumption DEF GetSequential, HoldInv, GivenInOrder, User
  <2> QED
    BY <1>2, <1>4, <2>1, <2>2 DEF GetSequential, CanGet
<1>5. ASSUME NEW w \in Worker, NEW s \in Sce, GetFixed(w, s) PROVE Reservation!Next
  BY <1>5 DEF GetFixed, Checked
<1>6. ASSUME NEW w \in Worker, Take(w) PROVE Reservation!Next
  <2>1. walk.sce \in Sce /\ walk.at \in User /\ holding[w] = NULL
    BY <1>6 DEF Take, WalkOwned, OneTask
  <2>2. walk.at \notin Held
    BY <1>h, <1>6 DEF Take, HoldInv, TakenFree
  <2> QED
    BY <1>2, <1>6, <2>1, <2>2 DEF Take
<1>7. ASSUME NEW w \in Worker, FreeState(w) PROVE Reservation!Next
  <2>1. PICK u \in User : u = holding[w]
    BY <1>7 DEF FreeState
  <2>2. \A v \in Worker : holding'[v] = IF v = w THEN NULL ELSE holding[v]
    BY <1>7 DEF FreeState
  <2>3. \A v \in Worker : v # w => holding[v] # u
    BY <2>1, NullAssumption DEF HoldInv, SameUserNever
  <2>4. Held' = Held \ {u}
    BY <1>h, <1>g, <2>1, <2>2, <2>3
  <2>5. \A x \in User : x # u => exeState'[x] = exeState[x]
    BY <1>7, <2>1 DEF FreeState
  <2>6. Aborted' = Aborted \ {u}
    BY <1>t, <2>4, <2>5
  <2>7. u \in Held
    BY <1>h, <2>1, NullAssumption
  <2>8. Reservation!Free(u)
    BY <2>4, <2>6, <2>7 DEF Reservation!Free
  <2> QED
    BY <2>8 DEF Reservation!Next
<1>8. ASSUME NEW w \in Worker, Abort(w) PROVE Reservation!Next
  <2>1. PICK u \in User : u = aborting[w]
    BY <1>8 DEF Abort
  <2>2. Held' = Held
    BY <1>8 DEF Abort, Held
  <2>3. \A x \in User : exeState'[x] = IF x = u THEN "ABORT" ELSE exeState[x]
    BY <1>8, <2>1 DEF Abort
  <2>4. Aborted' = Aborted \cup ({u} \cap Held)
    BY <1>t, <2>2, <2>3
  <2>5. Reservation!Abort(u)
    BY <2>2, <2>4 DEF Reservation!Abort
  <2> QED
    BY <2>5 DEF Reservation!Next
<1>9. ASSUME NEW w \in Worker, GetSequentialEnd(w) \/ Look(w) \/ FreeTime(w) \/ AbortFirst(w)
      PROVE  UNCHANGED Reservation!vars
  BY <1>1, <1>9 DEF GetSequentialEnd, Look, FreeTime, AbortFirst, userVars
<1>10. CASE Tick \/ UNCHANGED vars
  BY <1>1, <1>10 DEF Tick, vars, userVars
<1> QED
  BY <1>3, <1>4, <1>5, <1>6, <1>7, <1>8, <1>9, <1>10 DEF Next, Get

(***************************************************************************)
(* Under the settings that check users, what the scenarios see of          *)
(* tUserGetRandomly, tUserFree and tUserAbort is TReserve, for any number  *)
(* of workers, users and scenarios.                                        *)
(***************************************************************************)
THEOREM UsersReserved == Spec => Reserves
<1> DEFINE Inv == TypeInv /\ OneTask /\ (Checked => HoldInv)
<1>1. Init => Inv /\ (Checked => Reservation!Init)
  <2> SUFFICES ASSUME Init PROVE Inv /\ Reservation!Init
    OBVIOUS
  <2>1. Inv
    BY TypeInit, NullAssumption
    DEF Init, OneTask, HoldInv, SameUserNever, HeldMarked, TakenFree, GivenInOrder, NoWalk
  <2>2. Held = {}
    BY DEF Init, Held
  <2> QED
    BY <2>1, <2>2 DEF Reservation!Init
<1>2. Inv /\ [Next]_vars => Inv'
  BY TypeStep, OneTaskStep, HoldStep, PolicyFixed DEF Checked
<1>3. Inv /\ Inv' /\ [Next]_vars => [Checked => Reservation!Next]_(Reservation!vars)
  <2> SUFFICES ASSUME Inv, Inv', [Next]_vars
               PROVE  [Checked => Reservation!Next]_(Reservation!vars)
    OBVIOUS
  <2>1. Checked' <=> Checked
    BY PolicyFixed DEF Checked
  <2> QED
    BY <2>1, ReservationStep
<1> QED
  BY <1>1, <1>2, <1>3, PTL DEF Spec, Reserves

-----------------------------------------------------------------------------
(***************************************************************************)
(* TStat.                                                                  *)
(***************************************************************************)
(***************************************************************************)
(* NothingUncounted is not inductive: it needs to know that tstatMutexI is *)
(* held exactly by the thread between its read and its write, and that     *)
(* what this thread has read is still the total, whatever was reset since. *)
(***************************************************************************)
RateMutexHeld == \A w \in Worker : wpc[w] = "counting" <=> mutexI = w

RateReadCurrent ==
  mutexI # NULL => /\ read["TOTAL"] = nb["TOTAL"]
                   /\ \A h \in Horizon : read[h] >= done[h]

RateCountInv == StatTypeOK /\ RateMutexHeld /\ RateReadCurrent /\ NothingUncounted

-----------------------------------------------------------------------------
(***************************************************************************)
(* Every step keeps the types: counters stay natural numbers and a worker  *)
(* is always at one of the places of its code.                             *)
(***************************************************************************)
LEMMA RateTypeStep == StatTypeOK /\ [StatNext]_statVars => StatTypeOK'
<1> SUFFICES ASSUME StatTypeOK, [StatNext]_statVars PROVE StatTypeOK'
  OBVIOUS
<1> USE DEF StatTypeOK, Place, Horizon
<1>1. CASE Broadcast
  BY <1>1 DEF Broadcast, AfterWait, rateVars, countVars
<1>2. CASE EndOfSecond
  BY <1>2 DEF EndOfSecond, Reset, rateVars
<1>3. CASE NewPeriod
  BY <1>3 DEF NewPeriod, Reset, TrafficFunction_stable
<1>4. ASSUME NEW w \in Worker, RegulationGrant(w) \/ RegulationLeave(w) PROVE StatTypeOK'
  BY <1>4 DEF RegulationGrant, RegulationLeave, Grant, countVars
<1>5. ASSUME NEW w \in Worker, RegulationBypass(w) PROVE StatTypeOK'
  BY <1>5 DEF RegulationBypass, Grant, countVars
<1>6. ASSUME NEW w \in Worker, RegulationWait(w) \/ RegulationWaitAgain(w)
      PROVE  StatTypeOK'
  BY <1>6 DEF RegulationWait, RegulationWaitAgain, rateVars, countVars
<1>7. ASSUME NEW w \in Worker, SpuriousWakeup(w) PROVE StatTypeOK'
  BY <1>7 DEF SpuriousWakeup, AfterWait, rateVars, countVars
<1>8. ASSUME NEW w \in Worker, ActionTimeRead(w) PROVE StatTypeOK'
  BY <1>8 DEF ActionTimeRead, rateVars
<1>9. ASSUME NEW w \in Worker, ActionTimeWrite(w) PROVE StatTypeOK'
  BY <1>9 DEF ActionTimeWrite, rateVars
<1>10. ASSUME NEW w \in Worker, SetState(w) PROVE StatTypeOK'
  BY <1>10 DEF SetState, countVars
<1>11. CASE UNCHANGED statVars
  BY <1>11 DEF statVars, rateVars, countVars
<1> QED
  BY <1>1, <1>2, <1>3, <1>4, <1>5, <1>6, <1>7, <1>8, <1>9, <1>10, <1>11
  DEF StatNext, Stat, WorkerStep

(***************************************************************************)
(* tStatInit starts with every counter at zero and workers at the start.   *)
(***************************************************************************)
LEMMA RateTypeInit == StatInit => StatTypeOK
BY RateAssumption DEF StatInit, StatTypeOK, Place, Horizon

(***************************************************************************)
(* StatTypeOK is an invariant of tStat and tStatRegulation for any parameters. *)
(***************************************************************************)
THEOREM RateTypeCorrect == StatSpec => []StatTypeOK
BY RateTypeInit, RateTypeStep, PTL DEF StatSpec

-----------------------------------------------------------------------------
(***************************************************************************)
(* A step of tStatRegulation lets a RUNNING worker through only while the  *)
(* period is not full, also after a wake-up that several workers share.    *)
(***************************************************************************)
LEMMA RateBoundStep == StatTypeOK /\ RateBound /\ [StatNext]_statVars => RateBound'
<1> SUFFICES ASSUME StatTypeOK, RateBound, [StatNext]_statVars PROVE RateBound'
  OBVIOUS
<1> USE DEF StatTypeOK, RateBound
<1>1. CASE Stat
  BY <1>1 DEF Stat, Broadcast, EndOfSecond, NewPeriod, TrafficFunction_stable, rateVars
<1>2. ASSUME NEW w \in Worker, RegulationGrant(w) \/ RegulationLeave(w)
      PROVE  RateBound'
  BY <1>2 DEF RegulationGrant, RegulationLeave, Grant, MayLeave, Full
<1>3. ASSUME NEW w \in Worker, RegulationBypass(w) PROVE RateBound'
  BY <1>3 DEF RegulationBypass, Grant
<1>4. ASSUME NEW w \in Worker,
             \/ RegulationWait(w) \/ RegulationWaitAgain(w) \/ SpuriousWakeup(w)
             \/ ActionTimeRead(w) \/ ActionTimeWrite(w) \/ SetState(w)
      PROVE  RateBound'
  BY <1>4 DEF RegulationWait, RegulationWaitAgain, SpuriousWakeup, ActionTimeRead,
              ActionTimeWrite, SetState, rateVars
<1>5. CASE UNCHANGED statVars
  BY <1>5 DEF statVars, rateVars
<1> QED
  BY <1>1, <1>2, <1>3, <1>4, <1>5 DEF StatNext, WorkerStep

(***************************************************************************)
(* In every period at most wanted requests of RUNNING workers are granted, *)
(* for any number of workers and any order of wake-ups.                    *)
(***************************************************************************)
THEOREM RateBounded == StatSpec => []RateBound
<1>1. StatInit => StatTypeOK /\ RateBound
  BY RateTypeInit, RateAssumption DEF StatInit, RateBound
<1>2. StatTypeOK /\ RateBound /\ [StatNext]_statVars => (StatTypeOK /\ RateBound)'
  BY RateTypeStep, RateBoundStep
<1> QED
  BY <1>1, <1>2, PTL DEF StatSpec

-----------------------------------------------------------------------------
(***************************************************************************)
(* Every step keeps the counting invariant; only tStatActionTime and the   *)
(* resets of the statistics thread touch what it speaks of.                *)
(***************************************************************************)
LEMMA RateCountStep == RateCountInv /\ [StatNext]_statVars => RateCountInv'
<1> SUFFICES ASSUME RateCountInv, [StatNext]_statVars PROVE RateCountInv'
  OBVIOUS
<1>1. StatTypeOK'
  BY RateTypeStep DEF RateCountInv
<1> USE DEF RateCountInv, StatTypeOK, RateMutexHeld, RateReadCurrent, NothingUncounted
<1> SUFFICES (RateMutexHeld /\ RateReadCurrent /\ NothingUncounted)'
  BY <1>1
<1>2. ASSUME wpc' \in [Worker -> Place], UNCHANGED countVars,
             \A w \in Worker : wpc'[w] = "counting" <=> wpc[w] = "counting"
      PROVE  (RateMutexHeld /\ RateReadCurrent /\ NothingUncounted)'
  BY <1>2 DEF countVars
<1>3. CASE Broadcast
  <2>1. \A w \in Worker : wpc'[w] = "counting" <=> wpc[w] = "counting"
    BY <1>3 DEF Broadcast, AfterWait, Place
  <2> QED
    BY <1>1, <1>2, <1>3, <2>1 DEF Broadcast
<1>4. CASE EndOfSecond \/ NewPeriod
  <2>1. /\ UNCHANGED <<wpc, mutexI, read>>
        /\ nb'["TOTAL"] = nb["TOTAL"] /\ done'["TOTAL"] = done["TOTAL"]
    BY <1>4 DEF EndOfSecond, NewPeriod, Reset, Horizon
  <2>2. \A h \in Horizon : \/ nb'[h] = nb[h] /\ done'[h] = done[h]
                           \/ nb'[h] = 0 /\ done'[h] = 0
    BY <1>4 DEF EndOfSecond, NewPeriod, Reset
  <2> QED
    BY <2>1, <2>2
<1>5. ASSUME NEW w \in Worker,
             \/ RegulationGrant(w) \/ RegulationLeave(w) \/ RegulationBypass(w)
             \/ RegulationWait(w) \/ RegulationWaitAgain(w) \/ SetState(w)
      PROVE  (RateMutexHeld /\ RateReadCurrent /\ NothingUncounted)'
  <2>1. UNCHANGED countVars
    BY <1>5 DEF RegulationGrant, RegulationLeave, RegulationBypass, RegulationWait,
                RegulationWaitAgain, SetState
  <2>2. \A v \in Worker : wpc'[v] = "counting" <=> wpc[v] = "counting"
    BY <1>5 DEF RegulationGrant, RegulationLeave, RegulationBypass, RegulationWait,
                RegulationWaitAgain, SetState, Grant
  <2> QED
    BY <1>1, <1>2, <2>1, <2>2
<1>6. ASSUME NEW w \in Worker, SpuriousWakeup(w)
      PROVE  (RateMutexHeld /\ RateReadCurrent /\ NothingUncounted)'
  <2>1. \A v \in Worker : wpc'[v] = "counting" <=> wpc[v] = "counting"
    BY <1>6 DEF SpuriousWakeup, AfterWait
  <2> QED
    BY <1>1, <1>2, <1>6, <2>1 DEF SpuriousWakeup
<1>7. ASSUME NEW w \in Worker, ActionTimeRead(w)
      PROVE  (RateMutexHeld /\ RateReadCurrent /\ NothingUncounted)'
  BY <1>7, ThreadAssumption DEF ActionTimeRead, MutexFree, Horizon
<1>8. ASSUME NEW w \in Worker, ActionTimeWrite(w)
      PROVE  (RateMutexHeld /\ RateReadCurrent /\ NothingUncounted)'
  <2>1. mutexI = w /\ mutexI' = NULL /\ w # NULL
    BY <1>8, ThreadAssumption DEF ActionTimeWrite
  <2>2. RateMutexHeld'
    BY <1>8, <2>1, ThreadAssumption DEF ActionTimeWrite
  <2>3. NothingUncounted'
    BY <1>8, <2>1 DEF ActionTimeWrite, Horizon
  <2> QED
    BY <2>1, <2>2, <2>3
<1>9. CASE UNCHANGED statVars
  BY <1>9 DEF statVars, countVars
<1> QED
  BY <1>3, <1>4, <1>5, <1>6, <1>7, <1>8, <1>9 DEF StatNext, Stat, WorkerStep

(***************************************************************************)
(* tStatActionTime loses no request, for any number of workers: the total  *)
(* is exact and the other counters are never below the truth, although the *)
(* statistics thread resets them without tstatMutexI.                      *)
(***************************************************************************)
THEOREM RequestsCounted == StatSpec => []NothingUncounted
<1>1. StatInit => RateCountInv
  <2> SUFFICES ASSUME StatInit PROVE RateMutexHeld /\ RateReadCurrent /\ NothingUncounted
    BY RateTypeInit DEF RateCountInv
  <2> QED
    BY ThreadAssumption DEF StatInit, RateMutexHeld, RateReadCurrent, NothingUncounted, Horizon
<1>2. RateCountInv => NothingUncounted
  BY DEF RateCountInv
<1> QED
  BY <1>1, <1>2, RateCountStep, PTL DEF StatSpec

-----------------------------------------------------------------------------
(***************************************************************************)
(* TRadius.                                                                *)
(***************************************************************************)
USE DEF Id, Eap, AuthType, Acct, EapState, Attribute

Kind == IF req.kind = "acct" THEN "acct" ELSE "access"

(***************************************************************************)
(* A reply in flight answers a packet that was made.  While a request is   *)
(* outstanding its packet is the last one made, and the replies to it are  *)
(* of its kind.                                                            *)
(***************************************************************************)
VectorInv ==
  /\ \A p \in flight : p.vector <= packets
  /\ pc # "idle" => /\ req.vector = packets
                    /\ \A p \in flight : p.vector = req.vector => p.kind = Kind

(***************************************************************************)
(* As long as no reply was taken for another, the access replies in flight *)
(* answer transmissions of the outstanding packet, unless the dialogue had *)
(* a retransmission before.                                                *)
(***************************************************************************)
FlightInv ==
  ~mistaken =>
    \A p \in flight :
      \/ p.kind = "acct"
      \/ pc # "idle" /\ req.kind # "acct" /\ req.retries > 0
      \/ /\ pc # "idle" /\ req.kind # "acct"
         /\ p.vector = req.vector /\ p.id = req.id
         /\ p.try < req.try \/ (p.try = req.try /\ pc # "send")

(* A request that is outstanding has made a packet.                        *)
PacketMade == pc # "idle" => packets >= 1

RadiusInv == RadiusTypeOK /\ VectorInv /\ PacketMade /\ FlightInv /\ FastIdEarned

(***************************************************************************)
(* The EAP client only goes to states of its own.                          *)
(***************************************************************************)
LEMMA ResponsesTyped ==
  ASSUME RadiusTypeOK
  PROVE  /\ respond_eap_sim \subseteq EapState \X BOOLEAN
         /\ respond_eap_aka \subseteq EapState \X BOOLEAN
  <1>1. req.frId \in BOOLEAN /\ req.state \in EapState
    BY DEF RadiusTypeOK, Request
  <1>2. /\ \A S \in SUBSET EapState : Unchanged(S) \subseteq EapState \X BOOLEAN
        /\ MacRight \subseteq EapState \X BOOLEAN
    BY <1>1 DEF Unchanged, MacRight
  <1>3. /\ process_eap_start \subseteq EapState \X BOOLEAN
        /\ process_eap_aka_identity \subseteq EapState \X BOOLEAN
        /\ process_eap_notification \subseteq EapState \X BOOLEAN
        /\ process_eap_clienterror \subseteq EapState \X BOOLEAN
    BY <1>2 DEF process_eap_start, process_eap_aka_identity, process_eap_notification,
                process_eap_clienterror
  <1>4. /\ process_eap_challenge \subseteq EapState \X BOOLEAN
        /\ process_eap_aka_challenge \subseteq EapState \X BOOLEAN
        /\ process_eap_reauth \subseteq EapState \X BOOLEAN
        /\ process_eap_aka_reauth \subseteq EapState \X BOOLEAN
    BY <1>2 DEF process_eap_challenge, process_eap_aka_challenge, process_eap_reauth,
                process_eap_aka_reauth
  <1>5. Unchanged({req.state}) \subseteq EapState \X BOOLEAN
    BY <1>1, <1>2
  <1>6. respond_eap_sim \subseteq EapState \X BOOLEAN
    BY <1>3, <1>4, <1>5 DEF respond_eap_sim
  <1>7. respond_eap_aka \subseteq EapState \X BOOLEAN
    BY <1>3, <1>4, <1>5 DEF respond_eap_aka
  <1> QED BY <1>6, <1>7

(* The identifier of the next round of a dialogue wraps.                   *)
LEMMA NextIdTyped == ASSUME NEW i \in Id PROVE NextId(i) \in Id
  BY IdAssumption DEF NextId

(* Between two requests the outstanding one has its type.                  *)
LEMMA NoRequestTyped == NoRequest \in Request
  BY IdAssumption, RetriesAssumption, PacketsAssumption DEF NoRequest, Request

(* The invariant holds when the sockets have been created.                 *)
LEMMA RadiusInitInv == RadiusInit => RadiusInv
  <1> SUFFICES ASSUME RadiusInit PROVE RadiusInv
    OBVIOUS
  <1>1. RadiusTypeOK
    <2>1. req \in Request /\ flight \subseteq Reply
      BY NoRequestTyped DEF RadiusInit
    <2>2. packets \in 0 .. MaxPackets
      BY PacketsAssumption DEF RadiusInit
    <2>3. user \in [frId : BOOLEAN, aaa : BOOLEAN, ppaq : BOOLEAN]
      BY DEF RadiusInit
    <2> QED BY <2>1, <2>2, <2>3 DEF RadiusInit, RadiusTypeOK
  <1>2. VectorInv /\ PacketMade /\ FlightInv /\ FastIdEarned
    BY DEF RadiusInit, VectorInv, PacketMade, FlightInv, FastIdEarned
  <1> QED BY <1>1, <1>2 DEF RadiusInv

(***************************************************************************)
(* Making a request: its packet is a new one.                              *)
(***************************************************************************)
LEMMA AccessRqInv ==
  ASSUME RadiusInv, NEW t \in AuthType, NEW w \in {"ack", "reject"}, NEW c \in 0 .. 3,
         NEW r \in BOOLEAN, NEW i \in Id, AccessRq(t, w, c, r, i)
  PROVE  RadiusInv'
  <1>1. req' \in Request
    BY RetriesAssumption, PacketsAssumption DEF RadiusInv, RadiusTypeOK, Request, AccessRq
  <1>2. RadiusTypeOK'
    BY <1>1, PacketsAssumption DEF RadiusInv, RadiusTypeOK, AccessRq
  <1>3. \A p \in flight : p.vector \in Nat /\ p.kind \in {"access", "acct"}
    BY PacketsAssumption DEF RadiusInv, RadiusTypeOK, Reply
  <1>4. VectorInv' /\ PacketMade'
    BY <1>3, PacketsAssumption DEF RadiusInv, RadiusTypeOK, VectorInv, PacketMade, AccessRq, Kind
  <1>5. FlightInv'
    BY DEF RadiusInv, FlightInv, AccessRq
  <1>6. FastIdEarned'
    BY DEF RadiusInv, FastIdEarned, AccessRq
  <1> QED BY <1>2, <1>4, <1>5, <1>6 DEF RadiusInv

(* tRadius_accountRq makes a new packet.                                   *)
LEMMA AccountRqInv ==
  ASSUME RadiusInv, NEW s \in Acct, NEW c \in BOOLEAN, NEW i \in Id, AccountRq(s, c, i)
  PROVE  RadiusInv'
  <1>1. req' \in Request
    <2>1. packets + 1 \in 0 .. MaxPackets /\ 0 \in 0 .. tcRadiusRetries - 1
      BY RetriesAssumption, PacketsAssumption DEF RadiusInv, RadiusTypeOK, AccountRq
    <2>2. req \in Request /\ 0 \in 0 .. 3 /\ 0 \in Nat /\ i \in Id
      BY DEF RadiusInv, RadiusTypeOK
    <2>3. req' = [req EXCEPT !.kind = "acct", !.id = i, !.vector = packets + 1,
                             !.credit = 0, !.try = 0, !.retries = 0, !.rc = 0]
      BY DEF AccountRq
    <2> HIDE DEF Id, EapState, AuthType
    <2> QED BY <2>1, <2>2, <2>3 DEF Request
  <1>2. /\ user' \in [frId : BOOLEAN, aaa : BOOLEAN, ppaq : BOOLEAN]
        /\ user'.frId = user.frId
    BY DEF RadiusInv, RadiusTypeOK, AccountRq
  <1>3. RadiusTypeOK'
    BY <1>1, <1>2, PacketsAssumption DEF RadiusInv, RadiusTypeOK, AccountRq
  <1>4. \A p \in flight : p.vector \in Nat /\ p.kind \in {"access", "acct"}
    BY PacketsAssumption DEF RadiusInv, RadiusTypeOK, Reply
  <1>5. req'.vector = packets + 1
    BY DEF RadiusInv, RadiusTypeOK, Request, AccountRq
  <1>6. VectorInv' /\ PacketMade'
    BY <1>4, <1>5, PacketsAssumption DEF RadiusInv, RadiusTypeOK, VectorInv, PacketMade, AccountRq
  <1>7. FlightInv'
    BY DEF RadiusInv, FlightInv, AccountRq
  <1>8. FastIdEarned'
    BY <1>2 DEF RadiusInv, FastIdEarned, AccountRq
  <1> QED BY <1>3, <1>6, <1>7, <1>8 DEF RadiusInv

(***************************************************************************)
(* Sending, and sending again.                                             *)
(***************************************************************************)
LEMMA SendInv == ASSUME RadiusInv, Send PROVE RadiusInv'
  <1> DEFINE q == [id |-> req.id, vector |-> req.vector, try |-> req.try, kind |-> Kind]
  <1>1. /\ req \in Request /\ flight \subseteq Reply
        /\ req.vector = packets /\ packets \in 0 .. MaxPackets
    BY DEF RadiusInv, RadiusTypeOK, VectorInv, Send
  <1>2. flight' = flight \cup {q} \/ flight' = flight
    BY DEF Send, Kind
  <1>3. packets >= 1
    BY DEF RadiusInv, PacketMade, Send
  <1>4. q \in Reply
    BY <1>1, <1>3, PacketsAssumption DEF Request, Reply, Kind
  <1>5. RadiusTypeOK'
    BY <1>1, <1>2, <1>4 DEF RadiusInv, RadiusTypeOK, Send
  <1>6. VectorInv' /\ PacketMade'
    BY <1>1, <1>2, PacketsAssumption DEF RadiusInv, VectorInv, PacketMade, Send, Kind
  <1>7. FlightInv'
    BY <1>2 DEF RadiusInv, FlightInv, Send, Kind
  <1>8. FastIdEarned'
    BY DEF RadiusInv, FastIdEarned, Send
  <1> QED BY <1>5, <1>6, <1>7, <1>8 DEF RadiusInv

(* A time-out of select leads to the next transmission of the same packet. *)
LEMMA RetransmitInv == ASSUME RadiusInv, Retransmit PROVE RadiusInv'
  <1>1. req \in Request /\ req.try \in 0 .. tcRadiusRetries - 1
    BY DEF RadiusInv, RadiusTypeOK, Request
  <1>2. req.try + 1 \in 0 .. tcRadiusRetries - 1
    BY <1>1, RetriesAssumption DEF Retransmit, NextTry
  <1>3. req' = [req EXCEPT !.try = req.try + 1]
    BY DEF Retransmit, NextTry
  <1>4. /\ req' \in Request
        /\ req'.try = req.try + 1 /\ req'.vector = req.vector /\ req'.id = req.id
        /\ req'.kind = req.kind /\ req'.retries = req.retries
    <2> HIDE DEF Id, EapState, AuthType
    <2> QED BY <1>1, <1>2, <1>3 DEF Request
  <1>5. RadiusTypeOK'
    BY <1>4 DEF RadiusInv, RadiusTypeOK, Retransmit
  <1>6. VectorInv' /\ PacketMade'
    BY <1>4 DEF RadiusInv, VectorInv, PacketMade, Retransmit, Kind
  <1>7. FlightInv'
    <2>1. \A p \in flight : p.try \in Int
      BY RetriesAssumption DEF RadiusInv, RadiusTypeOK, Reply
    <2> QED BY <1>1, <1>4, <2>1, RetriesAssumption DEF RadiusInv, FlightInv, Retransmit
  <1>8. FastIdEarned'
    BY DEF RadiusInv, FastIdEarned, Retransmit
  <1> QED BY <1>5, <1>6, <1>7, <1>8 DEF RadiusInv

(***************************************************************************)
(* The end of a request.  What is left in flight matters when the socket   *)
(* is kept, and how an EAP dialogue ended when it stores an identity.      *)
(***************************************************************************)
LEMMA FinishAccessInv ==
  ASSUME RadiusInv, pc # "idle", packets' = packets, mistaken' \in BOOLEAN, ~mistaken' => ~mistaken,
         NEW rc \in {0, 1}, NEW code, NEW genuine \in BOOLEAN, NEW got,
         NEW inFlight \in SUBSET flight, NEW retries \in Nat,
         FinishAccess(rc, code, genuine, got, inFlight, retries),
         req.kind = "eap" /\ ~Trouble(rc, code) /\ ~mistaken' => code = "ack" /\ genuine,
         ~mistaken' /\ retries = 0 => \A p \in inFlight : p.kind = "acct"
  PROVE  RadiusInv'
  <1>1. flight' \subseteq inFlight /\ (retries > 0 => flight' = {})
    BY DEF FinishAccess, Abandon
  <1>2. user' \in [frId : BOOLEAN, aaa : BOOLEAN, ppaq : BOOLEAN]
    BY DEF RadiusInv, RadiusTypeOK, Request, FinishAccess, KeptAfterAccess
  <1>3. earned' \in BOOLEAN /\ fooled' \in BOOLEAN
    BY DEF RadiusInv, RadiusTypeOK, FinishAccess
  <1>4. RadiusTypeOK'
    BY <1>1, <1>2, <1>3, NoRequestTyped DEF RadiusInv, RadiusTypeOK, FinishAccess
  <1>5. VectorInv' /\ PacketMade'
    BY <1>1 DEF RadiusInv, VectorInv, PacketMade, FinishAccess
  <1>6. FlightInv'
    BY <1>1 DEF FlightInv
  <1>7. FastIdEarned'
    BY DEF RadiusInv, FastIdEarned, FinishAccess, KeptAfterAccess, Trouble
  <1> QED BY <1>4, <1>5, <1>6, <1>7 DEF RadiusInv

(* The end of tRadius_accountRq keeps the invariant.                       *)
LEMMA FinishAccountInv ==
  ASSUME RadiusInv, pc # "idle", packets' = packets, mistaken' \in BOOLEAN, ~mistaken' => ~mistaken,
         NEW rc, NEW code, NEW inFlight \in SUBSET flight,
         FinishAccount(rc, code, inFlight)
  PROVE  RadiusInv'
  <1>1. user' \in [frId : BOOLEAN, aaa : BOOLEAN, ppaq : BOOLEAN]
    BY DEF RadiusInv, RadiusTypeOK, FinishAccount
  <1>2. RadiusTypeOK'
    BY <1>1, NoRequestTyped DEF RadiusInv, RadiusTypeOK, FinishAccount
  <1>3. VectorInv' /\ PacketMade'
    BY DEF RadiusInv, VectorInv, PacketMade, FinishAccount
  <1>4. FlightInv'
    BY DEF RadiusInv, FlightInv, FinishAccount
  <1>5. FastIdEarned'
    BY DEF RadiusInv, FastIdEarned, FinishAccount
  <1> QED BY <1>2, <1>3, <1>4, <1>5 DEF RadiusInv

(* So does the last time-out of a packet.                                  *)
LEMMA NoReplyInv == ASSUME RadiusInv, NoReply PROVE RadiusInv'
  <1>1. /\ packets' = packets /\ mistaken' = mistaken /\ mistaken \in BOOLEAN
        /\ pc # "idle" /\ req.retries \in Nat
    BY DEF RadiusInv, RadiusTypeOK, Request, NoReply
  <1>2. req.retries + tcRadiusRetries \in Nat /\ req.retries + tcRadiusRetries > 0
    BY <1>1, RetriesAssumption
  <1>3. CASE FinishAccess(1, "none", FALSE, {}, flight, req.retries + tcRadiusRetries)
    <2> DEFINE retries == req.retries + tcRadiusRetries
    <2>1. retries \in Nat /\ retries # 0 /\ Trouble(1, "none")
      BY <1>2 DEF Trouble
    <2>2. FinishAccess(1, "none", FALSE, {}, flight, retries)
      BY <1>3
    <2> HIDE DEF retries, RadiusInv
    <2> QED BY <1>1, <2>1, <2>2, FinishAccessInv
  <1>4. CASE FinishAccount(1, "none", flight)
    BY <1>1, <1>4, FinishAccountInv
  <1> QED BY <1>3, <1>4 DEF NoReply

(***************************************************************************)
(* Reading.                                                                *)
(***************************************************************************)
LEMMA DropAndReadInv == ASSUME RadiusInv, DropAndRead PROVE RadiusInv'
  <1>1. flight' \subseteq flight
    BY DEF DropAndRead
  <1>2. RadiusTypeOK'
    BY <1>1 DEF RadiusInv, RadiusTypeOK, DropAndRead
  <1>3. VectorInv' /\ PacketMade' /\ FastIdEarned'
    BY <1>1 DEF RadiusInv, VectorInv, PacketMade, FastIdEarned, DropAndRead, Kind
  <1>4. FlightInv'
    BY <1>1 DEF RadiusInv, FlightInv, DropAndRead
  <1> QED BY <1>2, <1>3, <1>4 DEF RadiusInv

(* An unreadable packet changes the result of send_packet only.            *)
LEMMA ReadBadInv == ASSUME RadiusInv, ReadBad PROVE RadiusInv'
  <1>1. flight' \subseteq flight
    BY DEF ReadBad
  <1>2. /\ req' \in Request
        /\ req'.try = req.try /\ req'.vector = req.vector /\ req'.id = req.id
        /\ req'.kind = req.kind /\ req'.retries = req.retries
    <2>1. PICK b \in {0, 1} : req' = [req EXCEPT !.rc = b]
      <3>1. req.rc \in {0, 1}
        BY DEF RadiusInv, RadiusTypeOK, Request
      <3> QED BY <3>1 DEF ReadBad
    <2>2. req \in Request
      BY DEF RadiusInv, RadiusTypeOK
    <2> HIDE DEF Id, EapState, AuthType
    <2> QED BY <2>1, <2>2 DEF Request
  <1>3. RadiusTypeOK'
    BY <1>1, <1>2 DEF RadiusInv, RadiusTypeOK, ReadBad
  <1>4. VectorInv' /\ PacketMade' /\ FastIdEarned'
    BY <1>1, <1>2 DEF RadiusInv, VectorInv, PacketMade, FastIdEarned, ReadBad, Kind
  <1>5. FlightInv'
    BY <1>1, <1>2 DEF RadiusInv, FlightInv, ReadBad
  <1> QED BY <1>3, <1>4, <1>5 DEF RadiusInv

(***************************************************************************)
(* After a genuine reply to the only transmission of a packet no other     *)
(* access reply is in flight.                                              *)
(***************************************************************************)
LEMMA OnlyReply ==
  ASSUME RadiusInv, pc # "idle", ~mistaken, req.kind # "acct", req.retries + req.try = 0,
         NEW p \in flight, p.vector = req.vector, p.id = req.id
  PROVE  \A q \in flight \ {p} : q.kind = "acct"
  <1> SUFFICES ASSUME NEW q \in flight \ {p}, q.kind # "acct" PROVE FALSE
    OBVIOUS
  <1>1. req.retries \in Nat /\ req.try \in Nat
    BY RetriesAssumption DEF RadiusInv, RadiusTypeOK, Request
  <1>2. p \in Reply /\ q \in Reply /\ p.try \in Nat /\ q.try \in Nat
    BY RetriesAssumption DEF RadiusInv, RadiusTypeOK, Reply
  <1>3. req.retries = 0 /\ req.try = 0
    BY <1>1
  <1>4. p.kind = "access" /\ q.kind = "access"
    BY <1>2 DEF RadiusInv, VectorInv, Kind, Reply
  <1>5. q.vector = req.vector /\ q.id = req.id /\ q.try = 0
    BY <1>2, <1>3, <1>4 DEF RadiusInv, FlightInv
  <1>6. p.try = 0
    BY <1>2, <1>3, <1>4 DEF RadiusInv, FlightInv
  <1>7. p = q
    BY <1>2, <1>4, <1>5, <1>6 DEF Reply
  <1> QED BY <1>7

(* A response of the EAP client is a new packet.                           *)
LEMMA RespondEapInv ==
  ASSUME RadiusInv, pc # "idle", req.kind = "eap", mistaken' \in BOOLEAN,
         ~mistaken' => ~mistaken, NEW inFlight \in SUBSET flight, RespondEap(inFlight),
         ~mistaken' /\ req.retries + req.try = 0 => \A q \in inFlight : q.kind = "acct"
  PROVE  RadiusInv'
  <1>1. PICK r \in EapState \X BOOLEAN :
          req' = [req EXCEPT !.state = r[1], !.frId = r[2], !.id = NextId(req.id),
                             !.vector = packets + 1, !.try = 0,
                             !.retries = req.retries + req.try]
    BY ResponsesTyped DEF RadiusInv, RespondEap
  <1>2. /\ req \in Request /\ NextId(req.id) \in Id
        /\ req.retries \in Nat /\ req.try \in Nat
    BY NextIdTyped, RetriesAssumption DEF RadiusInv, RadiusTypeOK, Request
  <1>3. /\ packets' = packets + 1 /\ packets + 1 \in 0 .. MaxPackets
        /\ 0 \in 0 .. tcRadiusRetries - 1 /\ req.retries + req.try \in Nat
    BY <1>2, PacketsAssumption, RetriesAssumption DEF RadiusInv, RadiusTypeOK, RespondEap
  <1>4. r[1] \in EapState /\ r[2] \in BOOLEAN
    BY <1>1
  <1>5. /\ req' \in Request
        /\ req'.try = 0 /\ req'.vector = packets + 1 /\ req'.kind = req.kind
        /\ req'.retries = req.retries + req.try
    <2> HIDE DEF Id, EapState, AuthType
    <2> QED BY <1>1, <1>2, <1>3, <1>4 DEF Request
  <1>6. RadiusTypeOK'
    BY <1>3, <1>5 DEF RadiusInv, RadiusTypeOK, RespondEap
  <1>7. \A q \in flight' : q \in flight /\ q.vector \in Nat /\ q.vector <= packets
    BY PacketsAssumption DEF RadiusInv, RadiusTypeOK, VectorInv, Reply, RespondEap
  <1>8. VectorInv' /\ PacketMade'
    BY <1>3, <1>5, <1>7 DEF RadiusInv, RadiusTypeOK, VectorInv, PacketMade
  <1>9. FlightInv'
    BY <1>2, <1>5 DEF FlightInv, RespondEap
  <1>10. FastIdEarned'
    BY DEF RadiusInv, FastIdEarned, RespondEap
  <1> QED BY <1>6, <1>8, <1>9, <1>10 DEF RadiusInv

(* A reply with the right identifier ends the request or goes on with the  *)
(* dialogue.                                                               *)
LEMMA ReadReplyInv == ASSUME RadiusInv, ReadReply PROVE RadiusInv'
  <1> PICK p \in flight : \E code \in Codes(p) : ReadCode(p, code)
    BY DEF ReadReply
  <1> PICK code \in Codes(p) : ReadCode(p, code)
    OBVIOUS
  <1> DEFINE genuine == p.vector = req.vector
             rc == IF Verified(p, code) \/ quietOnError THEN req.rc ELSE 1
             rest == flight \ {p}
             retries == req.retries + req.try
  <1>1. /\ pc # "idle" /\ p.id = req.id /\ rest \in SUBSET flight
        /\ mistaken' = (mistaken \/ ~genuine) /\ mistaken' \in BOOLEAN
        /\ genuine \in BOOLEAN
    BY DEF ReadReply, ReadCode, Matches
  <1>2. rc \in {0, 1} /\ req.retries \in Nat /\ req.try \in Nat /\ retries \in Nat
    BY RetriesAssumption DEF RadiusInv, RadiusTypeOK, Request
  <1>3. ~mistaken' => ~mistaken /\ genuine
    BY <1>1
  <1>4. ~mistaken' /\ req.kind # "acct" /\ retries = 0 => \A q \in rest : q.kind = "acct"
    BY <1>1, <1>3, OnlyReply
  <1>5. ~mistaken' /\ req.kind # "acct" => code \in {"ack", "reject", "challenge"}
    BY <1>1, <1>3 DEF RadiusInv, VectorInv, Kind, Codes
  <1>6. CASE req.kind = "eap" /\ rc = 0 /\ code = "challenge" /\ RespondEap(rest)
    <2> HIDE DEF rest, genuine, rc
    <2> QED BY <1>1, <1>3, <1>4, <1>6, RespondEapInv
  <1>7. ASSUME ~(req.kind = "eap" /\ rc = 0 /\ code = "challenge"), packets' = packets,
               NEW got \in SUBSET Attribute,
               FinishAccess(rc, code, genuine, got, rest, retries)
        PROVE  RadiusInv'
    <2>1. req.kind # "acct"
      BY <1>7 DEF FinishAccess
    <2>2. req.kind = "eap" /\ ~Trouble(rc, code) /\ ~mistaken' => code = "ack" /\ genuine
      BY <1>2, <1>3, <1>5, <1>7, <2>1 DEF Trouble
    <2> HIDE DEF rest, genuine, rc, retries
    <2> QED BY <1>1, <1>2, <1>3, <1>4, <1>7, <2>1, <2>2, FinishAccessInv
  <1>8. CASE packets' = packets /\ FinishAccount(rc, code, rest)
    <2> HIDE DEF rest, genuine, rc
    <2> QED BY <1>1, <1>3, <1>8, FinishAccountInv
  <1> QED BY <1>6, <1>7, <1>8 DEF ReadCode

(* Every step keeps the invariant.                                         *)
LEMMA RadiusNextInv == RadiusInv /\ [RadiusNext]_radiusVars => RadiusInv'
  <1> SUFFICES ASSUME RadiusInv, [RadiusNext]_radiusVars PROVE RadiusInv'
    OBVIOUS
  <1>1. CASE UNCHANGED radiusVars
    BY <1>1 DEF radiusVars, RadiusInv, RadiusTypeOK, VectorInv, PacketMade, FlightInv, FastIdEarned, Kind
  <1>2. ASSUME NEW t \in AuthType, NEW w \in {"ack", "reject"}, NEW c \in 0 .. 3,
               NEW r \in BOOLEAN, NEW i \in Id, AccessRq(t, w, c, r, i)
        PROVE  RadiusInv'
    BY <1>2, AccessRqInv
  <1>3. ASSUME NEW s \in Acct, NEW c \in BOOLEAN, NEW i \in Id, AccountRq(s, c, i)
        PROVE  RadiusInv'
    BY <1>3, AccountRqInv
  <1> HIDE DEF RadiusInv
  <1> QED BY <1>1, <1>2, <1>3, SendInv, RetransmitInv, NoReplyInv, DropAndReadInv,
             ReadBadInv, ReadReplyInv DEF RadiusNext

(***************************************************************************)
(* The strengthening of the properties below holds of every behaviour.     *)
(***************************************************************************)
LEMMA RadiusInvariance == RadiusSpec => []RadiusInv
  BY RadiusInitInv, RadiusNextInv, PTL DEF RadiusSpec

(***************************************************************************)
(* Variables keep their types: identifiers stay below IdMod however long   *)
(* an EAP dialogue is, and transmissions below tcRadiusRetries.            *)
(***************************************************************************)
THEOREM RadiusTypeCorrect == RadiusSpec => []RadiusTypeOK
  <1>1. RadiusInv => RadiusTypeOK
    BY DEF RadiusInv
  <1> QED BY <1>1, RadiusInvariance, PTL

(***************************************************************************)
(* The identity kept for a fast re-authentication comes from a dialogue    *)
(* that ended with an Access-Accept.                                       *)
(***************************************************************************)
THEOREM IdentityEarned == RadiusSpec => []FastIdEarned
  <1>1. RadiusInv => FastIdEarned
    BY DEF RadiusInv
  <1> QED BY <1>1, RadiusInvariance, PTL

(***************************************************************************)
(* The change of socket keeps late access replies from the next request.   *)
(***************************************************************************)
THEOREM SocketClean == RadiusSpec => []NoLateAccess
  <1>1. RadiusInv => NoLateAccess
    BY DEF RadiusInv, FlightInv, NoLateAccess
  <1> QED BY <1>1, RadiusInvariance, PTL

(***************************************************************************)
(* Without option -q an access request succeeds only by the answer to its  *)
(* own last packet: both codes it may wait for have a verified digest.     *)
(***************************************************************************)
THEOREM OwnAnswer == ASSUME quietOnError = FALSE PROVE RadiusSpec => []AccessAnswered
  <1>1. RadiusInit => AccessAnswered
    BY DEF RadiusInit, AccessAnswered
  <1>2. RadiusInv /\ AccessAnswered /\ [RadiusNext]_radiusVars => AccessAnswered'
    <2> SUFFICES ASSUME RadiusInv, ~fooled, [RadiusNext]_radiusVars PROVE ~fooled'
      BY DEF AccessAnswered
    <2>1. ASSUME NoReply PROVE ~fooled'
      <3>1. AccessResult(1, "none", {}) # 0
        BY DEF AccessResult
      <3> QED BY <2>1, <3>1, Zenon DEF NoReply, FinishAccess, FinishAccount
    <2>2. ASSUME ReadReply PROVE ~fooled'
      <3> PICK p \in flight : \E code \in Codes(p) : ReadCode(p, code)
        BY <2>2 DEF ReadReply
      <3> PICK code \in Codes(p) : ReadCode(p, code)
        OBVIOUS
      <3> DEFINE rc == IF Verified(p, code) \/ quietOnError THEN req.rc ELSE 1
      <3>1. req.waitFor \in {"ack", "reject"}
        BY DEF RadiusInv, RadiusTypeOK, Request
      <3>2. \A got : AccessResult(rc, code, got) = 0 => p.vector = req.vector
        BY <3>1 DEF AccessResult, Verified
      <3> QED BY <3>2, Zenon DEF ReadCode, RespondEap, FinishAccess, FinishAccount
    <2> QED BY <2>1, <2>2 DEF RadiusNext, radiusVars, AccessRq, AccountRq, Send, Retransmit,
                              DropAndRead, ReadBad
  <1> QED BY <1>1, <1>2, RadiusInvariance, PTL DEF RadiusSpec
=============================================================================
