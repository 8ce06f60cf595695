------------------------------- MODULE TUser --------------------------------
(***************************************************************************)
(* The reservation of simulated users of Src/tuser.c: workers starting a   *)
(* scenario reserve a user (tUserGetRandomly, under tUserMutex), and give  *)
(* it back at its end (tUserFree, under no mutex); a RADIUS Accounting-On  *)
(* or Off aborts the users of a NAS (tUserAbort, under no mutex).          *)
(*                                                                         *)
(* Time is modelled by the age of each user's lastTime: now - lastTime, up *)
(* to MaxAge, beyond which no exclusion tells ages apart; -1 stands for an *)
(* uninitialised lastTime that lies in the future.                         *)
(***************************************************************************)
EXTENDS Integers, TThread

CONSTANTS Sce,         \* the scenarios
          UserNb,      \* tcUserNb: the number of users
          Policies,    \* the values that tcUserGetPolicy may have
          Exclusion,   \* scenario -> seconds during which its user is kept out
          PopulMin,    \* scenario -> first user of its population
          PopulNb,     \* scenario -> size of its population, 0 for all users
          NbNas,       \* tcRadiusNbNas
          MaxAge       \* the age at which ages stop being counted

User == 0 .. UserNb - 1

ASSUME UserNbAssumption == UserNb \in Nat \ {0} /\ NbNas \in Nat \ {0}
ASSUME NullAssumption == NULL \notin Worker \cup Sce \cup User
ASSUME SceAssumption ==
  /\ MaxAge \in Nat
  /\ Exclusion \in [Sce -> 0 .. MaxAge]
  /\ PopulMin \in [Sce -> User]
  /\ PopulNb \in [Sce -> 0 .. UserNb]
  /\ \A s \in Sce : PopulMin[s] + PopulNb[s] <= UserNb
ASSUME PolicyAssumption == Policies \subseteq {0, 1, 2} \cup User

VARIABLES tcUserGetPolicy,  \* set from the configuration, once
          exeState,    \* user -> priv.exeState
          lastSce,     \* user -> priv.lastSce
          age,         \* user -> now - priv.lastTime
          tUseri,      \* the static index of tUserGetRandomly
          mutex,       \* holder of tUserMutex
          walk,        \* the holder's tUserCheckExclusion
          holding,     \* worker -> the user its scenario works on
          releasing,   \* worker -> the user whose lastTime it must still write
          aborting,    \* worker -> the next user it must abort
          sigint,      \* number of SIGINT sent to the main thread
          idleFor      \* history: user -> time since its scenario let it go

userVars == <<exeState, lastSce, age>>
mainVars == <<tcUserGetPolicy, sigint>>
vars == <<userVars, tUseri, mutex, walk, holding, releasing, aborting, mainVars,
          idleFor>>

NoWalk == [pc |-> "none", sce |-> NULL, first |-> 0, at |-> 0]

TypeOK ==
  /\ tcUserGetPolicy \in Policies
  /\ exeState \in [User -> {"IDLE", "RUNNING", "ABORT"}]
  /\ lastSce \in [User -> Sce \cup {NULL}]
  /\ age \in [User -> -1 .. MaxAge]
  /\ tUseri \in User \cup {-1, -2}
  /\ mutex \in Worker \cup {NULL}
  /\ walk \in [pc : {"none", "look", "take"}, sce : Sce \cup {NULL},
               first : User, at : User]
  /\ holding \in [Worker -> User \cup {NULL}]
  /\ releasing \in [Worker -> User \cup {NULL}]
  /\ aborting \in [Worker -> User \cup {NULL}]
  /\ sigint \in Nat
  /\ idleFor \in [User -> 0 .. MaxAge]

(***************************************************************************)
(* tUserPopulFillIn sets lastSce but neither exeState nor lastTime, in     *)
(* memory that realloc leaves uninitialised: both start with any value.    *)
(***************************************************************************)
Init ==
  /\ tcUserGetPolicy \in Policies
  /\ exeState \in [User -> {"IDLE", "RUNNING", "ABORT"}]
  /\ lastSce = [u \in User |-> NULL]
  /\ age \in [User -> -1 .. MaxAge]
  /\ tUseri = -1
  /\ mutex = NULL
  /\ walk = NoWalk
  /\ holding = [w \in Worker |-> NULL]
  /\ releasing = [w \in Worker |-> NULL]
  /\ aborting = [w \in Worker |-> NULL]
  /\ sigint = 0
  /\ idleFor = [u \in User |-> MaxAge]

-----------------------------------------------------------------------------
(***************************************************************************)
(* The population a scenario picks from, and the step from one index to    *)
(* the next that both tUserCheckExclusion and policy 2 take.               *)
(***************************************************************************)
First(s) == IF PopulNb[s] > 0 THEN PopulMin[s] ELSE 0
Nb(s) == IF PopulNb[s] > 0 THEN PopulNb[s] ELSE UserNb
Popul(s) == First(s) .. First(s) + Nb(s) - 1

MutAfter(i, s) == IF i + 1 \in Popul(s) THEN i + 1 ELSE First(s) + Nb(s) - 1
After(i, s) == ((i + 1) % Nb(s)) + First(s)

(***************************************************************************)
(* tUserGetExclusion: the exclusion of the last scenario the user ran.     *)
(***************************************************************************)
GetExclusion(u) == IF lastSce[u] = NULL THEN 0 ELSE Exclusion[lastSce[u]]

MutFree(u) == age[u] >= GetExclusion(u)
Free(u) == exeState[u] = "IDLE" /\ age[u] >= GetExclusion(u)

(***************************************************************************)
(* The end of tUserGetRandomly: the chosen user is marked and the mutex    *)
(* released.                                                               *)
(***************************************************************************)
Reserve(w, u, s) ==
  /\ exeState' = [exeState EXCEPT ![u] = "RUNNING"]
  /\ lastSce' = [lastSce EXCEPT ![u] = s]
  /\ tUseri' = u
  /\ holding' = [holding EXCEPT ![w] = u]
  /\ mutex' = NULL
  /\ walk' = NoWalk
  /\ UNCHANGED <<age, releasing, aborting, mainVars, idleFor>>

CanGet(w) == mutex = NULL /\ holding[w] = NULL /\ releasing[w] = NULL

StartWalk(w, s, u) ==
  /\ mutex' = w
  /\ walk' = [pc |-> "look", sce |-> s, first |-> u, at |-> u]
  /\ UNCHANGED <<userVars, tUseri, holding, releasing, aborting, mainVars, idleFor>>

(***************************************************************************)
(* Policies 0 and 2 walk from a first candidate, random or next.           *)
(***************************************************************************)
GetRandom(w, s) ==
  /\ tcUserGetPolicy = 0
  /\ CanGet(w)
  /\ \E u \in Popul(s) : StartWalk(w, s, u)

GetLoop(w, s) ==
  /\ tcUserGetPolicy = 2
  /\ CanGet(w)
  /\ StartWalk(w, s, After(tUseri, s))

(***************************************************************************)
(* Policy 1 takes users in order, once; at the end it interrupts the main  *)
(* thread, once, unless it is ending already (killcalled, which the main   *)
(* thread may set at any time).  Any other policy takes the same user.     *)
(***************************************************************************)
MutLastGiven == tUseri + 1 >= UserNb - 1
LastGiven == tUseri + 1 >= UserNb

GetSequential(w, s) ==
  /\ tcUserGetPolicy = 1
  /\ CanGet(w)
  /\ tUseri # -2
  /\ ~LastGiven
  /\ Reserve(w, tUseri + 1, s)

SequentialOver == tUseri # -2 /\ LastGiven

OverIndex == -2

GetSequentialEnd(w) ==
  /\ tcUserGetPolicy = 1
  /\ CanGet(w)
  /\ SequentialOver
  /\ tUseri' = OverIndex
  /\ \E killcalled \in BOOLEAN : sigint' = IF killcalled THEN sigint ELSE sigint + 1
  /\ UNCHANGED <<userVars, mutex, walk, holding, releasing, aborting, tcUserGetPolicy,
                 idleFor>>

GetFixed(w, s) ==
  /\ tcUserGetPolicy \notin {0, 1, 2}
  /\ CanGet(w)
  /\ Reserve(w, tcUserGetPolicy, s)

(***************************************************************************)
(* tUserCheckExclusion: look at one candidate after the other, starting    *)
(* with one that is taken unseen when its last scenario has no exclusion.  *)
(***************************************************************************)
Acceptable(u) == (u = walk.first /\ GetExclusion(u) = 0) \/ Free(u)
Round == After(walk.at, walk.sce) = walk.first

Look(w) ==
  /\ mutex = w /\ walk.pc = "look"
  /\ \/ /\ Acceptable(walk.at)
        /\ walk' = [walk EXCEPT !.pc = "take"]
        /\ UNCHANGED <<mutex, tUseri>>
     \/ /\ ~Acceptable(walk.at) /\ ~Round
        /\ walk' = [walk EXCEPT !.at = After(walk.at, walk.sce)]
        /\ UNCHANGED <<mutex, tUseri>>
     \/ /\ ~Acceptable(walk.at) /\ Round
        /\ walk' = NoWalk /\ mutex' = NULL /\ tUseri' = -1
  /\ UNCHANGED <<userVars, holding, releasing, aborting, mainVars, idleFor>>

Take(w) ==
  /\ mutex = w /\ walk.pc = "take"
  /\ Reserve(w, walk.at, walk.sce)

-----------------------------------------------------------------------------
(***************************************************************************)
(* tUserFree, at the end of the scenario: two writes that no mutex binds.  *)
(***************************************************************************)
FreeState(w) ==
  /\ holding[w] # NULL /\ aborting[w] = NULL
  /\ exeState' = [exeState EXCEPT ![holding[w]] = "IDLE"]
  /\ idleFor' = [idleFor EXCEPT ![holding[w]] = 0]
  /\ releasing' = [releasing EXCEPT ![w] = holding[w]]
  /\ holding' = [holding EXCEPT ![w] = NULL]
  /\ UNCHANGED <<lastSce, age, tUseri, mutex, walk, aborting, mainVars>>

MutFreedAge(u) == age[u]
FreedAge(u) == 0

FreeTime(w) ==
  /\ releasing[w] # NULL
  /\ age' = [age EXCEPT ![releasing[w]] = FreedAge(releasing[w])]
  /\ releasing' = [releasing EXCEPT ![w] = NULL]
  /\ UNCHANGED <<exeState, lastSce, tUseri, mutex, walk, holding, aborting, mainVars,
                 idleFor>>

(***************************************************************************)
(* The Accounting-On or Off of a scenario calls tUserAbort on every user   *)
(* of the same NAS (tradius.c:869), one after the other, whether a         *)
(* scenario runs on it or not.                                             *)
(***************************************************************************)
AbortFirst(w) ==
  /\ holding[w] # NULL /\ aborting[w] = NULL
  /\ aborting' = [aborting EXCEPT ![w] = holding[w] % NbNas]
  /\ UNCHANGED <<userVars, tUseri, mutex, walk, holding, releasing, mainVars, idleFor>>

NextOfNas(u) == IF u + NbNas \in User THEN u + NbNas ELSE NULL

Abort(w) ==
  /\ aborting[w] # NULL
  /\ exeState' = [exeState EXCEPT ![aborting[w]] = "ABORT"]
  /\ age' = [age EXCEPT ![aborting[w]] = 0]
  /\ aborting' = [aborting EXCEPT ![w] = NextOfNas(aborting[w])]
  /\ UNCHANGED <<lastSce, tUseri, mutex, walk, holding, releasing, mainVars, idleFor>>

(***************************************************************************)
(* A second passes.  A walk reads the clock once, when it starts, so no    *)
(* age grows under it.                                                     *)
(***************************************************************************)
Older(a) == IF a \in 0 .. MaxAge - 1 THEN a + 1 ELSE a

Tick ==
  /\ mutex = NULL
  /\ age' = [u \in User |-> Older(age[u])]
  /\ idleFor' = [u \in User |-> Older(idleFor[u])]
  /\ UNCHANGED <<exeState, lastSce, tUseri, mutex, walk, holding, releasing, aborting,
                 mainVars>>

Get(w, s) == GetRandom(w, s) \/ GetLoop(w, s) \/ GetSequential(w, s)
               \/ GetFixed(w, s)

Next ==
  \/ Tick
  \/ \E w \in Worker :
       \/ \E s \in Sce : Get(w, s)
       \/ GetSequentialEnd(w) \/ Look(w) \/ Take(w)
       \/ FreeState(w) \/ FreeTime(w) \/ AbortFirst(w) \/ Abort(w)

Spec == Init /\ [][Next]_vars

(***************************************************************************)
(* A thread inside tUserCheckExclusion runs on: nothing in it blocks.      *)
(***************************************************************************)
FairSpec == Spec /\ \A w \in Worker : WF_vars(Look(w) \/ Take(w))

-----------------------------------------------------------------------------
(***************************************************************************)
(* The settings for which the reservation is meant to be exclusive: users  *)
(* are checked (policies 0 and 2) and every scenario has an exclusion, or  *)
(* users are taken in order, once (policy 1).                              *)
(***************************************************************************)
Checked == \/ tcUserGetPolicy \in {0, 2} /\ \A s \in Sce : Exclusion[s] > 0
           \/ tcUserGetPolicy = 1

SameUserNever ==
  \A v, w \in Worker : holding[v] = holding[w] => v = w \/ holding[v] = NULL

(***************************************************************************)
(* Under those settings two workers never work on the same user, although  *)
(* tUserFree and tUserAbort change users under the feet of a walk.         *)
(***************************************************************************)
Exclusive == Checked => SameUserNever

(***************************************************************************)
(* ... so that, of the walks, the two writes of tUserFree and the loop of  *)
(* aborts, the scenarios see no more than TReserve: a user is theirs alone *)
(* until they give it back, and aborted if an Accounting-On or Off came    *)
(* across it since.                                                        *)
(***************************************************************************)
Held == {holding[w] : w \in Worker} \ {NULL}
Reservation ==
  INSTANCE TReserve WITH taken <- Held, aborted <- {u \in Held : exeState[u] = "ABORT"}

Reserves ==
  /\ Checked => Reservation!Init
  /\ [][Checked => Reservation!Next]_(Reservation!vars)

(***************************************************************************)
(* The time recorded for the release of a user is never earlier than the   *)
(* release itself, except between the two writes of a tUserFree; so only   *)
(* there can an exclusion be cut short.                                    *)
(***************************************************************************)
ReleaseTimeRecorded ==
  \A u \in User :
    (exeState[u] = "IDLE" /\ lastSce[u] # NULL /\ \A w \in Worker : releasing[w] # u)
      => age[u] <= idleFor[u]

(***************************************************************************)
(* Policy 1 interrupts the main thread at most once (a second SIGINT would *)
(* make tEnd exit at once), and not before every user has been given out.  *)
(***************************************************************************)
SequentialEnd ==
  /\ sigint <= 1
  /\ sigint = 1 => \A u \in User : lastSce[u] # NULL

(***************************************************************************)
(* The walk of tUserCheckExclusion ends, even when no user is free: it     *)
(* comes back to its first candidate, whatever the population.  Otherwise  *)
(* tUserMutex would be held for ever.                                      *)
(***************************************************************************)
WalkEnds == mutex # NULL ~> mutex = NULL
=============================================================================
