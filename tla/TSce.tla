-------------------------------- MODULE TSce --------------------------------
(***************************************************************************)
(* The loading of a traffic by Src/tsce.c, before any thread starts: each  *)
(* scenario of the traffic takes its rate of the places of an occurrence   *)
(* table, and tSceGet draws a place of the table at random.  A scenario    *)
(* that cannot be loaded is counted and the next one is tried; with any    *)
(* error, or a table that is not full, the program exits.                  *)
(*                                                                         *)
(* The sections of tgen.ini are names.  The list tsceTab, which has room   *)
(* for MAXSCE scenarios and no check, is only read by the reports.         *)
(***************************************************************************)
EXTENDS Integers, Sequences, FiniteSets

CONSTANTS Section,  \* the names of scenarios that a traffic may use
          Sound,    \* those with a description, known actions and population
          Trafics,  \* the traffics: sequences of Rate
          Places    \* size of sceOccurenceTab (100: rates are percentages)

Rate == [sce : Section, rate : Nat]

ASSUME SceAssumption ==
  /\ Sound \subseteq Section
  /\ Places \in Nat \ {0}
  /\ Trafics \subseteq Seq(Rate)

VARIABLES trafic,          \* the traffic that is loaded
          isce,            \* scenarios of it that have been read
          sceOccurenceTab, \* its filled part, up to the static index
          rc,              \* scenarios that could not be loaded
          loading          \* "on", "done" or "exit"

sceVars == <<trafic, isce, sceOccurenceTab, rc, loading>>

SceTypeOK ==
  /\ trafic \in Trafics
  /\ isce \in 0 .. Len(trafic) /\ rc \in 0 .. Len(trafic)
  /\ sceOccurenceTab \in Seq(Sound) /\ Len(sceOccurenceTab) <= Places
  /\ loading \in {"on", "done", "exit"}

SceInit ==
  /\ trafic \in Trafics
  /\ isce = 0 /\ rc = 0
  /\ sceOccurenceTab = <<>>
  /\ loading = "on"

(***************************************************************************)
(* tSceRegister: the rate must fit in what is left of the table.           *)
(* (Operators named Mut... are plausible slips in the operator that        *)
(* follows them; they show that a property can fail.)                      *)
(***************************************************************************)
Fits(s) == s.sce \in Sound /\ Len(sceOccurenceTab) + s.rate <= Places

tSceLoadScenario ==
  /\ loading = "on" /\ isce < Len(trafic)
  /\ isce' = isce + 1
  /\ LET s == trafic[isce'] IN
     IF Fits(s)
     THEN /\ sceOccurenceTab' = sceOccurenceTab \o [i \in 1 .. s.rate |-> s.sce]
          /\ UNCHANGED rc
     ELSE /\ rc' = rc + 1
          /\ UNCHANGED sceOccurenceTab
  /\ UNCHANGED <<trafic, loading>>

MutFull == Len(sceOccurenceTab) = Places
Full == Len(sceOccurenceTab) = Places /\ rc = 0

tsceRegisterCheck ==
  /\ loading = "on" /\ isce = Len(trafic)
  /\ loading' = IF Full THEN "done" ELSE "exit"
  /\ UNCHANGED <<trafic, isce, sceOccurenceTab, rc>>

(***************************************************************************)
(* tSceGet: one of the places, at random.                                  *)
(***************************************************************************)
tSceGet == {sceOccurenceTab[i] : i \in 1 .. Places}

-----------------------------------------------------------------------------
(***************************************************************************)
(* The rates that the first n scenarios of the traffic give to s, added    *)
(* up: as many as they have units.                                         *)
(***************************************************************************)
Units(s, n) ==
  UNION {{i} \X (1 .. trafic[i].rate) : i \in {j \in 1 .. n : trafic[j].sce = s}}
Rates(s) == Cardinality(Units(s, Len(trafic)))
Share(s) == Cardinality({i \in DOMAIN sceOccurenceTab : sceOccurenceTab[i] = s})

(***************************************************************************)
(* Threads are only started on a table in which every draw of tSceGet is a *)
(* scenario and each scenario has the share that the traffic gives it,     *)
(* whatever could not be loaded or fit before it.                          *)
(***************************************************************************)
Shares ==
  loading = "done" =>
    Len(sceOccurenceTab) = Places /\ \A s \in Section : Share(s) = Rates(s)
=============================================================================
