---------------------------- MODULE RollupProofs ----------------------------
(***************************************************************************)
(* A fact table of the worker keeps what raw_events forgets, and does not  *)
(* take back what was purged.                                              *)
(*                                                                         *)
(* The argument is about the days a run has still to build: one that has   *)
(* rows already is recent, so that raw_events has the whole of it (lemma   *)
(* RebuiltIsRecent), and stays so over the one midnight the run may see;   *)
(* a backfill leaves out the one day that may be cut, which is the first   *)
(* (lemma CutIsFirst).                                                     *)
(***************************************************************************)
EXTENDS Rollup, RawWindowProofs

USE RawWindowAssumption, RollupAssumption

(* What a day to build has counted is in raw_events; a run sees at most    *)
(* one midnight.                                                           *)
Recent(d) == d + RawRetain > today + (IF late THEN 0 ELSE 1)
RebuiltIsThere ==
  /\ late => pc # "idle"
  /\ pc = "build" => \A d \in days \ uncut : facts[d] = {} \/ Recent(d)

RollupInv == RawInv /\ TypeOK /\ RebuiltIsThere

-----------------------------------------------------------------------------
(* The parts of a day's rows are events of the day.                        *)
LEMMA CountedAreOfTheDay ==
  ASSUME RollupInv, NEW d \in Days, NEW e \in facts[d]
  PROVE  e \in Timed /\ DayOf(e) = d
<1>1. e \in came /\ DayOf(e) = d
  BY DEF RollupInv, TypeOK
<1>2. QED
  BY <1>1, EventsAreTimed DEF Timed, Days

(* Every action but those of raw_events leaves raw_events alone.           *)
LEMMA WorkKeepsRaw ==
  RollupInv /\ (Work \/ Kill \/ UNCHANGED vars) => RawInv'
<1> SUFFICES ASSUME RollupInv, Work \/ Kill \/ UNCHANGED vars PROVE RawInv'
  OBVIOUS
<1>1. UNCHANGED <<today, raw, came>> /\ excluded' \in BOOLEAN
  BY DEF RollupInv, RawInv, RawTypeOK, Work, Start, Plan, PlanRaises, BuildDay,
         Built, Purge, Kill, rawVars, vars
<1>2. QED
  BY <1>1, RawInvKeeps DEF RollupInv

(* It holds of the empty tables.                                           *)
LEMMA RollupInit == Init => RollupInv
<1> SUFFICES ASSUME Init PROVE RollupInv
  OBVIOUS
<1>1. RawInv
  BY RawInvInit DEF Init
<1>2. QED
  BY <1>1 DEF Init, RollupInv, RawInv, TypeOK, RebuiltIsThere

(* Every step of the worker, the ingester and the pruner keeps it.         *)
LEMMA RollupNext ==
  ASSUME KeptFor PROVE RollupInv /\ [Next]_vars => RollupInv'
<1> SUFFICES ASSUME RollupInv, [Next]_vars PROVE RollupInv'
  OBVIOUS
<1> USE DEF KeptFor
<1>0. /\ today \in Nat /\ RawTypeOK /\ DOMAIN facts = Days /\ days \subseteq Days
      /\ \A d \in Days : d \in Nat
      /\ \A d \in Days : facts[d] \subseteq {e \in came : DayOf(e) = d}
      /\ late \in BOOLEAN /\ uncut \subseteq Days
      /\ pc \in {"idle", "plan", "build", "purge"}
      /\ run \in {"none", "begun", "done", "missed"}
  BY DEF RollupInv, RawInv, RawTypeOK, TypeOK, Days
<1>1. CASE NextDay
  <2>1. RawInv'
    BY <1>1, RawInvMidnight DEF NextDay, RollupInv
  <2>2. TypeOK'
    BY <1>0, <1>1, <2>1 DEF NextDay, Midnight, RawInv, TypeOK
  <2>3. ~ late /\ today' = today + 1 /\ pc' = pc /\ days' = days /\ uncut' = uncut
        /\ facts' = facts /\ late' = (pc # "idle")
    BY <1>1 DEF NextDay, Midnight
  <2>4. RebuiltIsThere'
    <3>1. CASE pc = "build"
      <4>1. late' = TRUE /\ pc' = "build"
        BY <2>3, <3>1
      <4>2. ASSUME NEW d \in days \ uncut, facts[d] # {} PROVE d + RawRetain > today + 1
        BY <3>1, <4>2, <2>3 DEF RollupInv, RebuiltIsThere, Recent
      <4>3. ASSUME NEW d \in days \ uncut, facts[d] # {} PROVE Recent(d)'
        BY <4>1, <4>2, <4>3, <2>3 DEF Recent
      <4>4. QED
        BY <4>1, <4>3, <2>3 DEF RebuiltIsThere
    <3>2. CASE pc # "build"
      BY <3>2, <2>3, ZenonT(30) DEF RebuiltIsThere
    <3>3. QED
      BY <3>1, <3>2
  <2>5. QED
    BY <2>1, <2>2, <2>4 DEF RollupInv
<1>2. CASE Ingest
  <2>1. PICK e \in Events \cup {Untimed} : Arrive(e)
    BY <1>2 DEF Ingest
  <2>2. RawInv'
    BY <2>1, RawInvArrive DEF RollupInv
  <2>3. TypeOK'
    BY <1>0, <1>2, <2>1, <2>2 DEF Ingest, Arrive, RawInv, TypeOK
  <2>4. RebuiltIsThere'
    BY <1>2, <2>1 DEF Ingest, Arrive, RollupInv, RebuiltIsThere, Recent
  <2>5. QED
    BY <2>2, <2>3, <2>4 DEF RollupInv
<1>3. CASE Prune
  <2>1. RawInv'
    BY <1>3, RawInvPrune DEF Prune, RollupInv
  <2>2. TypeOK'
    BY <1>0, <1>3, <2>1 DEF Prune, PruneBatch, RawInv, TypeOK
  <2>3. RebuiltIsThere'
    BY <1>3 DEF Prune, PruneBatch, RollupInv, RebuiltIsThere, Recent
  <2>4. QED
    BY <2>1, <2>2, <2>3 DEF RollupInv
<1>4. ASSUME NEW b \in BOOLEAN, Plan(b) PROVE RollupInv'
  <2>1. RawInv' /\ RawTypeOK'
    BY <1>4, RawInvKeeps DEF Plan, rawVars, RollupInv, RawInv, RawTypeOK
  <2>2. /\ DatesParse /\ days' = DaysToBuild(HaveDays, b) /\ UNCHANGED <<rawVars, facts, late>>
        /\ pc' = "build" /\ uncut' = (IF b THEN Uncut ELSE {})
    BY <1>4 DEF Plan
  <2>3. days' \subseteq AllDays /\ days' \subseteq Days
    BY <1>0, <2>2, DaysToBuildAre, AllDaysAre
  <2>4. TypeOK'
    BY <1>0, <1>4, <2>1, <2>2, <2>3 DEF Plan, Uncut, Unbegun, TypeOK, rawVars
  <2>5. ASSUME NEW d \in days' \ uncut', facts[d] # {}
        PROVE  d + RawRetain > today + 1
    <3>1. d \in HaveDays
      BY <2>3, <2>5 DEF HaveDays
    <3>2. CASE b = FALSE
      BY <3>1, <3>2, <2>2, RebuiltIsRecent DEF RollupInv
    <3>3. CASE b = TRUE
      <4>1. PICK e \in came : DayOf(e) = d /\ e \notin raw
        BY <2>2, <2>3, <3>3 DEF Uncut
      <4>2. e \in Timed
        BY <4>1, <2>3, EventsAreTimed DEF Timed, Days
      <4>3. d = Min(AllDays)
        BY <4>1, <4>2, <2>2, <2>3, CutIsFirst DEF RollupInv
      <4>4. QED
        BY <4>3, <3>1, <3>3, <2>2 DEF DaysToBuild
    <3>4. QED
      BY <3>2, <3>3
  <2>6. RebuiltIsThere'
    <3>1. ASSUME NEW d \in days' \ uncut', facts[d] # {} PROVE Recent(d)'
      BY <2>2, <2>5, <3>1, <2>3, <1>0 DEF Recent, rawVars
    <3>2. QED
      BY <3>1, <2>2 DEF RebuiltIsThere
  <2>7. QED
    BY <2>1, <2>4, <2>6 DEF RollupInv
<1>5. ASSUME NEW d \in Days, BuildDay(d) PROVE RollupInv'
  <2>1. RawInv'
    BY <1>5, WorkKeepsRaw DEF Work
  <2>2. /\ days' = days \ {d} /\ UNCHANGED <<rawVars, pc, late, run, uncut>>
        /\ facts' = [facts EXCEPT ![d] = {e \in Visible : DayOf(e) = d}]
    BY <1>5 DEF BuildDay
  <2>3. TypeOK'
    BY <1>0, <2>1, <2>2 DEF TypeOK, RawInv, RawTypeOK, Visible, rawVars
  <2>4. \A c \in days' : facts'[c] = facts[c] /\ c \in days
    BY <1>0, <2>2
  <2>5. RebuiltIsThere'
    BY <2>2, <2>4 DEF RollupInv, RebuiltIsThere, Recent, rawVars
  <2>6. QED
    BY <2>1, <2>3, <2>5 DEF RollupInv
<1>6. CASE Start \/ PlanRaises \/ Built \/ Purge \/ Kill \/ UNCHANGED vars
  <2>1. RawInv'
    BY <1>6, WorkKeepsRaw DEF Work
  <2>2. TypeOK'
    <3>1. \A d \in Days : facts'[d] \subseteq facts[d]
      BY <1>6 DEF Start, PlanRaises, Built, Purge, Kill, vars
    <3>2. came' = came /\ DOMAIN facts' = Days
      BY <1>0, <1>6 DEF Start, PlanRaises, Built, Purge, Kill, vars, rawVars
    <3>3. /\ pc' \in {"idle", "plan", "build", "purge"} /\ days' \subseteq Days
          /\ late' \in BOOLEAN /\ uncut' \subseteq Days
          /\ run' \in {"none", "begun", "done", "missed"}
      BY <1>0, <1>6
      DEF Start, PlanRaises, Built, Purge, Kill, EndRun, Unbegun, vars
    <3>4. QED
      BY <1>0, <2>1, <3>1, <3>2, <3>3 DEF TypeOK, RawInv
  <2>3. RebuiltIsThere'
    <3>1. CASE Start \/ PlanRaises \/ Built \/ Purge \/ Kill
      <4>1. pc' # "build" /\ (late' => pc' # "idle")
        BY <3>1 DEF RollupInv, RebuiltIsThere, Start, PlanRaises, Built, Purge,
                    Kill, EndRun
      <4>2. QED
        BY <4>1 DEF RebuiltIsThere
    <3>2. CASE UNCHANGED vars
      BY <3>2 DEF RollupInv, RebuiltIsThere, Recent, vars
    <3>3. QED
      BY <1>6, <3>1, <3>2
  <2>4. QED
    BY <2>1, <2>2, <2>3 DEF RollupInv
<1>7. QED
  BY <1>1, <1>2, <1>3, <1>4, <1>5, <1>6 DEF Next, Work

(* The one action that writes the rows of a day over.                      *)
LEMMA RebuiltKeeps ==
  ASSUME RollupInv, NEW d \in Days, BuildDay(d), d \notin uncut
  PROVE  facts[d] \subseteq facts'[d] \cup Operator
<1>1. /\ d \in days /\ pc = "build"
      /\ facts'[d] = {e \in Visible : DayOf(e) = d}
  <2>1. days \in SUBSET Nat /\ days # {} /\ d = Min(days) /\ DOMAIN facts = Days
        /\ pc = "build"
    BY DEF BuildDay, RollupInv, TypeOK, Days
  <2>2. QED
    BY <2>1, MinOfNat DEF BuildDay
<1>2. SUFFICES ASSUME NEW e \in facts[d], e \notin Operator PROVE e \in facts'[d]
  OBVIOUS
<1>3. e \in Timed /\ DayOf(e) = d
  BY CountedAreOfTheDay
<1>4. Recent(d)
  BY <1>1 DEF RollupInv, RebuiltIsThere
<1>5. d + RawRetain > today
  BY <1>4 DEF Recent, RollupInv, RawInv, RawTypeOK, Days
<1>6. e \in raw
  BY <1>3, <1>5, YoungIsThere DEF RollupInv
<1>7. QED
  BY <1>1, <1>2, <1>3, <1>6 DEF Visible

-----------------------------------------------------------------------------
(* The invariant holds in every behaviour, where the retention is wide     *)
(* enough and somebody comes every day.                                    *)
THEOREM RollupInvariant ==
  ASSUME KeptFor PROVE Spec => []RollupInv
BY RollupInit, RollupNext, PTL DEF Spec

(* What was counted is counted for ever, though raw_events forgets it, for *)
(* any retention and any number of days: a complete count is not replaced  *)
(* with a truncated one (days_to_build, build_facts).                      *)
THEOREM CountedForEver ==
  ASSUME KeptFor PROVE Spec => NothingTruncated
<1> DEFINE A == /\ TypeOK'
                /\ \A d \in Days \ uncut : facts[d] \subseteq facts'[d] \cup Operator
<1>1. RollupInv /\ RollupInv' /\ [Next]_vars => [A]_vars
  <2> SUFFICES ASSUME RollupInv, RollupInv', Next
               PROVE  \A d \in Days \ uncut : facts[d] \subseteq facts'[d] \cup Operator
    BY DEF RollupInv
  <2>1. ASSUME NEW c \in Days, BuildDay(c), NEW d \in Days \ uncut
        PROVE  facts[d] \subseteq facts'[d] \cup Operator
    <3>1. CASE d = c
      BY <2>1, <3>1, RebuiltKeeps
    <3>2. CASE d # c
      BY <2>1, <3>2 DEF BuildDay
    <3>3. QED
      BY <3>1, <3>2
  <2>2. CASE Purge
    BY <2>2 DEF Purge
  <2>3. CASE NextDay \/ Ingest \/ Prune \/ Kill \/ Start \/ PlanRaises \/ Built
             \/ \E b \in {FALSE, Backfill} : Plan(b)
    <3>1. facts' = facts
      BY <2>3 DEF NextDay, Ingest, Prune, Kill, Start, PlanRaises, Built, Plan
    <3>2. QED
      BY <3>1
  <2>4. QED
    BY <2>1, <2>2, <2>3 DEF Next, Work
<1>2. QED
  BY <1>1, RollupInvariant, PTL DEF Spec, NothingTruncated

(* No run counts again what was purged: whatever the settings are, for the *)
(* rows of a day are rebuilt from the view that hides the excluded.        *)
THEOREM PurgedForEver == Spec => StaysPurged
<1> DEFINE A == excluded /\ (\A d \in Days : facts[d] \cap Operator = {})
                  => \A d \in Days : facts'[d] \cap Operator = {}
<1>1. ASSUME DOMAIN facts = Days, [Next]_vars PROVE [A]_vars
  <2> SUFFICES ASSUME Next, excluded, \A d \in Days : facts[d] \cap Operator = {},
                      NEW d \in Days
               PROVE  facts'[d] \cap Operator = {}
    BY <1>1
  <2>1. ASSUME NEW c \in Days, BuildDay(c) PROVE facts'[d] \cap Operator = {}
    BY <1>1, <2>1 DEF BuildDay, Visible
  <2>2. CASE Purge
    BY <2>2 DEF Purge
  <2>3. CASE NextDay \/ Ingest \/ Prune \/ Kill \/ Start \/ PlanRaises \/ Built
             \/ \E b \in {FALSE, Backfill} : Plan(b)
    BY <2>3 DEF NextDay, Ingest, Prune, Kill, Start, PlanRaises, Built, Plan
  <2>4. QED
    BY <2>1, <2>2, <2>3 DEF Next, Work
<1>2. Init => DOMAIN facts = Days
  BY DEF Init
<1>3. DOMAIN facts = Days /\ [Next]_vars => (DOMAIN facts = Days)'
  BY DEF Next, Work, NextDay, Ingest, Prune, Kill, Start, PlanRaises, Built, Plan,
         BuildDay, Purge, vars
<1>4. QED
  BY <1>1, <1>2, <1>3, PTL DEF Spec, StaysPurged
=============================================================================
