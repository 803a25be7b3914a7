---------------------------- MODULE TablesProofs ----------------------------
(***************************************************************************)
(* What the worker keeps beyond raw_events: the rows of sessions, the      *)
(* sightings of samples and their provenance, the tags of credentials, the *)
(* stage history; and what it derives: networks, spikes and families.      *)
(*                                                                         *)
(* The first part is about a run of the worker, whatever the stage is; the *)
(* others follow the stages.                                               *)
(***************************************************************************)
EXTENDS MCTables, RawWindowProofs, SequenceTheorems

USE RawWindowAssumption

(* A run is there when it is late; the purge comes after the exclusion.    *)
RunInv ==
  /\ RunTypeOK
  /\ IsFiniteSet(came)
  /\ late => pc # "idle"
  /\ purged => excluded

-----------------------------------------------------------------------------
(* A run of the worker and what goes on around it keep their types.        *)
LEMMA RunInvInit == RunInit => RunInv /\ RawInv
<1> SUFFICES ASSUME RunInit PROVE RunInv /\ RawInv
  OBVIOUS
<1>1. RawInv
  BY RawInvInit DEF RunInit
<1>2. QED
  BY <1>1 DEF RunInit, RunInv, RawInv, RunTypeOK, Phases, RawInit

(* Steps outside a run.                                                    *)
LEMMA RunInvAround == RunInv /\ Around => RunInv'
<1> SUFFICES ASSUME RunInv, Around PROVE RunInv'
  OBVIOUS
<1> USE DEF RunInv, RunTypeOK, RawTypeOK
<1>1. CASE NextDay
  BY <1>1 DEF NextDay, Midnight, Days
<1>2. CASE Ingest
  <2>1. PICK e \in Events \cup {Untimed} : Arrive(e)
    BY <1>2 DEF Ingest
  <2>2. IsFiniteSet(came')
    BY <2>1, FS_AddElement DEF Arrive
  <2>3. QED
    BY <1>2, <2>1, <2>2 DEF Ingest, Arrive
<1>3. CASE Prune
  BY <1>3 DEF Prune, PruneBatch
<1>4. CASE Start
  BY <1>4 DEF Start, Phases
<1>5. CASE Fail
  <2>1. UNCHANGED <<today, raw, came, excluded, purged>> /\ pc' = "idle" /\ days' = {}
        /\ late' = FALSE
    BY <1>5 DEF Fail, EndRun, rawVars
  <2>2. RunTypeOK'
    BY <2>1 DEF Phases
  <2>3. ~ late' /\ (purged' => excluded')
    BY <2>1, Zenon
  <2>4. QED
    BY <2>1, <2>2, <2>3
<1>6. QED
  BY <1>1, <1>2, <1>3, <1>4, <1>5 DEF Around

(* A run is planned.                                                       *)
LEMMA RunInvPlan ==
  ASSUME RunInv, NEW from, NEW to \in Phases \ {"idle"}, NEW have,
         PlanDays(from, to, have)
  PROVE  RunInv'
<1>1. DaysToBuild(have, FALSE) \subseteq Days
  BY DaysToBuildAre, AllDaysAre DEF PlanDays, RunInv, RunTypeOK
<1>2. QED
  BY <1>1 DEF PlanDays, RunInv, RunTypeOK, RawTypeOK, rawVars

(* A batch is taken.                                                       *)
LEMMA RunInvTake ==
  ASSUME RunInv, NEW at, NEW d, TakeDay(at, d) PROVE RunInv'
BY DEF TakeDay, RunInv, RunTypeOK, RawTypeOK, rawVars

(* A batch is committed.                                                   *)
LEMMA RunInvCommit ==
  ASSUME RunInv, NEW from, NEW to \in Phases \ {"idle"}, Commit(from, to)
  PROVE  RunInv'
BY DEF Commit, RunInv, RunTypeOK, RawTypeOK, rawVars

(* The pruner purges.                                                      *)
LEMMA RunInvPurge == RunInv /\ RunPurge => RunInv'
<1> SUFFICES ASSUME RunInv, RunPurge PROVE RunInv'
  OBVIOUS
<1>1. UNCHANGED <<today, raw, came, excluded>> /\ purged' = excluded
      /\ pc' = "idle" /\ days' = {} /\ late' = FALSE
  BY DEF RunPurge, EndRun, rawVars
<1>2. RunTypeOK'
  BY <1>1 DEF RunInv, RunTypeOK, RawTypeOK, Phases
<1>3. ~ late' /\ (purged' => excluded')
  BY <1>1, Zenon
<1>4. QED
  BY <1>1, <1>2, <1>3 DEF RunInv

(* raw_events is only touched by what goes on around a run.                *)
LEMMA RawInvAround ==
  ASSUME WindowIsWide, RawInv, Around PROVE RawInv'
<1>1. CASE NextDay
  BY <1>1, RawInvMidnight DEF NextDay
<1>2. CASE Ingest
  BY <1>2, RawInvArrive DEF Ingest
<1>3. CASE Prune
  BY <1>3, RawInvPrune DEF Prune
<1>4. CASE Start \/ Fail
  BY <1>4, RawInvKeeps DEF Start, Fail, rawVars, RawInv, RawTypeOK
<1>5. QED
  BY <1>1, <1>2, <1>3, <1>4 DEF Around

(* A step of a run leaves raw events alone.                                *)
LEMMA RawInvRun ==
  RawInv /\ UNCHANGED rawVars => RawInv'
BY RawInvKeeps DEF rawVars, RawInv, RawTypeOK

-----------------------------------------------------------------------------
(* Session facts.                                                          *)

(* A row whose day is still to be built is of a recent day.                *)
RowIsRecent ==
  pc = "build" => \A s \in Sessions : row[s].day \in days =>
    row[s].day + RawRetain > today + (IF late THEN 0 ELSE 1)

SessionInv == RunInv /\ RawInv /\ TypeOK /\ RowIsRecent

(* The events of a row are of its session.                                 *)
LEMMA RowEvents ==
  ASSUME TypeOK, RawTypeOK, NEW s \in Sessions, row[s] # NoRow
  PROVE  /\ row[s].day \in Days
         /\ \E e \in row[s].ev : DayOf(e) = row[s].day
         /\ \A e \in row[s].ev : e \in Timed /\ e \in Events /\ SessionOf[e] = s
BY EventsAreTimed DEF TypeOK, RawTypeOK, Timed, Days

(* What a run reads of a session has come, and is of that session.         *)
LEMMA SpanEvents ==
  ASSUME RawTypeOK, NEW s, NEW d, NEW e \in Span(s, d)
  PROVE  e \in came /\ e \in Events /\ SessionOf[e] = s /\ DayOf(e) \in {d, d + 1}
BY DEF RawTypeOK, Span, Visible

(* The session facts at the start.                                         *)
LEMMA SessionInit == Init => SessionInv
<1> SUFFICES ASSUME Init PROVE SessionInv
  OBVIOUS
<1>1. RunInv /\ RawInv
  BY RunInvInit DEF Init
<1>2. TypeOK
  BY <1>1 DEF Init, TypeOK, RunInv
<1>3. RowIsRecent
  BY DEF Init, RunInit, RowIsRecent
<1>4. QED
  BY <1>1, <1>2, <1>3 DEF SessionInv

(* The day is at the head of those to build.                               *)
LEMMA TakenIsDue ==
  ASSUME RunTypeOK, NEW at, NEW d, TakeDay(at, d) PROVE d \in days /\ pc = at
<1>1. days \in SUBSET Nat
  BY DEF RunTypeOK, Days
<1>2. QED
  BY <1>1, MinOfNat DEF TakeDay

(* Every step keeps the session facts.                                     *)
LEMMA SessionNext ==
  ASSUME KeptFor PROVE SessionInv /\ [Next]_vars => SessionInv'
<1> SUFFICES ASSUME SessionInv, [Next]_vars PROVE SessionInv'
  OBVIOUS
<1> USE DEF SessionInv, KeptFor
<1>0. RunTypeOK /\ RawTypeOK /\ today \in Nat /\ \A d \in Days : d \in Nat /\ d >= 1
  BY DEF RunInv, RunTypeOK, RawTypeOK, Days
<1>1. CASE Around /\ UNCHANGED row
  <2>1. RunInv' /\ RawInv'
    BY <1>1, RunInvAround, RawInvAround
  <2>2. came \subseteq came'
    BY <1>1 DEF Around, NextDay, Midnight, Ingest, Arrive, Prune, PruneBatch, Start,
                Fail, rawVars
  <2>3. TypeOK'
    BY <1>1, <2>1, <2>2 DEF TypeOK, RunInv
  <2>4. RowIsRecent'
    <3>1. CASE NextDay
      <4>1. CASE pc = "build"
        <5>1. late' = TRUE /\ ~ late /\ today' = today + 1 /\ pc' = pc /\ days' = days
          BY <3>1, <4>1 DEF NextDay, Midnight
        <5>2. ASSUME NEW s \in Sessions, row[s].day \in days
              PROVE  row[s].day + RawRetain > today + 1
          BY <4>1, <5>1, <5>2 DEF RowIsRecent
        <5>3. QED
          BY <5>1, <5>2, <1>1 DEF RowIsRecent
      <4>2. CASE pc # "build"
        BY <4>2, <3>1, Zenon DEF NextDay, RowIsRecent
      <4>3. QED
        BY <4>1, <4>2
    <3>2. CASE Ingest \/ Prune
      BY <3>2, <1>1 DEF Ingest, Arrive, Prune, PruneBatch, RowIsRecent
    <3>3. CASE Start \/ Fail
      BY <3>3 DEF Start, Fail, EndRun, RowIsRecent
    <3>4. QED
      BY <1>1, <3>1, <3>2, <3>3 DEF Around
  <2>5. QED
    BY <2>1, <2>3, <2>4
<1>2. CASE Plan
  <2>1. UNCHANGED rawVars /\ UNCHANGED row /\ late' = late /\ DatesParse
        /\ days' = DaysToBuild({row[s].day : s \in Sessions} \ {0}, FALSE)
        /\ PlanDays("plan", "build", {row[s].day : s \in Sessions} \ {0})
    BY <1>2 DEF Plan, PlanDays
  <2>2. RunInv'
    <3>1. "build" \in Phases \ {"idle"}
      BY DEF Phases
    <3>2. QED
      BY <2>1, <3>1, RunInvPlan
  <2>3. RawInv'
    BY <2>1, RawInvRun
  <2>4. TypeOK'
    BY <2>1, <2>2 DEF TypeOK, RunInv, rawVars
  <2>5. ASSUME NEW s \in Sessions, row[s].day \in days'
        PROVE  row[s].day + RawRetain > today + 1
    <3>1. row[s].day \in Days
      BY <2>1, <2>5, <1>0, AllDaysAre, DaysToBuildAre
    <3>2. row[s].day \in {row[t].day : t \in Sessions} \ {0}
      BY <3>1 DEF Days
    <3>3. QED
      BY <2>1, <2>5, <3>2, RebuiltIsRecent
  <2>6. RowIsRecent'
    <3>1. ASSUME NEW s \in Sessions, row[s].day \in days'
          PROVE  row[s].day + RawRetain > today + (IF late THEN 0 ELSE 1)
      BY <3>1, <2>5, <1>0, <2>2 DEF RunInv, RunTypeOK
    <3>2. QED
      BY <3>1, <2>1 DEF RowIsRecent, rawVars
  <2>7. QED
    BY <2>2, <2>3, <2>4, <2>6
<1>3. ASSUME NEW d \in Days, BuildDay(d) PROVE SessionInv'
  <2>1. TakeDay("build", d) /\ row' = [s \in Sessions |-> RowOf(s, d)]
        /\ days' = days \ {d} /\ UNCHANGED <<rawVars, pc, late>>
    BY <1>3 DEF BuildDay, TakeDay
  <2>2. RunInv' /\ RawInv'
    BY <2>1, RunInvTake, RawInvRun
  <2>3. TypeOK'
    <3>1. ASSUME NEW s \in Sessions
          PROVE  \/ row'[s] = [day |-> d, ev |-> Span(s, d)] /\ \E e \in Span(s, d) : DayOf(e) = d
                 \/ row'[s] = NoRow
                 \/ row'[s] = row[s]
      BY <2>1 DEF RowOf
    <3>2. came' = came
      BY <2>1 DEF rawVars
    <3>3. ASSUME NEW s \in Sessions
          PROVE  \/ row'[s] = NoRow
                 \/ /\ row'[s].day \in Days
                    /\ \E e \in row'[s].ev : DayOf(e) = row'[s].day
                    /\ \A e \in row'[s].ev : /\ e \in came /\ SessionOf[e] = s
                                            /\ DayOf(e) \in {row'[s].day, row'[s].day + 1}
      <4>1. CASE row'[s] = [day |-> d, ev |-> Span(s, d)] /\ \E e \in Span(s, d) : DayOf(e) = d
        <5>1. \A e \in Span(s, d) : e \in came /\ SessionOf[e] = s /\ DayOf(e) \in {d, d + 1}
          BY <1>0, SpanEvents
        <5>2. QED
          BY <4>1, <5>1
      <4>2. CASE row'[s] = row[s]
        BY <4>2 DEF TypeOK
      <4>3. QED
        BY <3>1, <4>1, <4>2
    <3>4. QED
      BY <2>2, <3>2, <3>3 DEF TypeOK, RunInv, DayOf
  <2>4. RowIsRecent'
    <3>1. ASSUME NEW s \in Sessions, row'[s].day \in days' PROVE row'[s] = row[s]
      <4>1. row'[s].day \in Days \ {d}
        BY <3>1, <2>1, <1>0 DEF RunTypeOK
      <4>2. QED
        BY <4>1, <2>1 DEF RowOf, NoRow, Days
    <3>2. QED
      BY <2>1, <3>1 DEF RowIsRecent, rawVars
  <2>5. QED
    BY <2>2, <2>3, <2>4
<1>4. CASE Built \/ Purge
  <2>1. RunInv'
    <3>1. "purge" \in Phases \ {"idle"}
      BY DEF Phases
    <3>2. QED
      BY <1>4, <3>1, RunInvCommit, RunInvPurge DEF Built, Purge
  <2>2. RawInv' /\ came' = came
    BY <1>4, RawInvRun DEF Built, Purge, Commit, RunPurge, rawVars
  <2>3. \A s \in Sessions : row'[s] = NoRow \/ row'[s] = row[s]
    BY <1>4 DEF Built, Purge
  <2>4. TypeOK'
    BY <2>1, <2>2, <2>3 DEF TypeOK, RunInv, DayOf
  <2>5. RowIsRecent'
    BY <1>4 DEF Built, Purge, Commit, RunPurge, EndRun, RowIsRecent
  <2>6. QED
    BY <2>1, <2>2, <2>4, <2>5
<1>5. CASE UNCHANGED vars
  <2>1. RunInv' /\ TypeOK' /\ RowIsRecent'
    BY <1>5 DEF vars, runVars, RunInv, RunTypeOK, RawTypeOK, TypeOK, RowIsRecent
  <2>2. RawInv'
    BY <1>5, RawInvRun DEF vars, runVars, rawVars
  <2>3. QED
    BY <2>1, <2>2
<1>6. QED
  BY <1>1, <1>2, <1>3, <1>4, <1>5 DEF Next

(* The day of a row is built again from events that are all still there.   *)
LEMMA RebuiltRowKeeps ==
  ASSUME SessionInv, NEW d \in Days, BuildDay(d),
         NEW s \in Sessions, excluded => s \notin OperatorSessions, row[s] # NoRow
  PROVE  /\ row'[s] # NoRow
         /\ s \in OneDaySessions => row[s].ev \subseteq row'[s].ev
<1> USE DEF SessionInv
<1>1. d \in days /\ pc = "build" /\ row' = [t \in Sessions |-> RowOf(t, d)]
  BY TakenIsDue DEF BuildDay, RunInv
<1>2. RawTypeOK /\ today \in Nat /\ d \in Nat /\ d >= 1 /\ late \in BOOLEAN
  BY DEF RunInv, RunTypeOK, RawTypeOK, Days
<1>3. /\ \E e \in row[s].ev : DayOf(e) = row[s].day
      /\ \A e \in row[s].ev : e \in Timed /\ e \in Events /\ SessionOf[e] = s
  BY <1>2, RowEvents
<1>4. \A e \in row[s].ev : excluded => e \notin Operator
  BY <1>3 DEF OperatorSessions
<1>5. CASE row[s].day = d
  <2>1. d + RawRetain > today
    BY <1>1, <1>2, <1>5 DEF RowIsRecent
  <2>2. ASSUME NEW e \in row[s].ev, DayOf(e) = d PROVE e \in Span(s, d)
    <3>1. e \in raw
      BY <1>3, <2>1, <2>2, YoungIsThere
    <3>2. QED
      BY <1>3, <1>4, <2>2, <3>1 DEF Span, Visible, Timed
  <2>3. row'[s] = [day |-> d, ev |-> Span(s, d)]
    BY <1>1, <1>3, <1>5, <2>2 DEF RowOf
  <2>4. ASSUME s \in OneDaySessions PROVE row[s].ev \subseteq row'[s].ev
    <3>1. \A e \in row[s].ev : DayOf(e) = d
      BY <1>3, <1>5, <2>4 DEF OneDaySessions
    <3>2. QED
      BY <2>2, <2>3, <3>1
  <2>5. QED
    BY <2>3, <2>4, <1>2 DEF NoRow
<1>6. CASE row[s].day # d
  <2>1. CASE \E e \in Span(s, d) : DayOf(e) = d
    <3>1. row'[s] = [day |-> d, ev |-> Span(s, d)]
      BY <1>1, <2>1 DEF RowOf
    <3>2. PICK f \in Span(s, d) : DayOf(f) = d
      BY <2>1
    <3>3. f \in Events /\ SessionOf[f] = s
      BY <1>2, <3>2, SpanEvents
    <3>4. s \notin OneDaySessions
      BY <1>3, <1>6, <3>2, <3>3 DEF OneDaySessions
    <3>5. QED
      BY <3>1, <3>4, <1>2 DEF NoRow
  <2>2. CASE ~ \E e \in Span(s, d) : DayOf(e) = d
    BY <1>1, <1>6, <2>2 DEF RowOf
  <2>3. QED
    BY <2>1, <2>2
<1>7. QED
  BY <1>5, <1>6

(* The invariant of session facts holds in every behaviour.                *)
THEOREM SessionInvariant ==
  ASSUME KeptFor PROVE Spec => []SessionInv
BY SessionInit, SessionNext, PTL DEF Spec

(* session_facts outlives raw_events: a session that has a row keeps one,  *)
(* and one of a single day loses nothing that was counted, for any         *)
(* retention that is wide enough (build_sessions).                         *)
THEOREM RowsAreKept ==
  ASSUME KeptFor PROVE Spec => SessionKept
<1> DEFINE A == /\ TypeOK'
                /\ \A s \in Sessions \ OperatorSessions : row[s] # NoRow => row'[s] # NoRow
                /\ \A s \in OneDaySessions : row[s].ev \subseteq row'[s].ev
<1>1. SessionInv /\ SessionInv' /\ [Next]_vars => [A]_vars
  <2> SUFFICES ASSUME SessionInv, SessionInv', Next
               PROVE  \A s \in Sessions \ OperatorSessions :
                        /\ row[s] # NoRow => row'[s] # NoRow
                        /\ s \in OneDaySessions => row[s].ev \subseteq row'[s].ev
    BY DEF SessionInv, OneDaySessions
  <2> TAKE s \in Sessions \ OperatorSessions
  <2>1. CASE row[s] = NoRow
    BY <2>1 DEF NoRow
  <2>2. CASE row[s] # NoRow
    <3>1. ASSUME NEW d \in Days, BuildDay(d)
          PROVE  /\ row'[s] # NoRow
                 /\ s \in OneDaySessions => row[s].ev \subseteq row'[s].ev
      BY <2>2, <3>1, RebuiltRowKeeps
    <3>2. CASE Purge
      <4>1. \A e \in row[s].ev : SessionOf[e] = s
        BY <2>2, RowEvents DEF SessionInv, RawInv
      <4>2. row[s].ev \cap Operator = {}
        BY <4>1 DEF OperatorSessions
      <4>3. QED
        BY <2>2, <3>2, <4>2 DEF Purge
    <3>3. CASE (Around /\ UNCHANGED row) \/ Plan \/ Built
      BY <2>2, <3>3 DEF Plan, Built
    <3>4. QED
      BY <3>1, <3>2, <3>3 DEF Next
  <2>3. QED
    BY <2>1, <2>2
<1>2. QED
  BY <1>1, SessionInvariant, PTL DEF Spec, SessionKept

-----------------------------------------------------------------------------
(* Sightings, and the provenance of samples.                               *)

USE SightingsAssumption

(* An entry of the provenance has its numbers, and is of one transfer.     *)
Columns == {"first", "last", "hits", "sessions", "ips", "origin"}
IsEntry(s, p) ==
  /\ Columns \subseteq DOMAIN p
  /\ p.first \in Nat /\ p.last \in Nat
  /\ p.hits \in Nat /\ p.sessions \in Nat /\ p.ips \in Nat
  /\ \E e \in Of(Transfers, s) :
       /\ At(e) = p.first
       /\ TransferOf[e].session = p.origin.session
       /\ TransferOf[e].ip = p.origin.ip

(* The run that records has just derived payloads from the sightings.      *)
SightingsInv ==
  /\ RunInv
  /\ sightings \subseteq Transfers \cap came
  /\ payloads \subseteq Transfers \cap came
  /\ pc = "record" => payloads = sightings
  /\ NoSightingReturns
  /\ \A s \in Shas : prov[s] = NoProv \/ IsEntry(s, prov[s])

(* A transfer has a time.                                                  *)
LEMMA AtIsNat == \A e \in Transfers : At(e) \in Nat
BY EventsAreTimed DEF At, Days

(* Of finitely many transfers one is first and one is last.                *)
LEMMA EarliestIs ==
  ASSUME NEW S \in SUBSET Transfers, S # {} PROVE Earliest(S) \in S
<1> DEFINE A == {At(e) : e \in S}
<1>1. A \in SUBSET Nat /\ A # {}
  BY AtIsNat
<1>2. PICK x \in A : \A y \in A : x <= y
  <2> HIDE DEF A
  <2> QED BY <1>1, LeastNat
<1>3. PICK e \in S : \A f \in S : At(e) <= At(f)
  BY <1>2
<1>4. QED
  BY <1>3 DEF Earliest

(* The latest of a set of transfers is in it.                              *)
LEMMA LatestIs ==
  ASSUME NEW S \in SUBSET Transfers, S # {}, IsFiniteSet(S) PROVE Latest(S) \in S
<1> DEFINE at == [e \in S |-> At(e)]
           A == {at[e] : e \in S}
<1>1. IsFiniteSet(A)
  <2> HIDE DEF at
  <2> QED BY ImageIsFinite
<1>2. A \in SUBSET Nat /\ A # {}
  BY AtIsNat
<1>3. PICK x \in A : \A y \in A : y <= x
  <2> HIDE DEF A
  <2> QED BY <1>1, <1>2, GreatestNat
<1>4. PICK e \in S : x = At(e)
  BY <1>3
<1>5. \A f \in S : At(f) <= At(e)
  BY <1>3, <1>4
<1>6. QED
  BY <1>5 DEF Latest

(* An entry of a sample is not the missing one.                            *)
LEMMA EntryIsThere == \A s, p : IsEntry(s, p) => p # NoProv
BY DEF IsEntry, Columns, NoProv

(* What a run knows of a sample it has seen is an entry.                   *)
LEMMA KnownIsEntry ==
  ASSUME SightingsInv, payloads = sightings, NEW s \in Shas, Of(payloads, s) # {}
  PROVE  IsEntry(s, Known(s))
<1> DEFINE P == Of(payloads, s)
           se == [e \in P |-> TransferOf[e].session]
           ip == [e \in P |-> TransferOf[e].ip]
           k == Known(s)
<1>1. P \in SUBSET Transfers /\ P \in SUBSET came /\ P # {}
  BY DEF SightingsInv, Of
<1>2. IsFiniteSet(P)
  BY <1>1, FS_Subset DEF SightingsInv, RunInv
<1>3. Cardinality({TransferOf[e].session : e \in P}) \in Nat
  <2>1. {se[e] : e \in P} = {TransferOf[e].session : e \in P}
    OBVIOUS
  <2> HIDE DEF se, P
  <2>2. Cardinality({se[e] : e \in P}) \in Nat
    BY <1>2, ImageIsFinite
  <2>3. QED
    BY <2>1, <2>2
<1>4. Cardinality({TransferOf[e].ip : e \in P}) \in Nat
  <2>1. {ip[e] : e \in P} = {TransferOf[e].ip : e \in P}
    OBVIOUS
  <2> HIDE DEF ip, P
  <2>2. Cardinality({ip[e] : e \in P}) \in Nat
    BY <1>2, ImageIsFinite
  <2>3. QED
    BY <2>1, <2>2
<1>5. Cardinality(P) \in Nat
  BY <1>2, FS_CardinalityType
<1>6. Earliest(P) \in P /\ Latest(P) \in P
  BY <1>1, <1>2, EarliestIs, LatestIs
<1>7. At(Earliest(P)) \in Nat /\ At(Latest(P)) \in Nat
  BY <1>1, <1>6, AtIsNat
<1>8. /\ k.first = At(Earliest(P)) /\ k.last = At(Latest(P)) /\ k.hits = Cardinality(P)
      /\ k.sessions = Cardinality({TransferOf[e].session : e \in P})
      /\ k.ips = Cardinality({TransferOf[e].ip : e \in P})
      /\ k.origin.session = TransferOf[Earliest(P)].session
      /\ k.origin.ip = TransferOf[Earliest(P)].ip
  BY DEF Known
<1>9. Columns \subseteq DOMAIN k
  BY DEF Known, Columns
<1>10. Earliest(P) \in Of(Transfers, s)
  BY <1>1, <1>6 DEF Of
<1> HIDE DEF k, P
<1>11. IsEntry(s, k)
  BY <1>3, <1>4, <1>5, <1>7, <1>8, <1>9, <1>10 DEF IsEntry
<1>12. QED
  BY <1>11 DEF k

(* Two entries merged are an entry, which is no narrower than the first.   *)
LEMMA MergedIsEntry ==
  ASSUME NEW s, NEW old, NEW new, old = NoProv \/ IsEntry(s, old), IsEntry(s, new)
  PROVE  LET m == Merged(old, new)
         IN  /\ IsEntry(s, m)
             /\ old # NoProv => /\ m.first <= old.first /\ old.last <= m.last
                                /\ old.hits <= m.hits /\ old.sessions <= m.sessions
                                /\ old.ips <= m.ips
                                /\ m.first = old.first => m.origin = old.origin
<1>1. CASE old = NoProv
  BY <1>1 DEF Merged
<1>2. CASE old # NoProv
  <2> DEFINE m == Merged(old, new)
  <2>1. IsEntry(s, old)
    BY <1>2
  <2>2. /\ old.first \in Nat /\ new.first \in Nat /\ old.last \in Nat /\ new.last \in Nat
        /\ old.hits \in Nat /\ new.hits \in Nat /\ old.sessions \in Nat /\ new.sessions \in Nat
        /\ old.ips \in Nat /\ new.ips \in Nat
    BY <2>1 DEF IsEntry
  <2> DEFINE Up(a, b) == IF a >= b THEN a ELSE b
  <2>3. /\ Min({old.first, new.first}) = (IF old.first <= new.first THEN old.first ELSE new.first)
        /\ Max({old.last, new.last}) = Up(old.last, new.last)
        /\ Max({old.hits, new.hits}) = Up(old.hits, new.hits)
        /\ Max({old.sessions, new.sessions}) = Up(old.sessions, new.sessions)
        /\ Max({old.ips, new.ips}) = Up(old.ips, new.ips)
    BY <2>2, MinOfTwo, MaxOfTwo
  <2>4. Columns \subseteq DOMAIN new
    BY DEF IsEntry
  <2>5. /\ DOMAIN m = DOMAIN new
        /\ m.first = Min({old.first, new.first})
        /\ m.last = Max({old.last, new.last})
        /\ m.hits = Max({old.hits, new.hits})
        /\ m.sessions = Max({old.sessions, new.sessions})
        /\ m.ips = Max({old.ips, new.ips})
        /\ m.origin = (IF new.first < old.first THEN new.origin ELSE old.origin)
    BY <1>2, <2>4 DEF Merged, Columns
  <2> HIDE DEF m
  <2>6. /\ m.first \in Nat /\ m.first <= old.first
        /\ m.last \in Nat /\ old.last <= m.last
        /\ m.hits \in Nat /\ old.hits <= m.hits
        /\ m.sessions \in Nat /\ old.sessions <= m.sessions
        /\ m.ips \in Nat /\ old.ips <= m.ips
    BY <2>2, <2>3, <2>5
  <2>7. \/ m.first = new.first /\ m.origin = new.origin /\ new.first < old.first
        \/ m.first = old.first /\ m.origin = old.origin
    BY <2>2, <2>3, <2>5
  <2>8. IsEntry(s, m)
    BY <2>1, <2>4, <2>5, <2>6, <2>7 DEF IsEntry
  <2>9. m.first = old.first => m.origin = old.origin
    BY <2>2, <2>7
  <2>10. QED
    BY <2>6, <2>8, <2>9 DEF m
<1>3. QED
  BY <1>1, <1>2

(* The invariant of the sightings, action by action.                       *)
LEMMA SightingsInit == RunInit /\ SightInit => SightingsInv
<1> SUFFICES ASSUME RunInit, SightInit PROVE SightingsInv
  OBVIOUS
<1>1. RunInv
  BY RunInvInit
<1>2. QED
  BY <1>1 DEF SightInit, SightingsInv, NoSightingReturns, RunInit

(* Recording a transfer only adds to the ledger.                           *)
LEMMA RecordingWidens ==
  ASSUME SightingsInv, RecordProvenance, NEW s \in Shas
  PROVE  /\ prov'[s] = NoProv \/ IsEntry(s, prov'[s])
         /\ prov[s] # NoProv =>
              /\ prov'[s].first <= prov[s].first /\ prov[s].last <= prov'[s].last
              /\ prov[s].hits <= prov'[s].hits /\ prov[s].sessions <= prov'[s].sessions
              /\ prov[s].ips <= prov'[s].ips
              /\ prov'[s].first = prov[s].first => prov'[s].origin = prov[s].origin
              /\ prov'[s] # NoProv
<1>1. payloads = sightings
  BY DEF RecordProvenance, Commit, SightingsInv
<1>2. prov[s] = NoProv \/ IsEntry(s, prov[s])
  BY DEF SightingsInv
<1>3. CASE Of(payloads, s) = {}
  <2>1. prov'[s] = prov[s]
    BY <1>3 DEF RecordProvenance
  <2>2. QED
    BY <1>2, <2>1 DEF IsEntry
<1>4. CASE Of(payloads, s) # {}
  <2>1. prov'[s] = Merged(prov[s], Known(s))
    BY <1>4 DEF RecordProvenance
  <2>2. IsEntry(s, Known(s))
    BY <1>1, <1>4, KnownIsEntry
  <2>3. QED
    BY <1>2, <2>1, <2>2, MergedIsEntry, EntryIsThere
<1>5. QED
  BY <1>3, <1>4

(* Every step keeps the ledger.                                            *)
LEMMA SightingsNext ==
  SightingsInv /\ [SightNext]_<<runVars, sightVars>> => SightingsInv'
<1> SUFFICES ASSUME SightingsInv, [SightNext]_<<runVars, sightVars>> PROVE SightingsInv'
  OBVIOUS
<1> USE DEF SightingsInv
<1>0. {"seen", "build", "derive", "record", "purge"} \subseteq Phases \ {"idle"}
  BY DEF Phases
<1>1. RunInv'
  <2>1. CASE Around
    BY <2>1, RunInvAround
  <2>2. CASE PlanPayloads
    BY <2>2, <1>0, RunInvPlan DEF PlanPayloads
  <2>3. CASE See \/ CountDays \/ Derive \/ RecordProvenance
    BY <2>3, <1>0, RunInvCommit DEF See, CountDays, Derive, RecordProvenance
  <2>4. CASE PurgeSightings
    BY <2>4, RunInvPurge DEF PurgeSightings
  <2>5. CASE UNCHANGED <<runVars, sightVars>>
    BY <2>5 DEF runVars, RunInv, RunTypeOK, RawTypeOK
  <2>6. QED
    BY <2>1, <2>2, <2>3, <2>4, <2>5 DEF SightNext
<1>2. came \subseteq came'
  BY DEF SightNext, Around, NextDay, Midnight, Ingest, Arrive, Prune, PruneBatch, Start,
         Fail, See, PlanPayloads, PlanDays, CountDays, Derive, RecordProvenance, Commit,
         PurgeSightings, RunPurge, rawVars, runVars
<1>3. Visible \subseteq came /\ (excluded => Visible \cap Operator = {})
  BY DEF Visible, RunInv, RunTypeOK, RawTypeOK
<1>4. sightings' \subseteq Transfers \cap came' /\ payloads' \subseteq Transfers \cap came'
  BY <1>2, <1>3 DEF SightNext, See, Seen, PlanPayloads, CountDays, Derive, RecordProvenance,
                    PurgeSightings, sightVars
<1>5. pc' = "record" => payloads' = sightings'
  BY DEF SightNext, Around, NextDay, Ingest, Prune, Start, Fail, EndRun, See, PlanPayloads,
         PlanDays, CountDays, Derive, RecordProvenance, Commit, PurgeSightings, RunPurge,
         runVars, sightVars
<1>6. NoSightingReturns'
  <2>1. CASE See
    BY <2>1, <1>3 DEF See, Seen, Commit, NoSightingReturns, RunInv
  <2>2. CASE PurgeSightings
    <3>1. CASE excluded
      BY <2>2, <3>1 DEF PurgeSightings, NoSightingReturns
    <3>2. CASE ~ excluded
      <4>1. purged' = excluded
        BY <2>2 DEF PurgeSightings, RunPurge
      <4>2. QED
        BY <3>2, <4>1, Zenon DEF NoSightingReturns
    <3>3. QED
      BY <3>1, <3>2
  <2>3. CASE ~ (See \/ PurgeSightings)
    <3>1. purged' = purged /\ sightings' = sightings
      BY <2>3 DEF SightNext, Around, NextDay, Ingest, Prune, Start, Fail, PlanPayloads,
                  PlanDays, CountDays, Derive, RecordProvenance, Commit, runVars, sightVars
    <3>2. QED
      BY <3>1 DEF NoSightingReturns
  <2>4. QED
    BY <2>1, <2>2, <2>3
<1>7. ASSUME NEW s \in Shas PROVE prov'[s] = NoProv \/ IsEntry(s, prov'[s])
  <2>1. CASE RecordProvenance
    BY <2>1, RecordingWidens
  <2>2. CASE ~ RecordProvenance
    <3>1. prov' = prov
      BY <2>2 DEF SightNext, See, PlanPayloads, CountDays, Derive, PurgeSightings, sightVars
    <3>2. QED
      BY <3>1
  <2>3. QED
    BY <2>1, <2>2
<1>8. (\A s \in Shas : prov[s] = NoProv \/ IsEntry(s, prov[s]))'
  BY <1>7 DEF IsEntry, Of, At, DayOf, Shas, Transfers
<1>9. QED
  BY <1>1, <1>4, <1>5, <1>6, <1>8

(* The invariant holds in every behaviour of the stage.                    *)
THEOREM SightingsInvariant == SightSpec => []SightingsInv
BY SightingsInit, SightingsNext, PTL DEF SightSpec

(* The origin of a sample is that of one transfer, the first one in its    *)
(* provenance, whatever came when and was purged (record_provenance).      *)
THEOREM OriginIsOfOne == SightSpec => []OriginIsFirst
<1>1. SightingsInv => OriginIsFirst
  BY DEF SightingsInv, IsEntry, OriginIsFirst
<1>2. QED
  BY <1>1, SightingsInvariant, PTL

(* A sighting goes only with an address that is excluded.                  *)
THEOREM SightingsStay == SightSpec => SightingsKept
<1>1. [SightNext]_<<runVars, sightVars>> =>
        [\A e \in sightings \ sightings' : excluded /\ e \in Operator]_sightings
  BY DEF SightNext, See, Seen, PlanPayloads, CountDays, Derive, RecordProvenance,
         PurgeSightings, sightVars
<1>2. QED
  BY <1>1, PTL DEF SightSpec, SightingsKept

(* The table of provenance implements the ledger: each of its steps widens *)
(* an entry or leaves it (record_provenance).                              *)
THEOREM ProvenanceIsLedger == SightSpec => OnlyWidens
<1> DEFINE View(p) == IF p = NoProv THEN NoProv ELSE
             [first |-> p.first, last |-> p.last, origin |-> p.origin,
              counts |-> [hits |-> p.hits, sessions |-> p.sessions, ips |-> p.ips]]
           E == [s \in Shas |-> View(prov[s])]
<1>1. RunInit /\ SightInit => Provenance!LedgerInit
  BY DEF SightInit, Provenance!LedgerInit
<1>2. SightingsInv /\ SightingsInv' /\ [SightNext]_<<runVars, sightVars>>
        => [Provenance!LedgerNext]_E
  <2> SUFFICES ASSUME SightingsInv, [SightNext]_<<runVars, sightVars>>, E' # E
               PROVE  Provenance!LedgerNext
    OBVIOUS
  <2>1. RecordProvenance
    <3>1. prov' # prov
      OBVIOUS
    <3>2. QED
      BY <3>1 DEF SightNext, See, PlanPayloads, CountDays, Derive, PurgeSightings, sightVars
  <2>2. ASSUME NEW s \in Shas
        PROVE  View(prov[s])' = View(prov[s]) \/ Provenance!Widens(View(prov[s]), View(prov[s])')
    <3>1. CASE prov[s] = NoProv
      BY <3>1 DEF Provenance!Widens
    <3>2. CASE prov[s] # NoProv
      <4>1. /\ prov'[s] # NoProv
            /\ prov'[s].first <= prov[s].first /\ prov[s].last <= prov'[s].last
            /\ prov[s].hits <= prov'[s].hits /\ prov[s].sessions <= prov'[s].sessions
            /\ prov[s].ips <= prov'[s].ips
            /\ prov'[s].first = prov[s].first => prov'[s].origin = prov[s].origin
        BY <2>1, <3>2, RecordingWidens
      <4>2. View(prov[s])' = [first |-> prov'[s].first, last |-> prov'[s].last, origin |-> prov'[s].origin,
              counts |-> [hits |-> prov'[s].hits, sessions |-> prov'[s].sessions, ips |-> prov'[s].ips]]
        BY <4>1
      <4>3. View(prov[s]) = [first |-> prov[s].first, last |-> prov[s].last, origin |-> prov[s].origin,
              counts |-> [hits |-> prov[s].hits, sessions |-> prov[s].sessions, ips |-> prov[s].ips]]
        BY <3>2
      <4>4. View(prov[s])' # NoProv
        BY <4>2 DEF NoProv
      <4>5. QED
        BY <4>1, <4>2, <4>3, <4>4 DEF Provenance!Widens
    <3>3. QED
      BY <3>1, <3>2
  <2>3. QED
    BY <2>2 DEF Provenance!LedgerNext
<1>3. QED
  BY <1>1, <1>2, SightingsInvariant, PTL DEF SightSpec, OnlyWidens, Provenance!LedgerSpec

-----------------------------------------------------------------------------
(* Credentials: who is behind a tag.                                       *)

USE CredentialsAssumption

(* From the purge on neither the days nor the mapping that is derived from *)
(* them have an excluded address.                                          *)
TagsInv ==
  /\ RunInv
  /\ DOMAIN ipDay = Days
  /\ \A d \in Days : ipDay[d] \subseteq Logins
  /\ purged => /\ \A d \in Days : ipDay[d] \cap Operator = {}
               /\ \A ti \in tagIps : ti[2] \notin OperatorIps

(* A run of the worker over the credential tables.                         *)
LEMMA CredRunInv ==
  RunInv /\ [CredNext]_<<runVars, credVars>> => RunInv'
<1> SUFFICES ASSUME RunInv, [CredNext]_<<runVars, credVars>> PROVE RunInv'
  OBVIOUS
<1>0. {"entities", "pairs", "tags", "purge"} \subseteq Phases \ {"idle"}
  BY DEF Phases
<1>1. CASE Around
  BY <1>1, RunInvAround
<1>2. CASE PlanEntities \/ PlanCredentials
  BY <1>0, <1>2, RunInvPlan, RunInvCommit DEF PlanEntities, PlanCredentials
<1>3. CASE DerivePairs \/ DeriveTagIps
  BY <1>0, <1>3, RunInvCommit DEF DerivePairs, DeriveTagIps
<1>4. CASE PurgeCredentials
  BY <1>4, RunInvPurge DEF PurgeCredentials
<1>5. ASSUME NEW d \in Days, BuildEntities(d) \/ BuildPairs(d) PROVE RunInv'
  BY <1>5, RunInvTake DEF BuildEntities, BuildPairs
<1>6. CASE UNCHANGED <<runVars, credVars>>
  BY <1>6 DEF runVars, RunInv, RunTypeOK, RawTypeOK
<1>7. QED
  BY <1>1, <1>2, <1>3, <1>4, <1>5, <1>6 DEF CredNext

(* The tags at the start.                                                  *)
LEMMA TagsInit == RunInit /\ CredInit => TagsInv
<1> SUFFICES ASSUME RunInit, CredInit PROVE TagsInv
  OBVIOUS
<1>1. RunInv
  BY RunInvInit
<1>2. QED
  BY <1>1 DEF CredInit, TagsInv

(* Every step keeps the tags.                                              *)
LEMMA TagsNext == TagsInv /\ [CredNext]_<<runVars, credVars>> => TagsInv'
<1> SUFFICES ASSUME TagsInv, [CredNext]_<<runVars, credVars>> PROVE TagsInv'
  OBVIOUS
<1> USE DEF TagsInv
<1>1. RunInv'
  BY CredRunInv
<1>2. ASSUME NEW d \in Days, BuildEntities(d) PROVE TagsInv'
  <2>1. ipDay' = [ipDay EXCEPT ![d] = LoginsOn(d)] /\ tagIps' = tagIps /\ purged' = purged
    BY <1>2 DEF BuildEntities, TakeDay
  <2>2. LoginsOn(d) \subseteq Logins /\ (excluded => LoginsOn(d) \cap Operator = {})
    BY DEF LoginsOn, Visible
  <2>3. QED
    BY <1>1, <2>1, <2>2 DEF RunInv, OperatorIps
<1>3. CASE DeriveTagIps
  <2>1. ipDay' = ipDay /\ purged' = purged
    BY <1>3 DEF DeriveTagIps, Commit
  <2>2. ASSUME purged, NEW ti \in tagIps' PROVE ti[2] \notin OperatorIps
    <3>1. PICK e \in AllOf(ipDay) : ti \in pairs[LoginOf[e].pair].tags \X {LoginOf[e].ip}
      BY <1>3 DEF DeriveTagIps
    <3>2. e \in Logins \ Operator
      BY <2>2 DEF AllOf
    <3>3. ti[2] = LoginOf[e].ip
      BY <3>1
    <3>4. QED
      BY <3>2, <3>3 DEF OperatorIps
  <2>3. QED
    BY <1>1, <2>1, <2>2 DEF OperatorIps
<1>4. CASE PurgeCredentials
  <2>1. CASE excluded
    <3>1. ipDay' = [d \in Days |-> ipDay[d] \ Operator]
          /\ tagIps' = {ti \in tagIps : ti[2] \notin OperatorIps}
      BY <1>4, <2>1 DEF PurgeCredentials, Purged
    <3>2. QED
      BY <1>1, <3>1 DEF OperatorIps
  <2>2. CASE ~ excluded
    <3>1. purged' = excluded /\ ipDay' = ipDay
      BY <1>4, <2>2 DEF PurgeCredentials, Purged, RunPurge
    <3>2. ~ purged'
      BY <2>2, <3>1, Zenon
    <3>3. QED
      BY <1>1, <3>1, <3>2
  <2>3. QED
    BY <2>1, <2>2
<1>5. ASSUME UNCHANGED <<ipDay, tagIps, purged>> PROVE TagsInv'
  BY <1>1, <1>5 DEF OperatorIps
<1>6. CASE Around /\ UNCHANGED credVars
  BY <1>5, <1>6 DEF Around, NextDay, Ingest, Prune, Start, Fail, credVars
<1>7. CASE PlanEntities \/ PlanCredentials \/ DerivePairs
           \/ UNCHANGED <<runVars, credVars>>
  BY <1>5, <1>7 DEF PlanEntities, PlanCredentials, DerivePairs, PlanDays, Commit,
                    credVars, runVars
<1>8. ASSUME NEW d \in Days, BuildPairs(d) PROVE TagsInv'
  BY <1>5, <1>8 DEF BuildPairs, TakeDay
<1>9. QED
  BY <1>2, <1>3, <1>4, <1>6, <1>7, <1>8 DEF CredNext

-----------------------------------------------------------------------------
(* Credentials: what is counted of a pair for its lifetime.                *)

PeakOf(table, p) == Max({Cardinality(IpsOf(OfPair(table[d], p))) : d \in Days})
Distinct(byIp, byPair, p) ==
  Max({Cardinality(IpsOf(OfPair(AllOf(byIp), p))), PeakOf(byPair, p)})
Attempts(p) == Cardinality(OfPair(AllOf(pairDay), p))

DayTable(table) ==
  /\ DOMAIN table = Days
  /\ \A d \in Days : table[d] \subseteq {e \in came \cap Logins : DayOf(e) = d}

(* A day with rows that is built again is recent.                          *)
DayIsRecent(d) == d + RawRetain > today + (IF late THEN 0 ELSE 1)
DaysAreRecent ==
  /\ pc = "entities" => \A d \in days : ipDay[d] = {} \/ DayIsRecent(d)
  /\ pc = "pairs" => \A d \in days : pairDay[d] = {} \/ DayIsRecent(d)

(* As long as nobody is excluded, the lifetime of a pair is no more than   *)
(* the tables of the days say now.                                         *)
WithinTables ==
  \A p \in Pairs :
    /\ pairs[p].attempts \in Nat /\ pairs[p].ips \in Nat
    /\ ~ excluded => /\ pairs[p].attempts <= Attempts(p)
                     /\ pairs[p].ips <= Distinct(ipDay, pairDay, p)
                     /\ pairs[p].ips > 0 => OfPair(AllOf(pairDay), p) # {}

LifetimeInv ==
  /\ RunInv /\ RawInv
  /\ DayTable(ipDay) /\ DayTable(pairDay)
  /\ DaysAreRecent
  /\ WithinTables

(* More logins are no fewer, and come from no fewer addresses.             *)
LEMMA IpsGrow ==
  ASSUME NEW S, NEW T \in SUBSET Logins, S \subseteq T, IsFiniteSet(T)
  PROVE  /\ Cardinality(S) \in Nat /\ Cardinality(S) <= Cardinality(T)
         /\ Cardinality(T) \in Nat
         /\ Cardinality(IpsOf(S)) \in Nat /\ Cardinality(IpsOf(T)) \in Nat
         /\ Cardinality(IpsOf(S)) <= Cardinality(IpsOf(T))
<1> DEFINE ip == [e \in Logins |-> LoginOf[e].ip]
<1>1. IpsOf(T) = {ip[e] : e \in T} /\ IpsOf(S) \in SUBSET IpsOf(T)
  BY DEF IpsOf
<1>2. IsFiniteSet(IpsOf(T))
  <2> HIDE DEF ip
  <2> QED BY <1>1, ImageIsFinite
<1>3. S \in SUBSET T
  OBVIOUS
<1>4. QED
  BY <1>1, <1>2, <1>3, FS_Subset, FS_CardinalityType

(* The peak of a table is a number, and grows with the table.              *)
LEMMA PeakGrows ==
  ASSUME NEW t, NEW u, NEW p, NEW N \in Nat,
         \A d \in Days : /\ t[d] \subseteq u[d] /\ u[d] \subseteq Logins
                         /\ IsFiniteSet(u[d])
                         /\ Cardinality(IpsOf(OfPair(u[d], p))) <= N
  PROVE  /\ PeakOf(t, p) \in Nat /\ PeakOf(u, p) \in Nat
         /\ PeakOf(t, p) <= PeakOf(u, p) /\ PeakOf(u, p) <= N
<1> DEFINE ft(d) == Cardinality(IpsOf(OfPair(t[d], p)))
           fu(d) == Cardinality(IpsOf(OfPair(u[d], p)))
           A == {ft(d) : d \in Days}
           B == {fu(d) : d \in Days}
<1>1. ASSUME NEW d \in Days PROVE ft(d) \in Nat /\ fu(d) \in Nat /\ ft(d) <= fu(d) /\ fu(d) <= N
  <2>1. OfPair(t[d], p) \subseteq OfPair(u[d], p) /\ OfPair(u[d], p) \in SUBSET u[d]
        /\ OfPair(u[d], p) \in SUBSET Logins
    BY DEF OfPair
  <2>2. IsFiniteSet(OfPair(u[d], p))
    BY <2>1, FS_Subset
  <2>3. QED
    BY <2>1, <2>2, IpsGrow
<1>2. 1 \in Days
  BY DEF Days
<1> HIDE DEF ft, fu
<1>3. /\ A \in SUBSET Nat /\ A # {} /\ \A x \in A : x <= N
      /\ B \in SUBSET Nat /\ B # {} /\ \A x \in B : x <= N
  BY <1>1, <1>2
<1>4. Max(A) \in A /\ Max(B) \in B /\ \A x \in B : x <= Max(B)
  <2> HIDE DEF A, B
  <2> QED BY <1>3, MaxOfNat
<1>5. PICK d \in Days : Max(A) = ft(d)
  BY <1>4
<1>6. fu(d) <= Max(B)
  BY <1>4
<1>7. Max(A) <= Max(B) /\ Max(A) \in Nat /\ Max(B) \in Nat /\ Max(B) <= N
  BY <1>1, <1>3, <1>4, <1>5, <1>6
<1>8. QED
  BY <1>7 DEF PeakOf, ft, fu

(* The distinct addresses of a pair are counted: never more than came, and *)
(* the more the tables hold.                                               *)
LEMMA DistinctGrows ==
  ASSUME NEW C \in SUBSET Logins, IsFiniteSet(C),
         NEW t1, NEW u1, NEW t2, NEW u2, NEW p,
         \A d \in Days : /\ t1[d] \subseteq u1[d] /\ u1[d] \subseteq C
                         /\ t2[d] \subseteq u2[d] /\ u2[d] \subseteq C
  PROVE  /\ Distinct(t1, t2, p) \in Nat /\ Distinct(u1, u2, p) \in Nat
         /\ Distinct(t1, t2, p) <= Distinct(u1, u2, p)
         /\ Distinct(u1, u2, p) <= Cardinality(IpsOf(OfPair(C, p)))
         /\ Cardinality(IpsOf(OfPair(C, p))) \in Nat
<1> DEFINE N == Cardinality(IpsOf(OfPair(C, p)))
           a == Cardinality(IpsOf(OfPair(AllOf(t1), p)))
           b == Cardinality(IpsOf(OfPair(AllOf(u1), p)))
<1>1. OfPair(C, p) \in SUBSET Logins /\ IsFiniteSet(OfPair(C, p))
  <2>1. OfPair(C, p) \in SUBSET C
    BY DEF OfPair
  <2>2. QED
    BY <2>1, FS_Subset
<1>2. /\ OfPair(AllOf(t1), p) \subseteq OfPair(AllOf(u1), p)
      /\ OfPair(AllOf(u1), p) \subseteq OfPair(C, p)
  BY DEF OfPair, AllOf
<1>3. OfPair(AllOf(u1), p) \in SUBSET Logins /\ IsFiniteSet(OfPair(AllOf(u1), p))
  BY <1>1, <1>2, FS_Subset
<1>4. a \in Nat /\ b \in Nat /\ a <= b /\ b <= N /\ N \in Nat
  BY <1>1, <1>2, <1>3, IpsGrow
<1>5. ASSUME NEW d \in Days
      PROVE  /\ t2[d] \subseteq u2[d] /\ u2[d] \subseteq Logins /\ IsFiniteSet(u2[d])
             /\ Cardinality(IpsOf(OfPair(u2[d], p))) <= N
  <2>1. u2[d] \in SUBSET C
    OBVIOUS
  <2>2. OfPair(u2[d], p) \subseteq OfPair(C, p)
    BY <2>1 DEF OfPair
  <2>3. QED
    BY <2>1, <2>2, <1>1, IpsGrow, FS_Subset
<1> HIDE DEF N, a, b
<1>6. /\ PeakOf(t2, p) \in Nat /\ PeakOf(u2, p) \in Nat
      /\ PeakOf(t2, p) <= PeakOf(u2, p) /\ PeakOf(u2, p) <= N
  BY <1>4, <1>5, PeakGrows
<1>7. /\ Max({a, PeakOf(t2, p)}) = (IF a >= PeakOf(t2, p) THEN a ELSE PeakOf(t2, p))
      /\ Max({b, PeakOf(u2, p)}) = (IF b >= PeakOf(u2, p) THEN b ELSE PeakOf(u2, p))
  BY <1>4, <1>6, MaxOfTwo
<1>8. /\ Distinct(t1, t2, p) = Max({a, PeakOf(t2, p)})
      /\ Distinct(u1, u2, p) = Max({b, PeakOf(u2, p)})
  BY DEF Distinct, a, b
<1>9. QED
  BY <1>4, <1>6, <1>7, <1>8 DEF N

(* What the worker has of a day that it builds again is still there.       *)
LEMMA RebuiltLogins ==
  ASSUME LifetimeInv, NEW table, DayTable(table), NEW d \in Days,
         table[d] = {} \/ DayIsRecent(d), ~ excluded
  PROVE  table[d] \subseteq LoginsOn(d)
<1>1. SUFFICES ASSUME NEW e \in table[d] PROVE e \in LoginsOn(d)
  OBVIOUS
<1>2. e \in came \cap Logins /\ DayOf(e) = d
  BY DEF DayTable
<1>3. e \in Timed
  BY <1>2, EventsAreTimed DEF Timed, Days
<1>4. d + RawRetain > today
  BY <1>1 DEF DayIsRecent, LifetimeInv, RawInv, RawTypeOK, Days
<1>5. e \in raw
  BY <1>2, <1>3, <1>4, YoungIsThere DEF LifetimeInv
<1>6. QED
  BY <1>2, <1>5 DEF LoginsOn, Visible

(* As long as nobody is excluded the tables of the days only grow.         *)
LEMMA TablesGrow ==
  ASSUME LifetimeInv, [CredNext]_<<runVars, credVars>>
  PROVE  /\ came \subseteq came'
         /\ DayTable(ipDay)' /\ DayTable(pairDay)'
         /\ ~ excluded' => \A d \in Days : ipDay[d] \subseteq ipDay'[d] /\ pairDay[d] \subseteq pairDay'[d]
<1>0. Visible \subseteq came /\ (excluded \in BOOLEAN)
  BY DEF Visible, LifetimeInv, RawInv, RawTypeOK
<1>1. came \subseteq came'
  BY DEF CredNext, Around, NextDay, Midnight, Ingest, Arrive, Prune, PruneBatch, Start, Fail,
         PlanEntities, PlanCredentials, DerivePairs, DeriveTagIps, PurgeCredentials, PlanDays,
         Commit, RunPurge, BuildEntities, BuildPairs, TakeDay, rawVars, runVars
<1>2. CASE UNCHANGED <<ipDay, pairDay>>
  BY <1>1, <1>2 DEF LifetimeInv, DayTable, Logins, DayOf
<1>3. ASSUME NEW c \in Days, BuildEntities(c) \/ BuildPairs(c)
      PROVE  /\ DayTable(ipDay)' /\ DayTable(pairDay)'
             /\ ~ excluded' => \A d \in Days : ipDay[d] \subseteq ipDay'[d] /\ pairDay[d] \subseteq pairDay'[d]
  <2>1. /\ \/ ipDay' = [ipDay EXCEPT ![c] = LoginsOn(c)] /\ pairDay' = pairDay
              /\ TakeDay("entities", c)
           \/ pairDay' = [pairDay EXCEPT ![c] = LoginsOn(c)] /\ ipDay' = ipDay
              /\ TakeDay("pairs", c)
        /\ excluded' = excluded /\ came' = came
    BY <1>3 DEF BuildEntities, BuildPairs, TakeDay, rawVars
  <2>2. LoginsOn(c) \subseteq {e \in came \cap Logins : DayOf(e) = c}
    BY <1>0 DEF LoginsOn
  <2>3. DayTable(ipDay)' /\ DayTable(pairDay)'
    BY <2>1, <2>2 DEF LifetimeInv, DayTable, Logins, DayOf
  <2>4. ASSUME ~ excluded', NEW d \in Days
        PROVE  ipDay[d] \subseteq ipDay'[d] /\ pairDay[d] \subseteq pairDay'[d]
    <3>0. ~ excluded
      BY <2>1, <2>4, Zenon
    <3>1. CASE c # d
      BY <2>1, <3>1 DEF LifetimeInv, DayTable
    <3>2. CASE c = d /\ TakeDay("entities", c) /\ ipDay' = [ipDay EXCEPT ![c] = LoginsOn(c)] /\ pairDay' = pairDay
      <4>1. c \in days /\ pc = "entities"
        BY <3>2, TakenIsDue DEF LifetimeInv, RunInv
      <4>2. ipDay[c] \subseteq LoginsOn(c)
        BY <4>1, <3>0, RebuiltLogins DEF LifetimeInv, DaysAreRecent
      <4>3. QED
        BY <3>2, <4>2 DEF LifetimeInv, DayTable
    <3>3. CASE c = d /\ TakeDay("pairs", c) /\ pairDay' = [pairDay EXCEPT ![c] = LoginsOn(c)] /\ ipDay' = ipDay
      <4>1. c \in days /\ pc = "pairs"
        BY <3>3, TakenIsDue DEF LifetimeInv, RunInv
      <4>2. pairDay[c] \subseteq LoginsOn(c)
        BY <4>1, <3>0, RebuiltLogins DEF LifetimeInv, DaysAreRecent
      <4>3. QED
        BY <3>3, <4>2 DEF LifetimeInv, DayTable
    <3>4. QED
      BY <2>1, <3>1, <3>2, <3>3
  <2>5. QED
    BY <2>3, <2>4
<1>4. CASE PurgeCredentials
  <2>1. pairDay' = pairDay /\ excluded' = excluded /\ came' = came
        /\ (IF excluded THEN ipDay' = [d \in Days |-> ipDay[d] \ Operator] ELSE ipDay' = ipDay)
    BY <1>4 DEF PurgeCredentials, Purged, RunPurge, rawVars
  <2>2. DayTable(ipDay)' /\ DayTable(pairDay)'
    <3>1. DOMAIN ipDay' = Days /\ \A d \in Days : ipDay'[d] \subseteq ipDay[d]
      BY <2>1 DEF LifetimeInv, DayTable
    <3>2. QED
      BY <2>1, <3>1 DEF LifetimeInv, DayTable, Logins, DayOf
  <2>3. ~ excluded' => ipDay' = ipDay
    BY <2>1, <1>0
  <2>4. QED
    BY <2>1, <2>2, <2>3
<1>5. CASE ~ (PurgeCredentials \/ \E c \in Days : BuildEntities(c) \/ BuildPairs(c))
  <2>1. UNCHANGED <<ipDay, pairDay>>
    BY <1>5 DEF CredNext, PlanEntities, PlanCredentials, DerivePairs, DeriveTagIps, credVars
  <2>2. QED
    BY <2>1, <1>2, <1>1
<1>6. QED
  BY <1>1, <1>3, <1>4, <1>5

(* The planned days are recent, and stay so while they are built.          *)
LEMMA DaysStayRecent ==
  ASSUME Active, WindowIsWide, LifetimeInv, [CredNext]_<<runVars, credVars>>
  PROVE  DaysAreRecent'
<1>0. today \in Nat /\ late \in BOOLEAN /\ RawTypeOK /\ days \subseteq Days /\ excluded \in BOOLEAN
      /\ \A d \in Days : d \in Nat
  BY DEF LifetimeInv, RunInv, RunTypeOK, RawTypeOK, Days
<1>1. CASE NextDay /\ UNCHANGED credVars
  <2>1. ~ late /\ today' = today + 1 /\ pc' = pc /\ days' = days /\ late' = (pc # "idle")
        /\ ipDay' = ipDay /\ pairDay' = pairDay
    BY <1>1 DEF NextDay, Midnight, credVars
  <2>2. CASE pc \in {"entities", "pairs"}
    <3>1. late' = TRUE
      BY <2>1, <2>2
    <3>2. \A d \in Days : DayIsRecent(d) => DayIsRecent(d)'
      BY <2>1, <3>1, <1>0 DEF DayIsRecent
    <3>3. QED
      BY <2>1, <3>2, <1>0 DEF LifetimeInv, DaysAreRecent
  <2>3. CASE pc \notin {"entities", "pairs"}
    BY <2>1, <2>3, Zenon DEF DaysAreRecent
  <2>4. QED
    BY <2>2, <2>3
<1>2. CASE (Ingest \/ Prune) /\ UNCHANGED credVars
  BY <1>2 DEF Ingest, Arrive, Prune, PruneBatch, credVars, LifetimeInv, DaysAreRecent,
              DayIsRecent
<1>3. CASE (Start \/ Fail) /\ UNCHANGED credVars
  BY <1>3 DEF Start, Fail, EndRun, DaysAreRecent
<1>4. ASSUME NEW table, NEW from, NEW to, PlanDays(from, to, HaveRows(table)),
             NEW d \in days'
      PROVE  table[d] = {} \/ DayIsRecent(d)'
  <2>1. UNCHANGED rawVars /\ late' = late /\ DatesParse /\ d \in DaysToBuild(HaveRows(table), FALSE)
    BY <1>4 DEF PlanDays
  <2>2. d \in Days
    BY <2>1, <1>0, AllDaysAre, DaysToBuildAre
  <2>3. CASE table[d] # {}
    <3>1. d \in HaveRows(table)
      BY <2>2, <2>3 DEF HaveRows
    <3>2. d + RawRetain > today + 1
      BY <2>1, <3>1, RebuiltIsRecent DEF LifetimeInv
    <3>3. QED
      BY <2>1, <2>2, <3>2, <1>0 DEF DayIsRecent, rawVars
  <2>4. QED
    BY <2>3
<1>5. CASE PlanEntities
  <2>1. CASE PlanDays("plan", "entities", HaveRows(ipDay))
    <3>1. pc' = "entities" /\ ipDay' = ipDay
      BY <1>5, <2>1 DEF PlanEntities, PlanDays, credVars
    <3>2. QED
      BY <2>1, <3>1, <1>4 DEF DaysAreRecent
  <2>2. CASE Commit("plan", "entities")
    BY <2>2 DEF Commit, DaysAreRecent
  <2>3. QED
    BY <1>5, <2>1, <2>2 DEF PlanEntities
<1>6. CASE PlanCredentials
  <2>1. pc' = "pairs" /\ pairDay' = pairDay /\ PlanDays("entities", "pairs", HaveRows(pairDay))
    BY <1>6 DEF PlanCredentials, PlanDays, credVars
  <2>2. QED
    BY <2>1, <1>4 DEF DaysAreRecent
<1>7. ASSUME NEW c \in Days, BuildEntities(c) \/ BuildPairs(c) PROVE DaysAreRecent'
  <2>1. /\ UNCHANGED <<today, pc, late>> /\ days' = days \ {c}
        /\ \A d \in Days \ {c} : ipDay'[d] = ipDay[d] /\ pairDay'[d] = pairDay[d]
    BY <1>7 DEF BuildEntities, BuildPairs, TakeDay, rawVars, LifetimeInv, DayTable
  <2>2. QED
    BY <2>1, <1>0 DEF LifetimeInv, DaysAreRecent, DayIsRecent
<1>8. CASE DerivePairs \/ DeriveTagIps \/ PurgeCredentials
  BY <1>8 DEF DerivePairs, DeriveTagIps, PurgeCredentials, Commit, RunPurge, EndRun,
              DaysAreRecent
<1>9. CASE UNCHANGED <<runVars, credVars>>
  BY <1>9 DEF runVars, credVars, LifetimeInv, DaysAreRecent, DayIsRecent
<1>10. QED
  BY <1>1, <1>2, <1>3, <1>5, <1>6, <1>7, <1>8, <1>9 DEF CredNext, Around

(* What is derived of a pair is what the tables hold of it, and no less    *)
(* than was.                                                               *)
LEMMA LifetimeStep ==
  ASSUME LifetimeInv, RunInv', [CredNext]_<<runVars, credVars>>, NEW p \in Pairs
  PROVE  /\ pairs'[p].attempts \in Nat /\ pairs'[p].ips \in Nat
         /\ ~ excluded' => /\ pairs'[p].attempts <= Attempts(p)'
                           /\ pairs'[p].ips <= Distinct(ipDay', pairDay', p)
                           /\ pairs'[p].ips > 0 => OfPair(AllOf(pairDay'), p) # {}
         /\ pairs' # pairs =>
              /\ pairs'[p].ips <= Cardinality(IpsOf(OfPair(came' \cap Logins, p)))
              /\ ~ excluded' => /\ pairs[p].attempts <= pairs'[p].attempts
                                /\ pairs[p].ips <= pairs'[p].ips
<1> DEFINE C == came' \cap Logins
<1>1. /\ came \subseteq came' /\ DayTable(ipDay)' /\ DayTable(pairDay)'
      /\ ~ excluded' => \A d \in Days : ipDay[d] \subseteq ipDay'[d] /\ pairDay[d] \subseteq pairDay'[d]
  BY TablesGrow
<1>2. C \in SUBSET Logins /\ IsFiniteSet(C)
  BY FS_Subset DEF RunInv
<1>3. \A d \in Days : /\ ipDay[d] \subseteq C /\ pairDay[d] \subseteq C
                      /\ ipDay'[d] \subseteq C /\ pairDay'[d] \subseteq C
  BY <1>1 DEF LifetimeInv, DayTable, Logins
<1>4. excluded => excluded'
  BY DEF CredNext, Around, NextDay, Midnight, Ingest, Arrive, Prune, PruneBatch, Start, Fail,
         PlanEntities, PlanCredentials, DerivePairs, DeriveTagIps, PurgeCredentials, PlanDays,
         Commit, RunPurge, BuildEntities, BuildPairs, TakeDay, rawVars, runVars
<1> HIDE DEF C
<1>5. /\ Distinct(ipDay, pairDay, p) \in Nat /\ Distinct(ipDay', pairDay', p) \in Nat
      /\ ~ excluded' => Distinct(ipDay, pairDay, p) <= Distinct(ipDay', pairDay', p)
      /\ Distinct(ipDay', pairDay', p) <= Cardinality(IpsOf(OfPair(C, p)))
      /\ Cardinality(IpsOf(OfPair(C, p))) \in Nat
  <2>1. CASE excluded'
    BY <2>1, <1>2, <1>3, DistinctGrows
  <2>2. CASE ~ excluded'
    BY <2>2, <1>1, <1>2, <1>3, DistinctGrows
  <2>3. QED
    BY <2>1, <2>2
<1> DEFINE S == OfPair(AllOf(pairDay), p)
           T == OfPair(AllOf(pairDay'), p)
<1>6. T \in SUBSET C /\ S \in SUBSET C /\ (~ excluded' => S \subseteq T)
  BY <1>1, <1>3 DEF OfPair, AllOf
<1>7. /\ IsFiniteSet(S) /\ IsFiniteSet(T) /\ S \in SUBSET Logins /\ T \in SUBSET Logins
  BY <1>2, <1>6, FS_Subset
<1>8. /\ Cardinality(S) \in Nat /\ Cardinality(T) \in Nat
      /\ ~ excluded' => Cardinality(S) <= Cardinality(T)
  BY <1>6, <1>7, FS_CardinalityType, IpsGrow
<1>9. Attempts(p) = Cardinality(S) /\ Attempts(p)' = Cardinality(T)
  BY DEF Attempts, OfPair, AllOf
<1>10. /\ pairs[p].attempts \in Nat /\ pairs[p].ips \in Nat
       /\ ~ excluded => /\ pairs[p].attempts <= Cardinality(S)
                        /\ pairs[p].ips <= Distinct(ipDay, pairDay, p)
                        /\ pairs[p].ips > 0 => S # {}
  BY <1>9 DEF LifetimeInv, WithinTables
<1>11. CASE pairs' = pairs
  <2> HIDE DEF S, T
  <2>1. QED
    BY <1>4, <1>5, <1>6, <1>8, <1>9, <1>10, <1>11 DEF T
<1>12. CASE pairs' # pairs
  <2>1. DerivePairs
    BY <1>12 DEF CredNext, Around, PlanEntities, PlanCredentials, DeriveTagIps,
                 PurgeCredentials, BuildEntities, BuildPairs, credVars
  <2>2. PICK rules \in BOOLEAN :
          pairs' = [q \in Pairs |-> IF OfPair(AllOf(pairDay), q) = {}
                                      THEN NoPair ELSE Lifetime(q, rules)]
    BY <2>1 DEF DerivePairs
  <2>3. ipDay' = ipDay /\ pairDay' = pairDay
    BY <2>1 DEF DerivePairs
  <2>4. S = T
    BY <2>3
  <2>5. CASE S = {}
    <3>1. pairs'[p].attempts = 0 /\ pairs'[p].ips = 0
      BY <2>2, <2>5 DEF NoPair
    <3>2. Cardinality(S) = 0
      BY <2>5, FS_EmptySet
    <3> HIDE DEF S, T
    <3>3. QED
      BY <1>4, <1>5, <1>8, <1>9, <1>10, <2>4, <2>5, <3>1, <3>2 DEF C
  <2>6. CASE S # {}
    <3>1. pairs'[p] = Lifetime(p, rules)
      BY <2>2, <2>6
    <3>2. /\ pairs'[p].attempts = Cardinality(S)
          /\ pairs'[p].ips = Distinct(ipDay, pairDay, p)
      BY <3>1 DEF Lifetime, Distinct, PeakOf, PeakIps
    <3> HIDE DEF S
    <3>3. QED
      BY <1>4, <1>5, <1>8, <1>9, <1>10, <2>3, <2>4, <2>6, <3>2 DEF C, T
  <2>7. QED
    BY <2>5, <2>6
<1>13. QED
  BY <1>11, <1>12

(* The lifetime counts at the start.                                       *)
LEMMA LifetimeInit == RunInit /\ CredInit => LifetimeInv
<1> SUFFICES ASSUME RunInit, CredInit PROVE LifetimeInv
  OBVIOUS
<1>1. RunInv /\ RawInv
  BY RunInvInit
<1>2. /\ ipDay = [d \in Days |-> {}] /\ pairDay = [d \in Days |-> {}]
      /\ \A p \in Pairs : pairs[p].attempts = 0 /\ pairs[p].ips = 0
      /\ pc = "idle"
  BY DEF CredInit, NoPair, RunInit
<1>3. DayTable(ipDay) /\ DayTable(pairDay) /\ DaysAreRecent
  BY <1>2 DEF DayTable, DaysAreRecent
<1>4. ASSUME NEW p \in Pairs
      PROVE  Attempts(p) \in Nat /\ Distinct(ipDay, pairDay, p) \in Nat
  <2>1. Distinct(ipDay, pairDay, p) \in Nat
    <3>1. {} \in SUBSET Logins /\ IsFiniteSet({})
      BY FS_EmptySet
    <3>2. \A d \in Days : ipDay[d] \subseteq {} /\ pairDay[d] \subseteq {}
      BY <1>2
    <3>3. QED
      BY <3>1, <3>2, DistinctGrows
  <2>2. OfPair(AllOf(pairDay), p) = {}
    BY <1>2 DEF OfPair, AllOf
  <2>3. QED
    BY <2>1, <2>2, FS_EmptySet DEF Attempts
<1>5. ASSUME NEW p \in Pairs
      PROVE  /\ pairs[p].attempts \in Nat /\ pairs[p].ips \in Nat
             /\ pairs[p].attempts <= Attempts(p)
             /\ pairs[p].ips <= Distinct(ipDay, pairDay, p)
             /\ ~ (pairs[p].ips > 0)
  <2> DEFINE a == Attempts(p)
             n == Distinct(ipDay, pairDay, p)
  <2>1. a \in Nat /\ n \in Nat
    BY <1>4
  <2>2. pairs[p].attempts = 0 /\ pairs[p].ips = 0
    BY <1>2
  <2> HIDE DEF a, n
  <2>3. 0 <= a /\ 0 <= n
    BY <2>1
  <2>4. QED
    BY <2>2, <2>3 DEF a, n
<1>6. WithinTables
  BY <1>5 DEF WithinTables
<1>7. QED
  BY <1>1, <1>3, <1>6 DEF LifetimeInv

(* Every step keeps the lifetime counts.                                   *)
LEMMA LifetimeNext ==
  ASSUME KeptFor
  PROVE  LifetimeInv /\ [CredNext]_<<runVars, credVars>> => LifetimeInv'
<1> SUFFICES ASSUME LifetimeInv, [CredNext]_<<runVars, credVars>> PROVE LifetimeInv'
  OBVIOUS
<1> USE DEF KeptFor
<1>1. RunInv'
  BY CredRunInv DEF LifetimeInv
<1>2. RawInv'
  <2>1. CASE Around
    BY <2>1, RawInvAround DEF LifetimeInv
  <2>2. CASE ~ Around
    <3>1. UNCHANGED rawVars
      BY <2>2 DEF CredNext, PlanEntities, PlanCredentials, DerivePairs, DeriveTagIps,
                  PurgeCredentials, PlanDays, Commit, RunPurge, BuildEntities, BuildPairs,
                  TakeDay, runVars, rawVars
    <3>2. QED
      BY <3>1, RawInvRun DEF LifetimeInv
  <2>3. QED
    BY <2>1, <2>2
<1>3. DayTable(ipDay)' /\ DayTable(pairDay)'
  BY TablesGrow
<1>4. DaysAreRecent'
  BY DaysStayRecent
<1>5. WithinTables'
  <2>1. ASSUME NEW p \in Pairs
        PROVE  /\ pairs'[p].attempts \in Nat /\ pairs'[p].ips \in Nat
               /\ ~ excluded' => /\ pairs'[p].attempts <= Attempts(p)'
                                 /\ pairs'[p].ips <= Distinct(ipDay', pairDay', p)
                                 /\ pairs'[p].ips > 0 => OfPair(AllOf(pairDay'), p) # {}
    BY <1>1, LifetimeStep
  <2>2. QED
    BY <2>1 DEF WithinTables, Distinct, PeakOf, OfPair, AllOf, IpsOf, Days, Pairs, Logins
<1>6. QED
  BY <1>1, <1>2, <1>3, <1>4, <1>5 DEF LifetimeInv

(* What is counted of a pair for its lifetime never drops as long as       *)
(* nobody is excluded, though raw_events forgets it, and never exceeds     *)
(* what came: for any retention that is wide enough (build_credentials).   *)
THEOREM LifetimeIsKept ==
  ASSUME KeptFor PROVE CredSpec => LifetimeIsFloor
<1> DEFINE A == \A p \in Pairs :
              /\ pairs'[p].ips <= Cardinality(IpsOf(OfPair(came' \cap Logins, p)))
              /\ excluded' \/ (/\ pairs[p].attempts <= pairs'[p].attempts
                               /\ pairs[p].ips <= pairs'[p].ips)
<1>1. LifetimeInv /\ LifetimeInv' /\ [CredNext]_<<runVars, credVars>> => [A]_pairs
  <2> SUFFICES ASSUME LifetimeInv, LifetimeInv', [CredNext]_<<runVars, credVars>>,
                      pairs' # pairs
               PROVE  A
    OBVIOUS
  <2>1. RunInv'
    BY DEF LifetimeInv
  <2>2. QED
    BY <2>1, LifetimeStep
<1>2. QED
  BY <1>1, LifetimeInit, LifetimeNext, PTL DEF CredSpec, LifetimeIsFloor

-----------------------------------------------------------------------------
(* The tables side by side: one stage moves in a behaviour, the others are *)
(* as they were at the beginning.                                          *)
PurgeInv ==
  /\ component = "sightings" => SightingsInv
  /\ component # "sightings" => sightings = {}
  /\ component = "credentials" => TagsInv
  /\ component # "credentials" => tagIps = {}

(* The purge of an excluded address is final in the tables that are        *)
(* derived from raw_events in each run: neither a sighting nor an address  *)
(* behind a tag comes back (purge_excluded.sql, v_events).                 *)
THEOREM PurgedStaysAway == TablesSpec => []PurgeIsFinal
<1>1. TablesInit => PurgeInv
  BY SightingsInit, TagsInit DEF TablesInit, Init, PurgeInv, SightInit, CredInit
<1>2. PurgeInv /\ [TablesNext]_<<component, runVars, tableVars>> => PurgeInv'
  <2> SUFFICES ASSUME PurgeInv, [TablesNext]_<<component, runVars, tableVars>>
               PROVE  PurgeInv'
    OBVIOUS
  <2>1. component' = component
    BY DEF TablesNext
  <2>2. CASE component = "sightings"
    <3>1. [SightNext]_<<runVars, sightVars>>
      BY <2>2 DEF TablesNext, tableVars
    <3>2. tagIps' = tagIps
      BY <2>2 DEF TablesNext, tableVars, credVars
    <3>3. QED
      BY <2>1, <2>2, <3>1, <3>2, SightingsNext DEF PurgeInv
  <2>3. CASE component = "credentials"
    <3>1. [CredNext]_<<runVars, credVars>>
      BY <2>3 DEF TablesNext, tableVars
    <3>2. sightings' = sightings
      BY <2>3 DEF TablesNext, tableVars, sightVars
    <3>3. QED
      BY <2>1, <2>3, <3>1, <3>2, TagsNext DEF PurgeInv
  <2>4. CASE component \notin {"sightings", "credentials"}
    <3>1. sightings' = sightings /\ tagIps' = tagIps
      BY <2>4 DEF TablesNext, tableVars, sightVars, credVars
    <3>2. QED
      BY <2>1, <2>4, <3>1 DEF PurgeInv
  <2>5. QED
    BY <2>2, <2>3, <2>4
<1>3. PurgeInv => PurgeIsFinal
  BY DEF PurgeInv, PurgeIsFinal, SightingsInv, TagsInv, NoSightingReturns, NoTaggedOperator
<1>4. QED
  BY <1>1, <1>2, <1>3, PTL DEF TablesSpec
-----------------------------------------------------------------------------
(* Stage history.  A day keeps the rows its stages were made of.  A session *)
(* that has a row keeps one, so what a day was made of is behind the       *)
(* lifetime stage, though the row may since be of another day.             *)

(* What a row says without the verdict.                                    *)
Unmarked(stage) == Min({3, stage})

StageTypes ==
  /\ pushed \subseteq Files
  /\ lifetime \in [Ips -> -1..4]
  /\ daily \in [Days -> [Ips -> -1..4]]
  /\ DOMAIN counted = Days
  /\ fresh \in BOOLEAN

DayIsCounted ==
  \A d \in Days, a \in Ips : Unmarked(daily[d][a]) = Depth(RowsBy(counted[d], a))

(* What was counted has still a row, if it is not the operator's; and that *)
(* of a session of one day says no less.                                   *)
CountedAreRows ==
  \A d \in Days : \A r \in counted[d] :
    /\ r.session \in Sessions
    /\ r.session \notin OperatorSessions => row[r.session] # NoRow
    /\ r.session \in OneDaySessions => r.ev \subseteq row[r.session].ev

LifetimeIsReached ==
  fresh \/ pc = "derive" => \A a \in Ips : lifetime[a] = Reached(a)

StageInv ==
  /\ SessionInv
  /\ StageTypes /\ DayIsCounted /\ CountedAreRows
  /\ LifetimeIsReached /\ VerdictReachesAllDays
  /\ pc \in {"build", "seen", "derive"} => ~ fresh

(* What the depth of sessions and the rows made of it are.                 *)
LEMMA UnmarkedIs ==
  ASSUME NEW s \in -1..4
  PROVE  Unmarked(s) = (IF s = 4 THEN 3 ELSE s)
<1>1. s \in Int /\ 3 \in Int
  OBVIOUS
<1>2. Unmarked(s) = (IF 3 <= s THEN 3 ELSE s)
  BY <1>1, MinOfTwo DEF Unmarked
<1>3. QED
  BY <1>2

(* What a depth says of the rows it is taken of.                           *)
LEMMA DepthIs ==
  ASSUME NEW S
  PROVE  /\ Depth(S) \in -1..3
         /\ Depth(S) = -1 <=> S = {}
         /\ Depth(S) = 3 <=> Did(S, "file") # {}
         /\ Depth(S) = 2 => Did(S, "shell") # {}
         /\ Depth(S) = 1 => Did(S, "authed") # {}
<1>1. Did(S, "file") # {} => S # {}
  BY DEF Did
<1>2. QED
  BY <1>1 DEF Depth

(* More was done, so the depth is no less.                                 *)
LEMMA DepthGrows ==
  ASSUME NEW S, NEW T, \A r \in S : \E q \in T : r.ev \subseteq q.ev
  PROVE  Depth(S) <= Depth(T)
<1>1. /\ S # {} => T # {}
      /\ \A deed \in Deeds : Did(S, deed) # {} => Did(T, deed) # {}
  BY DEF Did
<1>2. "file" \in Deeds /\ "shell" \in Deeds /\ "authed" \in Deeds
  BY DEF Deeds
<1> DEFINE F(X) == Did(X, "file") # {}
           H(X) == Did(X, "shell") # {}
           U(X) == Did(X, "authed") # {}
<1>3. (F(S) => F(T)) /\ (H(S) => H(T)) /\ (U(S) => U(T))
  BY <1>1, <1>2
<1>4. \A X : Depth(X) = IF X = {} THEN -1 ELSE IF F(X) THEN 3 ELSE IF H(X) THEN 2
                        ELSE IF U(X) THEN 1 ELSE 0
  BY DEF Depth
<1> HIDE DEF F, H, U
<1>5. QED
  BY <1>1, <1>3, <1>4

(* The lifetime row of an address.                                         *)
LEMMA ReachedIs ==
  ASSUME NEW a \in Ips
  PROVE  /\ Reached(a) \in -1..4
         /\ Depth(RowsBy(Rows, a)) <= Reached(a)
         /\ Reached(a) = -1 <=> RowsBy(Rows, a) = {}
         /\ RowsBy(Rows, a) # {} /\ a \in Bad => Reached(a) = 4
<1>1. /\ Depth(RowsBy(Rows, a)) \in -1..3
      /\ Depth(RowsBy(Rows, a)) = -1 <=> RowsBy(Rows, a) = {}
  BY DepthIs
<1>2. QED
  BY <1>1 DEF Reached

(* The sessions of an address that is purged, or is not, are the           *)
(* operator's, or are not.                                                 *)
LEMMA HiddenAre ==
  ASSUME NEW s \in Sessions
  PROVE  IpOf[s] \in HiddenIps <=> s \in OperatorSessions
<1>1. ASSUME s \in OperatorSessions PROVE IpOf[s] \in HiddenIps
  BY <1>1 DEF OperatorSessions, HiddenIps
<1>2. ASSUME IpOf[s] \in HiddenIps PROVE s \in OperatorSessions
  <2>1. PICK f \in Operator : IpOf[s] = IpOf[SessionOf[f]]
    BY <1>2 DEF HiddenIps
  <2>2. QED
    BY <2>1, StageAssumption DEF OperatorSessions
<1>3. QED
  BY <1>1, <1>2

(* What was counted of an address that is not purged is behind its rows.   *)
LEMMA CountedIsBehind ==
  ASSUME CountedAreRows, NEW d \in Days, NEW a \in Ips, NEW r \in RowsBy(counted[d], a)
  PROVE  /\ a \notin HiddenIps => RowsBy(Rows, a) # {}
         /\ a \in OneDayIps => \E q \in RowsBy(Rows, a) : r.ev \subseteq q.ev
<1> DEFINE s == r.session
           q == [session |-> s, day |-> row[s].day, ev |-> row[s].ev]
<1>1. r \in counted[d] /\ IpOf[s] = a /\ s \in Sessions
  BY DEF RowsBy, CountedAreRows
<1>2. s \notin OperatorSessions => q \in RowsBy(Rows, a)
  BY <1>1 DEF RowsBy, Rows, CountedAreRows
<1>3. a \notin HiddenIps => s \notin OperatorSessions
  BY <1>1, HiddenAre
<1>4. a \in OneDayIps => s \in OneDaySessions /\ s \notin OperatorSessions
  BY <1>1 DEF OneDayIps, OneDaySessions
<1>5. s \in OneDaySessions => r.ev \subseteq q.ev
  BY <1>1 DEF CountedAreRows
<1>6. QED
  BY <1>2, <1>3, <1>4, <1>5

-----------------------------------------------------------------------------
(* The days that are found are days.                                       *)
LEMMA StaleDaysAre ==
  ASSUME TypeOK PROVE StaleDays \subseteq Days
<1>1. DaysThere \in SUBSET Nat /\ \A d \in DaysThere : d \in Days /\ d <= MaxDay
  BY DEF DaysThere, Rows, TypeOK, Days
<1>2. CASE DaysThere = {}
  BY <1>2 DEF StaleDays, AllStageDays
<1>3. CASE DaysThere # {}
  <2>1. Min(DaysThere) \in DaysThere
    BY <1>1, <1>3, MinOfNat
  <2>2. MaxDay \in Nat
    OBVIOUS
  <2>3. Max(DaysThere) \in DaysThere
    BY <1>1, <1>3, <2>2, MaxOfNat
  <2>4. Min(DaysThere) \in Nat /\ Min(DaysThere) >= 1
        /\ Max(DaysThere) \in Nat /\ Max(DaysThere) <= MaxDay
    <3>1. \A d \in Days : d \in Nat /\ d >= 1 /\ d <= MaxDay
      BY <2>2 DEF Days
    <3>2. Min(DaysThere) \in Days /\ Max(DaysThere) \in Days
      BY <1>1, <2>1, <2>3
    <3>3. QED
      BY <3>1, <3>2
  <2>5. AllStageDays \subseteq Days
    BY <1>3, <2>4 DEF AllStageDays, Days
  <2>6. QED
    BY <2>5 DEF StaleDays
<1>4. QED
  BY <1>2, <1>3

(* The session facts are what they are without the stages that follow.     *)
LEMMA StageKeepsSessions ==
  ASSUME KeptFor, SessionInv, [StageNext]_<<vars, stageVars>>
  PROVE  SessionInv'
<1> USE DEF SessionInv
<1>1. CASE DayPasses \/ EventComes \/ RunFails \/ ((Prune \/ Start) /\ UNCHANGED <<row, stageVars>>)
  <2>1. Around /\ UNCHANGED row
    BY <1>1 DEF DayPasses, EventComes, RunFails, Around
  <2>2. QED
    BY <2>1, SessionNext DEF Next
<1>2. CASE PlanSessions \/ PurgeStages \/ \E d \in Days : BuildSessions(d)
  <2>1. Next
    BY <1>2 DEF PlanSessions, PurgeStages, BuildSessions, Next
  <2>2. QED
    BY <2>1, SessionNext
<1>3. ASSUME RunInv', RawInv', row' = row, came' = came, pc' # "build" PROVE SessionInv'
  <2>1. TypeOK'
    BY <1>3 DEF TypeOK, RunInv, DayOf
  <2>2. QED
    BY <1>3, <2>1 DEF RowIsRecent
<1>4. CASE BuildPayloads \/ Upgrade \/ Enrich
  <2>1. PICK from \in {"build", "derive", "record"}, to \in {"seen", "record", "purge"} :
          Commit(from, to) /\ row' = row
    BY <1>4 DEF BuildPayloads, Upgrade, Enrich
  <2>2. to \in Phases \ {"idle"} /\ pc' = to
    BY <2>1 DEF Phases, Commit
  <2>3. RunInv' /\ RawInv' /\ came' = came
    BY <2>1, <2>2, RunInvCommit, RawInvRun DEF Commit, rawVars
  <2>4. QED
    BY <1>3, <2>1, <2>2, <2>3
<1>5. CASE Rebuild
  <2>1. /\ pc' = "derive" /\ days' = StaleDays /\ row' = row /\ UNCHANGED rawVars
        /\ late' = late /\ purged' = purged /\ pc = "seen"
    BY <1>5 DEF Rebuild
  <2>2. RawInv' /\ came' = came
    BY <2>1, RawInvRun DEF rawVars
  <2>3. RunInv'
    BY <2>1, StaleDaysAre DEF RunInv, RunTypeOK, RawTypeOK, rawVars, Phases
  <2>4. QED
    BY <1>3, <2>1, <2>2, <2>3
<1>6. CASE \E d \in Days : RebuildDay(d)
  <2>1. PICK d \in Days : TakeDay("derive", d) /\ row' = row
    BY <1>6 DEF RebuildDay
  <2>2. RunInv' /\ RawInv' /\ came' = came /\ pc' = "derive"
    BY <2>1, RunInvTake, RawInvRun DEF TakeDay, rawVars
  <2>3. QED
    BY <1>3, <2>1, <2>2
<1>7. CASE UNCHANGED <<vars, stageVars>>
  BY <1>7, SessionNext
<1>8. QED
  BY <1>1, <1>2, <1>4, <1>5, <1>6, <1>7 DEF StageNext

(* Rows that are only added to leave what was counted behind them.         *)
LEMMA CountedStay ==
  ASSUME CountedAreRows, counted' = counted,
         \A s \in Sessions \ OperatorSessions :
           /\ row[s] # NoRow => row'[s] # NoRow
           /\ s \in OneDaySessions => row[s].ev \subseteq row'[s].ev
  PROVE  CountedAreRows'
<1> SUFFICES ASSUME NEW d \in Days, NEW r \in counted[d]
             PROVE  /\ r.session \in Sessions
                    /\ r.session \notin OperatorSessions => row'[r.session] # NoRow
                    /\ r.session \in OneDaySessions => r.ev \subseteq row'[r.session].ev
  BY DEF CountedAreRows
<1>1. /\ r.session \in Sessions
      /\ r.session \notin OperatorSessions => row[r.session] # NoRow
      /\ r.session \in OneDaySessions => r.ev \subseteq row[r.session].ev
  BY DEF CountedAreRows
<1>2. r.session \in OneDaySessions => r.session \in Sessions \ OperatorSessions
  BY DEF OneDaySessions
<1>3. QED
  BY <1>1, <1>2

(* The stage tables at the start.                                          *)
LEMMA StageInvInit == Init /\ StageInit => StageInv
<1> SUFFICES ASSUME Init, StageInit PROVE StageInv
  OBVIOUS
<1> USE DEF StageInit
<1>1. SessionInv
  BY SessionInit
<1>2. NoRows \in [Ips -> -1..4] /\ \A a \in Ips : NoRows[a] = -1
  BY DEF NoRows
<1>3. StageTypes /\ CountedAreRows
  BY <1>2 DEF StageTypes, CountedAreRows
<1>4. \A d \in Days, a \in Ips : daily[d][a] = -1 /\ counted[d] = {}
  BY <1>2
<1>5. Unmarked(-1) = -1 /\ Depth({}) = -1
  BY UnmarkedIs, DepthIs
<1>6. DayIsCounted
  <2>1. \A a \in Ips : RowsBy({}, a) = {}
    BY DEF RowsBy
  <2>2. QED
    BY <1>4, <1>5, <2>1 DEF DayIsCounted
<1>7. pc = "idle" /\ ~ fresh
  BY DEF Init, RunInit
<1>8. QED
  BY <1>1, <1>3, <1>6, <1>7 DEF StageInv, LifetimeIsReached, VerdictReachesAllDays

(* The purge takes the operator's rows and no other.                       *)
LEMMA PurgedRows ==
  ASSUME SessionInv, PurgeStages, excluded, NEW s \in Sessions
  PROVE  IF s \in OperatorSessions THEN row'[s] = NoRow ELSE row'[s] = row[s]
<1>1. row' = [t \in Sessions |->
                IF excluded /\ row[t].ev \cap Operator # {} THEN NoRow ELSE row[t]]
  BY DEF PurgeStages, Purge
<1>2. row[s] # NoRow => /\ \E e \in row[s].ev : DayOf(e) = row[s].day
                        /\ \A e \in row[s].ev : e \in Events /\ SessionOf[e] = s
  BY RowEvents DEF SessionInv, RawInv
<1>3. CASE s \in OperatorSessions
  <2>1. row[s] # NoRow => row[s].ev \cap Operator # {}
    BY <1>2, <1>3, SessionAssumption DEF OperatorSessions
  <2>2. QED
    BY <1>1, <1>3, <2>1
<1>4. CASE s \notin OperatorSessions
  <2>1. row[s].ev \cap Operator = {}
    BY <1>2, <1>4 DEF OperatorSessions, NoRow
  <2>2. QED
    BY <1>1, <1>4, <2>1
<1>5. QED
  BY <1>3, <1>4

(* The purge takes an address out of all of the tables, or out of none.    *)
LEMMA PurgeKeepsStages ==
  ASSUME StageInv, SessionInv', PurgeStages PROVE StageInv'
<1> USE DEF StageInv
<1>1. /\ pc' = "idle" /\ pc = "purge" /\ fresh' = fresh /\ verdicts' = verdicts
      /\ row' = [s \in Sessions |->
                   IF excluded /\ row[s].ev \cap Operator # {} THEN NoRow ELSE row[s]]
  BY DEF PurgeStages, Purge, RunPurge, EndRun, marks
<1>2. CASE ~ excluded
  <2>1. UNCHANGED <<pushed, lifetime, daily, counted>>
    BY <1>2 DEF PurgeStages
  <2>2. \A s \in Sessions : row'[s] = row[s]
    BY <1>1, <1>2
  <2>3. Rows' = Rows
    BY <2>2 DEF Rows
  <2>4. CountedAreRows'
    BY <2>1, <2>2, CountedStay
  <2>5. \A a \in Ips : Reached(a)' = Reached(a)
    BY <1>1, <2>1, <2>3 DEF Reached, Bad
  <2>6. LifetimeIsReached' /\ VerdictReachesAllDays'
    BY <1>1, <2>1, <2>5 DEF LifetimeIsReached, VerdictReachesAllDays, Bad
  <2>7. StageTypes' /\ DayIsCounted'
    BY <1>1, <2>1 DEF StageTypes, DayIsCounted
  <2>8. QED
    BY <1>1, <2>4, <2>6, <2>7
<1>3. CASE excluded
  <2>1. /\ pushed' = pushed \ Operator
        /\ lifetime' = [a \in Ips |-> IF a \in HiddenIps THEN -1 ELSE lifetime[a]]
        /\ daily' = [d \in Days |-> [a \in Ips |->
                       IF a \in HiddenIps THEN -1 ELSE daily[d][a]]]
        /\ counted' = [d \in Days |-> {r \in counted[d] : IpOf[r.session] \notin HiddenIps}]
    BY <1>3 DEF PurgeStages
  <2>2. ASSUME NEW s \in Sessions
        PROVE  IF s \in OperatorSessions THEN row'[s] = NoRow ELSE row'[s] = row[s]
    BY <1>3, PurgedRows
  <2>3. ASSUME NEW a \in Ips
        PROVE  RowsBy(Rows, a)' = IF a \in HiddenIps THEN {} ELSE RowsBy(Rows, a)
    <3>1. \A s \in Sessions : IpOf[s] = a =>
            IF a \in HiddenIps THEN row'[s] = NoRow ELSE row'[s] = row[s]
      BY <2>2, HiddenAre
    <3>2. QED
      BY <3>1 DEF RowsBy, Rows
  <2>4. ASSUME NEW a \in Ips, a \notin HiddenIps PROVE a \in Bad' <=> a \in Bad
    BY <1>1, <2>1, <2>4 DEF Bad, HiddenIps
  <2>5. ASSUME NEW a \in Ips, a \in Bad' PROVE a \in Bad
    BY <1>1, <2>1, <2>5 DEF Bad
  <2>6. StageTypes'
    <3>1. -1 \in -1..4
      OBVIOUS
    <3>2. QED
      BY <1>1, <2>1, <3>1 DEF StageTypes
  <2>7. DayIsCounted'
    <3> SUFFICES ASSUME NEW d \in Days, NEW a \in Ips
                 PROVE  Unmarked(daily'[d][a]) = Depth(RowsBy(counted'[d], a))
      BY DEF DayIsCounted, Unmarked, Depth, Did, RowsBy
    <3>1. CASE a \in HiddenIps
      <4>1. daily'[d][a] = -1 /\ RowsBy(counted'[d], a) = {}
        BY <2>1, <3>1 DEF RowsBy
      <4>2. Unmarked(-1) = -1 /\ Depth({}) = -1
        BY UnmarkedIs, DepthIs
      <4>3. QED
        BY <4>1, <4>2
    <3>2. CASE a \notin HiddenIps
      <4>1. daily'[d][a] = daily[d][a] /\ RowsBy(counted'[d], a) = RowsBy(counted[d], a)
        BY <2>1, <3>2 DEF RowsBy
      <4>2. QED
        BY <4>1 DEF DayIsCounted
    <3>3. QED
      BY <3>1, <3>2
  <2>8. CountedAreRows'
    <3> SUFFICES ASSUME NEW d \in Days, NEW r \in counted'[d]
                 PROVE  /\ r.session \in Sessions
                        /\ r.session \notin OperatorSessions => row'[r.session] # NoRow
                        /\ r.session \in OneDaySessions => r.ev \subseteq row'[r.session].ev
      BY DEF CountedAreRows
    <3>1. r \in counted[d] /\ IpOf[r.session] \notin HiddenIps
      BY <2>1
    <3>2. /\ r.session \in Sessions
          /\ r.session \notin OperatorSessions => row[r.session] # NoRow
          /\ r.session \in OneDaySessions => r.ev \subseteq row[r.session].ev
      BY <3>1 DEF CountedAreRows
    <3>3. r.session \notin OperatorSessions
      BY <3>1, <3>2, HiddenAre
    <3>4. row'[r.session] = row[r.session]
      BY <2>2, <3>2, <3>3
    <3>5. QED
      BY <3>2, <3>4
  <2>9. LifetimeIsReached'
    <3> SUFFICES ASSUME fresh, NEW a \in Ips PROVE lifetime'[a] = Reached(a)'
      BY <1>1 DEF LifetimeIsReached
    <3>1. lifetime[a] = Reached(a)
      BY DEF LifetimeIsReached
    <3>2. CASE a \in HiddenIps
      <4>1. RowsBy(Rows, a)' = {} /\ lifetime'[a] = -1
        BY <2>1, <2>3, <3>2
      <4>2. Depth({}) = -1
        BY DepthIs
      <4>3. Reached(a)' = -1
        <5>1. Reached(a)' = Depth(RowsBy(Rows, a)')
          BY <4>1 DEF Reached, Depth, Did
        <5>2. QED
          BY <4>1, <4>2, <5>1
      <4>4. QED
        BY <4>1, <4>3
    <3>3. CASE a \notin HiddenIps
      <4>1. RowsBy(Rows, a)' = RowsBy(Rows, a) /\ (a \in Bad' <=> a \in Bad)
            /\ lifetime'[a] = lifetime[a]
        BY <2>1, <2>3, <2>4, <3>3
      <4>2. Reached(a)' = Reached(a)
        BY <4>1 DEF Reached, Depth, Did
      <4>3. QED
        BY <3>1, <4>1, <4>2
    <3>4. QED
      BY <3>2, <3>3
  <2>10. VerdictReachesAllDays'
    <3> SUFFICES ASSUME fresh, NEW a \in Bad', NEW d \in Days PROVE daily'[d][a] # 3
      BY <1>1 DEF VerdictReachesAllDays
    <3>1. a \in Ips
      BY <2>1, StageAssumption, SessionAssumption DEF Bad, StageTypes, Files
    <3>2. daily'[d][a] = -1 \/ daily'[d][a] = daily[d][a]
      BY <2>1, <3>1
    <3>3. daily[d][a] # 3
      BY <2>5, <3>1 DEF VerdictReachesAllDays
    <3>4. QED
      BY <3>2, <3>3
  <2>11. QED
    BY <1>1, <2>6, <2>7, <2>8, <2>9, <2>10
<1>4. QED
  BY <1>2, <1>3

(* Every step keeps what the stage tables rest on.                         *)
LEMMA StageInvNext ==
  ASSUME KeptFor PROVE StageInv /\ [StageNext]_<<vars, stageVars>> => StageInv'
<1> SUFFICES ASSUME StageInv, [StageNext]_<<vars, stageVars>> PROVE StageInv'
  OBVIOUS
<1> USE DEF StageInv
<1>1. SessionInv'
  BY StageKeepsSessions
<1>2. ASSUME row' = row, UNCHANGED tables, fresh' \in BOOLEAN, fresh' => fresh,
             pc' = "derive" => pc = "derive",
             pc' \in {"build", "seen", "derive"} => ~ fresh'
      PROVE  StageInv'
  <2>1. /\ pushed' = pushed /\ verdicts' = verdicts /\ lifetime' = lifetime
        /\ daily' = daily /\ counted' = counted
    BY <1>2 DEF tables
  <2>2. StageTypes' /\ DayIsCounted' /\ CountedAreRows'
    BY <1>2, <2>1 DEF StageTypes, DayIsCounted, CountedAreRows, Depth, Did, RowsBy, Unmarked
  <2>3. Rows' = Rows
    BY <1>2 DEF Rows
  <2>4. \A a \in Ips : Reached(a)' = Reached(a)
    BY <2>1, <2>3 DEF Reached, Bad
  <2>5. LifetimeIsReached' /\ VerdictReachesAllDays'
    BY <1>2, <2>1, <2>4 DEF LifetimeIsReached, VerdictReachesAllDays, Bad
  <2>6. QED
    BY <1>1, <1>2, <2>2, <2>5
<1>3. CASE DayPasses \/ EventComes \/ RunFails \/ ((Prune \/ Start) /\ UNCHANGED <<row, stageVars>>)
  <2>1. row' = row /\ UNCHANGED tables /\ fresh' = fresh
    BY <1>3 DEF DayPasses, EventComes, RunFails, stageVars, marks
  <2>2. pc' = pc \/ pc' \in {"idle", "plan"}
    BY <1>3 DEF DayPasses, EventComes, RunFails, NextDay, Ingest, Prune, Start, Fail, EndRun
  <2>3. QED
    BY <1>2, <2>1, <2>2 DEF StageTypes
<1>4. CASE PlanSessions
  <2>1. row' = row /\ UNCHANGED tables /\ fresh' = FALSE /\ pc' = "build"
    BY <1>4 DEF PlanSessions, Plan, PlanDays
  <2>2. QED
    BY <1>2, <2>1
<1>5. ASSUME NEW d \in Days, BuildSessions(d) PROVE StageInv'
  <2>1. BuildDay(d) /\ UNCHANGED tables /\ fresh' = fresh /\ pc' = "build" /\ pc = "build"
    BY <1>5 DEF BuildSessions, stageVars, marks, BuildDay, TakeDay
  <2>2. /\ pushed' = pushed /\ verdicts' = verdicts /\ lifetime' = lifetime
        /\ daily' = daily /\ counted' = counted /\ ~ fresh
    BY <2>1 DEF tables
  <2>3. ASSUME NEW s \in Sessions \ OperatorSessions
        PROVE  /\ row[s] # NoRow => row'[s] # NoRow
               /\ s \in OneDaySessions => row[s].ev \subseteq row'[s].ev
    <3>1. CASE row[s] = NoRow
      BY <3>1 DEF NoRow
    <3>2. CASE row[s] # NoRow
      BY <2>1, <3>2, RebuiltRowKeeps
    <3>3. QED
      BY <3>1, <3>2
  <2>4. CountedAreRows'
    BY <2>2, <2>3, CountedStay
  <2>5. StageTypes' /\ DayIsCounted'
    BY <2>1, <2>2 DEF StageTypes, DayIsCounted
  <2>6. QED
    BY <1>1, <2>1, <2>2, <2>4, <2>5 DEF LifetimeIsReached, VerdictReachesAllDays
<1>6. CASE BuildPayloads
  <2>1. /\ row' = row /\ pc = "build" /\ pc' = "seen" /\ fresh' = fresh
        /\ pushed' = pushed \cup (Visible \cap Files)
        /\ lifetime' = lifetime /\ daily' = daily /\ counted' = counted
    BY <1>6 DEF BuildPayloads, Commit, marks
  <2>2. CountedAreRows'
    BY <2>1 DEF CountedAreRows
  <2>3. StageTypes' /\ DayIsCounted'
    BY <2>1 DEF StageTypes, DayIsCounted
  <2>4. QED
    BY <1>1, <2>1, <2>2, <2>3 DEF LifetimeIsReached, VerdictReachesAllDays
<1>7. CASE Rebuild
  <2>1. /\ row' = row /\ pc = "seen" /\ pc' = "derive" /\ fresh' = fresh
        /\ pushed' = pushed /\ verdicts' = verdicts
        /\ lifetime' = [a \in Ips |-> Reached(a)] /\ daily' = daily /\ counted' = counted
    BY <1>7 DEF Rebuild, marks
  <2>2. CountedAreRows'
    BY <2>1 DEF CountedAreRows
  <2>3. StageTypes' /\ DayIsCounted'
    BY <2>1, ReachedIs DEF StageTypes, DayIsCounted
  <2>4. Rows' = Rows
    BY <2>1 DEF Rows
  <2>5. \A a \in Ips : Reached(a)' = Reached(a)
    BY <2>1, <2>4 DEF Reached, Bad
  <2>6. QED
    BY <1>1, <2>1, <2>2, <2>3, <2>5 DEF LifetimeIsReached, VerdictReachesAllDays
<1>8. ASSUME NEW d \in Days, RebuildDay(d) PROVE StageInv'
  <2>1. /\ row' = row /\ pc = "derive" /\ pc' = "derive" /\ fresh' = fresh
        /\ pushed' = pushed /\ verdicts' = verdicts /\ lifetime' = lifetime
        /\ daily' = [daily EXCEPT ![d] = [a \in Ips |-> Depth(RowsBy(RowsOn(d), a))]]
        /\ counted' = [counted EXCEPT ![d] = RowsOn(d)]
    BY <1>8 DEF RebuildDay, TakeDay, marks
  <2>2. \A a \in Ips : Depth(RowsBy(RowsOn(d), a)) \in -1..3
    BY DepthIs
  <2>3. [a \in Ips |-> Depth(RowsBy(RowsOn(d), a))] \in [Ips -> -1..4]
    BY <2>2
  <2>4. StageTypes'
    BY <2>1, <2>3 DEF StageTypes
  <2>5. \A e \in Days : /\ counted'[e] = IF e = d THEN RowsOn(d) ELSE counted[e]
                        /\ \A a \in Ips : daily'[e][a] = IF e = d THEN Depth(RowsBy(RowsOn(d), a))
                                                         ELSE daily[e][a]
    BY <2>1 DEF StageTypes
  <2>6. \A a \in Ips : Unmarked(Depth(RowsBy(RowsOn(d), a))) = Depth(RowsBy(RowsOn(d), a))
    <3> SUFFICES ASSUME NEW a \in Ips
                 PROVE  Unmarked(Depth(RowsBy(RowsOn(d), a))) = Depth(RowsBy(RowsOn(d), a))
      OBVIOUS
    <3> DEFINE k == Depth(RowsBy(RowsOn(d), a))
    <3>1. k \in -1..4 /\ k # 4
      BY <2>2
    <3> HIDE DEF k
    <3>2. Unmarked(k) = k
      BY <3>1, UnmarkedIs
    <3>3. QED
      BY <3>2 DEF k
  <2>7. DayIsCounted'
    <3> SUFFICES ASSUME NEW e \in Days, NEW a \in Ips
                 PROVE  Unmarked(daily'[e][a]) = Depth(RowsBy(counted'[e], a))
      BY DEF DayIsCounted, Unmarked, Depth, Did, RowsBy
    <3>1. CASE e = d
      BY <2>5, <2>6, <3>1
    <3>2. CASE e # d
      BY <2>5, <3>2 DEF DayIsCounted
    <3>3. QED
      BY <3>1, <3>2
  <2>8. \A r \in RowsOn(d) : r.session \in Sessions /\ row[r.session] # NoRow
                             /\ r.ev = row[r.session].ev
    BY DEF RowsOn, Rows
  <2>9. CountedAreRows'
    BY <2>1, <2>5, <2>8 DEF CountedAreRows
  <2>10. Rows' = Rows
    BY <2>1 DEF Rows
  <2>11. \A a \in Ips : Reached(a)' = Reached(a)
    BY <2>1, <2>10 DEF Reached, Bad
  <2>12. QED
    BY <1>1, <2>1, <2>4, <2>7, <2>9, <2>11 DEF LifetimeIsReached, VerdictReachesAllDays
<1>9. CASE Upgrade
  <2>1. /\ row' = row /\ pc = "derive" /\ pc' = "record" /\ fresh' = TRUE
        /\ pushed' = pushed /\ verdicts' = verdicts /\ lifetime' = lifetime
        /\ daily' = Upgraded /\ counted' = counted
    BY <1>9 DEF Upgrade, Commit
  <2>2. \A d \in Days, a \in Ips :
          /\ daily[d][a] \in -1..4
          /\ daily'[d][a] = IF a \in Bad /\ daily[d][a] >= 3 THEN 4 ELSE daily[d][a]
    BY <2>1 DEF Upgraded, StageTypes
  <2>3. StageTypes'
    <3>1. ASSUME NEW d \in Days PROVE daily'[d] \in [Ips -> -1..4]
      BY <2>1, <2>2 DEF Upgraded
    <3>2. daily' \in [Days -> [Ips -> -1..4]]
      BY <2>1, <3>1 DEF Upgraded
    <3>3. QED
      BY <2>1, <3>2 DEF StageTypes
  <2>4. DayIsCounted'
    <3> SUFFICES ASSUME NEW d \in Days, NEW a \in Ips
                 PROVE  Unmarked(daily'[d][a]) = Depth(RowsBy(counted[d], a))
      BY <2>1 DEF DayIsCounted, Unmarked, Depth, Did, RowsBy
    <3>1. daily[d][a] \in -1..4 /\ daily'[d][a] \in -1..4
      BY <2>2
    <3>2. Unmarked(daily'[d][a]) = Unmarked(daily[d][a])
      BY <2>2, <3>1, UnmarkedIs
    <3>3. QED
      BY <3>2 DEF DayIsCounted
  <2>5. CountedAreRows'
    BY <2>1 DEF CountedAreRows
  <2>6. Rows' = Rows
    BY <2>1 DEF Rows
  <2>7. \A a \in Ips : Reached(a)' = Reached(a)
    BY <2>1, <2>6 DEF Reached, Bad
  <2>8. LifetimeIsReached'
    BY <2>1, <2>7 DEF LifetimeIsReached
  <2>9. VerdictReachesAllDays'
    <3> SUFFICES ASSUME NEW a \in Bad, NEW d \in Days PROVE daily'[d][a] # 3
      BY <2>1 DEF VerdictReachesAllDays, Bad
    <3>1. a \in Ips
      BY StageAssumption, SessionAssumption DEF Bad, StageTypes, Files
    <3>2. QED
      BY <2>2, <3>1
  <2>10. QED
    BY <1>1, <2>1, <2>3, <2>4, <2>5, <2>8, <2>9
<1>10. CASE Enrich
  <2>1. /\ row' = row /\ pc = "record" /\ pc' = "purge"
        /\ fresh' = (fresh /\ verdicts' = verdicts) /\ pushed' = pushed
        /\ lifetime' = lifetime /\ daily' = daily /\ counted' = counted
    BY <1>10 DEF Enrich, Commit
  <2>2. StageTypes'
    <3>1. fresh' \in BOOLEAN
      BY <2>1, Zenon
    <3>2. QED
      BY <2>1, <3>1 DEF StageTypes
  <2>3. DayIsCounted' /\ CountedAreRows'
    BY <2>1 DEF DayIsCounted, CountedAreRows, Depth, Did, RowsBy, Unmarked
  <2>4. CASE verdicts' = verdicts
    <3>1. fresh' => fresh
      BY <2>1, Zenon
    <3>2. QED
      BY <1>2, <2>1, <2>2, <2>4, <3>1 DEF tables, StageTypes
  <2>5. CASE verdicts' # verdicts
    <3>1. ~ fresh'
      BY <2>1, <2>5, Zenon
    <3>2. QED
      BY <1>1, <2>1, <2>2, <2>3, <3>1 DEF LifetimeIsReached, VerdictReachesAllDays
  <2>6. QED
    BY <2>4, <2>5
<1>11. CASE PurgeStages
  BY <1>1, <1>11, PurgeKeepsStages
<1>12. CASE UNCHANGED <<vars, stageVars>>
  <2>1. row' = row /\ UNCHANGED tables /\ fresh' = fresh /\ pc' = pc
    BY <1>12 DEF vars, runVars, stageVars, marks
  <2>2. QED
    BY <1>2, <2>1 DEF StageTypes
<1>13. QED
  BY <1>3, <1>4, <1>5, <1>6, <1>7, <1>8, <1>9, <1>10, <1>11, <1>12 DEF StageNext

(* What the stage tables rest on, over runs that fail anywhere, days that  *)
(* are late and sessions that move, for any retention that is wide enough. *)
THEOREM StageInvariant ==
  ASSUME KeptFor PROVE StageSpec => []StageInv
BY StageInvInit, StageInvNext, PTL DEF StageSpec

-----------------------------------------------------------------------------
(* Between midnight and the next run nothing is derived, and what is       *)
(* derived in a run is of the rows that this run has left.  So the days    *)
(* that are still recent keep the stages of the sessions that are on them. *)

(* What the purge has taken, or will take, is left aside.                  *)
Shown(s) == excluded => s \notin OperatorSessions

CountedAreOf ==
  \A d \in Days : \A r \in counted[d] :
    /\ r.session \in Sessions
    /\ \E e \in r.ev : e \in Timed /\ DayOf(e) = d /\ SessionOf[e] = r.session
    /\ Shown(r.session) => row[r.session] # NoRow

(* A session that was counted on a recent day is not on an earlier day     *)
(* once the run has built that day.                                        *)
BuiltPast ==
  /\ pc = "seen" => days = {}
  /\ pc \in {"build", "seen"} =>
    \A d \in Days \ days : \A r \in counted[d] :
      d + RecentDays > today /\ Shown(r.session) =>
        /\ row[r.session].day >= d
        /\ \A x \in days : d < x

OperatorIsGone ==
  purged => /\ \A s \in OperatorSessions : row[s] = NoRow
            /\ \A d \in Days : \A r \in counted[d] : r.session \notin OperatorSessions

SameShown(d) == \A r : Shown(r.session) => (r \in counted[d] <=> r \in RowsOn(d))

LastIsDerived ==
  fresh \/ pc = "derive" =>
    \A d \in Days : /\ d + RecentDays > today
                    /\ \E r \in Rows : r.day <= d
                    /\ pc = "derive" => d \notin days
                    => SameShown(d)

LastInv ==
  StageInv /\ CountedAreOf /\ BuiltPast /\ OperatorIsGone /\ LastIsDerived

(* The numbers of a state.                                                 *)
LEMMA DaysAreNat ==
  ASSUME SessionInv
  PROVE  /\ today \in Nat /\ RecentDays \in Nat /\ \A d \in Days : d \in Nat /\ d >= 1
         /\ days \subseteq Days /\ RawTypeOK
         /\ \A s \in Sessions : row[s] # NoRow => row[s].day \in Days /\ row[s].day <= today
         /\ \A r \in Rows : /\ r.session \in Sessions /\ row[r.session] # NoRow
                            /\ r.day = row[r.session].day
<1>1. today \in Nat /\ days \subseteq Days /\ RawTypeOK /\ \A d \in Days : d \in Nat /\ d >= 1
  BY DEF SessionInv, RunInv, RunTypeOK, RawTypeOK, Days
<1>2. ASSUME NEW s \in Sessions, row[s] # NoRow PROVE row[s].day \in Days /\ row[s].day <= today
  BY <1>1, <1>2, RowEvents DEF SessionInv, RawInv, Timed
<1>3. \A r \in Rows : /\ r.session \in Sessions /\ row[r.session] # NoRow
                      /\ r.day = row[r.session].day
  BY DEF Rows
<1>4. QED
  BY <1>1, <1>2, <1>3

(* The start, where nothing is derived.                                    *)
LEMMA LastInvInit == Init /\ StageInit => LastInv
<1> SUFFICES ASSUME Init, StageInit PROVE LastInv
  OBVIOUS
<1>1. StageInv
  BY StageInvInit
<1>2. /\ pc = "idle" /\ ~ purged /\ ~ fresh
      /\ \A d \in Days : counted[d] = {}
  BY DEF Init, RunInit, StageInit
<1>3. QED
  BY <1>1, <1>2 DEF LastInv, CountedAreOf, BuiltPast, OperatorIsGone, LastIsDerived

(* Steps that change neither the rows nor what was made of them.           *)
LEMMA LastKeeps ==
  ASSUME LastInv, StageInv', row' = row, counted' = counted, came \subseteq came',
         today' \in {today, today + 1}, excluded => excluded', purged' = purged, fresh' => fresh,
         pc' = "derive" => pc = "derive" /\ days' = days,
         pc' \in {"build", "seen"} => pc \in {"build", "seen"} /\ days' = days,
         pc' = "seen" => days' = {}
  PROVE  LastInv'
<1> USE DEF LastInv
<1>1. today \in Nat /\ RecentDays \in Nat /\ \A d \in Days : d \in Nat
  BY DaysAreNat DEF StageInv
<1>2. Rows' = Rows /\ \A d : RowsOn(d)' = RowsOn(d)
  BY DEF Rows, RowsOn
<1>3. \A s : Shown(s)' => Shown(s)
  BY DEF Shown
<1>4. \A d \in Days : d + RecentDays > today' => d + RecentDays > today
  BY <1>1
<1>5. CountedAreOf'
  BY <1>3 DEF CountedAreOf, Timed, DayOf
<1>6. BuiltPast'
  BY <1>3, <1>4 DEF BuiltPast
<1>7. OperatorIsGone'
  BY DEF OperatorIsGone
<1>8. LastIsDerived'
  <2> SUFFICES ASSUME fresh' \/ pc' = "derive", NEW d \in Days, d + RecentDays > today',
                      \E r \in Rows : r.day <= d, pc' = "derive" => d \notin days',
                      NEW r, Shown(r.session)'
               PROVE  r \in counted[d] <=> r \in RowsOn(d)
    BY <1>2 DEF LastIsDerived, SameShown
  <2>1. fresh \/ pc = "derive"
    OBVIOUS
  <2>2. pc = "derive" => d \notin days
    BY DEF StageInv
  <2>3. SameShown(d)
    BY <1>4, <2>1, <2>2 DEF LastIsDerived
  <2>4. QED
    BY <1>3, <2>3 DEF SameShown
<1>9. QED
  BY <1>5, <1>6, <1>7, <1>8

(* No day that is read of raw_events is still to come.                     *)
LEMMA NoneIsAhead ==
  ASSUME RawInv, DatesParse, NEW d \in AllDays PROVE d <= today
<1> DEFINE D == {DayOf(e) : e \in Visible}
<1>1. D \subseteq Days /\ today \in Nat /\ \A x \in D : x <= today
  BY EventsAreTimed DEF RawInv, RawTypeOK, DatesParse, Visible, Days
<1>2. d \in Min(D)..Max(D) /\ D # {}
  BY DEF AllDays
<1> HIDE DEF D
<1>3. D \in SUBSET Nat
  BY <1>1 DEF Days
<1>4. Max(D) \in D
  BY <1>1, <1>2, <1>3, MaxOfNat
<1>5. d <= Max(D) /\ d \in Int /\ Max(D) \in Nat /\ Max(D) <= today
  <2>1. Max(D) \in Nat /\ Max(D) <= today
    BY <1>1, <1>3, <1>4
  <2>2. QED
    BY <1>2, <2>1
<1>6. QED
  BY <1>1, <1>5

(* Every recent day that was ever counted is built again.                  *)
LEMMA LastPlan ==
  ASSUME WindowIsWide, LastInv, StageInv', PlanSessions PROVE LastInv'
<1> USE DEF LastInv, StageInv, SessionInv
<1>1. /\ UNCHANGED rawVars /\ row' = row /\ counted' = counted /\ purged' = purged /\ DatesParse
      /\ days' = DaysToBuild({row[s].day : s \in Sessions} \ {0}, FALSE)
      /\ pc' = "build" /\ fresh' = FALSE
  BY DEF PlanSessions, Plan, PlanDays, tables
<1>2. today' = today /\ came' = came /\ excluded' = excluded
  BY <1>1 DEF rawVars
<1>3. CountedAreOf' /\ OperatorIsGone' /\ LastIsDerived'
  BY <1>1, <1>2 DEF CountedAreOf, OperatorIsGone, LastIsDerived, Shown, Timed, DayOf
<1>4. ASSUME NEW d \in Days, NEW r \in counted[d], d + RecentDays > today, Shown(r.session)
      PROVE  d \in days'
  <2>1. PICK e \in r.ev : e \in Timed /\ DayOf(e) = d /\ SessionOf[e] = r.session
    BY DEF CountedAreOf
  <2>2. e \in raw
    <3>1. today \in Nat /\ d \in Nat
      BY DaysAreNat
    <3>2. DayOf(e) + RawRetain > today
      BY <1>4, <2>1, <3>1 DEF WindowIsWide
    <3>3. QED
      BY <2>1, <3>2, YoungIsThere
  <2>3. e \in Visible
    <3>1. excluded => e \notin Operator
      BY <1>4, <2>1 DEF Shown, OperatorSessions
    <3>2. QED
      BY <2>2, <3>1 DEF Visible
  <2>4. d \in AllDays /\ Max(AllDays) \in AllDays
    BY <1>1, <2>1, <2>3, AllDaysAre DEF RawInv
  <2>5. Max(AllDays) <= today
    BY <1>1, <2>4, NoneIsAhead
  <2>6. d + RecentDays > Max(AllDays)
    <3>1. Max(AllDays) \in Nat /\ d \in Nat /\ today \in Nat /\ RecentDays \in Nat
      BY <1>1, <2>4, AllDaysAre, DaysAreNat DEF RawInv
    <3>2. QED
      BY <1>4, <2>5, <3>1
  <2>7. QED
    BY <1>1, <2>4, <2>6 DEF DaysToBuild
<1>5. BuiltPast'
  BY <1>1, <1>2, <1>4 DEF BuiltPast, Shown
<1>6. QED
  BY <1>3, <1>5

(* A day that is built takes its sessions back, and no other moves before  *)
(* it.                                                                     *)
LEMMA LastBuild ==
  ASSUME WindowIsWide, LastInv, StageInv', NEW d \in Days, BuildSessions(d) PROVE LastInv'
<1> USE DEF LastInv, StageInv, SessionInv
<1>1. /\ BuildDay(d) /\ counted' = counted /\ fresh' = fresh /\ purged' = purged
      /\ UNCHANGED rawVars /\ pc = "build" /\ pc' = "build" /\ days' = days \ {d} /\ ~ fresh
      /\ row' = [s \in Sessions |-> RowOf(s, d)]
  BY DEF BuildSessions, stageVars, marks, tables, BuildDay, TakeDay
<1>2. today' = today /\ came' = came /\ excluded' = excluded
  BY <1>1 DEF rawVars
<1>3. d \in days /\ \A x \in days : d <= x
  <2>1. days \in SUBSET Nat /\ days # {} /\ d = Min(days)
    BY DaysAreNat DEF BuildSessions, BuildDay, TakeDay
  <2>2. QED
    BY <2>1, MinOfNat
<1>4. LastIsDerived'
  BY <1>1 DEF LastIsDerived
<1>5. CountedAreOf'
  <2>1. ASSUME NEW s \in Sessions, Shown(s), row[s] # NoRow PROVE row'[s] # NoRow
    BY <1>1, <2>1, RebuiltRowKeeps DEF Shown
  <2>2. QED
    BY <1>1, <1>2, <2>1 DEF CountedAreOf, Shown, Timed, DayOf
<1>6. OperatorIsGone'
  <2> SUFFICES ASSUME purged, NEW s \in OperatorSessions PROVE row'[s] = NoRow
    BY <1>1 DEF OperatorIsGone
  <2>1. excluded /\ row[s] = NoRow /\ s \in Sessions
    BY SessionAssumption DEF OperatorIsGone, RunInv, OperatorSessions
  <2>2. Span(s, d) = {}
    BY <2>1, SessionAssumption DEF Span, Visible, OperatorSessions, RawInv, RawTypeOK
  <2>3. QED
    BY <1>1, <2>1, <2>2 DEF RowOf
<1>7. BuiltPast'
  <2> SUFFICES ASSUME NEW c \in Days \ (days \ {d}), NEW r \in counted[c],
                      c + RecentDays > today, Shown(r.session)
               PROVE  /\ row'[r.session].day >= c
                      /\ \A x \in days \ {d} : c < x
    BY <1>1, <1>2 DEF BuiltPast, Shown
  <2> DEFINE s == r.session
  <2>0. s \in Sessions /\ c \in Nat /\ d \in Nat /\ days \subseteq Nat
        /\ row[s] # NoRow /\ row[s].day \in Nat
    BY DaysAreNat DEF CountedAreOf
  <2>1. CASE c = d
    <3>1. PICK e \in r.ev : e \in Timed /\ DayOf(e) = d /\ SessionOf[e] = s
      BY <2>1 DEF CountedAreOf
    <3>2. e \in Span(s, d)
      <4>1. DayOf(e) + RawRetain > today
        BY <2>0, <2>1, <3>1, DaysAreNat DEF WindowIsWide
      <4>2. e \in raw
        BY <3>1, <4>1, YoungIsThere
      <4>3. excluded => e \notin Operator
        BY <3>1 DEF Shown, OperatorSessions
      <4>4. QED
        BY <3>1, <4>2, <4>3 DEF Span, Visible, Timed
    <3>3. row'[s].day = d
      BY <1>1, <2>0, <3>1, <3>2 DEF RowOf
    <3>4. \A x \in days \ {d} : d < x
      BY <1>3, <2>0
    <3>5. QED
      BY <2>0, <2>1, <3>3, <3>4
  <2>2. CASE c # d
    <3>1. row[s].day >= c /\ \A x \in days : c < x
      BY <1>1, <2>2 DEF BuiltPast
    <3>2. c < d
      BY <1>3, <3>1
    <3>3. row'[s] # NoRow
      BY <1>1, <2>0, RebuiltRowKeeps DEF Shown
    <3>4. row'[s].day \in {d, row[s].day}
      BY <1>1, <2>0, <3>3 DEF RowOf
    <3>5. QED
      BY <2>0, <3>1, <3>2, <3>4
  <2>3. QED
    BY <2>1, <2>2
<1>8. QED
  BY <1>4, <1>5, <1>6, <1>7

(* The days that rebuild_daily looks at.                                   *)
LEMMA StageDaysAre ==
  ASSUME SessionInv, Rows # {}
  PROVE  /\ AllStageDays = Min(DaysThere)..Max(DaysThere)
         /\ Min(DaysThere) \in Nat /\ Max(DaysThere) \in Nat
         /\ \A r \in Rows : Min(DaysThere) <= r.day /\ r.day <= Max(DaysThere)
         /\ Max(AllStageDays) \in Nat /\ Max(AllStageDays) <= today
<1>1. DaysThere # {} /\ \A r \in Rows : r.day \in DaysThere
  BY DEF DaysThere
<1>2. /\ DaysThere \in SUBSET Nat /\ today \in Nat
      /\ \A d \in DaysThere : d <= today
  BY DaysAreNat DEF DaysThere
<1>3. /\ Min(DaysThere) \in DaysThere /\ \A x \in DaysThere : Min(DaysThere) <= x
      /\ Max(DaysThere) \in DaysThere /\ \A x \in DaysThere : x <= Max(DaysThere)
  BY <1>1, <1>2, MinOfNat, MaxOfNat
<1>4. /\ Min(DaysThere) \in Nat /\ Max(DaysThere) \in Nat /\ Max(DaysThere) <= today
      /\ Min(DaysThere) <= Max(DaysThere)
  BY <1>2, <1>3
<1>5. AllStageDays = Min(DaysThere)..Max(DaysThere)
  BY <1>1 DEF AllStageDays
<1>6. AllStageDays \in SUBSET Nat /\ AllStageDays # {} /\ \A x \in AllStageDays : x <= today
  BY <1>2, <1>4, <1>5
<1>7. Max(AllStageDays) \in AllStageDays
  BY <1>2, <1>6, MaxOfNat
<1>8. QED
  BY <1>1, <1>3, <1>4, <1>5, <1>6, <1>7

(* What is not to be derived again is after the last day with a session,   *)
(* where the run has left none.                                            *)
LEMMA LastRebuild ==
  ASSUME LastInv, StageInv', Rebuild PROVE LastInv'
<1> USE DEF LastInv, StageInv
<1>1. /\ UNCHANGED rawVars /\ row' = row /\ counted' = counted /\ purged' = purged
      /\ pc = "seen" /\ pc' = "derive" /\ fresh' = fresh /\ ~ fresh /\ days' = StaleDays
  BY DEF Rebuild, marks
<1>2. /\ today' = today /\ came' = came /\ excluded' = excluded
      /\ Rows' = Rows /\ \A d : RowsOn(d)' = RowsOn(d)
  BY <1>1 DEF rawVars, Rows, RowsOn
<1>3. CountedAreOf' /\ OperatorIsGone' /\ BuiltPast'
  BY <1>1, <1>2 DEF CountedAreOf, OperatorIsGone, BuiltPast, Shown, Timed, DayOf
<1>4. ASSUME NEW d \in Days, d + RecentDays > today, NEW r \in Rows, r.day <= d,
             d \notin StaleDays
      PROVE  SameShown(d)
  <2>1. d \in Nat /\ today \in Nat /\ r.day \in Nat /\ RecentDays \in Nat
    BY DaysAreNat
  <2>2. d > Max(DaysThere)
    <3> SUFFICES ASSUME d <= Max(DaysThere) PROVE FALSE
      BY <2>1, StageDaysAre
    <3>1. Min(DaysThere) <= d
      BY <1>4, <2>1, StageDaysAre
    <3>2. d \in AllStageDays
      BY <2>1, <3>1, StageDaysAre
    <3>3. d + RecentDays > Max(AllStageDays)
      BY <1>4, <2>1, StageDaysAre
    <3>4. QED
      BY <1>4, <3>2, <3>3 DEF StaleDays
  <2>3. ASSUME NEW q \in Rows PROVE q.day \in Nat /\ q.day < d
    <3>1. q.day \in Nat
      BY DaysAreNat
    <3>2. q.day <= Max(DaysThere) /\ Max(DaysThere) \in Nat
      BY StageDaysAre
    <3>3. QED
      BY <2>1, <2>2, <3>1, <3>2
  <2>4. ASSUME NEW q \in counted[d], Shown(q.session) PROVE FALSE
    <3>1. row[q.session].day >= d /\ q.session \in Sessions /\ row[q.session] # NoRow
      BY <1>1, <1>4, <2>4 DEF BuiltPast, CountedAreOf
    <3> DEFINE p == [session |-> q.session, day |-> row[q.session].day,
                     ev |-> row[q.session].ev]
    <3>2. p \in Rows /\ p.day = row[q.session].day
      BY <3>1 DEF Rows
    <3>3. p.day \in Nat /\ p.day < d
      BY <2>3, <3>2
    <3> HIDE DEF p
    <3>4. QED
      BY <2>1, <3>1, <3>2, <3>3
  <2>5. RowsOn(d) = {}
    BY <2>1, <2>3 DEF RowsOn
  <2>6. QED
    BY <2>4, <2>5 DEF SameShown
<1>5. LastIsDerived'
  BY <1>1, <1>2, <1>4 DEF LastIsDerived, SameShown, Shown
<1>6. QED
  BY <1>3, <1>5

(* A day is made of the rows it has.                                       *)
LEMMA LastDay ==
  ASSUME LastInv, StageInv', NEW d \in Days, RebuildDay(d) PROVE LastInv'
<1> USE DEF LastInv, StageInv
<1>1. /\ UNCHANGED rawVars /\ row' = row /\ purged' = purged
      /\ pc = "derive" /\ pc' = "derive" /\ fresh' = fresh /\ days' = days \ {d}
      /\ counted' = [counted EXCEPT ![d] = RowsOn(d)]
  BY DEF RebuildDay, TakeDay, marks
<1>2. /\ today' = today /\ came' = came /\ excluded' = excluded
      /\ Rows' = Rows /\ \A c : RowsOn(c)' = RowsOn(c)
  BY <1>1 DEF rawVars, Rows, RowsOn
<1>3. \A c \in Days : counted'[c] = IF c = d THEN RowsOn(d) ELSE counted[c]
  BY <1>1 DEF StageTypes
<1>4. ASSUME NEW r \in RowsOn(d)
      PROVE  /\ r.session \in Sessions /\ row[r.session] # NoRow
             /\ \E e \in r.ev : e \in Timed /\ DayOf(e) = d /\ SessionOf[e] = r.session
  <2>1. /\ r.session \in Sessions /\ row[r.session] # NoRow
        /\ r.ev = row[r.session].ev /\ row[r.session].day = d
    BY DEF RowsOn, Rows
  <2>2. QED
    BY <2>1, RowEvents DEF SessionInv, RawInv
<1>5. CountedAreOf'
  BY <1>1, <1>2, <1>3, <1>4 DEF CountedAreOf, Shown, Timed, DayOf
<1>6. OperatorIsGone'
  BY <1>1, <1>3, <1>4 DEF OperatorIsGone
<1>7. BuiltPast'
  BY <1>1 DEF BuiltPast
<1>8. LastIsDerived'
  BY <1>1, <1>2, <1>3 DEF LastIsDerived, SameShown, Shown
<1>9. QED
  BY <1>5, <1>6, <1>7, <1>8

(* The upgrade is of days that are all derived.                            *)
LEMMA LastUpgrade ==
  ASSUME LastInv, StageInv', Upgrade PROVE LastInv'
<1> USE DEF LastInv, StageInv
<1>1. /\ UNCHANGED rawVars /\ row' = row /\ purged' = purged /\ counted' = counted
      /\ pc = "derive" /\ pc' = "record" /\ days = {}
  BY DEF Upgrade, Commit
<1>2. /\ today' = today /\ came' = came /\ excluded' = excluded
      /\ Rows' = Rows /\ \A c : RowsOn(c)' = RowsOn(c)
  BY <1>1 DEF rawVars, Rows, RowsOn
<1>3. CountedAreOf' /\ OperatorIsGone' /\ BuiltPast'
  BY <1>1, <1>2 DEF CountedAreOf, OperatorIsGone, BuiltPast, Shown, Timed, DayOf
<1>4. LastIsDerived'
  BY <1>1, <1>2 DEF LastIsDerived, SameShown, Shown
<1>5. QED
  BY <1>3, <1>4

(* The purge takes of the rows and of what was made of them the same.      *)
LEMMA LastPurge ==
  ASSUME LastInv, StageInv', PurgeStages PROVE LastInv'
<1> USE DEF LastInv, StageInv, SessionInv
<1>1. /\ UNCHANGED rawVars /\ purged' = excluded /\ pc' = "idle" /\ fresh' = fresh
      /\ row' = [s \in Sessions |->
                   IF excluded /\ row[s].ev \cap Operator # {} THEN NoRow ELSE row[s]]
  BY DEF PurgeStages, Purge, RunPurge, EndRun, marks
<1>2. today' = today /\ came' = came /\ excluded' = excluded
  BY <1>1 DEF rawVars
<1>3. BuiltPast'
  BY <1>1 DEF BuiltPast
<1>4. ASSUME NEW s \in Sessions, Shown(s) PROVE row'[s] = row[s]
  <2>1. CASE ~ excluded
    BY <1>1, <2>1
  <2>2. CASE excluded
    BY <1>4, <2>2, PurgedRows DEF Shown
  <2>3. QED
    BY <2>1, <2>2
<1>5. ASSUME NEW d \in Days, NEW r
      PROVE  /\ r \in counted'[d] => r \in counted[d] /\ Shown(r.session)
             /\ r \in counted[d] /\ Shown(r.session) => r \in counted'[d]
  <2>1. r \in counted[d] => r.session \in Sessions
    BY DEF CountedAreOf
  <2>2. CASE ~ excluded
    BY <2>2 DEF PurgeStages, Shown
  <2>3. CASE excluded
    <3>1. counted'[d] = {q \in counted[d] : IpOf[q.session] \notin HiddenIps}
      BY <2>3 DEF PurgeStages
    <3>2. r \in counted[d] => (IpOf[r.session] \in HiddenIps <=> r.session \in OperatorSessions)
      BY <2>1, HiddenAre
    <3>3. QED
      BY <2>3, <3>1, <3>2 DEF Shown
  <2>4. QED
    BY <2>2, <2>3
<1>6. CountedAreOf'
  BY <1>1, <1>2, <1>4, <1>5 DEF CountedAreOf, Shown, Timed, DayOf
<1>7. OperatorIsGone'
  <2> SUFFICES ASSUME excluded
               PROVE  /\ \A s \in OperatorSessions : row'[s] = NoRow
                      /\ \A d \in Days : \A r \in counted'[d] : r.session \notin OperatorSessions
    BY <1>1 DEF OperatorIsGone
  <2>1. OperatorSessions \subseteq Sessions
    BY SessionAssumption, RawWindowAssumption DEF OperatorSessions
  <2>2. \A s \in OperatorSessions : row'[s] = NoRow
    BY <2>1, PurgedRows
  <2>3. QED
    BY <1>5, <2>2 DEF Shown
<1>8. ASSUME NEW r, Shown(r.session) PROVE r \in Rows' <=> r \in Rows
  <2>1. \A s \in Sessions : Shown(s) => row'[s] = row[s]
    BY <1>4
  <2>2. QED
    BY <1>8, <2>1 DEF Rows
<1>9. \A r \in Rows' : Shown(r.session)
  <2> SUFFICES ASSUME NEW r \in Rows' PROVE Shown(r.session)
    OBVIOUS
  <2>1. r.session \in Sessions /\ row'[r.session] # NoRow
    BY DEF Rows
  <2>2. QED
    BY <2>1, PurgedRows DEF Shown
<1>10. \A r \in Rows' : r \in Rows
  BY <1>8, <1>9
<1>11. LastIsDerived'
  <2> SUFFICES ASSUME fresh, NEW d \in Days, d + RecentDays > today,
                      \E r \in Rows' : r.day <= d, NEW r, Shown(r.session)
               PROVE  r \in counted'[d] <=> r \in RowsOn(d)'
    BY <1>1, <1>2 DEF LastIsDerived, SameShown, Shown
  <2>1. \E q \in Rows : q.day <= d
    BY <1>10
  <2>2. pc # "derive"
    BY DEF PurgeStages, Purge, RunPurge
  <2>3. r \in counted[d] <=> r \in RowsOn(d)
    BY <2>1, <2>2 DEF LastIsDerived, SameShown
  <2>4. QED
    BY <1>5, <1>8, <2>3 DEF RowsOn
<1>12. QED
  BY <1>3, <1>6, <1>7, <1>11

(* Every step keeps it.                                                    *)
LEMMA LastInvNext ==
  ASSUME KeptFor PROVE LastInv /\ [StageNext]_<<vars, stageVars>> => LastInv'
<1> SUFFICES ASSUME LastInv, [StageNext]_<<vars, stageVars>> PROVE LastInv'
  OBVIOUS
<1>0. WindowIsWide /\ StageInv'
  BY StageInvNext DEF KeptFor, LastInv
<1>1. CASE DayPasses \/ EventComes \/ RunFails \/ ((Prune \/ Start) /\ UNCHANGED <<row, stageVars>>)
  <2>1. row' = row /\ counted' = counted /\ fresh' = fresh /\ purged' = purged
    BY <1>1 DEF DayPasses, EventComes, RunFails, stageVars, marks, tables,
                NextDay, Ingest, Prune, Start, Fail
  <2>2. today' \in {today, today + 1} /\ came \subseteq came' /\ (excluded => excluded')
    <3>1. CASE DayPasses
      BY <3>1 DEF DayPasses, NextDay, Midnight
    <3>2. CASE EventComes
      BY <3>2 DEF EventComes, Ingest, Arrive
    <3>3. CASE RunFails
      BY <3>3 DEF RunFails, Fail, rawVars
    <3>4. CASE Prune
      BY <3>4 DEF Prune, PruneBatch
    <3>5. CASE Start
      <4>1. today' = today /\ came' = came /\ excluded' \in {excluded, TRUE}
        BY <3>5 DEF Start
      <4>2. excluded => excluded'
        BY <4>1, Zenon
      <4>3. QED
        BY <4>1, <4>2
    <3>6. QED
      BY <1>1, <3>1, <3>2, <3>3, <3>4, <3>5
  <2>3. pc' \in {"idle", "plan"} \/ (pc' = pc /\ days' = days)
    BY <1>1 DEF DayPasses, EventComes, RunFails, NextDay, Ingest, Prune, Start, Fail, EndRun
  <2>4. QED
    BY <1>0, <2>1, <2>2, <2>3, LastKeeps DEF LastInv, BuiltPast
<1>2. CASE PlanSessions
  BY <1>0, <1>2, LastPlan
<1>3. CASE BuildPayloads \/ Enrich
  <2>1. row' = row /\ counted' = counted /\ (fresh' => fresh) /\ purged' = purged
        /\ UNCHANGED rawVars
        /\ \/ pc = "build" /\ pc' = "seen" /\ days = {} /\ days' = {}
           \/ pc' = "purge"
    <3>1. CASE BuildPayloads
      BY <3>1 DEF BuildPayloads, Commit, marks
    <3>2. CASE Enrich
      <4>1. fresh' => fresh
        BY <3>2, Zenon DEF Enrich
      <4>2. QED
        BY <3>2, <4>1 DEF Enrich, Commit
    <3>3. QED
      BY <1>3, <3>1, <3>2
  <2>2. today' = today /\ came' = came /\ excluded' = excluded
    BY <2>1 DEF rawVars
  <2>3. QED
    BY <1>0, <2>1, <2>2, LastKeeps
<1>4. CASE Rebuild
  BY <1>0, <1>4, LastRebuild
<1>5. CASE Upgrade
  BY <1>0, <1>5, LastUpgrade
<1>6. CASE PurgeStages
  BY <1>0, <1>6, LastPurge
<1>7. ASSUME NEW d \in Days, BuildSessions(d) \/ RebuildDay(d) PROVE LastInv'
  BY <1>0, <1>7, LastBuild, LastDay
<1>8. CASE UNCHANGED <<vars, stageVars>>
  <2>1. /\ row' = row /\ counted' = counted /\ fresh' = fresh /\ purged' = purged
        /\ today' = today /\ came' = came /\ excluded' = excluded /\ pc' = pc /\ days' = days
    BY <1>8 DEF vars, runVars, stageVars, marks, tables
  <2>2. QED
    BY <1>0, <2>1, LastKeeps DEF LastInv, BuiltPast
<1>9. QED
  BY <1>1, <1>2, <1>3, <1>4, <1>5, <1>6, <1>7, <1>8 DEF StageNext

(* A stage of a day has rows behind it; of an address that is not purged   *)
(* there are sessions still, and of one whose sessions are of one day they *)
(* went as far.                                                            *)
LEMMA StageIsBehind ==
  ASSUME StageInv, NEW d \in Days, NEW a \in Ips
  PROVE  /\ daily[d][a] \in -1..4
         /\ daily[d][a] >= 0 /\ a \notin HiddenIps => RowsBy(Rows, a) # {}
         /\ a \in OneDayIps => Unmarked(daily[d][a]) <= Depth(RowsBy(Rows, a))
<1> USE DEF StageInv
<1>1. daily[d][a] \in -1..4 /\ Unmarked(daily[d][a]) = Depth(RowsBy(counted[d], a))
  BY DEF StageTypes, DayIsCounted
<1>2. daily[d][a] >= 0 => RowsBy(counted[d], a) # {}
  BY <1>1, UnmarkedIs, DepthIs
<1>3. daily[d][a] >= 0 /\ a \notin HiddenIps => RowsBy(Rows, a) # {}
  BY <1>2, CountedIsBehind
<1>4. ASSUME a \in OneDayIps
      PROVE  Depth(RowsBy(counted[d], a)) <= Depth(RowsBy(Rows, a))
  BY <1>4, CountedIsBehind, DepthGrows
<1>5. QED
  BY <1>1, <1>3, <1>4

(* The greatest of some stages is one of them.                             *)
LEMMA MaxOfStages ==
  ASSUME NEW S \in SUBSET (-1..4), S # {}
  PROVE  Max(S) \in S /\ \A x \in S : x <= Max(S)
<1>1. \E x \in S : \A y \in S : x >= y
  <2>0. \A x \in S : x \in {-1, 0, 1, 2, 3, 4}
    OBVIOUS
  <2>1. CASE 4 \in S
    BY <2>0, <2>1
  <2>2. CASE 4 \notin S /\ 3 \in S
    BY <2>0, <2>2
  <2>3. CASE 4 \notin S /\ 3 \notin S /\ 2 \in S
    BY <2>0, <2>3
  <2>4. CASE 4 \notin S /\ 3 \notin S /\ 2 \notin S /\ 1 \in S
    BY <2>0, <2>4
  <2>5. CASE 4 \notin S /\ 3 \notin S /\ 2 \notin S /\ 1 \notin S /\ 0 \in S
    BY <2>0, <2>5
  <2>6. CASE 4 \notin S /\ 3 \notin S /\ 2 \notin S /\ 1 \notin S /\ 0 \notin S
    <3>1. \A y \in S : y = -1
      BY <2>0, <2>6
    <3>2. PICK x \in S : TRUE
      OBVIOUS
    <3>3. x = -1 /\ \A y \in S : y = x
      BY <3>1
    <3>4. x >= x
      BY <3>3
    <3>5. QED
      BY <3>3, <3>4
  <2>7. QED
    BY <2>1, <2>2, <2>3, <2>4, <2>5, <2>6
<1>2. Max(S) \in S /\ \A x \in S : Max(S) >= x
  BY <1>1 DEF Max
<1>3. QED
  BY <1>2

(* The stage of an address in a window is that of one of its days there.   *)
LEMMA WindowStageIs ==
  ASSUME StageTypes, NEW a \in Ips, NEW w \in Nat
  PROVE  /\ WindowStage(a, w) \in -1..4
         /\ \A d \in LastDays(w) : d \in Days /\ daily[d][a] <= WindowStage(a, w)
         /\ WindowStage(a, w) >= 0 =>
              \E d \in LastDays(w) : daily[d][a] = WindowStage(a, w)
<1> DEFINE S == {-1} \cup {daily[d][a] : d \in LastDays(w)}
<1>1. LastDays(w) \subseteq Days
  BY DEF LastDays
<1>2. -1 \in -1..4 /\ \A d \in LastDays(w) : daily[d][a] \in -1..4
  BY <1>1 DEF StageTypes
<1>3. S \in SUBSET (-1..4) /\ S # {} /\ WindowStage(a, w) = Max(S)
  BY <1>2 DEF WindowStage
<1>4. Max(S) \in S /\ \A x \in S : x <= Max(S)
  <2> HIDE DEF S
  <2>1. QED
    BY <1>3, MaxOfStages
<1>5. WindowStage(a, w) \in -1..4 /\ WindowStage(a, w) \in S
  BY <1>3, <1>4
<1>6. \A d \in LastDays(w) : daily[d][a] <= WindowStage(a, w)
  BY <1>3, <1>4
<1>7. WindowStage(a, w) >= 0 => \E d \in LastDays(w) : daily[d][a] = WindowStage(a, w)
  BY <1>5
<1>8. QED
  BY <1>1, <1>5, <1>6, <1>7

(* A finite set has an element if and only if its cardinality is not zero. *)
LEMMA FiniteCounts ==
  ASSUME NEW S, IsFiniteSet(S)
  PROVE  Cardinality(S) \in Nat /\ (Cardinality(S) > 0 <=> S # {})
<1>1. Cardinality(S) \in Nat /\ (Cardinality(S) = 0 <=> S = {})
  BY FS_CardinalityType, FS_EmptySet
<1>2. QED
  BY <1>1

(* Five sets that have no element in common.                               *)
LEMMA FiveApart ==
  ASSUME NEW S, IsFiniteSet(S), NEW key, \A x \in S : key[x] \in 0..4
  PROVE  LET N(k) == Cardinality({x \in S : key[x] = k})
         IN  N(0) + N(1) + N(2) + N(3) + N(4) = Cardinality(S)
<1> DEFINE P(k) == {x \in S : key[x] = k}
           U(k) == {x \in S : key[x] <= k}
<1>1. \A k \in 0..4 : /\ IsFiniteSet(P(k)) /\ IsFiniteSet(U(k))
                      /\ Cardinality(P(k)) \in Nat /\ Cardinality(U(k)) \in Nat
  <2> SUFFICES ASSUME NEW k \in 0..4
               PROVE  /\ IsFiniteSet(P(k)) /\ IsFiniteSet(U(k))
                      /\ Cardinality(P(k)) \in Nat /\ Cardinality(U(k)) \in Nat
    OBVIOUS
  <2>1. P(k) \subseteq S /\ U(k) \subseteq S
    OBVIOUS
  <2> HIDE DEF P, U
  <2>2. QED
    BY <2>1, FS_Subset, FS_CardinalityType
<1>2. ASSUME NEW k \in 1..4
      PROVE  Cardinality(U(k)) = Cardinality(U(k - 1)) + Cardinality(P(k))
  <2>1. U(k) = U(k - 1) \cup P(k) /\ U(k - 1) \cap P(k) = {} /\ k - 1 \in 0..4 /\ k \in 0..4
    OBVIOUS
  <2> HIDE DEF P, U
  <2>0. IsFiniteSet(U(k - 1)) /\ IsFiniteSet(P(k))
    BY <1>1, <2>1
  <2>2. Cardinality(U(k - 1) \cup P(k))
          = Cardinality(U(k - 1)) + Cardinality(P(k)) - Cardinality(U(k - 1) \cap P(k))
    BY <2>0, FS_Union
  <2>3. Cardinality({}) = 0
    BY FS_EmptySet
  <2>4. Cardinality(U(k - 1) \cap P(k)) = 0
    BY <2>1, <2>3
  <2>5. Cardinality(U(k - 1)) \in Nat /\ Cardinality(P(k)) \in Nat
    BY <1>1, <2>1
  <2>6. Cardinality(U(k)) = Cardinality(U(k - 1)) + Cardinality(P(k)) - 0
    BY <2>1, <2>2, <2>4
  <2>7. QED
    BY <2>5, <2>6
<1>3. U(0) = P(0) /\ U(4) = S
  OBVIOUS
<1> HIDE DEF P, U
<1>4. Cardinality(U(1)) = Cardinality(P(0)) + Cardinality(P(1))
  <2>1. 1 - 1 = 0 /\ 1 \in 1..4
    OBVIOUS
  <2>2. QED
    BY <1>2, <1>3, <2>1
<1>5. Cardinality(U(2)) = Cardinality(U(1)) + Cardinality(P(2))
  <2>1. 2 - 1 = 1 /\ 2 \in 1..4
    OBVIOUS
  <2>2. QED
    BY <1>2, <2>1
<1>6. Cardinality(U(3)) = Cardinality(U(2)) + Cardinality(P(3))
  <2>1. 3 - 1 = 2 /\ 3 \in 1..4
    OBVIOUS
  <2>2. QED
    BY <1>2, <2>1
<1>7. Cardinality(U(4)) = Cardinality(U(3)) + Cardinality(P(4))
  <2>1. 4 - 1 = 3 /\ 4 \in 1..4
    OBVIOUS
  <2>2. QED
    BY <1>2, <2>1
<1>8. Cardinality(P(0)) + Cardinality(P(1)) + Cardinality(P(2)) + Cardinality(P(3))
        + Cardinality(P(4)) = Cardinality(S)
  BY <1>3, <1>4, <1>5, <1>6, <1>7
<1>9. QED
  BY <1>8 DEF P

(* Only so many sessions have rows as there are events that came.          *)
LEMMA RowsAreFinite ==
  ASSUME SessionInv PROVE IsFiniteSet(Rows)
<1> USE DEF SessionInv
<1> DEFINE There == {t \in Sessions : row[t] # NoRow}
           of == [e \in came |-> SessionOf[e]]
           row_ == [s \in There |-> [session |-> s, day |-> row[s].day, ev |-> row[s].ev]]
<1>1. IsFiniteSet(came)
  BY DEF RunInv
<1>2. There \subseteq {of[e] : e \in came}
  BY DEF TypeOK
<1>3. IsFiniteSet({of[e] : e \in came})
  <2> HIDE DEF of
  <2>1. QED
    BY <1>1, ImageIsFinite
<1>4. IsFiniteSet(There)
  <2> HIDE DEF There, of
  <2>1. QED
    BY <1>2, <1>3, FS_Subset
<1>5. Rows = {row_[s] : s \in There}
  BY DEF Rows
<1> HIDE DEF There, row_
<1>6. QED
  BY <1>4, <1>5, ImageIsFinite

(* The days of a window are made of the rows they have now.                *)
MadeOfRows(w) == \A d \in LastDays(w) : counted[d] = RowsOn(d)

(* Then the legend is the rail.                                            *)
LEMMA LegendAdds ==
  ASSUME StageInv, NEW w \in Nat, MadeOfRows(w) PROVE LegendIsRail(w)
<1> USE DEF StageInv
<1> DEFINE rows == {r \in Rows : r.day \in LastDays(w)}
           AtStage(k) == {a \in Ips : WindowStage(a, w) = k}
           T == StageTotals(w)
           R == Rail(w)
           On(d, a) == RowsBy(RowsOn(d), a)
<1>0. \A r \in Rows : r.session \in Sessions /\ IpOf[r.session] \in Ips /\ r.day \in Days
  BY StageAssumption DEF Rows, SessionInv, TypeOK
<1>1. LastDays(w) \subseteq Days
  BY DEF LastDays
<1>2. UNION {counted[d] : d \in LastDays(w)} = rows
  BY <1>1 DEF MadeOfRows, RowsOn
<1>3. \A k \in 0..4 : /\ T[k].sources = Cardinality(AtStage(k))
                      /\ T[k].sessions = Cardinality({r \in rows : IpOf[r.session] \in AtStage(k)})
  BY <1>2 DEF StageTotals
<1>4. /\ R.connected = Cardinality(rows)
      /\ R.authenticated = Cardinality(Did(rows, "authed"))
      /\ R.shell = Cardinality(Did(rows, "shell"))
      /\ R.transferred = Cardinality(Did(rows, "file"))
  BY DEF Rail
<1>5. IsFiniteSet(Rows) /\ IsFiniteSet(rows) /\ \A deed \in Deeds : IsFiniteSet(Did(rows, deed))
  <2>1. rows \subseteq Rows /\ \A deed \in Deeds : Did(rows, deed) \subseteq Rows
    BY DEF Did
  <2>2. IsFiniteSet(Rows)
    BY RowsAreFinite
  <2> HIDE DEF rows
  <2>3. QED
    BY <2>1, <2>2, FS_Subset
<1>6. ASSUME NEW a \in Ips, NEW d \in LastDays(w)
      PROVE  /\ daily[d][a] \in -1..4
             /\ On(d, a) \subseteq rows
             /\ daily[d][a] >= 0 <=> On(d, a) # {}
             /\ daily[d][a] >= 3 <=> Did(On(d, a), "file") # {}
             /\ daily[d][a] = 2 => Did(On(d, a), "shell") # {}
             /\ daily[d][a] = 1 => Did(On(d, a), "authed") # {}
  <2>1. d \in Days
    BY <1>1
  <2>2. Unmarked(daily[d][a]) = Depth(On(d, a)) /\ daily[d][a] \in -1..4
    BY <2>1 DEF DayIsCounted, MadeOfRows, StageTypes
  <2>3. Depth(On(d, a)) = IF daily[d][a] = 4 THEN 3 ELSE daily[d][a]
    BY <2>2, UnmarkedIs
  <2>4. On(d, a) \subseteq rows
    BY DEF RowsOn, RowsBy
  <2> HIDE DEF On
  <2>5. QED
    BY <2>2, <2>3, <2>4, DepthIs
<1>7. ASSUME NEW r \in rows PROVE WindowStage(IpOf[r.session], w) \in 0..4
  <2> DEFINE a == IpOf[r.session]
  <2>1. a \in Ips /\ r.day \in LastDays(w) /\ r \in On(r.day, a)
    BY <1>0 DEF RowsOn, RowsBy
  <2>2. daily[r.day][a] >= 0 /\ daily[r.day][a] \in -1..4
    BY <1>6, <2>1
  <2>3. WindowStage(a, w) \in -1..4 /\ daily[r.day][a] <= WindowStage(a, w)
    BY <2>1, WindowStageIs
  <2>4. QED
    BY <2>2, <2>3
<1>8. ASSUME NEW k \in 0..4, NEW a \in AtStage(k)
      PROVE  \E d \in LastDays(w) : daily[d][a] = k
  BY WindowStageIs
<1>9. \A k \in 0..4 : IsFiniteSet(AtStage(k))
  <2> SUFFICES ASSUME NEW k \in 0..4 PROVE IsFiniteSet(AtStage(k))
    OBVIOUS
  <2> DEFINE ipOf == [r \in Rows |-> IpOf[r.session]]
  <2>1. IsFiniteSet({ipOf[r] : r \in Rows})
    <3> HIDE DEF ipOf
    <3>1. QED
      BY <1>5, ImageIsFinite
  <2>2. ASSUME NEW a \in AtStage(k) PROVE \E r \in Rows : ipOf[r] = a
    <3>1. PICK d \in LastDays(w) : daily[d][a] = k
      BY <1>8
    <3>2. On(d, a) # {}
      BY <1>6, <3>1
    <3>3. QED
      BY <3>2 DEF RowsOn, RowsBy
  <2>3. AtStage(k) \subseteq {ipOf[r] : r \in Rows}
    BY <2>2
  <2> HIDE DEF AtStage, ipOf
  <2>4. QED
    BY <2>1, <2>3, FS_Subset
<1>10. T[0].sessions + T[1].sessions + T[2].sessions + T[3].sessions + T[4].sessions
         = R.connected
  <2> DEFINE key == [r \in rows |-> WindowStage(IpOf[r.session], w)]
             N(k) == Cardinality({r \in rows : key[r] = k})
  <2>1. \A r \in rows : key[r] \in 0..4
    BY <1>7
  <2>2. \A k \in 0..4 : {r \in rows : IpOf[r.session] \in AtStage(k)} = {r \in rows : key[r] = k}
    BY <1>0
  <2>3. \A k \in 0..4 : T[k].sessions = N(k)
    BY <1>3, <2>2
  <2> HIDE DEF key, rows, T, R
  <2>4. N(0) + N(1) + N(2) + N(3) + N(4) = Cardinality(rows)
    BY <1>5, <2>1, FiveApart
  <2> HIDE DEF N
  <2>5. QED
    BY <1>4, <2>3, <2>4
<1>11. ASSUME NEW deed \in Deeds, NEW a \in Ips, NEW d \in LastDays(w), Did(On(d, a), deed) # {}
       PROVE  Did(rows, deed) # {}
  BY <1>6, <1>11 DEF Did
<1>12. ASSUME NEW k \in 0..4
       PROVE  T[k].sources \in Nat /\ (T[k].sources > 0 <=> AtStage(k) # {})
  <2>1. T[k].sources = Cardinality(AtStage(k)) /\ IsFiniteSet(AtStage(k))
    BY <1>3, <1>9
  <2> HIDE DEF AtStage, T
  <2>2. QED
    BY <2>1, FiniteCounts
<1>13. R.transferred > 0 <=> T[3].sources + T[4].sources > 0
  <2>1. R.transferred > 0 <=> Did(rows, "file") # {}
    BY <1>4, <1>5, FiniteCounts DEF Deeds
  <2>2. ASSUME NEW r \in Did(rows, "file") PROVE IpOf[r.session] \in AtStage(3) \cup AtStage(4)
    <3> DEFINE a == IpOf[r.session]
    <3>1. r \in rows /\ a \in Ips /\ r.day \in LastDays(w) /\ r \in Did(On(r.day, a), "file")
      BY <1>0 DEF RowsOn, RowsBy, Did
    <3>2. daily[r.day][a] >= 3 /\ daily[r.day][a] \in -1..4
      BY <1>6, <3>1
    <3>3. WindowStage(a, w) \in -1..4 /\ daily[r.day][a] <= WindowStage(a, w)
      BY <3>1, WindowStageIs
    <3>4. QED
      BY <3>1, <3>2, <3>3
  <2>3. ASSUME NEW a \in AtStage(3) \cup AtStage(4) PROVE Did(rows, "file") # {}
    <3>1. a \in Ips /\ "file" \in Deeds
      BY DEF Deeds
    <3>2. PICK d \in LastDays(w) : daily[d][a] \in {3, 4}
      BY <1>8
    <3>3. Did(On(d, a), "file") # {}
      BY <1>6, <3>1, <3>2
    <3> HIDE DEF On, rows
    <3>4. QED
      BY <1>11, <3>1, <3>2, <3>3
  <2>4. T[3].sources + T[4].sources > 0 <=> AtStage(3) # {} \/ AtStage(4) # {}
    <3> DEFINE m == T[3].sources n == T[4].sources
    <3>1. m \in Nat /\ n \in Nat /\ (m > 0 <=> AtStage(3) # {}) /\ (n > 0 <=> AtStage(4) # {})
      BY <1>12
    <3> HIDE DEF m, n, AtStage
    <3>2. m + n > 0 <=> AtStage(3) # {} \/ AtStage(4) # {}
      BY <3>1
    <3>3. QED
      BY <3>2 DEF m, n
  <2> HIDE DEF T, R, AtStage
  <2>5. QED
    BY <2>1, <2>2, <2>3, <2>4
<1>14. T[2].sources > 0 => R.shell > 0
  <2>1. R.shell > 0 <=> Did(rows, "shell") # {}
    BY <1>4, <1>5, FiniteCounts DEF Deeds
  <2>2. ASSUME NEW a \in AtStage(2) PROVE Did(rows, "shell") # {}
    <3>1. a \in Ips /\ "shell" \in Deeds
      BY DEF Deeds
    <3>2. PICK d \in LastDays(w) : daily[d][a] = 2
      BY <1>8
    <3>3. Did(On(d, a), "shell") # {}
      BY <1>6, <3>1, <3>2
    <3> HIDE DEF On, rows
    <3>4. QED
      BY <1>11, <3>1, <3>2, <3>3
  <2>3. QED
    BY <1>12, <2>1, <2>2
<1>15. T[1].sources > 0 => R.authenticated > 0
  <2>1. R.authenticated > 0 <=> Did(rows, "authed") # {}
    BY <1>4, <1>5, FiniteCounts DEF Deeds
  <2>2. ASSUME NEW a \in AtStage(1) PROVE Did(rows, "authed") # {}
    <3>1. a \in Ips /\ "authed" \in Deeds
      BY DEF Deeds
    <3>2. PICK d \in LastDays(w) : daily[d][a] = 1
      BY <1>8
    <3>3. Did(On(d, a), "authed") # {}
      BY <1>6, <3>1, <3>2
    <3> HIDE DEF On, rows
    <3>4. QED
      BY <1>11, <3>1, <3>2, <3>3
  <2>3. QED
    BY <1>12, <2>1, <2>2
<1>16. QED
  BY <1>10, <1>13, <1>14, <1>15 DEF LegendIsRail

(* With nothing to purge, what is shown is all there is.                   *)
LEMMA AllIsShown ==
  ASSUME LastInv, Settled, NEW d \in Days
  PROVE  /\ \A r \in counted[d] : Shown(r.session)
         /\ \A r \in Rows : Shown(r.session)
<1> USE DEF LastInv
<1>1. CASE ~ excluded
  BY <1>1 DEF Shown
<1>2. CASE excluded
  <2>1. purged
    BY <1>2 DEF Settled
  <2>2. \A r \in Rows : r.session \in Sessions /\ row[r.session] # NoRow
    BY DaysAreNat DEF StageInv
  <2>3. QED
    BY <2>1, <2>2 DEF OperatorIsGone, Shown
<1>3. QED
  BY <1>1, <1>2

(* The last days are made of the rows they have, and tell one story.       *)
LEMMA LastDaysDoAgree == LastInv => LastDaysAgree
<1> SUFFICES ASSUME LastInv, Settled, NEW w \in 0..(RecentDays - 1),
                    \A d \in LastDays(w) : \E r \in Rows : r.day <= d
             PROVE  OneStory(w)
  BY DEF LastDaysAgree
<1> USE DEF LastInv
<1>1. /\ today \in Nat /\ RecentDays \in Nat /\ \A d \in Days : d \in Nat
      /\ LastDays(w) \subseteq Days /\ \A d \in LastDays(w) : d >= today - w
  BY DaysAreNat DEF StageInv, LastDays
<1>2. w \in Nat
  BY <1>1
<1>3. pc # "derive" /\ fresh
  BY DEF StageInv, Settled
<1>4. ASSUME NEW d \in LastDays(w) PROVE counted[d] = RowsOn(d)
  <2>1. d \in Days /\ d + RecentDays > today
    BY <1>1, <1>2
  <2>2. SameShown(d)
    BY <1>3, <2>1 DEF LastIsDerived
  <2>3. \A r : r \in counted[d] \/ r \in RowsOn(d) => Shown(r.session)
    BY <2>1, AllIsShown DEF RowsOn
  <2>4. QED
    BY <2>2, <2>3 DEF SameShown
<1>5. LegendIsRail(w)
  BY <1>2, <1>4, LegendAdds DEF MadeOfRows
<1>6. ASSUME NEW d \in LastDays(w) PROVE DayIsItsSessions(d)
  BY <1>1, <1>4 DEF DayIsItsSessions, StageInv, DayIsCounted, Unmarked
<1>7. QED
  BY <1>5, <1>6 DEF OneStory

(* The lifetime stage, the stages of the days, the verdicts, the map and,  *)
(* over the last days, the rail and its legend agree after a complete run, *)
(* though rows are deleted, replaced and moved to another day, days are    *)
(* missed, and runs fail anywhere (rebuild, rebuild_daily, map_points,     *)
(* sources, stage_totals).                                                 *)
THEOREM StagesDoAgree ==
  ASSUME KeptFor PROVE StageSpec => []StagesAgree
<1>1. ASSUME LastInv PROVE StagesAgree
  <2> USE <1>1 DEF LastInv, StageInv
  <2>1. LifetimeReachesDays
    <3> SUFFICES ASSUME fresh, NEW a \in OneDayIps, NEW d \in Days
                 PROVE  /\ Unmarked(daily[d][a]) <= lifetime[a]
                        /\ daily[d][a] = 4 /\ a \in Bad => lifetime[a] = 4
      BY DEF LifetimeReachesDays, Unmarked
    <3>1. a \in Ips /\ lifetime[a] = Reached(a)
      BY DEF LifetimeIsReached, OneDayIps
    <3>2. /\ Unmarked(daily[d][a]) <= Depth(RowsBy(Rows, a))
          /\ daily[d][a] \in -1..4
      BY <3>1, StageIsBehind
    <3>3. /\ Depth(RowsBy(Rows, a)) \in -1..3 /\ Reached(a) \in -1..4
          /\ Depth(RowsBy(Rows, a)) <= Reached(a)
      BY <3>1, DepthIs, ReachedIs
    <3>4. Unmarked(daily[d][a]) = IF daily[d][a] = 4 THEN 3 ELSE daily[d][a]
      BY <3>2, UnmarkedIs
    <3>5. daily[d][a] = 4 => RowsBy(Rows, a) # {}
      BY <3>2, <3>3, <3>4, DepthIs
    <3>6. daily[d][a] = 4 /\ a \in Bad => Reached(a) = 4
      BY <3>1, <3>5, ReachedIs
    <3>7. QED
      BY <3>1, <3>2, <3>3, <3>4, <3>6
  <2>2. MapIsList
    <3> SUFFICES ASSUME fresh, NEW w \in Windows, NEW m \in 0..4, NEW a \in Ips \ HiddenIps,
                        WindowStage(a, w) >= 0
                 PROVE  lifetime[a] >= 0
      BY DEF MapIsList, MapPoints, SourcesListed
    <3>1. w \in Nat
      BY DaysAreNat DEF Windows
    <3>2. PICK d \in LastDays(w) : d \in Days /\ daily[d][a] >= 0
      BY <3>1, WindowStageIs
    <3>3. RowsBy(Rows, a) # {}
      BY <3>2, StageIsBehind
    <3>4. Reached(a) \in -1..4 /\ Reached(a) # -1
      BY <3>3, ReachedIs
    <3>5. lifetime[a] = Reached(a)
      BY DEF LifetimeIsReached
    <3>6. QED
      BY <3>4, <3>5
  <2>3. QED
    BY <2>1, <2>2, LastDaysDoAgree DEF StagesAgree
<1>2. QED
  BY <1>1, LastInvInit, LastInvNext, PTL DEF StageSpec

-----------------------------------------------------------------------------
(* The networks page.  Any rows that may come can be in the table, in any  *)
(* number, with any verdicts.                                              *)
NetInv ==
  /\ asnRows \subseteq NetRows /\ IsFiniteSet(asnRows)
  /\ malIps \subseteq NetIps

(* Events are counted in whole numbers.                                    *)
LEMMA EventsAreNat ==
  ASSUME NetInv, NEW n
  PROVE  EventsOf(n) \in Nat
<1> DEFINE f == [r \in NetRows |-> r.events]
           rows == RowsOfAsn(n)
<1>1. rows \subseteq asnRows /\ rows \subseteq NetRows
  BY DEF RowsOfAsn, InWindow, NetInv
<1>2. IsFiniteSet(rows) /\ \A r \in rows : f[r] \in Nat
  BY <1>1, FS_Subset, NetworksAssumption DEF NetInv
<1>3. \A r \in rows : f[r] = r.events
  BY <1>1
<1>4. EventsOf(n) = (CHOOSE it : Sums(it, f, rows))[rows]
  <2> HIDE DEF rows
  <2> DEFINE Folds(it) ==
        it = [s \in SUBSET rows |->
                IF s = {} THEN 0
                ELSE (CHOOSE x \in s : TRUE).events + it[s \ {CHOOSE x \in s : TRUE}]]
  <2>1. EventsIn(rows) = (CHOOSE it : Folds(it))[rows]
    BY DEF EventsIn, MapThenSumSet, MapThenFoldSet
  <2>2. ASSUME NEW it PROVE Folds(it) <=> Sums(it, f, rows)
    <3> DEFINE pick(s) == CHOOSE x \in s : TRUE
    <3>1. \A s \in SUBSET rows : s # {} => f[pick(s)] = pick(s).events
      BY <1>3
    <3> HIDE DEF pick, f
    <3>2. [s \in SUBSET rows |-> IF s = {} THEN 0 ELSE pick(s).events + it[s \ {pick(s)}]]
            = [s \in SUBSET rows |-> IF s = {} THEN 0 ELSE f[pick(s)] + it[s \ {pick(s)}]]
      BY <3>1
    <3>3. QED
      BY <3>2 DEF Sums, pick
  <2> HIDE DEF Folds, f
  <2>3. (CHOOSE it : Folds(it)) = (CHOOSE it : Sums(it, f, rows))
    BY <2>2
  <2>4. QED
    BY <2>1, <2>3 DEF EventsOf, rows
<1> HIDE DEF f, rows
<1>5. EventsOf(n) = Cardinality(Copies(f, rows))
  BY <1>2, <1>4, SumIsCount
<1>6. QED
  BY <1>2, <1>5, CopiesAre

(* The networks of a window, and how far each got.                         *)
LEMMA AsnsAre ==
  ASSUME NetInv
  PROVE  /\ IsFiniteSet(Asns)
         /\ \A n \in Asns :
              /\ DepthOf(n) \in 0..4
              /\ n \notin MaliciousAsns =>
                   (DepthOf(n) >= 2 <=> \E r \in RowsOfAsn(n) : r.depth >= 2)
<1> USE DEF NetInv
<1>1. InWindow \subseteq asnRows /\ IsFiniteSet(InWindow)
  BY FS_Subset DEF InWindow
<1>2. IsFiniteSet(Asns)
  <2> DEFINE g == [r \in InWindow |-> AsnOf[r.ip]]
  <2>1. Asns = {g[r] : r \in InWindow}
    BY DEF Asns
  <2> HIDE DEF g
  <2>2. QED
    BY <1>1, <2>1, ImageIsFinite
<1>3. ASSUME NEW n \in Asns
      PROVE  /\ DepthOf(n) \in 0..4
             /\ n \notin MaliciousAsns =>
                  (DepthOf(n) >= 2 <=> \E r \in RowsOfAsn(n) : r.depth >= 2)
  <2> DEFINE R == RowsOfAsn(n)
             d == [r \in R |-> r.depth]
             D == {d[r] : r \in R}
  <2>1. R # {} /\ R \subseteq InWindow /\ IsFiniteSet(R)
    BY <1>1, FS_Subset DEF Asns, RowsOfAsn
  <2>2. \A r \in R : d[r] = r.depth /\ r.depth \in 0..3
    BY <1>1, <2>1, NetworksAssumption
  <2>3. IsFiniteSet(D)
    <3> HIDE DEF d, R
    <3>1. QED
      BY <2>1, ImageIsFinite
  <2>4. D # {} /\ D \in SUBSET Nat /\ D \subseteq 0..3
    BY <2>1, <2>2
  <2>5. {r.depth : r \in RowsOfAsn(n)} = D
    BY <2>2
  <2>6. Max(D) \in D /\ \A x \in D : x <= Max(D)
    <3> HIDE DEF D
    <3>1. QED
      BY <2>3, <2>4, MaxOfFinite
  <2>7. DepthOf(n) = IF n \in MaliciousAsns THEN 4 ELSE Max(D)
    BY <2>5 DEF DepthOf
  <2>8. Max(D) \in 0..3 /\ (Max(D) >= 2 <=> \E r \in R : r.depth >= 2)
    <3>1. Max(D) \in 0..3
      BY <2>4, <2>6
    <3>2. \A r \in R : r.depth \in D /\ r.depth <= Max(D) /\ r.depth \in 0..3
      BY <2>2, <2>6
    <3>3. \E r \in R : r.depth = Max(D)
      BY <2>2, <2>6
    <3> HIDE DEF D, R
    <3>4. QED
      BY <3>1, <3>2, <3>3
  <2> HIDE DEF D
  <2>9. QED
    BY <2>7, <2>8
<1>4. QED
  BY <1>2, <1>3

(* A network whose addresses reached a shell is before one that did not.   *)
LEMMA ShellOutranks == NetInv => ShellOutranksNoise
<1> SUFFICES ASSUME NetInv, Cardinality(Asns) <= RowLimit,
                    NEW m \in Asns, NEW n \in Listed, DepthOf(m) >= 2, DepthOf(n) < 2
             PROVE  m \in Listed
  BY DEF ShellOutranksNoise
<1>1. /\ IsFiniteSet(Asns) /\ Cardinality(Asns) \in Nat
      /\ RowLimit \in Nat /\ ListLimit \in Nat
  BY AsnsAre, FS_CardinalityType, NetworksAssumption
<1>2. m \in Shortlist
  <2> DEFINE L == {k \in Asns : Louder(k, m)}
  <2>1. m \notin L
    BY EventsAreNat, NetworksAssumption DEF Louder, Asns, InWindow, NetInv
  <2>2. L \subseteq Asns \ {m}
    BY <2>1
  <2>3. IsFiniteSet(Asns \ {m}) /\ Cardinality(Asns \ {m}) = Cardinality(Asns) - 1
    BY <1>1, FS_RemoveElement
  <2>4. Cardinality(L) <= Cardinality(Asns) - 1 /\ Cardinality(L) \in Nat
    <3> HIDE DEF L
    <3>1. QED
      BY <2>2, <2>3, FS_Subset, FS_CardinalityType
  <2>5. Cardinality(L) < RowLimit
    BY <1>1, <2>4
  <2>6. QED
    BY <2>5 DEF Shortlist
<1>3. Shortlist \subseteq Asns /\ n \in Shortlist
  BY DEF Shortlist, Listed
<1> DEFINE M == {k \in Shortlist : RanksBefore(k, m)}
           N == {k \in Shortlist : RanksBefore(k, n)}
<1>4. M \subseteq N
  <2> SUFFICES ASSUME NEW k \in M PROVE RanksBefore(k, n)
    OBVIOUS
  <2>1. k \in Asns /\ DepthOf(k) \in 0..4 /\ DepthOf(m) \in 0..4 /\ DepthOf(n) \in 0..4
    BY <1>3, AsnsAre
  <2>2. DepthOf(k) >= DepthOf(m)
    BY <2>1 DEF RanksBefore
  <2>3. QED
    BY <2>1, <2>2 DEF RanksBefore
<1>5. IsFiniteSet(N)
  BY <1>1, <1>3, FS_Subset
<1>6. Cardinality(N) < ListLimit
  BY DEF Listed
<1>7. Cardinality(M) <= Cardinality(N) /\ Cardinality(M) \in Nat /\ Cardinality(N) \in Nat
  <2> HIDE DEF M, N
  <2>1. QED
    BY <1>4, <1>5, FS_Subset, FS_CardinalityType
<1>8. Cardinality(M) < ListLimit
  BY <1>1, <1>6, <1>7
<1>9. QED
  BY <1>2, <1>8 DEF Listed

(* The ranking of the networks page is sound for any addresses, networks,  *)
(* rows and verdicts, and any limits of the page (abuse_scores).           *)
THEOREM RankingDoesHold == NetSpec => []RankingIsSound
<1>1. NetInit => NetInv
  BY FS_EmptySet DEF NetInit, NetInv
<1>2. NetInv /\ [NetNext]_netVars => NetInv'
  BY FS_AddElement DEF NetInv, NetNext, netVars
<1>3. ASSUME NetInv PROVE RankingIsSound
  <2>1. MalwareIsDeepest
    BY <1>3 DEF MalwareIsDeepest, DepthOf, MaliciousAsns, Spelled
  <2>2. ClassFitsDepth
    <3> SUFFICES ASSUME NEW n \in Asns \ MaliciousAsns
                 PROVE  Class(n) = "hands-on" <=> DepthOf(n) >= 2
      BY DEF ClassFitsDepth
    <3>1. DepthOf(n) >= 2 <=> \E r \in RowsOfAsn(n) : r.depth >= 2
      BY <1>3, AsnsAre
    <3>2. Class(n) = "hands-on" <=> \E r \in RowsOfAsn(n) : r.depth >= 2
      BY DEF Class
    <3>3. QED
      BY <3>1, <3>2
  <2>3. ShellOutranksNoise
    BY <1>3, ShellOutranks
  <2>4. QED
    BY <2>1, <2>2, <2>3 DEF RankingIsSound
<1>4. QED
  BY <1>1, <1>2, <1>3, PTL DEF NetSpec
-----------------------------------------------------------------------------
(* Volume spikes.                                                          *)
SpikesInv ==
  /\ series \in Seq(Nat)
  /\ notes \in Seq([events : Nat, baseline : Nat])
  /\ Len(notes) = Len(series)

(* The k-th smallest of some numbers is a number.                          *)
LEMMA SmallestIsNat ==
  ASSUME NEW s \in Seq(Nat), NEW k \in 1..Len(s)
  PROVE  Smallest(s, k) \in Nat
<1> DEFINE R == {s[i] : i \in 1..Len(s)}
           Below(v) == {j \in DOMAIN s : s[j] <= v}
           S == {v \in R : Cardinality(Below(v)) >= k}
<1>1. /\ DOMAIN s = 1..Len(s) /\ Len(s) \in Nat /\ ToSet(s) = R
      /\ \A i \in 1..Len(s) : s[i] \in Nat
  BY DEF ToSet
<1>2. IsFiniteSet(1..Len(s)) /\ Cardinality(1..Len(s)) = Len(s)
  <2> DEFINE n == Len(s)
  <2>1. n \in Nat
    OBVIOUS
  <2> HIDE DEF n
  <2>2. IsFiniteSet(1..n) /\ Cardinality(1..n) = IF 1 > n THEN 0 ELSE n - 1 + 1
    BY <2>1, FS_Interval
  <2>3. Cardinality(1..n) = n
    BY <2>1, <2>2
  <2>4. QED
    BY <2>2, <2>3 DEF n
<1>3. R \in SUBSET Nat /\ R # {} /\ IsFiniteSet(R)
  <2>1. R \in SUBSET Nat /\ R # {}
    BY <1>1
  <2>2. IsFiniteSet(R)
    <3> DEFINE I == 1..Len(s)
    <3> HIDE DEF I
    <3>1. IsFiniteSet({s[i] : i \in I})
      BY <1>2, ImageIsFinite DEF I
    <3>2. QED
      BY <3>1 DEF I
  <2>3. QED
    BY <2>1, <2>2
<1>4. Max(R) \in R /\ \A x \in R : x <= Max(R)
  <2> HIDE DEF R
  <2>1. QED
    BY <1>3, MaxOfFinite
<1>5. Below(Max(R)) = 1..Len(s)
  <2>1. \A i \in 1..Len(s) : s[i] \in R
    OBVIOUS
  <2> HIDE DEF R
  <2>2. QED
    BY <1>1, <1>4, <2>1
<1>6. Max(R) \in S
  <2> HIDE DEF R, Below
  <2>1. Cardinality(Below(Max(R))) = Len(s) /\ k <= Len(s) /\ k \in Nat /\ Len(s) \in Nat
    BY <1>2, <1>5
  <2>2. QED
    BY <1>4, <2>1
<1>7. S \in SUBSET Nat /\ S # {}
  BY <1>3, <1>6
<1>8. Min(S) \in Nat
  <2> HIDE DEF S
  <2>1. QED
    BY <1>7, MinOfNat
<1>9. QED
  BY <1>1, <1>8 DEF Smallest

(* The median of some numbers, doubled, is a number.                       *)
LEMMA MedianIsNat ==
  ASSUME NEW s \in Seq(Nat), Len(s) >= 1
  PROVE  Median2(s) \in Nat
<1>1. (Len(s) + 1) \div 2 \in 1..Len(s) /\ Len(s) \div 2 + 1 \in 1..Len(s)
  <2> DEFINE n == Len(s)
  <2>1. n \in Nat /\ n >= 1
    OBVIOUS
  <2> HIDE DEF n
  <2>2. (n + 1) \div 2 \in 1..n /\ n \div 2 + 1 \in 1..n
    BY <2>1
  <2>3. QED
    BY <2>2 DEF n
<1>2. QED
  BY <1>1, SmallestIsNat DEF Median2

(* The days before a day.                                                  *)
LEMMA BaselineIs ==
  ASSUME NEW i \in 1..Len(series), series \in Seq(Nat)
  PROVE  LET lo == IF i > BaselineDays THEN i - BaselineDays ELSE 1
         IN  /\ Baseline(i) \in Seq(Nat)
             /\ DOMAIN Baseline(i) = 1..Len(Baseline(i))
             /\ Len(Baseline(i)) = IF lo <= i - 1 THEN i - 1 - lo + 1 ELSE 0
             /\ \A j \in 1..Len(Baseline(i)) :
                  lo + j - 1 \in 1..(i - 1) /\ Baseline(i)[j] = series[lo + j - 1]
<1> DEFINE lo == IF i > BaselineDays THEN i - BaselineDays ELSE 1
           hi == i - 1
<1>1. BaselineDays \in Nat /\ i \in Nat /\ Len(series) \in Nat /\ i <= Len(series)
  BY SpikesAssumption
<1>2. lo \in Nat /\ hi \in Nat /\ hi = i - 1 /\ lo >= 1
  BY <1>1
<1>3. \A j \in lo..hi : series[j] \in Nat
  BY <1>1, <1>2
<1>4. Baseline(i) = SubSeq(series, lo, hi)
  BY DEF Baseline
<1> HIDE DEF lo, hi
<1>5. /\ Baseline(i) \in Seq(Nat)
      /\ Len(Baseline(i)) = IF lo <= hi THEN hi - lo + 1 ELSE 0
      /\ \A j \in 1..(hi - lo + 1) : Baseline(i)[j] = series[lo + j - 1]
  BY <1>2, <1>3, <1>4, SubSeqProperties
<1>6. \A j \in 1..Len(Baseline(i)) : /\ lo + j - 1 \in 1..hi
                                     /\ Baseline(i)[j] = series[lo + j - 1]
  <2> SUFFICES ASSUME NEW j \in 1..Len(Baseline(i))
               PROVE  lo + j - 1 \in 1..hi /\ Baseline(i)[j] = series[lo + j - 1]
    OBVIOUS
  <2>1. lo <= hi /\ j \in 1..(hi - lo + 1)
    BY <1>2, <1>5
  <2>2. QED
    BY <1>2, <1>5, <2>1
<1>7. QED
  BY <1>2, <1>5, <1>6 DEF lo, hi

(* What a day is judged by is numbers.                                     *)
LEMMA JudgedByNat ==
  ASSUME NEW s \in Seq(Nat), Len(s) >= 1
  PROVE  LET med == Median2(s)
             dev == Median2([j \in DOMAIN s |-> AbsDiff(2 * s[j], med)])
         IN  med \in Nat /\ dev \in Nat
<1> DEFINE med == Median2(s)
           d == [j \in DOMAIN s |-> AbsDiff(2 * s[j], med)]
<1>1. med \in Nat
  BY MedianIsNat
<1>2. DOMAIN s = 1..Len(s) /\ Len(s) \in Nat /\ \A j \in 1..Len(s) : s[j] \in Nat
  OBVIOUS
<1> HIDE DEF med
<1>3. \A j \in 1..Len(s) : AbsDiff(2 * s[j], med) \in Nat
  BY <1>1, <1>2 DEF AbsDiff
<1>4. d \in Seq(Nat) /\ Len(d) = Len(s)
  BY <1>2, <1>3
<1>5. Median2(d) \in Nat
  <2> HIDE DEF d
  <2>1. QED
    BY <1>4, MedianIsNat
<1>6. QED
  BY <1>1, <1>5 DEF med

(* No day has come.                                                        *)
LEMMA SpikesInvInit == SpikesInit => SpikesInv
  BY DEF SpikesInit, SpikesInv

(* A new day, a day that grows, and a pass over the days keep it.          *)
LEMMA SpikesInvNext == SpikesInv /\ [SpikesNext]_spikeVars => SpikesInv'
<1> SUFFICES ASSUME SpikesInv, [SpikesNext]_spikeVars PROVE SpikesInv'
  OBVIOUS
<1> USE DEF SpikesInv
<1>1. ASSUME NEW n \in Counts, SpikeDay(n) PROVE SpikesInv'
  <2>1. n \in Nat /\ [events |-> 0, baseline |-> 0] \in [events : Nat, baseline : Nat]
    BY SpikesAssumption
  <2>2. QED
    BY <1>1, <2>1 DEF SpikeDay
<1>2. ASSUME NEW i \in 1..SpikeDays, NEW n \in Counts, DayGrows(i, n) PROVE SpikesInv'
  <2>1. n \in Nat
    BY SpikesAssumption
  <2>2. QED
    BY <1>2, <2>1 DEF DayGrows
<1>3. ASSUME Annotate PROVE SpikesInv'
  <2> DEFINE note(i) == IF i \in ToNote
                          THEN [events |-> series[i], baseline |-> Median2(Baseline(i))]
                          ELSE notes[i]
             N == [events : Nat, baseline : Nat]
  <2>1. DOMAIN notes = 1..Len(notes) /\ Len(notes) \in Nat /\ Len(notes) = Len(series)
        /\ \A i \in 1..Len(notes) : notes[i] \in N
    <3>1. notes \in Seq(N) /\ Len(notes) = Len(series)
      OBVIOUS
    <3> HIDE DEF N
    <3>2. QED
      BY <3>1
  <2>2. ASSUME NEW i \in 1..Len(notes) PROVE note(i) \in N
    <3>1. CASE i \in ToNote
      <4>1. Len(Baseline(i)) >= MinBaseline /\ MinBaseline >= 1
        BY <3>1, SpikesAssumption DEF ToNote, LastOf, SpikesFound, Spike
      <4>2. Baseline(i) \in Seq(Nat) /\ Len(Baseline(i)) \in Nat
        BY <2>1, BaselineIs
      <4>3. Median2(Baseline(i)) \in Nat
        BY <4>1, <4>2, SpikesAssumption, MedianIsNat
      <4>4. series[i] \in Nat
        BY <2>1
      <4>5. QED
        BY <3>1, <4>3, <4>4
    <3>2. CASE i \notin ToNote
      BY <2>1, <3>2
    <3>3. QED
      BY <3>1, <3>2
  <2>3. notes' = [i \in 1..Len(notes) |-> note(i)] /\ series' = series
    BY <1>3, <2>1 DEF Annotate
  <2> HIDE DEF note, N
  <2>4. notes' \in Seq(N) /\ Len(notes') = Len(notes)
    <3> DEFINE n == Len(notes)
    <3>1. n \in Nat /\ notes' \in [1..n -> N] /\ DOMAIN notes' = 1..n
      BY <2>1, <2>2, <2>3
    <3> HIDE DEF n
    <3>2. notes' \in Seq(N)
      BY <3>1, SeqDef
    <3>3. Len(notes') = n
      BY <3>1, <3>2, LenProperties
    <3>4. QED
      BY <3>2, <3>3 DEF n
  <2>5. QED
    BY <2>1, <2>3, <2>4 DEF N
<1>4. QED
  BY <1>1, <1>2, <1>3 DEF SpikesNext, spikeVars

(* A note on a spike says what the day has come to (annotate).             *)
THEOREM NotesAreKept == SpikesSpec => NotesAreCurrent
<1>1. ASSUME SpikesInv, [SpikesNext]_spikeVars
      PROVE  /\ Annotate => \A i \in LastOf(SpikesFound) : notes'[i].events = series[i]
             /\ Annotate /\ (\A i \in LastOf(SpikesFound) : notes[i].events = series[i])
               => notes' = notes /\ noted' = {}
             /\ \A i \in DOMAIN notes : notes[i].events > 0 => notes'[i].events > 0
  <2>1. /\ DOMAIN notes = 1..Len(notes) /\ notes = [i \in DOMAIN notes |-> notes[i]]
        /\ Len(notes) \in Nat /\ DOMAIN series = DOMAIN notes
    BY <1>1 DEF SpikesInv
  <2>2. LastOf(SpikesFound) \subseteq DOMAIN notes /\ ToNote \subseteq LastOf(SpikesFound)
    BY <2>1 DEF LastOf, SpikesFound, ToNote
  <2>3. ASSUME Annotate
        PROVE  /\ \A i \in LastOf(SpikesFound) : notes'[i].events = series[i]
               /\ (\A i \in LastOf(SpikesFound) : notes[i].events = series[i])
                    => notes' = notes /\ noted' = {}
               /\ \A i \in DOMAIN notes : notes[i].events > 0 => notes'[i].events > 0
    <3>1. \A i \in LastOf(SpikesFound) : notes'[i].events = series[i]
      BY <2>2, <2>3 DEF Annotate, ToNote
    <3>2. ASSUME \A i \in LastOf(SpikesFound) : notes[i].events = series[i]
          PROVE  notes' = notes /\ noted' = {}
      <4>1. ToNote = {}
        BY <3>2 DEF ToNote
      <4>2. notes' = [i \in DOMAIN notes |-> notes[i]] /\ noted' = {}
        BY <2>3, <4>1 DEF Annotate
      <4>3. QED
        BY <2>1, <4>2
    <3>3. ASSUME NEW i \in DOMAIN notes, notes[i].events > 0 PROVE notes'[i].events > 0
      <4>1. CASE i \in ToNote
        <5>1. series[i] >= MinEvents /\ MinEvents >= 1 /\ series[i] \in Nat /\ MinEvents \in Nat
          <6>1. i \in DOMAIN series /\ Spike(i)
            BY <4>1 DEF ToNote, LastOf, SpikesFound
          <6>2. series[i] \in Nat
            BY <1>1, <6>1 DEF SpikesInv
          <6>3. series[i] >= MinEvents
            BY <6>1 DEF Spike
          <6>4. QED
            BY <6>2, <6>3, SpikesAssumption
        <5>2. notes'[i].events = series[i]
          BY <2>3, <4>1 DEF Annotate
        <5>3. QED
          BY <5>1, <5>2
      <4>2. CASE i \notin ToNote
        BY <2>3, <3>3, <4>2 DEF Annotate
      <4>3. QED
        BY <4>1, <4>2
    <3>4. QED
      BY <3>1, <3>2, <3>3
  <2>4. ASSUME NEW n \in Counts, SpikeDay(n), NEW i \in DOMAIN notes
        PROVE  notes'[i] = notes[i]
    BY <1>1, <2>1, <2>4 DEF SpikeDay, SpikesInv
  <2>5. ASSUME ~ Annotate, NEW i \in DOMAIN notes PROVE notes'[i] = notes[i]
    BY <1>1, <2>4, <2>5 DEF SpikesNext, DayGrows, spikeVars
  <2>6. QED
    BY <2>3, <2>5
<1>2. QED
  BY <1>1, SpikesInvInit, SpikesInvNext, PTL DEF SpikesSpec, NotesAreCurrent

(* Days are only added.                                                    *)
LEMMA SeriesGrows ==
  ASSUME SpikesInv, [SpikesNext]_spikeVars
  PROVE  Len(series) <= Len(series')
<1> DEFINE k == Len(series)
           l == Len(series')
<1>1. k \in Nat /\ series \in Seq(Nat)
  BY DEF SpikesInv
<1>2. ASSUME NEW n \in Counts, SpikeDay(n) PROVE l = k + 1
  BY <1>1, <1>2, SpikesAssumption DEF SpikeDay
<1>3. ASSUME NEW i \in 1..SpikeDays, NEW n \in Counts, DayGrows(i, n) PROVE l = k
  BY <1>1, <1>3 DEF DayGrows
<1>4. ASSUME Annotate \/ UNCHANGED spikeVars PROVE l = k
  BY <1>4 DEF Annotate, spikeVars
<1>5. l = k + 1 \/ l = k
  BY <1>2, <1>3, <1>4 DEF SpikesNext
<1> HIDE DEF k, l
<1>6. k <= l
  BY <1>1, <1>5
<1>7. QED
  BY <1>6 DEF k, l

(* What a day comes to itself never lifts the bar it has to pass, for any  *)
(* length of the baseline and any counts (score_series).                   *)
THEOREM GrowingIsKept == SpikesSpec => GrowingStaysSpike
<1>1. ASSUME SpikesInv, SpikesInv', [SpikesNext]_spikeVars, NEW i \in DOMAIN series,
             Spike(i), series'[i] >= series[i], \A j \in 1..(i - 1) : series'[j] = series[j]
      PROVE  Spike(i)'
  <2>1. /\ DOMAIN series = 1..Len(series) /\ DOMAIN series' = 1..Len(series')
        /\ Len(series) \in Nat /\ Len(series') \in Nat
    BY <1>1 DEF SpikesInv
  <2>2. Len(series) <= Len(series')
    BY <1>1, SeriesGrows
  <2>3. i \in 1..Len(series) /\ i \in 1..Len(series')
    BY <2>1, <2>2
  <2> DEFINE lo == IF i > BaselineDays THEN i - BaselineDays ELSE 1
             B == Baseline(i)
             C == Baseline(i)'
  <2>4. /\ B \in Seq(Nat) /\ DOMAIN B = 1..Len(B)
        /\ Len(B) = IF lo <= i - 1 THEN i - 1 - lo + 1 ELSE 0
        /\ \A j \in 1..Len(B) : lo + j - 1 \in 1..(i - 1) /\ B[j] = series[lo + j - 1]
    BY <1>1, <2>3, BaselineIs DEF SpikesInv
  <2>5. /\ C \in Seq(Nat) /\ DOMAIN C = 1..Len(C)
        /\ Len(C) = IF lo <= i - 1 THEN i - 1 - lo + 1 ELSE 0
        /\ \A j \in 1..Len(C) : lo + j - 1 \in 1..(i - 1) /\ C[j] = series'[lo + j - 1]
    <3>1. BaselineDays \in Nat /\ i \in Nat
      BY <2>1, SpikesAssumption
    <3> DEFINE hi == i - 1
    <3>2. lo \in Nat /\ hi \in Nat /\ lo >= 1
      BY <2>3, <3>1
    <3>3. \A j \in lo..hi : series'[j] \in Nat
      <4>1. \A j \in lo..hi : j \in 1..Len(series')
        BY <2>1, <2>3, <3>2
      <4>2. series' \in Seq(Nat)
        BY <1>1 DEF SpikesInv
      <4> HIDE DEF lo, hi
      <4>3. QED
        BY <4>1, <4>2
    <3>4. C = SubSeq(series', lo, hi)
      BY DEF Baseline
    <3> HIDE DEF lo, hi
    <3>5. /\ C \in Seq(Nat)
          /\ Len(C) = IF lo <= hi THEN hi - lo + 1 ELSE 0
          /\ \A j \in 1..(hi - lo + 1) : C[j] = series'[lo + j - 1]
      BY <3>2, <3>3, <3>4, SubSeqProperties
    <3> HIDE DEF C
    <3>6. \A j \in 1..Len(C) : lo + j - 1 \in 1..hi /\ C[j] = series'[lo + j - 1]
      BY <3>2, <3>5
    <3>7. QED
      BY <3>5, <3>6 DEF hi
  <2> HIDE DEF lo, B, C
  <2>6. Len(C) = Len(B) /\ \A j \in 1..Len(B) : C[j] = B[j]
    <3>1. Len(C) = Len(B)
      BY <2>4, <2>5
    <3>2. \A k \in 1..(i - 1) : series'[k] = series[k]
      BY <1>1
    <3>3. QED
      BY <2>4, <2>5, <3>1, <3>2
  <2>7. C = B
    BY <2>4, <2>5, <2>6, SeqEqual
  <2> DEFINE med == Median2(B)
             dev == Median2([j \in DOMAIN B |-> AbsDiff(2 * B[j], med)])
             mad == IF dev = 0 THEN 4 ELSE dev
             Passes(x) == /\ Len(B) >= MinBaseline
                          /\ 2 * 6745 * (2 * x - med) >= 35000 * mad
                          /\ med > 0 /\ 8 * x >= 7 * med
                          /\ x >= MinEvents
  <2>8. Spike(i) <=> Passes(series[i])
    BY DEF Spike, B
  <2>9. Spike(i)' <=> Passes(series'[i])
    <3>1. Spike(i)' <=>
            LET m == Median2(C)
                v == Median2([j \in DOMAIN C |-> AbsDiff(2 * C[j], m)])
                a == IF v = 0 THEN 4 ELSE v
            IN  /\ Len(C) >= MinBaseline
                /\ 2 * 6745 * (2 * series'[i] - m) >= 35000 * a
                /\ m > 0 /\ 8 * series'[i] >= 7 * m
                /\ series'[i] >= MinEvents
      BY DEF Spike, C
    <3>2. QED
      BY <2>7, <3>1
  <2>10. Len(B) >= 1
    BY <1>1, <2>4, <2>8, SpikesAssumption
  <2>11. med \in Nat /\ mad \in Nat
    BY <2>4, <2>10, JudgedByNat
  <2>12. series[i] \in Nat /\ series'[i] \in Nat /\ series'[i] >= series[i] /\ MinEvents \in Nat
    <3>1. series \in Seq(Nat) /\ series' \in Seq(Nat)
      BY <1>1 DEF SpikesInv
    <3>2. series[i] \in Nat
      BY <2>3, <3>1
    <3>3. series'[i] \in Nat
      BY <2>3, <3>1
    <3>4. QED
      BY <1>1, <3>2, <3>3, SpikesAssumption
  <2> HIDE DEF med, mad
  <2>13. Passes(series[i]) => Passes(series'[i])
    <3> SUFFICES ASSUME NEW x \in Nat, NEW y \in Nat, x <= y, Passes(x)
                 PROVE  Passes(y)
      BY <2>12
    <3>1. 8 * x >= 7 * med /\ x >= MinEvents /\ 2 * 6745 * (2 * x - med) >= 35000 * mad
      OBVIOUS
    <3>2. 8 * y >= 7 * med /\ y >= MinEvents
      BY <2>11, <2>12, <3>1
    <3>3. 2 * 6745 * (2 * y - med) >= 35000 * mad
      BY <2>11, <3>1
    <3>4. QED
      BY <3>2, <3>3
  <2>14. QED
    BY <1>1, <2>8, <2>9, <2>13
<1>2. SpikesInv /\ SpikesInv' /\ [SpikesNext]_spikeVars =>
        \A i \in DOMAIN series :
          /\ Spike(i) /\ series'[i] >= series[i]
          /\ \A j \in 1..(i - 1) : series'[j] = series[j]
          => Spike(i)'
  BY <1>1
<1>3. QED
  BY <1>2, SpikesInvInit, SpikesInvNext, PTL DEF SpikesSpec, GrowingStaysSpike
-----------------------------------------------------------------------------
(* The family of a sample.  What a set of labels says of it, whatever the  *)
(* order of the rows they were read from:                                  *)
VotesIn(R, t) ==
  2 * Cardinality({r \in R : r.label[1] = t})
  + Cardinality({r \in R : t \in ToSet(Tail(r.label))})
TokensIn(R) == UNION {ToSet(r.label) : r \in R}
LeadIn(R) == {t \in TokensIn(R) : \A u \in TokensIn(R) : VotesIn(R, u) <= VotesIn(R, t)}
NamersIn(R, t) == {r.vendor : r \in {q \in R : t \in ToSet(q.label)}}
NamingIn(R, t) ==
  [name |-> t,
   confidence |-> IF Cardinality(NamersIn(R, t)) > 1 THEN "agreed" ELSE "single-vendor"]

AnswerRows ==
  [vendor : DOMAIN Labels, label : UNION {Labels[v] : v \in DOMAIN Labels}, flagged : BOOLEAN]

(* A vendor has one row, with one of its labels.                           *)
OneRowEach ==
  /\ answers \in Seq(AnswerRows)
  /\ \A i \in DOMAIN answers : answers[i].label \in Labels[answers[i].vendor]
  /\ \A i, j \in DOMAIN answers : answers[i].vendor = answers[j].vendor => i = j

(* The family is one of those the labels it was derived from lead to.      *)
FamInv ==
  /\ OneRowEach
  /\ said = {} => family = None
  /\ said # {} => \E t \in LeadIn(said) : family = NamingIn(said, t)

(* A voter has a label with a first token.                                 *)
LEMMA VoterLabels ==
  ASSUME OneRowEach, NEW i \in Voters
  PROVE  /\ i \in DOMAIN answers
         /\ answers[i].label \in Seq(TokensOf(i))
         /\ Len(answers[i].label) \in Nat /\ Len(answers[i].label) > 0
         /\ 1 \in DOMAIN answers[i].label
<1>1. i \in DOMAIN answers /\ answers[i].label # <<>>
  BY DEF Voters
<1>2. answers[i] \in AnswerRows
  BY <1>1 DEF OneRowEach
<1>3. answers[i].vendor \in DOMAIN Labels /\ answers[i].label \in Labels[answers[i].vendor]
  BY <1>1, <1>2 DEF OneRowEach, AnswerRows
<1>4. answers[i].label \in Seq(TokensOf(i))
  BY <1>3, FamiliesAssumption DEF TokensOf
<1>5. Len(answers[i].label) \in Nat /\ Len(answers[i].label) > 0
  BY <1>1, <1>4, EmptySeq
<1>6. QED
  BY <1>1, <1>4, <1>5

(* The voters are finitely many, and no two of them say the same.          *)
LEMMA SaidCount ==
  ASSUME OneRowEach, NEW A \in SUBSET Voters
  PROVE  /\ IsFiniteSet(A)
         /\ Cardinality({[vendor |-> answers[i].vendor, label |-> answers[i].label] : i \in A})
              = Cardinality(A)
<1> DEFINE Says(i) == [vendor |-> answers[i].vendor, label |-> answers[i].label]
           T == {Says(i) : i \in A}
           f == [i \in A |-> Says(i)]
<1>1. A \subseteq DOMAIN answers
  BY DEF Voters
<1>2. DOMAIN answers = 1..Len(answers) /\ Len(answers) \in Nat
  BY DEF OneRowEach
<1>3. IsFiniteSet(A)
  <2>1. IsFiniteSet(1..Len(answers))
    BY <1>2, FS_Interval
  <2>2. QED
    BY <1>1, <1>2, <2>1, FS_Subset
<1>4. \A i, j \in A : Says(i) = Says(j) => i = j
  <2>1. ASSUME NEW i \in A, NEW j \in A, Says(i) = Says(j) PROVE i = j
    <3>1. answers[i].vendor = answers[j].vendor
      BY <2>1
    <3>2. QED
      BY <1>1, <3>1 DEF OneRowEach
  <2>2. QED
    BY <2>1
<1>5. f \in Bijection(A, T)
  <2> HIDE DEF Says
  <2>1. f \in [A -> T] /\ (\A i, j \in A : f[i] = f[j] => i = j)
    BY <1>4
  <2>2. \A y \in T : \E x \in A : f[x] = y
    OBVIOUS
  <2>3. QED
    BY <2>1, <2>2 DEF Bijection, Injection, Surjection, IsInjective
<1>6. ExistsBijection(A, T)
  BY <1>5 DEF ExistsBijection
<1>7. Cardinality(T) = Cardinality(A)
  <2> HIDE DEF T
  <2> QED BY <1>3, <1>6, FS_Bijection
<1>8. QED
  BY <1>3, <1>7

(* What the rows say, and what their labels say.                           *)
LEMMA SaidVotes ==
  ASSUME OneRowEach
  PROVE  /\ Said = {} <=> Voters = {}
         /\ TokensIn(Said) = Tokens
         /\ \A t \in Tokens : VotesIn(Said, t) = Votes(t) /\ Votes(t) \in Nat
         /\ LeadIn(Said) = Best
         /\ \A t \in Tokens : NamersIn(Said, t) = NamedBy(t)
<1> DEFINE Says(i) == [vendor |-> answers[i].vendor, label |-> answers[i].label]
<1>1. Said = {Says(i) : i \in Voters}
  BY DEF Said
<1>2. \A i \in Voters : Says(i).vendor = answers[i].vendor /\ Says(i).label = answers[i].label
  OBVIOUS
<1> HIDE DEF Says
<1>3. Said = {} <=> Voters = {}
  BY <1>1
<1>4. TokensIn(Said) = Tokens
  BY <1>1, <1>2 DEF TokensIn, Tokens, TokensOf
<1>5. ASSUME NEW t PROVE VotesIn(Said, t) = Votes(t) /\ Votes(t) \in Nat
  <2> DEFINE A == {i \in Voters : answers[i].label[1] = t}
             B == {i \in Voters : t \in ToSet(Tail(answers[i].label))}
  <2>1. {r \in Said : r.label[1] = t} = {Says(i) : i \in A}
    BY <1>1, <1>2
  <2>2. {r \in Said : t \in ToSet(Tail(r.label))} = {Says(i) : i \in B}
    BY <1>1, <1>2
  <2>3. A \in SUBSET Voters /\ B \in SUBSET Voters
    OBVIOUS
  <2> HIDE DEF A, B
  <2>4. \A C \in SUBSET Voters : IsFiniteSet(C) /\ Cardinality({Says(i) : i \in C}) = Cardinality(C)
    BY SaidCount DEF Says
  <2>5. Cardinality(A) \in Nat /\ Cardinality(B) \in Nat
    BY <2>3, <2>4, FS_CardinalityType
  <2>6. VotesIn(Said, t) = 2 * Cardinality(A) + Cardinality(B)
    BY <2>1, <2>2, <2>3, <2>4 DEF VotesIn
  <2>7. Votes(t) = 2 * Cardinality(A) + Cardinality(B)
    BY DEF Votes, A, B
  <2>8. QED
    BY <2>5, <2>6, <2>7
<1>6. LeadIn(Said) = Best
  BY <1>4, <1>5 DEF LeadIn, Best
<1>7. ASSUME NEW t PROVE NamersIn(Said, t) = NamedBy(t)
  BY <1>1, <1>2 DEF NamersIn, NamedBy, TokensOf
<1>8. QED
  BY <1>3, <1>4, <1>5, <1>6, <1>7

(* The voters name finitely many tokens.                                   *)
LEMMA TokensAreFew ==
  ASSUME OneRowEach
  PROVE  IsFiniteSet(Tokens) /\ IsFiniteSet(Best)
<1> DEFINE F == {TokensOf(j) : j \in Voters}
<1>1. IsFiniteSet(F)
  <2>1. IsFiniteSet(Voters)
    BY SaidCount
  <2> DEFINE g == [j \in Voters |-> TokensOf(j)]
  <2>2. g \in Surjection(Voters, F)
    <3> HIDE DEF TokensOf
    <3> QED BY DEF Surjection
  <2> HIDE DEF g, F
  <2>3. QED
    BY <2>1, <2>2, FS_Surjection
<1>2. \A T \in F : IsFiniteSet(T)
  <2>1. ASSUME NEW j \in Voters PROVE IsFiniteSet(TokensOf(j))
    <3> DEFINE l == answers[j].label
    <3>1. l \in Seq(TokensOf(j)) /\ Len(l) \in Nat
      BY VoterLabels
    <3>2. IsFiniteSet(DOMAIN l)
      <4>1. DOMAIN l = 1..Len(l)
        BY <3>1
      <4>2. 1 \in Int /\ Len(l) \in Int
        BY <3>1
      <4>3. IsFiniteSet(1..Len(l))
        <5> DEFINE n == Len(l)
        <5> HIDE DEF n
        <5>1. n \in Int
          BY <4>2 DEF n
        <5>2. IsFiniteSet(1..n)
          BY <4>2, <5>1, FS_Interval
        <5>3. QED
          BY <5>2 DEF n
      <4>4. QED
        BY <4>1, <4>3
    <3>3. TokensOf(j) = {l[k] : k \in DOMAIN l}
      BY DEF TokensOf, ToSet
    <3>4. l \in Surjection(DOMAIN l, TokensOf(j))
      <4>1. l \in [DOMAIN l -> TokensOf(j)]
        BY <3>1
      <4>2. QED
        BY <3>3, <4>1 DEF Surjection
    <3> HIDE DEF l
    <3>5. QED
      BY <3>2, <3>4, FS_Surjection
  <2>2. QED
    BY <2>1
<1> HIDE DEF F
<1>3. IsFiniteSet(UNION F)
  BY <1>1, <1>2, FS_UNION
<1>4. IsFiniteSet(Tokens)
  BY <1>3 DEF Tokens, F
<1>5. QED
  BY <1>4, FS_Subset DEF Best

(* Where labels vote, a token leads, and one that leads is taken.          *)
LEMMA FirstLeads ==
  ASSUME OneRowEach, Voters # {}
  PROVE  FirstOf(Best) \in Best
<1>1. PICK i \in Voters : TRUE
  OBVIOUS
<1>2. Tokens # {}
  <2>1. answers[i].label[1] \in TokensOf(i)
    BY VoterLabels DEF TokensOf, ToSet
  <2>2. QED
    BY <2>1 DEF Tokens
<1>3. IsFiniteSet(Tokens)
  BY TokensAreFew
<1>4. PICK t \in Tokens : \A u \in Tokens : Votes(u) <= Votes(t)
  <2> DEFINE V == {Votes(u) : u \in Tokens}
             g == [u \in Tokens |-> Votes(u)]
  <2>1. V \in SUBSET Nat /\ V # {}
    BY <1>2, SaidVotes
  <2>2. g \in Surjection(Tokens, V)
    <3> HIDE DEF Votes
    <3> QED BY DEF Surjection
  <2>3. IsFiniteSet(V)
    <3> HIDE DEF V, g
    <3> QED BY <1>3, <2>2, FS_Surjection
  <2> HIDE DEF V
  <2>4. \E x \in V : \A y \in V : y <= x
    BY <2>1, <2>3, GreatestNat
  <2>5. QED
    BY <2>4 DEF V
<1>5. t \in Best
  BY <1>4 DEF Best
<1> DEFINE J == {j \in Voters : TokensOf(j) \cap Best # {}}
<1>6. J \in SUBSET Nat /\ J # {}
  <2>1. \A j \in Voters : j \in Nat
    <3>1. answers \in Seq(AnswerRows)
      BY DEF OneRowEach
    <3>2. \A j \in DOMAIN answers : j \in Nat
      BY <3>1
    <3>3. QED
      BY <3>2 DEF Voters
  <2>2. PICK j \in Voters : t \in TokensOf(j)
    BY <1>4 DEF Tokens
  <2>3. j \in J
    BY <1>5, <2>2
  <2>4. QED
    BY <2>1, <2>3
<1>7. Min(J) \in J
  <2> HIDE DEF J
  <2> QED BY <1>6, MinOfNat
<1> DEFINE m == Min(J)
           l == answers[m].label
           K == {k \in DOMAIN l : l[k] \in Best}
<1>8. m \in Voters /\ TokensOf(m) \cap Best # {}
  BY <1>7
<1> HIDE DEF m
<1>9. l \in Seq(TokensOf(m)) /\ TokensOf(m) = {l[k] : k \in DOMAIN l}
  BY <1>8, VoterLabels DEF TokensOf, ToSet
<1> HIDE DEF l
<1>10. K \in SUBSET Nat /\ K # {}
  <2>1. \A k \in DOMAIN l : k \in Nat
    BY <1>9
  <2>2. \E k \in DOMAIN l : l[k] \in Best
    BY <1>8, <1>9
  <2>3. QED
    BY <2>1, <2>2
<1>11. Min(K) \in K
  <2> HIDE DEF K
  <2> QED BY <1>10, MinOfNat
<1>12. FirstOf(Best) = l[Min(K)]
  BY DEF FirstOf, l, m
<1>13. QED
  BY <1>11, <1>12

(* Without the row at m the others stay, in their order.                   *)
LEMMA RowTakenOut ==
  ASSUME NEW S, NEW s \in Seq(S), NEW m \in DOMAIN s
  PROVE  /\ RemoveAt(s, m) \in Seq(S)
         /\ Len(RemoveAt(s, m)) = Len(s) - 1
         /\ \A i \in 1..(Len(s) - 1) :
              RemoveAt(s, m)[i] = s[IF i < m THEN i ELSE i + 1]
<1> DEFINE a == SubSeq(s, 1, m - 1)
           b == SubSeq(s, m + 1, Len(s))
<1>1. m \in 1..Len(s) /\ Len(s) \in Nat
  OBVIOUS
<1>2. a \in Seq(S) /\ Len(a) = m - 1 /\ \A i \in 1..(m - 1) : a[i] = s[i]
  BY <1>1
<1>3. b \in Seq(S) /\ Len(b) = Len(s) - m /\ \A i \in 1..(Len(s) - m) : b[i] = s[m + i]
  BY <1>1
<1> HIDE DEF a, b
<1>4. RemoveAt(s, m) = a \o b
  BY DEF RemoveAt, a, b
<1>5. a \o b \in Seq(S) /\ Len(a \o b) = Len(s) - 1
  BY <1>1, <1>2, <1>3
<1>6. ASSUME NEW i \in 1..(Len(s) - 1)
      PROVE  (a \o b)[i] = s[IF i < m THEN i ELSE i + 1]
  <2>1. CASE i < m
    BY <1>1, <1>2, <1>3, <2>1
  <2>2. CASE ~ (i < m)
    <3>1. (a \o b)[i] = b[i - (m - 1)]
      BY <1>1, <1>2, <1>3, <2>2
    <3>2. i - (m - 1) \in 1..(Len(s) - m) /\ m + (i - (m - 1)) = i + 1
      BY <1>1, <2>2
    <3>3. QED
      BY <1>3, <2>2, <3>1, <3>2
  <2>3. QED
    BY <2>1, <2>2
<1>7. QED
  BY <1>4, <1>5, <1>6

(* An answer takes the place of its vendor's earlier one.                  *)
LEMMA SavedOnce ==
  ASSUME OneRowEach, NEW v \in DOMAIN Labels, NEW flagged \in BOOLEAN,
         NEW label \in Labels[v], SaveIntel(v, label, flagged)
  PROVE  OneRowEach'
<1> DEFINE old == {i \in DOMAIN answers : answers[i].vendor = v}
           kept == IF old = {} THEN answers ELSE RemoveAt(answers, Min(old))
           new == [vendor |-> v, label |-> label, flagged |-> flagged]
           Rowed(s) == /\ s \in Seq(AnswerRows)
                       /\ \A i \in DOMAIN s : s[i].label \in Labels[s[i].vendor]
                       /\ \A i, j \in DOMAIN s : s[i].vendor = s[j].vendor => i = j
<1>1. answers' = Append(kept, new)
  BY DEF SaveIntel
<1>2. Rowed(answers) /\ Len(answers) \in Nat /\ DOMAIN answers = 1..Len(answers)
  BY DEF OneRowEach
<1>3. new \in AnswerRows /\ new.vendor = v /\ new.label = label
  BY DEF AnswerRows
<1>4. Rowed(kept) /\ \A i \in DOMAIN kept : kept[i].vendor # v
  <2>1. CASE old = {}
    BY <1>2, <2>1
  <2>2. CASE old # {}
    <3>1. Min(old) \in old
      <4>1. old \in SUBSET Nat
        BY <1>2
      <4> HIDE DEF old
      <4>2. QED
        BY <2>2, <4>1, MinOfNat
    <3> DEFINE m == Min(old)
    <3>2. m \in DOMAIN answers /\ answers[m].vendor = v
      BY <3>1
    <3>3. kept = RemoveAt(answers, m)
      BY <2>2
    <3> HIDE DEF m, kept, old, new
    <3> DEFINE Past(i) == IF i < m THEN i ELSE i + 1
    <3>4. /\ kept \in Seq(AnswerRows) /\ Len(kept) = Len(answers) - 1
          /\ \A i \in 1..(Len(answers) - 1) : kept[i] = answers[Past(i)]
      <4>1. answers \in Seq(AnswerRows) /\ m \in DOMAIN answers
        BY <1>2, <3>2
      <4>2. /\ RemoveAt(answers, m) \in Seq(AnswerRows)
            /\ Len(RemoveAt(answers, m)) = Len(answers) - 1
            /\ \A i \in 1..(Len(answers) - 1) :
                 RemoveAt(answers, m)[i] = answers[IF i < m THEN i ELSE i + 1]
        BY <4>1, RowTakenOut
      <4>3. QED
        BY <3>3, <4>2
    <3>5. DOMAIN kept = 1..(Len(answers) - 1)
      BY <3>4
    <3>6. \A i \in DOMAIN kept : Past(i) \in DOMAIN answers /\ Past(i) # m
      BY <1>2, <3>2, <3>5
    <3>7. \A i, j \in DOMAIN kept : Past(i) = Past(j) => i = j
      BY <1>2, <3>2, <3>5
    <3> HIDE DEF Past
    <3>8. \A i \in DOMAIN kept : kept[i] = answers[Past(i)]
      BY <3>4, <3>5
    <3>9. \A i, j \in DOMAIN kept : kept[i].vendor = kept[j].vendor => i = j
      BY <1>2, <3>6, <3>7, <3>8
    <3>10. \A i \in DOMAIN kept : kept[i].vendor # v
      BY <1>2, <3>2, <3>6, <3>8
    <3>11. QED
      BY <1>2, <3>4, <3>6, <3>8, <3>9, <3>10
  <2>3. QED
    BY <2>1, <2>2
<1> HIDE DEF kept, new, old
<1>5. kept \in Seq(AnswerRows) /\ Len(kept) \in Nat /\ DOMAIN kept = 1..Len(kept)
  BY <1>4
<1> DEFINE all == Append(kept, new)
<1>6. /\ all \in Seq(AnswerRows) /\ DOMAIN all = 1..(Len(kept) + 1)
      /\ all[Len(kept) + 1] = new
      /\ \A i \in 1..Len(kept) : all[i] = kept[i]
  BY <1>3, <1>5
<1> HIDE DEF all
<1>7. \A i \in DOMAIN all : i \in DOMAIN kept \/ i = Len(kept) + 1
  BY <1>5, <1>6
<1>8. \A i \in DOMAIN all : all[i].label \in Labels[all[i].vendor]
  BY <1>3, <1>4, <1>5, <1>6, <1>7
<1>9. ASSUME NEW i \in DOMAIN all, NEW j \in DOMAIN all, all[i].vendor = all[j].vendor
      PROVE  i = j
  BY <1>3, <1>4, <1>5, <1>6, <1>7, <1>9
<1>10. Rowed(all)
  BY <1>6, <1>8, <1>9
<1>11. QED
  BY <1>1, <1>10 DEF OneRowEach, all

(* What a rebuild writes is what the labels of the rows lead to.           *)
LEMMA RebuiltFamily ==
  ASSUME OneRowEach, RebuildFamily
  PROVE  /\ said' = Said
         /\ Said = {} => family' = None
         /\ Said # {} => /\ FirstOf(Best) \in LeadIn(Said)
                         /\ family' = NamingIn(Said, FirstOf(Best))
<1>1. said' = Said /\ family' = Derived
  BY DEF RebuildFamily
<1>2. Said = {} => family' = None
  BY <1>1, SaidVotes DEF Derived
<1>3. ASSUME Said # {}
      PROVE  /\ FirstOf(Best) \in LeadIn(Said)
             /\ family' = NamingIn(Said, FirstOf(Best))
  <2>1. Voters # {}
    BY <1>3, SaidVotes
  <2>2. FirstOf(Best) \in Best
    BY <2>1, FirstLeads
  <2>3. FirstOf(Best) \in Tokens
    BY <2>2 DEF Best
  <2>4. NamersIn(Said, FirstOf(Best)) = NamedBy(FirstOf(Best)) /\ LeadIn(Said) = Best
    BY <2>3, SaidVotes
  <2>5. family' = Naming(FirstOf(Best))
    BY <1>1, <2>1 DEF Derived
  <2>6. QED
    BY <2>2, <2>4, <2>5 DEF Naming, NamingIn
<1>4. QED
  BY <1>1, <1>2, <1>3

(* Without answers there is no family.                                     *)
LEMMA FamInvInit == FamInit => FamInv
  BY DEF FamInit, FamInv, OneRowEach

(* An answer leaves the family; a rebuild follows the labels.              *)
LEMMA FamInvNext == FamInv /\ [FamNext]_famVars => FamInv'
<1> SUFFICES ASSUME FamInv, [FamNext]_famVars PROVE FamInv'
  OBVIOUS
<1>1. CASE \E v \in DOMAIN Labels, flagged \in BOOLEAN :
             \E label \in Labels[v] : SaveIntel(v, label, flagged)
  <2>1. OneRowEach'
    BY <1>1, SavedOnce DEF FamInv
  <2>2. family' = family /\ said' = said
    BY <1>1 DEF SaveIntel
  <2>3. QED
    BY <2>1, <2>2 DEF FamInv, LeadIn, TokensIn, VotesIn, NamingIn, NamersIn
<1>2. CASE RebuildFamily
  <2>1. OneRowEach'
    BY <1>2 DEF FamInv, OneRowEach, RebuildFamily
  <2>2. /\ said' = Said
        /\ Said = {} => family' = None
        /\ Said # {} => /\ FirstOf(Best) \in LeadIn(Said)
                        /\ family' = NamingIn(Said, FirstOf(Best))
    BY <1>2, RebuiltFamily DEF FamInv
  <2>3. said' = {} => family' = None'
    BY <2>2 DEF None
  <2>4. said' # {} => \E t \in LeadIn(said') : family' = NamingIn(said', t)
    BY <2>2
  <2>5. QED
    BY <2>1, <2>3, <2>4 DEF FamInv, LeadIn, TokensIn, VotesIn, NamingIn, NamersIn
<1>3. CASE UNCHANGED famVars
  BY <1>3 DEF famVars, FamInv, OneRowEach, LeadIn, TokensIn, VotesIn, NamingIn, NamersIn, None
<1>4. QED
  BY <1>1, <1>2, <1>3 DEF FamNext

(* The family of a sample depends on what the vendors say, and on the      *)
(* order they answered in only where two tokens lead; and it is agreed     *)
(* only where two vendors name it.                                         *)
THEOREM FamilyIsKept == FamSpec => SameLabelsSameFamily
<1>1. ASSUME FamInv, RebuildFamily, said = Said, Cardinality(Best) = 1
      PROVE  family' = family
  <2>1. OneRowEach
    BY <1>1 DEF FamInv
  <2>2. CASE Said = {}
    BY <1>1, <2>1, <2>2, RebuiltFamily DEF FamInv
  <2>3. CASE Said # {}
    <3>1. PICK t \in LeadIn(Said) : family = NamingIn(Said, t)
      BY <1>1, <2>3 DEF FamInv
    <3>2. FirstOf(Best) \in LeadIn(Said) /\ family' = NamingIn(Said, FirstOf(Best))
      BY <1>1, <2>1, <2>3, RebuiltFamily
    <3>3. LeadIn(Said) = Best
      BY <2>1, SaidVotes
    <3>4. PICK x : Best = {x}
      <4>1. IsFiniteSet(Best)
        BY <2>1, TokensAreFew
      <4>2. QED
        BY <1>1, <4>1, FS_Singleton
    <3>5. t = FirstOf(Best)
      BY <3>1, <3>2, <3>3, <3>4
    <3>6. QED
      BY <3>1, <3>2, <3>5
  <2>4. QED
    BY <2>2, <2>3
<1>2. ASSUME FamInv, [FamNext]_famVars, family' # family, family'.confidence = "agreed"
      PROVE  \E r, s \in Said : /\ r.vendor # s.vendor
                                /\ family'.name \in ToSet(r.label) \cap ToSet(s.label)
  <2>1. RebuildFamily
    BY <1>2 DEF FamNext, SaveIntel, famVars
  <2>2. OneRowEach
    BY <1>2 DEF FamInv
  <2>3. Said # {}
    BY <1>2, <2>1, <2>2, RebuiltFamily DEF None
  <2> DEFINE t == FirstOf(Best)
             N == NamersIn(Said, t)
  <2>4. family' = NamingIn(Said, t)
    BY <2>1, <2>2, <2>3, RebuiltFamily
  <2> HIDE DEF t
  <2>5. Cardinality(N) > 1 /\ family'.name = t
    BY <1>2, <2>4 DEF NamingIn
  <2>6. \E a, b \in N : a # b
    <3> HIDE DEF N
    <3>1. SUFFICES ASSUME \A a, b \in N : a = b PROVE FALSE
      OBVIOUS
    <3>2. CASE N = {}
      BY <2>5, <3>2, FS_EmptySet
    <3>3. CASE N # {}
      <4>1. PICK a \in N : TRUE
        BY <3>3
      <4>2. N = {a}
        BY <3>1, <4>1
      <4>3. Cardinality(N) = 1
        BY <4>2, FS_Singleton
      <4>4. QED
        BY <2>5, <4>3
    <3>4. QED
      BY <3>2, <3>3
  <2>7. QED
    BY <2>5, <2>6 DEF NamersIn
<1>3. FamInv /\ [FamNext]_famVars =>
        [/\ RebuildFamily /\ said = Said /\ Cardinality(Best) = 1
              => family' = family
         /\ family' # family /\ family'.confidence = "agreed" =>
              \E r, s \in Said : /\ r.vendor # s.vendor
                                 /\ family'.name \in ToSet(r.label) \cap ToSet(s.label)]_famVars
  BY <1>1, <1>2
<1>4. QED
  BY <1>3, FamInvInit, FamInvNext, PTL DEF FamSpec, SameLabelsSameFamily
=============================================================================
