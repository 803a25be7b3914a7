---------------------------- MODULE StageHistory ----------------------------
(***************************************************************************)
(* How far each address got: source_stage over its lifetime (rebuild) and  *)
(* source_stage_daily by day (rebuild_daily) of escalation.py.             *)
(*                                                                         *)
(* Both are derived from the rows of session_facts, which an earlier stage *)
(* of the same run deletes, replaces and moves (SessionFacts); stage 4     *)
(* comes from verdicts that a later stage gives, and takes back, days      *)
(* after the transfer.  A stage of -1 stands for no row.  The front page   *)
(* reads them all: the rail the sessions, its legend, list and map what    *)
(* was derived from them.                                                  *)
(***************************************************************************)
EXTENDS SessionFacts

CONSTANTS Ips,
          IpOf,         (* the address of each session                     *)
          Placed,       (* the addresses with coordinates in sources       *)
          DeedOf,       (* what each event shows of its session            *)
          Malware,      (* the samples that may be held to be bad          *)
          ShaOf         (* the sample of each file                         *)

Deeds == {"connected", "authed", "shell", "file"}
Files == {e \in Events : DeedOf[e] = "file"}

ASSUME StageAssumption ==
  /\ IpOf \in [Sessions -> Ips] /\ Placed \subseteq Ips
  /\ DeedOf \in [Events -> Deeds] /\ ShaOf \in [Files -> Malware]
  /\ \A s \in Sessions, f \in Operator :
       IpOf[s] = IpOf[SessionOf[f]] => \E e \in Operator : SessionOf[e] = s

VARIABLES pushed,    \* payload_sightings: the files seen
          verdicts,  \* payload_intel: the samples held to be bad
          lifetime,  \* source_stage
          daily,     \* source_stage_daily: the stage
          counted,   \* and the rows it is made of
          fresh,     \* nothing has changed since a run was complete (history)
          onTime,    \* so far every day was in time (history)
          ran,       \* today a complete run has had all of the days before
                     \* today, and no other run has failed since (history)
          covers     \* the run that goes on has had all of them (history)

tables == <<pushed, verdicts, lifetime, daily, counted>>
marks == <<fresh, onTime, ran, covers>>
stageVars == <<tables, marks>>

NoRows == [a \in Ips |-> -1]

StageInit ==
  /\ pushed = {} /\ verdicts = {}
  /\ lifetime = NoRows
  /\ daily = [d \in Days |-> NoRows]
  /\ counted = [d \in Days |-> {}]
  /\ fresh = FALSE /\ onTime = TRUE /\ ran = FALSE /\ covers = FALSE

Bad == {IpOf[SessionOf[e]] : e \in {f \in pushed : ShaOf[f] \in verdicts}}

(* The rows of session_facts, and what is read of them. *)
Rows == {[session |-> s, day |-> row[s].day, ev |-> row[s].ev] :
           s \in {t \in Sessions : row[t] # NoRow}}
RowsOn(d) == {r \in Rows : r.day = d}
RowsBy(rows, a) == {r \in rows : IpOf[r.session] = a}
Did(rows, deed) == {r \in rows : \E e \in r.ev : DeedOf[e] = deed}
Depth(rows) ==
  IF rows = {} THEN -1
  ELSE IF Did(rows, "file") # {} THEN 3
  ELSE IF Did(rows, "shell") # {} THEN 2
  ELSE IF Did(rows, "authed") # {} THEN 1 ELSE 0

(* One row for each address that has a session. *)
Reached(a) ==
  IF RowsBy(Rows, a) # {} /\ a \in Bad THEN 4 ELSE Depth(RowsBy(Rows, a))

DaysThere == {r.day : r \in Rows}
AllStageDays == IF DaysThere = {} THEN {} ELSE Min(DaysThere)..Max(DaysThere)

(* Bug to catch: one day less. *)
StaleDaysShort ==
  {d \in AllStageDays : \/ daily[d] = NoRows
                        \/ d + RecentDays > Max(AllStageDays) + 1}

(* The days rebuild_daily finds, over the days of session_facts. *)
StaleDays ==
  {d \in AllStageDays : \/ daily[d] = NoRows
                        \/ d + RecentDays > Max(AllStageDays)}
-----------------------------------------------------------------------------
(* main: build_sessions, as in SessionFacts, and build_payloads. *)
PlanSessions ==
  /\ Plan
  /\ fresh' = FALSE /\ covers' = TRUE
  /\ UNCHANGED <<tables, onTime, ran>>

BuildSessions(d) == BuildDay(d) /\ UNCHANGED stageVars

BuildPayloads ==
  /\ days = {} /\ Commit("build", "seen")
  /\ pushed' = pushed \cup (Visible \cap Files)
  /\ UNCHANGED <<row, verdicts, lifetime, daily, counted, marks>>

(* rebuild, and the days rebuild_daily finds. *)
Rebuild ==
  /\ pc = "seen" /\ pc' = "derive"
  /\ lifetime' = [a \in Ips |-> Reached(a)]
  /\ days' = StaleDays
  /\ UNCHANGED <<rawVars, late, purged, row, pushed, verdicts, daily, counted, marks>>

RebuildDay(d) ==
  /\ TakeDay("derive", d)
  /\ daily' = [daily EXCEPT ![d] = [a \in Ips |-> Depth(RowsBy(RowsOn(d), a))]]
  /\ counted' = [counted EXCEPT ![d] = RowsOn(d)]
  /\ UNCHANGED <<row, pushed, verdicts, lifetime, marks>>

(* Bug to catch: only the days this run has rebuilt. *)
UpgradedLate ==
  [d \in Days |-> [a \in Ips |->
     IF a \in Bad /\ daily[d][a] >= 3 /\ d + RecentDays > today
       THEN 4 ELSE daily[d][a]]]

(* The upgrade is of every day there is. *)
Upgraded ==
  [d \in Days |-> [a \in Ips |->
     IF a \in Bad /\ daily[d][a] >= 3 THEN 4 ELSE daily[d][a]]]

Upgrade ==
  /\ days = {} /\ Commit("derive", "record")
  /\ daily' = Upgraded
  /\ fresh' = TRUE /\ ran' = (ran \/ covers)
  /\ UNCHANGED <<row, pushed, verdicts, lifetime, counted, onTime, covers>>

(* enrich replaces the verdicts on files that were seen. *)
Enrich ==
  /\ Commit("record", "purge")
  /\ verdicts' \in SUBSET (verdicts \cup {ShaOf[e] : e \in pushed})
  /\ fresh' = (fresh /\ verdicts' = verdicts)
  /\ UNCHANGED <<row, pushed, lifetime, daily, counted, onTime, ran, covers>>

(* purge_excluded.sql *)
HiddenIps == {IpOf[SessionOf[e]] : e \in Operator}
PurgeStages ==
  /\ Purge
  /\ IF excluded
       THEN /\ pushed' = pushed \ Operator
            /\ lifetime' = [a \in Ips |-> IF a \in HiddenIps THEN -1 ELSE lifetime[a]]
            /\ daily' = [d \in Days |-> [a \in Ips |->
                           IF a \in HiddenIps THEN -1 ELSE daily[d][a]]]
            /\ counted' = [d \in Days |->
                             {r \in counted[d] : IpOf[r.session] \notin HiddenIps}]
       ELSE UNCHANGED <<pushed, lifetime, daily, counted>>
  /\ UNCHANGED <<verdicts, marks>>

(* A day is in time when somebody came who was gone by midnight, when a    *)
(* complete run began after all of the days before had come, and when no   *)
(* run failed after it.                                                    *)
SomebodyCame == \E e \in came : DayOf(e) = today /\ SessionOf[e] \in OneDaySessions

DayPasses ==
  /\ NextDay
  /\ onTime' = (onTime /\ ran /\ SomebodyCame)
  /\ ran' = FALSE /\ covers' = FALSE
  /\ UNCHANGED <<row, tables, fresh>>

EventComes ==
  /\ Ingest
  /\ LET ago == {today - DayOf(e) : e \in came' \ came}
     IN  /\ onTime' = (onTime /\ ago \subseteq {0, 1})
         /\ ran' = (ran /\ ago \subseteq {0})
         /\ covers' = (covers /\ ago \subseteq {0})
  /\ UNCHANGED <<row, tables, fresh>>

RunFails ==
  /\ Fail
  /\ onTime' = (onTime /\ ~ late) /\ ran' = FALSE
  /\ UNCHANGED <<row, tables, fresh, covers>>

StageNext ==
  \/ DayPasses \/ EventComes \/ RunFails
  \/ (Prune \/ Start) /\ UNCHANGED <<row, stageVars>>
  \/ PlanSessions \/ BuildPayloads \/ Rebuild \/ Upgrade \/ Enrich \/ PurgeStages
  \/ \E d \in Days : BuildSessions(d) \/ RebuildDay(d)

StageSpec == Init /\ StageInit /\ [][StageNext]_<<vars, stageVars>>
-----------------------------------------------------------------------------
(* rail: the sessions of the last w days, and how many of them went how    *)
(* far.  A step is not a part of the one before: a file may be moved       *)
(* without a shell.                                                        *)
Windows == 0..today
LastDays(w) == {d \in Days : d >= today - w}
Rail(w) ==
  LET rows == {r \in Rows : r.day \in LastDays(w)}
  IN  [connected     |-> Cardinality(rows),
       authenticated |-> Cardinality(Did(rows, "authed")),
       shell         |-> Cardinality(Did(rows, "shell")),
       transferred   |-> Cardinality(Did(rows, "file"))]

(* sources: the addresses with a row in the window, by their deepest day.  *)
WindowStage(a, w) == Max({-1} \cup {daily[d][a] : d \in LastDays(w)})
SourcesListed(w, minStage) ==
  {a \in Ips : WindowStage(a, w) >= 0 /\ WindowStage(a, w) >= minStage}

(* stage_totals *)
StageTotals(w) ==
  [k \in 0..4 |->
     LET at == {a \in Ips : WindowStage(a, w) = k}
     IN  [sources  |-> Cardinality(at),
          sessions |-> Cardinality({r \in UNION {counted[d] : d \in LastDays(w)} :
                                      IpOf[r.session] \in at})]]

(* map_points: joined with source_stage, for its coordinates. *)
MapPoints(w, minStage) ==
  {a \in SourcesListed(w, minStage) : lifetime[a] >= 0 /\ a \in Placed}
-----------------------------------------------------------------------------
OneDayIps ==
  {a \in Ips : \A s \in Sessions : IpOf[s] = a => s \in OneDaySessions}

(* "How far has this address ever got": after a complete run the lifetime  *)
(* stage of an address no session of which went on over a midnight is no   *)
(* less than that of any day, except that a day keeps a 4 whose verdict    *)
(* has since been taken back (rebuild, rebuild_daily).                     *)
LifetimeReachesDays ==
  fresh => \A a \in OneDayIps, d \in Days :
             /\ Min({3, daily[d][a]}) <= lifetime[a]
             /\ daily[d][a] = 4 /\ a \in Bad => lifetime[a] = 4

(* After a complete run every day on which a bad address transferred a     *)
(* file says so, however late the verdict came (rebuild_daily).            *)
VerdictReachesAllDays ==
  fresh => \A a \in Bad, d \in Days : daily[d][a] # 3

(* After a complete run only the lack of coordinates keeps a listed        *)
(* address off the map, however long ago its sessions were (map_points,    *)
(* sources); an exclusion has still to be purged.                          *)
MapIsList ==
  fresh => \A w \in Windows, m \in 0..4 :
             MapPoints(w, m) \ HiddenIps
               = (SourcesListed(w, m) \cap Placed) \ HiddenIps

(* Each day has the stages of the sessions that are now on it, and the     *)
(* legend adds up to the sessions the rail counts from another table, and  *)
(* has an address at a stage if and only if the rail has a session that    *)
(* far (rail, stage_totals).                                               *)
DayIsItsSessions(d) ==
  \A a \in Ips : Min({3, daily[d][a]}) = Depth(RowsBy(RowsOn(d), a))

LegendIsRail(w) ==
  LET T == StageTotals(w) R == Rail(w)
  IN  /\ T[0].sessions + T[1].sessions + T[2].sessions + T[3].sessions + T[4].sessions
           = R.connected
      /\ R.transferred > 0 <=> T[3].sources + T[4].sources > 0
      /\ T[2].sources > 0 => R.shell > 0
      /\ T[1].sources > 0 => R.authenticated > 0

OneStory(w) == LegendIsRail(w) /\ \A d \in LastDays(w) : DayIsItsSessions(d)

(* After a complete run, when no exclusion has still to be purged, the     *)
(* page of the last RECENT_DAYS days tells one story, whatever was late or *)
(* failed and wherever sessions moved, if there are sessions from before   *)
(* each of its days or on it: rebuild_daily begins at the first there is.  *)
Settled == fresh /\ (excluded => purged)
LastDaysAgree ==
  Settled => \A w \in 0..(RecentDays - 1) :
    (\A d \in LastDays(w) : \E r \in Rows : r.day <= d) => OneStory(w)

(* What the tables say of an address agrees with each other and with the   *)
(* verdicts, whatever was late or failed.                                  *)
StagesAgree ==
  LifetimeReachesDays /\ VerdictReachesAllDays /\ MapIsList /\ LastDaysAgree

(* With every day in time the front page tells one story of any window     *)
(* after a complete run: the rail, its legend and the stages of the days   *)
(* agree, though sessions that go on over midnight move from one day to    *)
(* the next.                                                               *)
PageAgrees ==
  Settled /\ onTime => /\ \A d \in Days : DayIsItsSessions(d)
                       /\ \A w \in Windows : LegendIsRail(w)
=============================================================================
