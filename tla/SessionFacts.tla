---------------------------- MODULE SessionFacts ----------------------------
(***************************************************************************)
(* build_sessions: one row for each session, rebuilt day by day.           *)
(*                                                                         *)
(* The rows of a day are deleted, and every session whose events of this   *)
(* day and the next begin on this day is written over the row it has.      *)
(* Events of a session may be of two days, come late, and be pruned        *)
(* between two days of a run.                                              *)
(***************************************************************************)
EXTENDS WorkerRun

CONSTANTS Sessions,
          SessionOf     (* the session of each event                       *)

ASSUME SessionAssumption ==
  /\ SessionOf \in [Events -> Sessions]
  /\ \A e \in Events, f \in Operator :
       SessionOf[e] = SessionOf[f] => e \in Operator

VARIABLE row       \* row[s]: the day and the events of s in session_facts

vars == <<runVars, row>>

NoRow == [day |-> 0, ev |-> {}]

Init ==
  /\ RunInit
  /\ row = [s \in Sessions |-> NoRow]

Plan ==
  /\ PlanDays("plan", "build", {row[s].day : s \in Sessions} \ {0})
  /\ UNCHANGED row

(* The events of s in the two days from d on, and the rows of day d. *)
Span(s, d) ==
  {e \in Visible \ {Untimed} : SessionOf[e] = s /\ DayOf(e) \in {d, d + 1}}

(* Bug to catch: the rows of both days deleted. *)
RowOfTwo(s, d) ==
  IF \E e \in Span(s, d) : DayOf(e) = d THEN [day |-> d, ev |-> Span(s, d)]
  ELSE IF row[s].day \in {d, d + 1} THEN NoRow
  ELSE row[s]

RowOf(s, d) ==
  IF \E e \in Span(s, d) : DayOf(e) = d THEN [day |-> d, ev |-> Span(s, d)]
  ELSE IF row[s].day = d THEN NoRow
  ELSE row[s]

BuildDay(d) ==
  /\ TakeDay("build", d)
  /\ row' = [s \in Sessions |-> RowOf(s, d)]

Built == days = {} /\ Commit("build", "purge") /\ UNCHANGED row

(* purge_excluded.sql *)
Purge ==
  /\ RunPurge
  /\ row' = [s \in Sessions |->
               IF excluded /\ row[s].ev \cap Operator # {} THEN NoRow ELSE row[s]]

Next ==
  \/ Around /\ UNCHANGED row
  \/ Plan \/ Built \/ Purge
  \/ \E d \in Days : BuildDay(d)

Spec == Init /\ [][Next]_vars
-----------------------------------------------------------------------------
(* A row has events of its day and the next only, and one of its day.      *)
TypeOK ==
  /\ RunTypeOK
  /\ \A s \in Sessions :
       \/ row[s] = NoRow
       \/ /\ row[s].day \in Days
          /\ \E e \in row[s].ev : DayOf(e) = row[s].day
          /\ \A e \in row[s].ev : /\ e \in came /\ SessionOf[e] = s
                                  /\ DayOf(e) \in {row[s].day, row[s].day + 1}

OperatorSessions == {SessionOf[e] : e \in Operator}
OneDaySessions ==
  {s \in Sessions \ OperatorSessions :
     \A e, f \in Events : SessionOf[e] = s /\ SessionOf[f] = s => DayOf(e) = DayOf(f)}

(* session_facts outlives raw_events: a session that has a row keeps one,  *)
(* whatever of it is pruned, comes late or is written over; and one of a   *)
(* single day never loses what its row has counted (build_sessions).       *)
SessionKept ==
  [][/\ TypeOK'
     /\ \A s \in Sessions \ OperatorSessions : row[s] # NoRow => row'[s] # NoRow
     /\ \A s \in OneDaySessions : row[s].ev \subseteq row'[s].ev]_vars

(* "Sessions that cross midnight are counted whole" (build_sessions): what *)
(* a row has counted of any session stays counted.                         *)
SessionWhole ==
  [][\A s \in Sessions \ OperatorSessions : row[s].ev \subseteq row'[s].ev]_vars
=============================================================================
