----------------------------- MODULE RawWindow -----------------------------
(***************************************************************************)
(* raw_events as the intel worker sees it: events come, late at times, and *)
(* are pruned by age; and the day arithmetic all its per-day stages share. *)
(*                                                                         *)
(* An event is a pair of its day and its place in the day.  The worker     *)
(* reads v_events, which hides the addresses in excluded_sources.  A line  *)
(* that was stored without a timestamp is the event Untimed: its empty ts  *)
(* sorts before every day.                                                 *)
(***************************************************************************)
EXTENDS Integers, FiniteSets, FiniteSetsExt

CONSTANTS MaxDay,       (* bound: the days of a behaviour                  *)
          Events,       (* the events the sensor may log                   *)
          Operator,     (* the events of addresses the operator will       *)
                        (* exclude                                         *)
          RawRetain,    (* TR_RETAIN_DAYS                                  *)
          RecentDays,   (* TR_INSIGHTS_RECENT_DAYS                         *)
          MaxLate,      (* days an event may be under way: the longest     *)
                        (* outage of the pull                              *)
          Active,       (* whether others than the operator come every day *)
          UntimedComes  (* whether a line without a timestamp may come     *)

Days == 1..MaxDay
Untimed == <<0, 0>>
DayOf(e) == e[1]

ASSUME RawWindowAssumption ==
  /\ MaxDay \in Nat \ {0}
  /\ Events \subseteq Days \X Nat
  /\ Operator \subseteq Events
  /\ RawRetain \in Nat \ {0}
  /\ RecentDays \in Nat \ {0}
  /\ MaxLate \in Nat
  /\ Active \in BOOLEAN
  /\ UntimedComes \in BOOLEAN

VARIABLES today,
          raw,       \* raw_events
          came,      \* the events that ever came (history)
          excluded   \* whether excluded_sources has the operator's addresses

rawVars == <<today, raw, came, excluded>>

Visible == raw \ (IF excluded THEN Operator ELSE {})

RawInit ==
  /\ today = 1
  /\ raw = {} /\ came = {}
  /\ excluded = FALSE

Midnight ==
  /\ today < MaxDay
  /\ Active => \E e \in came \ Operator : DayOf(e) >= today - MaxLate
  /\ today' = today + 1
  /\ UNCHANGED <<raw, came, excluded>>

(* The ingester stores an event once: a second copy is ignored as long as  *)
(* its row is there, and no copy outlives the row.                         *)
Arrive(e) ==
  /\ e \notin came
  /\ IF e = Untimed THEN UntimedComes
                    ELSE DayOf(e) <= today /\ today <= DayOf(e) + MaxLate
  /\ raw' = raw \cup {e}
  /\ came' = came \cup {e}
  /\ UNCHANGED <<today, excluded>>

(* One batch of prune_by_age: the index on ts gives the oldest first.  An  *)
(* event RawRetain days old by the day may be younger by the second.       *)
Aged(e) == DayOf(e) + RawRetain <= today \/ e = Untimed
Before(e, f) == DayOf(e) < DayOf(f) \/ (DayOf(e) = DayOf(f) /\ e[2] < f[2])

PruneBatch ==
  /\ \E e \in raw : Aged(e) /\ raw' = {f \in raw : Before(e, f)}
  /\ UNCHANGED <<today, came, excluded>>
-----------------------------------------------------------------------------
(* all_days raises on an empty timestamp: there is no such date. *)
DatesParse == Untimed \notin Visible

(* The days from the first to the last that has an event. *)
AllDays ==
  LET days == {DayOf(e) : e \in Visible}
  IN  IF days = {} THEN {} ELSE Min(days)..Max(days)

(* Bugs to catch: every day there is rebuilt, or only the new ones. *)
DaysToBuildAll(have, backfillAll) == AllDays
DaysToBuildNew(have, backfillAll) == AllDays \ have

(* days_to_build, for a table with rows of the days in have. *)
DaysToBuild(have, backfillAll) ==
  IF backfillAll
    THEN {d \in AllDays : d # Min(AllDays) \/ d \notin have}
    ELSE (AllDays \ have) \cup {d \in AllDays : d + RecentDays > Max(AllDays)}

RawTypeOK ==
  /\ today \in Days
  /\ came \subseteq Events \cup {Untimed}
  /\ raw \subseteq came
  /\ excluded \in BOOLEAN
=============================================================================
