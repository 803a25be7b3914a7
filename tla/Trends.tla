------------------------------- MODULE Trends -------------------------------
(***************************************************************************)
(* Period over period: trends of exec_view.py compares the last days with  *)
(* as many before them, without the known outages (outages.py), and says   *)
(* when the sensor posed as another host in between (persona.py).  Four    *)
(* measures count sessions, day by day; the fifth counts the samples that  *)
(* were last seen from the first to the last day of the side.              *)
(***************************************************************************)
EXTENDS Integers, FiniteSets, FiniteSetsExt

CONSTANTS TrendDays,   (* bound: the days of a behaviour                   *)
          Period,      (* days                                             *)
          Spans,       (* the outages that may be entered: first day, last *)
                       (* day and scope; "ingest" counts as "all"          *)
          Personas,    (* the persona changes that may be entered: day and *)
                       (* name                                             *)
          Ways,        (* bound: what a session may do                     *)
          Captures     (* the samples                                      *)

SessionFields == {"connections", "authenticated", "shell", "transferred"}
Fields == SessionFields \cup {"captured"}

ASSUME TrendsAssumption ==
  /\ TrendDays \in Nat /\ Period \in Nat \ {0}
  /\ \A w \in Spans : w.scope \in {"auth", "all"}
  /\ \A p \in Personas : p.day \in Nat /\ p.name # "stock"
  /\ Ways \subseteq SUBSET (SessionFields \ {"connections"})
  /\ IsFiniteSet(Captures)

VARIABLES trendDay,  \* today
          counted,   \* session_facts: the sessions of each day, and those
                     \* of them that did each thing
          lastSeen,  \* payloads: the last day of each sample, 0 if none
          gaps,      \* outage_windows
          epochs     \* persona_epochs

trendVars == <<trendDay, counted, lastSeen, gaps, epochs>>

TrendsInit ==
  /\ trendDay = 1 /\ gaps = {} /\ epochs = {}
  /\ counted = [d \in 1..TrendDays |-> [f \in SessionFields |-> 0]]
  /\ lastSeen = [s \in Captures |-> 0]

(* What the worker rebuilds of today and, when it comes late, yesterday.   *)
MoreSessions(d, did) ==
  /\ counted[d]["connections"] < 2 /\ d \in {trendDay - 1, trendDay}
  /\ counted' = [counted EXCEPT ![d] =
                   [f \in SessionFields |-> IF f \in did \cup {"connections"}
                                              THEN counted[d][f] + 1 ELSE counted[d][f]]]
  /\ UNCHANGED <<trendDay, lastSeen, gaps, epochs>>

Capture(s, d) ==
  /\ d \in {trendDay - 1, trendDay} /\ counted[d]["connections"] > 0
  /\ lastSeen[s] < d /\ lastSeen' = [lastSeen EXCEPT ![s] = d]
  /\ UNCHANGED <<trendDay, counted, gaps, epochs>>

TrendsNext ==
  \/ /\ trendDay < TrendDays /\ trendDay' = trendDay + 1
     /\ UNCHANGED <<counted, lastSeen, gaps, epochs>>
  \/ \E d \in 1..TrendDays, did \in Ways : MoreSessions(d, did)
  \/ \E d \in 1..TrendDays, s \in Captures : Capture(s, d)
  \/ /\ \E w \in Spans \ gaps : gaps' = gaps \cup {w}
     /\ UNCHANGED <<trendDay, counted, lastSeen, epochs>>
  \/ /\ \E p \in Personas \ epochs : epochs' = epochs \cup {p}
     /\ UNCHANGED <<trendDay, counted, lastSeen, gaps>>

TrendsSpec == TrendsInit /\ [][TrendsNext]_trendVars
-----------------------------------------------------------------------------
(* excluded_days: an outage of authentication leaves connections alone.    *)
Affects(w, field) == w.scope = "all" \/ field # "connections"
Excluded(field) == UNION {w.start..w.end : w \in {v \in gaps : Affects(v, field)}}

(* _day_list, where a day with sessions has rows: today is in no window.   *)
DayList(offset) ==
  {d \in 1..TrendDays : /\ counted[d]["connections"] > 0
                        /\ d >= trendDay - (offset + 1) * Period
                        /\ d < trendDay - offset * Period}

(* Bug to catch: _measure by the outages of any scope. *)
DaysMeasuredAny(offset, field) == DayList(offset) \ Excluded("authenticated")

DaysMeasured(offset, field) == DayList(offset) \ Excluded(field)

(* The captured branch counts BETWEEN the first and the last of the days.  *)
CapturedSpan(offset) ==
  LET days == DaysMeasured(offset, "captured")
  IN  IF days = {} THEN {} ELSE Min(days)..Max(days)
CapturedIn(days) == {s \in Captures : lastSeen[s] \in days}

Total(offset, field) ==
  IF field = "captured" THEN Cardinality(CapturedIn(CapturedSpan(offset)))
  ELSE MapThenSumSet(LAMBDA d : counted[d][field], DaysMeasured(offset, field))

(* The change as a fraction: rates by day when both sides have days.       *)
Comparable(field) ==
  DaysMeasured(0, field) # {} /\ DaysMeasured(1, field) # {} /\ Total(1, field) # 0
RateNow(field) == Total(0, field) * Cardinality(DaysMeasured(1, field))
RateBefore(field) == Total(1, field) * Cardinality(DaysMeasured(0, field))

AbsDiffT(a, b) == IF a < b THEN b - a ELSE a - b

Direction(field) ==
  IF ~ Comparable(field)
     \/ 20 * AbsDiffT(RateNow(field), RateBefore(field)) < RateBefore(field) THEN "flat"
  ELSE IF RateNow(field) > RateBefore(field) THEN "up" ELSE "down"

(* epoch_for, where "stock" stands for no persona; boundary_between. *)
EpochFor(d) ==
  LET past == {p \in epochs : p.day <= d}
  IN  IF past = {} THEN "stock" ELSE (CHOOSE p \in past : \A q \in past : q.day <= p.day).name
Boundaries(a, b) == {p \in epochs : a < p.day /\ p.day <= b}

(* comparability gives no note. *)
SamePersona ==
  \/ DayList(0) = {} \/ DayList(1) = {}
  \/ /\ Boundaries(Min(DayList(0)), Max(DayList(0))) = {}
     /\ EpochFor(Max(DayList(0))) = EpochFor(Min(DayList(1)))
-----------------------------------------------------------------------------
(* The same on every day of both sides that is measured.                   *)
Steady(field) ==
  \E n \in 0..2 : \A side \in {0, 1} :
    IF field = "captured"
      THEN /\ \A d \in DaysMeasured(side, field) : Cardinality(CapturedIn({d})) = n
           /\ CapturedIn(CapturedSpan(side) \ DaysMeasured(side, field)) = {}
      ELSE \A d \in DaysMeasured(side, field) : counted[d][field] = n

(* Days a side loses to an outage are no movement: with the same count on  *)
(* every day that is measured, and no sample last seen on the others, the  *)
(* trend is flat (trends: "compare daily rates, not totals").              *)
SteadyIsFlat == \A f \in Fields : Steady(f) => Direction(f) = "flat"

(* A day counts on one side at most, and today on none (_day_list).  When  *)
(* no note is given the sensor was one host over both windows, unless a    *)
(* persona came back under its name (comparability).                       *)
UnmarkedIsOneHost ==
  /\ DayList(0) \cap DayList(1) = {} /\ trendDay \notin DayList(0)
  /\ SamePersona /\ (\A p, q \in epochs : p.name = q.name => p = q) =>
       \A d, e \in DayList(0) \cup DayList(1) :
         DayList(0) # {} /\ DayList(1) # {} => EpochFor(d) = EpochFor(e)

(* A sample counts for a side, once however often it is seen, while its    *)
(* last day lies between two that are measured; the day of an outage in    *)
(* between is no exception (_measure).                                     *)
Between(side, day) ==
  \E d, e \in DaysMeasured(side, "captured") : d <= day /\ day <= e

SampleCountsOnce(s) ==
  \A side \in {0, 1} :
    Total(side, "captured")' - Total(side, "captured")
      = (IF Between(side, lastSeen'[s]) THEN 1 ELSE 0)
        - (IF Between(side, lastSeen[s]) THEN 1 ELSE 0)

(* The page reports no change that there was not.  Sessions that come on   *)
(* the days of an outage move no measure the outage affects, while they do *)
(* count for one it leaves alone; only samples seen on them may count      *)
(* (_measure, excluded_days).  (The first condition spares TLC the steps   *)
(* of other modules.)                                                      *)
ComparisonIsFair ==
  [][trendVars' # trendVars =>
     /\ SteadyIsFlat' /\ UnmarkedIsOneHost'
     /\ counted' # counted =>
          LET grown == {d \in 1..TrendDays : counted'[d] # counted[d]}
          IN  \A f \in Fields, side \in {0, 1} :
                /\ grown \subseteq Excluded(f) => Total(side, f)' = Total(side, f)
                /\ f = "connections" /\ grown \subseteq DayList(side) \ Excluded(f)
                     => Total(side, f)' = Total(side, f) + 1
     /\ \A s \in Captures : lastSeen'[s] # lastSeen[s] => SampleCountsOnce(s)]_trendVars
=============================================================================
