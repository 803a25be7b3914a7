------------------------------- MODULE Rollup -------------------------------
(***************************************************************************)
(* A per-day fact table of the intel worker: build_facts, and the other    *)
(* stages that rebuild the rows of a day from v_events.                    *)
(*                                                                         *)
(* A run seeds the exclusions, works out the days to build, and rebuilds   *)
(* them one by one, each in a transaction of its own.  Events come and are *)
(* pruned between any two.  After a run that succeeds systemd purges the   *)
(* excluded addresses from the table.  The rows of a day are kept as the   *)
(* set of the events they count.                                           *)
(***************************************************************************)
EXTENDS RawWindow

CONSTANT Backfill  (* whether an operator may run --backfill-all           *)

ASSUME RollupAssumption == Backfill \in BOOLEAN

VARIABLES facts,   \* facts[d]: the events the rows of day d count
          pc,      \* the worker: "idle", "plan", "build", "purge"
          days,    \* days the stage has still to build
          late,    \* midnight passed since the run began
          run,     \* "none", "begun", "done": this day's first ordinary
                   \* run; "missed" once a day had none (history)
          uncut    \* the days a backfill found whole in raw (history)

vars == <<today, raw, came, excluded, facts, pc, days, late, run, uncut>>

Init ==
  /\ RawInit
  /\ facts = [d \in Days |-> {}]
  /\ pc = "idle" /\ days = {}
  /\ late = FALSE
  /\ run = "none" /\ uncut = {}

(* A run takes an hour at most (TimeoutStartSec), so it sees at most one   *)
(* midnight.                                                               *)
NextDay ==
  /\ ~ late
  /\ Midnight
  /\ run' = IF run = "done" THEN "none" ELSE "missed"
  /\ late' = (pc # "idle")
  /\ UNCHANGED <<facts, pc, days, uncut>>

Ingest ==
  /\ \E e \in Events \cup {Untimed} : Arrive(e)
  /\ UNCHANGED <<facts, pc, days, late, run, uncut>>

Prune ==
  /\ PruneBatch
  /\ UNCHANGED <<facts, pc, days, late, run, uncut>>

(* main: the lock, and ensure_schema, which loads the exclusion file.  It  *)
(* is written by hand, once; the purge is for what was counted before.     *)
Start ==
  /\ pc = "idle"
  /\ pc' = "plan"
  /\ excluded' \in {excluded, TRUE}
  /\ run' = IF run = "none" THEN "begun" ELSE run
  /\ UNCHANGED <<today, raw, came, facts, days, late, uncut>>

(* A run that fails or is a backfill is not the ordinary run of the day.   *)
Unbegun == IF run = "begun" THEN "none" ELSE run

HaveDays == {d \in Days : facts[d] # {}}

Uncut == {d \in Days : \A e \in came : DayOf(e) = d => e \in raw}

Plan(backfillAll) ==
  /\ pc = "plan"
  /\ DatesParse
  /\ days' = DaysToBuild(HaveDays, backfillAll)
  /\ pc' = "build"
  /\ uncut' = IF backfillAll THEN Uncut ELSE {}
  /\ run' = IF backfillAll THEN Unbegun ELSE run
  /\ UNCHANGED <<rawVars, facts, late>>

(* The exception ends the run, and ExecStartPost is skipped. *)
EndRun == pc' = "idle" /\ days' = {} /\ late' = FALSE /\ uncut' = {}

PlanRaises ==
  /\ pc = "plan"
  /\ ~ DatesParse
  /\ EndRun
  /\ run' = Unbegun
  /\ UNCHANGED <<rawVars, facts>>

(* Bug to catch: raw_events for v_events. *)
BuildDayRaw(d) ==
  /\ pc = "build"
  /\ days # {}
  /\ d = Min(days)
  /\ facts' = [facts EXCEPT ![d] = {e \in raw : DayOf(e) = d}]
  /\ days' = days \ {d}
  /\ UNCHANGED <<rawVars, pc, late, run, uncut>>

BuildDay(d) ==
  /\ pc = "build"
  /\ days # {}
  /\ d = Min(days)
  /\ facts' = [facts EXCEPT ![d] = {e \in Visible : DayOf(e) = d}]
  /\ days' = days \ {d}
  /\ UNCHANGED <<rawVars, pc, late, run, uncut>>

Built ==
  /\ pc = "build"
  /\ days = {}
  /\ pc' = "purge"
  /\ UNCHANGED <<rawVars, facts, days, late, run, uncut>>

(* purge_excluded.sql *)
Purge ==
  /\ pc = "purge"
  /\ facts' = [d \in Days |-> facts[d] \ (IF excluded THEN Operator ELSE {})]
  /\ EndRun
  /\ run' = IF run = "begun" THEN "done" ELSE run
  /\ UNCHANGED rawVars

(* The run is killed by its timeout, or a statement raises. *)
Kill ==
  /\ pc # "idle"
  /\ EndRun
  /\ run' = Unbegun
  /\ UNCHANGED <<rawVars, facts>>

Work ==
  \/ Start
  \/ \E b \in {FALSE, Backfill} : Plan(b)
  \/ PlanRaises
  \/ \E d \in Days : BuildDay(d)
  \/ Built
  \/ Purge

Next == NextDay \/ Ingest \/ Prune \/ Work \/ Kill

Spec == Init /\ [][Next]_vars

(* The timers start the worker and the pruner again and again.  The worker *)
(* is not killed for ever, nor is each run a backfill by hand.             *)
Fairness ==
  /\ WF_vars(Work) /\ SF_vars(Plan(FALSE))
  /\ WF_vars(Prune /\ Untimed \in raw)
  /\ <>[][Kill => Work]_vars

FairSpec == Spec /\ Fairness
-----------------------------------------------------------------------------
(* Every variable has its type, and a day counts events of the day.        *)
TypeOK ==
  /\ RawTypeOK
  /\ \A d \in Days : facts[d] \subseteq {e \in came : DayOf(e) = d}
  /\ DOMAIN facts = Days
  /\ pc \in {"idle", "plan", "build", "purge"}
  /\ days \subseteq Days
  /\ late \in BOOLEAN
  /\ run \in {"none", "begun", "done", "missed"}
  /\ uncut \subseteq Days

(* "A per-day table keeps everything older than the raw window", and a     *)
(* complete count is not replaced with a truncated one (days_to_build): an *)
(* event that was counted is counted for ever, though raw_events forgets   *)
(* it, unless it is the operator's.  The one exception is a day that a     *)
(* full backfill found whole and the pruner reaches before the backfill    *)
(* does.                                                                   *)
NothingTruncated ==
  [][/\ TypeOK'
     /\ \A d \in Days \ uncut : facts[d] \subseteq facts'[d] \cup Operator]_vars

(* Once a run has purged the excluded addresses, none of the later runs    *)
(* counts them again.                                                      *)
StaysPurged ==
  [][excluded /\ (\A d \in Days : facts[d] \cap Operator = {})
       => \A d \in Days : facts'[d] \cap Operator = {}]_vars

(* An event that was stored is counted in the end, unless it ages out of   *)
(* raw_events first, is the operator's, or a day had no ordinary run.      *)
EventIsCounted ==
  \A e \in Events :
    e \in raw ~> \/ e \in facts[DayOf(e)]
                 \/ Aged(e) \/ (excluded /\ e \in Operator)
                 \/ run = "missed"
=============================================================================
