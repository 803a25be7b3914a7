----------------------------- MODULE WorkerRun -----------------------------
(***************************************************************************)
(* A run of the intel worker as its per-day stages see it: it plans the    *)
(* days to build, builds, and is followed by the purge.  It may fail at    *)
(* any point; events come and are pruned between any two of its commits.   *)
(***************************************************************************)
EXTENDS RawWindow

VARIABLES pc,      \* the worker: "idle", "plan", "build", ..., "purge"
          days,    \* days the stage has still to build
          late,    \* midnight passed since the run began
          purged   \* a purge has followed the exclusion (history)

runVars == <<today, raw, came, excluded, pc, days, late, purged>>

RunInit ==
  /\ RawInit
  /\ pc = "idle" /\ days = {} /\ late = FALSE /\ purged = FALSE

(* A run takes an hour at most (TimeoutStartSec). *)
NextDay ==
  /\ ~ late
  /\ Midnight
  /\ late' = (pc # "idle")
  /\ UNCHANGED <<pc, days, purged>>

Ingest ==
  /\ \E e \in Events \cup {Untimed} : Arrive(e)
  /\ UNCHANGED <<pc, days, late, purged>>

Prune ==
  /\ PruneBatch
  /\ UNCHANGED <<pc, days, late, purged>>

(* main: the lock, and ensure_schema, which seeds the exclusions. *)
Start ==
  /\ pc = "idle"
  /\ pc' = "plan"
  /\ excluded' \in {excluded, TRUE}
  /\ UNCHANGED <<today, raw, came, days, late, purged>>

EndRun == pc' = "idle" /\ days' = {} /\ late' = FALSE

(* The exception of all_days, the timeout, or an error in a statement. *)
Fail ==
  /\ pc # "idle"
  /\ EndRun
  /\ UNCHANGED <<rawVars, purged>>

(* What goes on around the tables of a stage. *)
Around == NextDay \/ Ingest \/ Prune \/ Start \/ Fail

PlanDays(from, to, have) ==
  /\ pc = from
  /\ DatesParse
  /\ days' = DaysToBuild(have, FALSE)
  /\ pc' = to
  /\ UNCHANGED <<rawVars, late, purged>>

TakeDay(at, d) ==
  /\ pc = at
  /\ days # {}
  /\ d = Min(days)
  /\ days' = days \ {d}
  /\ UNCHANGED <<rawVars, pc, late, purged>>

(* A commit of the run that is not of one day. *)
Commit(from, to) ==
  /\ pc = from
  /\ pc' = to
  /\ days' = {}
  /\ UNCHANGED <<rawVars, late, purged>>

(* ExecStartPost, after a run that succeeded: purge_excluded.sql. *)
RunPurge ==
  /\ pc = "purge"
  /\ EndRun
  /\ purged' = excluded
  /\ UNCHANGED rawVars

Phases == {"idle", "plan", "build", "seen", "derive", "record",
           "entities", "pairs", "tags", "purge"}

RunTypeOK ==
  /\ RawTypeOK
  /\ pc \in Phases
  /\ days \subseteq Days
  /\ late \in BOOLEAN /\ purged \in BOOLEAN
=============================================================================
