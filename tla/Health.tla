------------------------------- MODULE Health -------------------------------
(***************************************************************************)
(* What the site says of itself: health and stage_freshness of             *)
(* exec_view.py, the heartbeats they read, and the storage report of the   *)
(* pruner (check_storage).                                                 *)
(*                                                                         *)
(* A connection passes from the sensor's log over the spool and raw_events *)
(* to the facts of its day.  Each stage runs at its own times: while its   *)
(* part of the system works, at the latest Every ticks after the last      *)
(* time.  Parts stop and come back; a time of -1 stands for never.         *)
(***************************************************************************)
EXTENDS Integers, FiniteSets, FiniteSetsExt

CONSTANTS MaxTick,     (* bound: the ticks of a behaviour                  *)
          DayTicks,    (* ticks in a day                                   *)
          Every,       (* the longest from one run of a stage to the next  *)
          PullWarn,    (* PULL_WARN_MIN, in ticks, and so on               *)
          EventsWarn,
          WorkerWarn,
          FetchWarn,
          AuthWindow,  (* AUTH_WINDOW_HOURS                                *)
          MinConnects, (* AUTH_MIN_CONNECTS, in ticks with a connection    *)
          Outage       (* bound: the parts that may be down together       *)

Parts == {"sensor", "auth", "pull", "ingest", "worker", "fetch"}
Stages == {"pull", "ingest", "facts", "worker", "fetch"}
Timed == {"pull", "ingest", "facts", "worker"}
PartOf(stage) == IF stage = "facts" THEN "worker" ELSE stage
StaleWarnDays == 1
StaleFaultDays == 2

ASSUME HealthAssumption ==
  /\ MaxTick \in Nat /\ DayTicks \in Nat \ {0}
  /\ Every \in [Timed -> Nat \ {0}]
  /\ PullWarn \in Nat /\ EventsWarn \in Nat /\ WorkerWarn \in Nat
  /\ FetchWarn \in Nat /\ AuthWindow \in Nat /\ MinConnects \in Nat
  /\ Outage \subseteq SUBSET Parts

VARIABLES now,
          logged,    \* the ticks the sensor logged connections in
          logins,    \* those it logged a login in
          last,      \* when each stage last ran: .pulled (the spool has what
                     \* was logged up to then), .fetched and last_run are
                     \* the heartbeats of pull, fetch and worker
          rawTo,     \* raw_events holds what was logged up to this tick
          factsTo,   \* asn_ip_daily and session_facts: built up to this tick
          running,   \* a run of the worker is going on
          storage,   \* insights_state has a storage_status
          down,      \* the parts that do not work (external)
          changed    \* when each part last stopped or came back (history)

healthVars ==
  <<now, logged, logins, last, rawTo, factsTo, running, storage, down, changed>>

HealthInit ==
  /\ now = 0 /\ logged = {} /\ logins = {}
  /\ last = [k \in Stages |-> -1]
  /\ rawTo = -1 /\ factsTo = -1
  /\ running = FALSE /\ storage = FALSE
  /\ down = {} /\ changed = [p \in Parts |-> 0]

DayOfTick(t) == t \div DayTicks
UpTo(ticks, t) == {u \in ticks : u <= t}

(* The next run of each stage that works is due by now (systemd timers,    *)
(* and the loop of ingest.py).                                             *)
InTurnBy(t) ==
  \A k \in Timed : PartOf(k) \notin down =>
    t - last[k] <= Every[k] \/ t - changed[PartOf(k)] <= Every[k]

(* Time passes, parts stop or come back, and the sensor logs. *)
TimePasses(broken) ==
  /\ now < MaxTick /\ now' = now + 1
  /\ InTurnBy(now')
  /\ down' = broken
  /\ changed' = [p \in Parts |-> IF p \in down <=> p \in broken THEN changed[p] ELSE now']
  /\ logged' = IF "sensor" \in broken THEN logged ELSE logged \cup {now'}
  /\ logins' = IF {"sensor", "auth"} \cap broken # {} THEN logins ELSE logins \cup {now'}
  /\ running' = (running /\ "worker" \notin broken)
  /\ UNCHANGED <<last, rawTo, factsTo, storage>>

Ran(stage) ==
  /\ PartOf(stage) \notin down
  /\ last' = [last EXCEPT ![stage] = now]
  /\ UNCHANGED <<now, logged, logins, down, changed>>

(* pull.sh touches .pulled when it completes. *)
Pull == Ran("pull") /\ UNCHANGED <<rawTo, factsTo, running, storage>>

Ingest ==
  /\ Ran("ingest") /\ rawTo' = last["pull"]
  /\ UNCHANGED <<factsTo, running, storage>>

(* The unit fetches samples before it starts the worker, which goes on if  *)
(* that fails; main builds the facts early in the run.                     *)
BuildFacts ==
  /\ "worker" \notin down /\ ~ running /\ running' = TRUE
  /\ last' = [last EXCEPT !["facts"] = now,
                         !["fetch"] = IF "fetch" \in down THEN @ ELSE now]
  /\ factsTo' = rawTo
  /\ UNCHANGED <<now, logged, logins, rawTo, storage, down, changed>>

(* main sets last_run at its end. *)
FinishRun ==
  /\ running /\ Ran("worker") /\ running' = FALSE
  /\ UNCHANGED <<rawTo, factsTo, storage>>

(* The pruner writes the report, and takes it back. *)
CheckStorage ==
  /\ storage' \in BOOLEAN
  /\ UNCHANGED <<now, logged, logins, last, rawTo, factsTo, running, down, changed>>

HealthNext ==
  \/ \E broken \in Outage : TimePasses(broken)
  \/ Pull \/ Ingest \/ BuildFacts \/ FinishRun \/ CheckStorage

HealthSpec == HealthInit /\ [][HealthNext]_healthVars
-----------------------------------------------------------------------------
(* stage_freshness and _stale: a heartbeat that is missing is not stale.   *)
RawEvents == UpTo(logged, rawTo)
Newest == IF RawEvents = {} THEN -1 ELSE Max(RawEvents)
Overdue(at, limit) == at # -1 /\ now - at > limit

ConnectsRecent == {t \in RawEvents : now - t <= AuthWindow}
LoginsRecent == {t \in UpTo(logins, rawTo) : now - t <= AuthWindow}

FactTicks == UpTo(logged, factsTo)
LagDays == DayOfTick(now) - DayOfTick(Max(FactTicks))

(* Bug to catch: the three days before today. *)
RecentBefore(ticks) == {t \in ticks : DayOfTick(now) - DayOfTick(t) \in 1..3}

(* The last three calendar days. *)
Recent(ticks) == {t \in ticks : DayOfTick(now) - DayOfTick(t) < 3}

SessionsRecent == Recent(FactTicks)
AuthedRecent == Recent(UpTo(logins, factsTo))

Fault ==
  \/ FactTicks = {}
  \/ LagDays >= StaleFaultDays
  \/ SessionsRecent # {} /\ AuthedRecent = {}
  \/ Cardinality(ConnectsRecent) >= MinConnects /\ LoginsRecent = {}

Warn ==
  \/ LagDays >= StaleWarnDays
  \/ Overdue(last["pull"], PullWarn)
  \/ Overdue(Newest, EventsWarn)
  \/ Overdue(last["fetch"], FetchWarn)
  \/ Overdue(last["worker"], WorkerWarn)
  \/ storage

Status == IF Fault THEN "fault" ELSE IF Warn THEN "warn" ELSE "ok"

(* The limits of the parts that have one: an ingester that has stopped is  *)
(* seen by the age of the newest event.                                    *)
Limit == [p \in Parts \ {"auth"} |->
  CASE p \in {"sensor", "ingest"} -> EventsWarn [] p = "pull" -> PullWarn
    [] p = "worker" -> WorkerWarn [] p = "fetch" -> FetchWarn]

(* A part that has stopped for longer than its limit does not look         *)
(* healthy, whatever the parts after it do; only one that never completed  *)
(* is not known to be stale ("a missing heartbeat is reported as unknown   *)
(* rather than as stale").                                                 *)
StoppedIsSeen ==
  \A p \in DOMAIN Limit :
    p \in down /\ now - changed[p] >= Limit[p] =>
      \/ Status # "ok"
      \/ p \in {"pull", "worker", "fetch"} /\ last[p] = -1

(* Works(p, n): the part has worked for more than the last n ticks.        *)
Works(p, n) == p \notin down /\ now - changed[p] > n

(* Connections that arrive for the whole window while nothing              *)
(* authenticates are a fault, not a warning, whatever the worker does and  *)
(* whether or not storage has something to say: "storage never outranks a  *)
(* sensor fault".                                                          *)
DeadAuthIsFault ==
  /\ "auth" \in down /\ now - changed["auth"] >= AuthWindow
  /\ \A p \in {"sensor", "pull", "ingest"} : Works(p, AuthWindow)
  => Status = "fault"

(* The longest it takes a connection to reach the facts.                   *)
Delay == Every["pull"] + Every["ingest"] + Every["facts"]

(* The limits leave the stages the time they take, as those of exec_view   *)
(* do for the timers of the units: 2 minutes for a pull, 30 for the worker *)
(* against limits of 15 minutes to 24 hours.                               *)
LimitsFit ==
  /\ Every["pull"] <= PullWarn /\ Every["worker"] <= WorkerWarn
  /\ Every["facts"] <= FetchWarn /\ Every["worker"] <= Delay
  /\ Every["pull"] + Every["ingest"] <= EventsWarn
  /\ Every["pull"] + Every["ingest"] <= AuthWindow
  /\ MinConnects + Every["pull"] + Every["ingest"] <= AuthWindow + 1
  /\ Delay <= DayTicks

(* While every part has worked for longer than that, no fault is reported, *)
(* and a warning just as long as the day has no facts yet, which can only  *)
(* be soon after midnight: "normal for a few hours after midnight UTC"     *)
(* (health).                                                               *)
NoFalseAlarm ==
  (\A p \in Parts : Works(p, Delay)) =>
    /\ Status # "fault"
    /\ ~ storage => (Status = "warn" <=> DayOfTick(factsTo) < DayOfTick(now))
    /\ DayOfTick(factsTo) < DayOfTick(now) => now % DayTicks < Delay

(* The banner is neither blind nor crying wolf (health).                   *)
HealthIsHonest == StoppedIsSeen /\ DeadAuthIsFault /\ NoFalseAlarm
=============================================================================
