----------------------------- MODULE SensorLogs -----------------------------
(***************************************************************************)
(* The log directory of the sensor, as pull-logs.sh offers it and          *)
(* prune-logs.sh trims it.  Cowrie writes cowrie.json and renames it to    *)
(* cowrie.json.DATE at the first write after midnight UTC.                 *)
(*                                                                         *)
(* Time is counted in days.  A byte of the log is <<d, i>>: the i-th byte  *)
(* written to the log of day d.  Two bytes of different logs, or of one    *)
(* log at different places, are never confused, so a copy says exactly     *)
(* which bytes of which log it holds and in which order.                   *)
(*                                                                         *)
(* A dated name is the day it carries.  The live name sorts before every   *)
(* dated one, as "cowrie.json" does before "cowrie.json.DATE".             *)
(***************************************************************************)
EXTENDS Integers, Sequences

CONSTANTS MaxDay,       (* the last day of a behaviour (a bound)           *)
          MaxBytes,     (* the most bytes one day's log gets (a bound)     *)
          LastLogDay,   (* the sensor is silent after this day (a bound)   *)
          SensorRetain, (* SENSOR_RETAIN_DAYS, the N of find -mtime +N     *)
          SensorFull    (* whether the directory can exceed SENSOR_MAX_MB  *)

ASSUME SensorAssumption ==
  /\ MaxDay \in Nat \ {0}
  /\ MaxBytes \in Nat
  /\ LastLogDay \in 1..MaxDay
  /\ SensorRetain \in Nat
  /\ SensorFull \in BOOLEAN

VARIABLES today,    \* the day it is, on the sensor and on the collector
          size,     \* size[d]: bytes written so far to the log of day d
          liveDay,  \* the day whose log is cowrie.json
          dated     \* the days whose log the sensor still has, renamed

sensorVars == <<today, size, liveDay, dated>>

Days == 1..MaxDay
Live == 0
Names == 0..MaxDay

Bytes == Days \X Nat

(* The bytes of the log of day d after the first a and up to the b-th. *)
Run(d, a, b) == [i \in 1..(b - a) |-> <<d, a + i>>]

(* The log a name stands for at this moment. *)
LogOf(n) == IF n = Live THEN liveDay ELSE n

(* A bug to catch: only the newest rotated log is offered, as the protocol *)
(* before this one did.                                                    *)
ListingNewestOnly == {Live} \cup {d \in dated : \A e \in dated : e <= d}

(* What a manifest lists, and the size it gives for each name. *)
Listing == {Live} \cup dated
SizeOf(n) == IF n \in Listing THEN size[LogOf(n)] ELSE 0

SensorInit ==
  /\ today = 1
  /\ size = [d \in Days |-> 0]
  /\ liveDay = 1
  /\ dated = {}

(* Midnight UTC. *)
NextDay ==
  /\ today < MaxDay
  /\ today' = today + 1
  /\ UNCHANGED <<size, liveDay, dated>>

(* Twisted's DailyLogFile renames the log it has open when a write finds   *)
(* that the day has changed, so a silent sensor does not rotate.           *)
Rotate ==
  /\ liveDay < today
  /\ today <= LastLogDay
  /\ dated' = dated \cup {liveDay}
  /\ liveDay' = today
  /\ UNCHANGED <<today, size>>

(* One more byte of the live log reaches the disk. *)
Write ==
  /\ liveDay = today
  /\ today <= LastLogDay
  /\ size[liveDay] < MaxBytes
  /\ size' = [size EXCEPT ![liveDay] = @ + 1]
  /\ UNCHANGED <<today, liveDay, dated>>

(* prune-logs.sh, AGE: -mtime +N matches from N + 1 full days on.  The     *)
(* rename keeps the modification time, which is of the day in the name.    *)
PruneAge(d) ==
  /\ d \in dated
  /\ d + SensorRetain < today
  /\ dated' = dated \ {d}
  /\ UNCHANGED <<today, size, liveDay>>

(* prune-logs.sh, SIZE: the oldest dated log goes while the directory,     *)
(* which holds other files too, is over its cap.                           *)
PruneSize(d) ==
  /\ SensorFull
  /\ d \in dated
  /\ \A e \in dated : d <= e
  /\ dated' = dated \ {d}
  /\ UNCHANGED <<today, size, liveDay>>

SensorTypeOK ==
  /\ today \in Days
  /\ size \in [Days -> 0..MaxBytes]
  /\ liveDay \in Days
  /\ dated \in SUBSET Days
=============================================================================
