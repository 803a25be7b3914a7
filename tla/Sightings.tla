----------------------------- MODULE Sightings -----------------------------
(***************************************************************************)
(* build_payloads and record_provenance: the file transfers of raw_events, *)
(* carried into tables that outlive it.                                    *)
(*                                                                         *)
(* Sightings are inserted and kept; the counts of recent days are rebuilt; *)
(* the lifetime table is derived from the sightings; the provenance of a   *)
(* sample is merged with what it says.  Each is a commit of its own.  A    *)
(* row that aggregates transfers is kept as the set of them.               *)
(***************************************************************************)
EXTENDS WorkerRun

CONSTANTS TransferOf,   (* the transfers: sample, url, direction, session, *)
                        (* address; url 0 has no scheme, n is on host n    *)
          NoHash        (* no hash, and the hash of the empty file         *)

Transfers == DOMAIN TransferOf
Shas == {TransferOf[e].sha : e \in Transfers} \ NoHash

ASSUME SightingsAssumption == Transfers \subseteq Events

VARIABLES sightings,   \* payload_sightings
          payloadDay,  \* payload_daily: the transfers each day counts
          payloads,    \* the sightings payloads was derived from
          prov         \* sample_provenance

sightVars == <<sightings, payloadDay, payloads, prov>>

NoProv == [hits |-> 0]

SightInit ==
  /\ sightings = {} /\ payloads = {}
  /\ payloadDay = [d \in Days |-> {}]
  /\ prov = [s \in Shas |-> NoProv]

(* Bugs to catch: wiped and filled again; the view forgotten. *)
SeenOfRaw == Visible \cap Transfers
SeenHidden == sightings \cup (raw \cap Transfers)

Seen == sightings \cup (Visible \cap Transfers)

See ==
  /\ Commit("plan", "seen")
  /\ sightings' = Seen
  /\ UNCHANGED <<payloadDay, payloads, prov>>

PlanPayloads ==
  /\ PlanDays("seen", "build", {d \in Days : payloadDay[d] # {}})
  /\ UNCHANGED sightVars

(* One commit for all the days. *)
CountDays ==
  /\ Commit("build", "derive")
  /\ payloadDay' = [d \in Days |-> IF d \in days
                      THEN {e \in Visible \cap Transfers : DayOf(e) = d}
                      ELSE payloadDay[d]]
  /\ UNCHANGED <<sightings, payloads, prov>>

Derive ==
  /\ Commit("derive", "record")
  /\ payloads' = sightings
  /\ UNCHANGED <<sightings, payloadDay, prov>>

At(e) == 100 * DayOf(e) + e[2]
Earliest(S) == CHOOSE e \in S : \A f \in S : At(e) <= At(f)
Latest(S) == CHOOSE e \in S : \A f \in S : At(f) <= At(e)
Of(S, s) == {e \in S : TransferOf[e].sha = s}
HasUrl(S) == {e \in S : TransferOf[e].url > 0}

(* What the run knows of sample s; 0 is NULL. *)
Known(s) ==
  LET P == Of(payloads, s)
      S == Of(sightings, s)
  IN  [first |-> At(Earliest(P)), last |-> At(Latest(P)), hits |-> Cardinality(P),
       sessions |-> Cardinality({TransferOf[e].session : e \in S}),
       ips |-> Cardinality({TransferOf[e].ip : e \in S}),
       origin |-> [session |-> TransferOf[Earliest(S)].session,
                   ip |-> TransferOf[Earliest(S)].ip,
                   delivery |-> IF HasUrl(P) # {} THEN "url"
                                ELSE IF \E e \in P : TransferOf[e].upload
                                       THEN "upload" ELSE "inband"],
       url |-> IF HasUrl(S) = {} THEN 0 ELSE TransferOf[Earliest(HasUrl(S))].url,
       host |-> Max({TransferOf[e].url : e \in P})]

Coalesce(a, b) == IF a # 0 THEN a ELSE b

(* Bugs to catch: the counts of the last run; the origin of the first run. *)
MergedLast(old, new) ==
  IF old = NoProv THEN new
  ELSE [new EXCEPT !.first = Min({old.first, @}), !.last = Max({old.last, @}),
          !.origin = IF new.first < old.first THEN @ ELSE old.origin]

MergedFirst(old, new) ==
  IF old = NoProv THEN new
  ELSE [new EXCEPT !.first = Min({old.first, @}), !.last = Max({old.last, @}),
          !.origin = old.origin,
          !.hits = Max({old.hits, @}), !.sessions = Max({old.sessions, @}),
          !.ips = Max({old.ips, @})]

(* ON CONFLICT (sha256) DO UPDATE *)
Merged(old, new) ==
  IF old = NoProv THEN new
  ELSE [new EXCEPT !.first = Min({old.first, @}), !.last = Max({old.last, @}),
          !.origin = IF new.first < old.first THEN @ ELSE old.origin,
          !.url = IF new.first < old.first THEN @ ELSE Coalesce(old.url, @),
          !.host = Coalesce(old.host, @),
          !.hits = Max({old.hits, @}), !.sessions = Max({old.sessions, @}),
          !.ips = Max({old.ips, @})]

RecordProvenance ==
  /\ Commit("record", "purge")
  /\ prov' = [s \in Shas |-> IF Of(payloads, s) = {} THEN prov[s]
                             ELSE Merged(prov[s], Known(s))]
  /\ UNCHANGED <<sightings, payloadDay, payloads>>

PurgeSightings ==
  /\ RunPurge
  /\ sightings' = IF excluded THEN sightings \ Operator ELSE sightings
  /\ UNCHANGED <<payloadDay, payloads, prov>>

SightNext ==
  \/ Around /\ UNCHANGED sightVars
  \/ See \/ PlanPayloads \/ CountDays \/ Derive
  \/ RecordProvenance \/ PurgeSightings

SightSpec == RunInit /\ SightInit /\ [][SightNext]_<<runVars, sightVars>>
-----------------------------------------------------------------------------
(* "Rows from days that have left the raw window stay put": a sighting     *)
(* goes only with an address that is excluded (build_payloads).            *)
SightingsKept ==
  [][\A e \in sightings \ sightings' : excluded /\ e \in Operator]_sightings

(* The provenance of a sample is that of a ledger: it only ever widens,    *)
(* also when sightings are purged or come out of order.                    *)
Provenance ==
  INSTANCE Ledger WITH Keys <- Shas, NoEntry <- NoProv, entry <-
    [s \in Shas |-> IF prov[s] = NoProv THEN NoProv ELSE
       [first |-> prov[s].first, last |-> prov[s].last, origin |-> prov[s].origin,
        counts |-> [hits |-> prov[s].hits, sessions |-> prov[s].sessions,
                    ips |-> prov[s].ips]]]
OnlyWidens == Provenance!LedgerSpec

(* The session and the address in the provenance are those of the sighting *)
(* that is first in it: no mixture of two sightings (record_provenance).   *)
OriginIsFirst ==
  \A s \in Shas : prov[s] # NoProv =>
    \E e \in Of(Transfers, s) :
      /\ At(e) = prov[s].first
      /\ TransferOf[e].session = prov[s].origin.session
      /\ TransferOf[e].ip = prov[s].origin.ip

(* Once the purge has followed the exclusion, no sighting of an excluded   *)
(* address is ever there again (purge_excluded.sql, v_events).             *)
NoSightingReturns == purged => sightings \cap Operator = {}
=============================================================================
