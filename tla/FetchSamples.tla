---------------------------- MODULE FetchSamples ----------------------------
(***************************************************************************)
(* fetch_samples.sh: captured files are brought from the sensor before     *)
(* each run of the worker.                                                 *)
(*                                                                         *)
(* The sensor is not trusted and may be cut off at any time: a download    *)
(* goes to a temporary file, and is renamed to its hash when its content   *)
(* has that hash.  The script may be killed between any two steps.         *)
(***************************************************************************)
EXTENDS Integers, FiniteSets

CONSTANTS Hashes,
          Oversized,   (* the captures larger than MAX_SAMPLE              *)
          MaxListed,   (* MAX_LISTED                                       *)
          MaxStops     (* bound: how often the script is killed            *)

ASSUME FetchAssumption == Oversized \subseteq Hashes /\ MaxListed \in Nat /\ MaxStops \in Nat

VARIABLES atSensor,  \* the captures the sensor has (external)
          stored,    \* the files in TR_SAMPLE_DIR by name: "none", "whole"
                     \* or "cut"
          part,      \* the temporary files, likewise
          fetchPc,   \* "idle", "get", "download", "verify"
          listing,   \* the listed names that are not read yet
          inHand,    \* the sample the script is at
          listed,    \* lines read, samples brought, had, and failed
          new, have, bad,
          offered,   \* what the listing offered (history)
          fetchedAt, \* .fetched was touched by the last run (history)
          stops      \* how often the script was killed (history)

tally == <<listed, new, have, bad>>
fetchVars == <<atSensor, stored, part, fetchPc, listing, inHand, listed, new,
               have, bad, offered, fetchedAt, stops>>

FetchInit ==
  /\ atSensor = {} /\ stored = [s \in Hashes |-> "none"]
  /\ part = [s \in Hashes |-> "none"]
  /\ fetchPc = "idle" /\ listing = {} /\ inHand = {}
  /\ listed = 0 /\ new = 0 /\ have = 0 /\ bad = 0
  /\ offered = {} /\ fetchedAt = FALSE /\ stops = 0

(* Cowrie saves a capture; the operator clears some away (external). *)
SensorChanges ==
  /\ \E s \in Hashes : atSensor' \in {atSensor \cup {s}, atSensor \ {s}}
  /\ UNCHANGED <<stored, part, fetchPc, listing, inHand, tally, offered,
                 fetchedAt, stops>>

(* rm .*.part, and samples-list: it fails, or answers. *)
List ==
  /\ fetchPc = "idle"
  /\ part' = [s \in Hashes |-> "none"]
  /\ fetchedAt' = FALSE
  /\ listed' = 0 /\ new' = 0 /\ have' = 0 /\ bad' = 0
  /\ \/ /\ fetchPc' = "get" /\ listing' = atSensor /\ offered' = atSensor
     \/ UNCHANGED <<fetchPc, listing, offered>>
  /\ UNCHANGED <<atSensor, stored, inHand, stops>>

(* A line whose size is refused is counted, not asked for.  The order of   *)
(* the listing is that of the directory: any.                              *)
ReadLine(s) ==
  /\ fetchPc = "get" /\ s \in listing /\ listed < MaxListed
  /\ listing' = listing \ {s} /\ listed' = listed + 1
  /\ IF s \in Oversized
       THEN bad' = bad + 1 /\ UNCHANGED <<have, inHand, fetchPc>>
     ELSE IF stored[s] # "none"
       THEN have' = have + 1 /\ UNCHANGED <<bad, inHand, fetchPc>>
       ELSE inHand' = {s} /\ fetchPc' = "download" /\ UNCHANGED <<bad, have>>
  /\ UNCHANGED <<atSensor, stored, part, new, offered, fetchedAt, stops>>

(* Bug to catch: the request reads the rest of the listing (it is on       *)
(* descriptor 3 for that).                                                 *)
DownloadEats(s) ==
  /\ fetchPc = "download" /\ inHand = {s}
  /\ listing' = {}
  /\ part' = [part EXCEPT ![s] = IF s \in atSensor THEN "whole" ELSE "none"]
  /\ fetchPc' = "verify"
  /\ UNCHANGED <<atSensor, stored, inHand, tally, offered, fetchedAt, stops>>

(* samples-get through head: gone, refused or timed out; or with an exit   *)
(* status of 0, whole or not what was listed.                              *)
Download(s) ==
  /\ fetchPc = "download" /\ inHand = {s}
  /\ \/ /\ bad' = bad + 1 /\ fetchPc' = "get" /\ inHand' = {}
        /\ part' = [part EXCEPT ![s] = "none"]
     \/ /\ s \in atSensor
        /\ \E got \in {"whole", "cut"} : part' = [part EXCEPT ![s] = got]
        /\ fetchPc' = "verify"
        /\ UNCHANGED <<bad, inHand>>
  /\ UNCHANGED <<atSensor, stored, listing, listed, new, have, offered,
                 fetchedAt, stops>>

(* Bug to catch: the name is believed. *)
VerifyNothing(s) ==
  /\ fetchPc = "verify" /\ inHand = {s}
  /\ stored' = [stored EXCEPT ![s] = part[s]] /\ new' = new + 1
  /\ part' = [part EXCEPT ![s] = "none"]
  /\ fetchPc' = "get" /\ inHand' = {}
  /\ UNCHANGED <<atSensor, listing, listed, have, bad, offered, fetchedAt, stops>>

(* "The filename is the content hash, so prove it." *)
Verify(s) ==
  /\ fetchPc = "verify" /\ inHand = {s}
  /\ IF part[s] = "whole"
       THEN /\ stored' = [stored EXCEPT ![s] = part[s]] /\ new' = new + 1
            /\ UNCHANGED bad
       ELSE bad' = bad + 1 /\ UNCHANGED <<stored, new>>
  /\ part' = [part EXCEPT ![s] = "none"]
  /\ fetchPc' = "get" /\ inHand' = {}
  /\ UNCHANGED <<atSensor, listing, listed, have, offered, fetchedAt, stops>>

(* Nothing new and nothing there is a failure; else the heartbeat. *)
FetchEnds ==
  /\ fetchPc = "get" /\ (listing = {} \/ listed = MaxListed)
  /\ fetchPc' = "idle" /\ listing' = {}
  /\ fetchedAt' = (new + have > 0)
  /\ UNCHANGED <<atSensor, stored, part, inHand, tally, offered, stops>>

(* The unit's timeout, or the host goes down. *)
FetchKilled ==
  /\ fetchPc # "idle" /\ stops < MaxStops
  /\ stops' = stops + 1
  /\ fetchPc' = "idle" /\ listing' = {} /\ inHand' = {}
  /\ UNCHANGED <<atSensor, stored, part, tally, offered, fetchedAt>>

FetchNext ==
  \/ SensorChanges \/ List \/ FetchEnds \/ FetchKilled
  \/ \E s \in Hashes : ReadLine(s) \/ Download(s) \/ Verify(s)

FetchSpec == FetchInit /\ [][FetchNext]_fetchVars
-----------------------------------------------------------------------------
(* Whatever the sensor answers and wherever the script is killed, a file   *)
(* under the name of a hash has that content, once and for all.            *)
StoredIsWhole ==
  [][\A s \in Hashes : /\ stored'[s] # "cut"
                       /\ stored[s] = "whole" => stored'[s] = "whole"]_fetchVars

(* After a run that leaves the heartbeat, every sample the sensor listed   *)
(* is there or was counted as failed, none is passed over, as long as the  *)
(* listing is not cut at MAX_LISTED.                                       *)
FetchedIsAll ==
  fetchedAt /\ Cardinality(offered) <= MaxListed =>
    Cardinality({s \in offered : stored[s] = "none"}) <= bad
=============================================================================
