----------------------------- MODULE SiteProofs -----------------------------
(***************************************************************************)
(* What serves the site beside the tables: the fetch of samples, the       *)
(* health banner, the claims about contributions, the comparison of        *)
(* periods, and the honeypot's userdb.txt.                                 *)
(*                                                                         *)
(* fetch_samples.sh brings only what it has proved, and a heartbeat that   *)
(* reports nothing bad means that all of what was offered is here.  While  *)
(* a run lasts, the entries it has been through and whose sample is not in *)
(* the store are no more than what it has counted as bad.                  *)
(***************************************************************************)
EXTENDS FetchSamples, Health, Contributions, Trends, UserDb,
        Extrema, FiniteSetTheorems, SequenceTheorems, TLAPS

USE FetchAssumption

(* What the script has been through and has not brought.                   *)
Missing == {s \in offered \ (listing \cup inHand) : stored[s] = "none"}

FetchTypeOK ==
  /\ stored \in [Hashes -> {"none", "whole"}]
  /\ part \in [Hashes -> {"none", "whole", "cut"}]
  /\ fetchPc \in {"idle", "get", "download", "verify"}
  /\ atSensor \subseteq Hashes /\ IsFiniteSet(atSensor)
  /\ offered \subseteq Hashes /\ IsFiniteSet(offered)
  /\ listing \subseteq offered
  /\ listed \in Nat /\ new \in Nat /\ have \in Nat /\ bad \in Nat

(* One sample is in hand while it is brought and proved.                   *)
OneInHand ==
  IF fetchPc \in {"download", "verify"}
    THEN \E s \in offered \ listing : inHand = {s}
    ELSE inHand = {}

(* While a run lasts, every line read is counted, and what it left behind  *)
(* is; and so it was when the heartbeat was left.                          *)
Tallied ==
  /\ fetchPc # "idle" =>
       /\ ~ fetchedAt
       /\ listed = Cardinality(offered) - Cardinality(listing)
       /\ Cardinality(Missing) <= bad
  /\ fetchPc = "idle" /\ fetchedAt /\ Cardinality(offered) <= MaxListed =>
       Cardinality({s \in offered : stored[s] = "none"}) <= bad

FetchInv == FetchTypeOK /\ OneInHand /\ Tallied

(* A set that gained at most one element has at most one more.             *)
LEMMA OneMore ==
  ASSUME NEW S, IsFiniteSet(S), NEW x, NEW T, T \subseteq S \cup {x}, NEW n \in Nat,
         Cardinality(S) <= n
  PROVE  Cardinality(T) <= n + 1 /\ (x \notin T => Cardinality(T) <= n)
<1>1. /\ IsFiniteSet(S \cup {x}) /\ Cardinality(S) \in Nat
      /\ Cardinality(S \cup {x}) = IF x \in S THEN Cardinality(S) ELSE Cardinality(S) + 1
  BY FS_AddElement, FS_CardinalityType
<1>2. Cardinality(T) <= Cardinality(S \cup {x}) /\ Cardinality(T) \in Nat
  BY <1>1, FS_Subset, FS_CardinalityType
<1>3. ASSUME x \notin T PROVE Cardinality(T) <= Cardinality(S)
  <2>1. T \subseteq S
    BY <1>3
  <2>2. QED
    BY <2>1, FS_Subset
<1>4. QED
  BY <1>1, <1>2, <1>3

(* The invariant holds before the first run.                               *)
LEMMA InitFetch == FetchInit => FetchInv
<1> SUFFICES ASSUME FetchInit PROVE FetchInv
  OBVIOUS
<1>1. FetchTypeOK
  BY FS_EmptySet DEF FetchInit, FetchTypeOK
<1>2. QED
  BY <1>1 DEF FetchInit, FetchInv, OneInHand, Tallied

(* Every step of the fetch and of the sensor keeps it.                     *)
LEMMA NextFetch == FetchInv /\ [FetchNext]_fetchVars => FetchInv'
<1> SUFFICES ASSUME FetchInv, [FetchNext]_fetchVars PROVE FetchInv'
  OBVIOUS
<1>i. FetchTypeOK /\ OneInHand /\ Tallied
  BY DEF FetchInv
<1>f. /\ IsFiniteSet(Missing) /\ Cardinality(Missing) \in Nat
      /\ IsFiniteSet(listing) /\ Cardinality(listing) \in Nat /\ Cardinality(offered) \in Nat
  <2>1. Missing \subseteq offered /\ listing \subseteq offered /\ IsFiniteSet(offered)
    BY <1>i DEF Missing, FetchTypeOK
  <2>2. QED
    BY <2>1, FS_Subset, FS_CardinalityType
<1>1. CASE SensorChanges
  <2>1. atSensor' \subseteq Hashes /\ IsFiniteSet(atSensor')
    <3>1. PICK s \in Hashes : atSensor' \in {atSensor \cup {s}, atSensor \ {s}}
      BY <1>1 DEF SensorChanges
    <3>2. IsFiniteSet(atSensor \cup {s}) /\ IsFiniteSet(atSensor \ {s})
      BY <1>i, FS_AddElement, FS_RemoveElement DEF FetchTypeOK
    <3>3. QED
      BY <1>i, <3>1, <3>2 DEF FetchTypeOK
  <2>2. QED
    BY <1>1, <1>i, <2>1 DEF FetchInv, FetchTypeOK, OneInHand, Tallied, Missing, SensorChanges, tally
<1>2. CASE List
  <2>1. FetchTypeOK' /\ OneInHand'
    BY <1>2, <1>i DEF FetchTypeOK, OneInHand, List
  <2>2. Tallied'
    <3>1. CASE fetchPc' = "get" /\ listing' = atSensor /\ offered' = atSensor
      <4>1. Missing' = {}
        BY <3>1 DEF Missing
      <4>2. Cardinality(Missing') = 0
        BY <4>1, FS_EmptySet
      <4>3. Cardinality(atSensor) \in Nat
        BY <1>i, FS_CardinalityType DEF FetchTypeOK
      <4>4. QED
        BY <1>2, <3>1, <4>2, <4>3 DEF Tallied, List
    <3>2. CASE UNCHANGED <<fetchPc, listing, offered>>
      BY <1>2, <3>2 DEF Tallied, List
    <3>3. QED
      BY <1>2, <3>1, <3>2 DEF List
  <2>3. QED
    BY <2>1, <2>2 DEF FetchInv
<1>3. ASSUME NEW s \in Hashes, ReadLine(s) PROVE FetchInv'
  <2>1. /\ fetchPc = "get" /\ s \in listing /\ inHand = {} /\ s \in offered
        /\ listing' = listing \ {s} /\ listed' = listed + 1
        /\ UNCHANGED <<atSensor, stored, part, new, offered, fetchedAt, stops>>
    BY <1>3, <1>i DEF ReadLine, OneInHand, FetchTypeOK
  <2>2. Cardinality(listing') = Cardinality(listing) - 1
    BY <1>f, <2>1, FS_RemoveElement
  <2>3. listed' = Cardinality(offered) - Cardinality(listing')
    BY <1>i, <1>f, <2>1, <2>2 DEF Tallied, FetchTypeOK
  <2>4. Missing' \subseteq Missing \cup {s}
    BY <2>1 DEF Missing
  <2>5. CASE s \in Oversized
    <3>1. bad' = bad + 1 /\ UNCHANGED <<have, inHand, fetchPc>>
      BY <1>3, <2>5 DEF ReadLine
    <3>2. Cardinality(Missing') <= bad'
      BY <1>i, <1>f, <2>1, <2>4, <3>1, OneMore DEF Tallied, FetchTypeOK
    <3>3. QED
      BY <1>i, <2>1, <2>3, <3>1, <3>2 DEF FetchInv, FetchTypeOK, OneInHand, Tallied
  <2>6. CASE s \notin Oversized /\ stored[s] # "none"
    <3>1. have' = have + 1 /\ UNCHANGED <<bad, inHand, fetchPc>>
      BY <1>3, <2>6 DEF ReadLine
    <3>2. s \notin Missing'
      BY <2>1, <2>6 DEF Missing
    <3>3. Cardinality(Missing') <= bad'
      BY <1>i, <1>f, <2>1, <2>4, <3>1, <3>2, OneMore DEF Tallied, FetchTypeOK
    <3>4. QED
      BY <1>i, <2>1, <2>3, <3>1, <3>3 DEF FetchInv, FetchTypeOK, OneInHand, Tallied
  <2>7. CASE s \notin Oversized /\ stored[s] = "none"
    <3>1. inHand' = {s} /\ fetchPc' = "download" /\ UNCHANGED <<bad, have>>
      BY <1>3, <2>7 DEF ReadLine
    <3>2. s \notin Missing'
      BY <3>1 DEF Missing
    <3>3. Cardinality(Missing') <= bad'
      BY <1>i, <1>f, <2>1, <2>4, <3>1, <3>2, OneMore DEF Tallied, FetchTypeOK
    <3>4. QED
      BY <1>i, <2>1, <2>3, <3>1, <3>3 DEF FetchInv, FetchTypeOK, OneInHand, Tallied
  <2>8. QED
    BY <2>5, <2>6, <2>7
<1>4. ASSUME NEW s \in Hashes, Download(s) \/ Verify(s) PROVE FetchInv'
  <2>1. /\ fetchPc \in {"download", "verify"} /\ inHand = {s} /\ s \in offered \ listing
        /\ UNCHANGED <<atSensor, listing, listed, have, offered, fetchedAt, stops>>
        /\ part' \in [Hashes -> {"none", "whole", "cut"}]
    BY <1>4, <1>i DEF Download, Verify, OneInHand, FetchTypeOK
  <2>2. CASE fetchPc' = "verify" /\ UNCHANGED <<stored, new, bad, inHand>>
    BY <1>i, <2>1, <2>2 DEF FetchInv, FetchTypeOK, OneInHand, Tallied, Missing
  <2>3. CASE fetchPc' = "get" /\ inHand' = {} /\ bad' = bad + 1 /\ UNCHANGED <<stored, new>>
    <3>1. Missing' \subseteq Missing \cup {s}
      BY <2>1, <2>3 DEF Missing
    <3>2. Cardinality(Missing') <= bad'
      BY <1>i, <1>f, <2>1, <2>3, <3>1, OneMore DEF Tallied, FetchTypeOK
    <3>3. QED
      BY <1>i, <2>1, <2>3, <3>2 DEF FetchInv, FetchTypeOK, OneInHand, Tallied
  <2>4. CASE /\ fetchPc' = "get" /\ inHand' = {} /\ stored' = [stored EXCEPT ![s] = "whole"]
             /\ new' = new + 1 /\ bad' = bad
    <3>1. Missing' \subseteq Missing
      BY <1>i, <2>1, <2>4 DEF Missing, FetchTypeOK
    <3>2. Cardinality(Missing') <= bad'
      <4>1. Cardinality(Missing') <= Cardinality(Missing) /\ Cardinality(Missing') \in Nat
        BY <1>f, <3>1, FS_Subset, FS_CardinalityType
      <4>2. QED
        BY <1>i, <1>f, <2>1, <2>4, <4>1 DEF Tallied, FetchTypeOK
    <3>3. stored' \in [Hashes -> {"none", "whole"}]
      BY <1>i, <2>4 DEF FetchTypeOK
    <3>4. QED
      BY <1>i, <2>1, <2>4, <3>2, <3>3 DEF FetchInv, FetchTypeOK, OneInHand, Tallied
  <2>5. QED
    BY <1>4, <2>2, <2>3, <2>4 DEF Download, Verify
<1>5. CASE FetchEnds
  <2>1. /\ fetchPc = "get" /\ inHand = {} /\ fetchPc' = "idle" /\ listing' = {}
        /\ UNCHANGED <<atSensor, stored, part, inHand, tally, offered, stops>>
    BY <1>5, <1>i DEF FetchEnds, OneInHand
  <2>2. ASSUME Cardinality(offered) <= MaxListed
        PROVE  Cardinality({s \in offered : stored[s] = "none"}) <= bad
    <3>1. listing = {}
      <4>1. SUFFICES ASSUME listed = MaxListed PROVE listing = {}
        BY <1>5 DEF FetchEnds
      <4>2. Cardinality(listing) = 0
        BY <1>i, <1>f, <2>1, <2>2, <4>1 DEF Tallied
      <4>3. QED
        BY <1>f, <4>2, FS_EmptySet
    <3>2. Missing = {s \in offered : stored[s] = "none"}
      BY <2>1, <3>1 DEF Missing
    <3>3. QED
      BY <1>i, <2>1, <3>2 DEF Tallied
  <2>3. QED
    BY <1>i, <2>1, <2>2 DEF FetchInv, FetchTypeOK, OneInHand, Tallied, tally
<1>6. CASE FetchKilled
  BY <1>6, <1>i DEF FetchInv, FetchTypeOK, OneInHand, Tallied, FetchKilled, tally
<1>7. CASE UNCHANGED fetchVars
  BY <1>7, <1>i DEF FetchInv, FetchTypeOK, OneInHand, Tallied, Missing, fetchVars, tally
<1>8. QED
  BY <1>1, <1>2, <1>3, <1>4, <1>5, <1>6, <1>7 DEF FetchNext

(* The fetch counts what it has not brought, at every state of a run.      *)
THEOREM FetchInvariant == FetchSpec => []FetchInv
  BY InitFetch, NextFetch, PTL DEF FetchSpec

(* Nothing the listing offered is passed over by a run that leaves its     *)
(* heartbeat.                                                              *)
THEOREM NonePassedOver == FetchSpec => []FetchedIsAll
<1>1. FetchInv => FetchedIsAll
  BY DEF FetchInv, Tallied, FetchedIsAll
<1>2. QED
  BY <1>1, FetchInvariant, PTL

(* A file under the name of a hash has that content.                       *)
THEOREM OnlyProvenIsStored == FetchSpec => StoredIsWhole
<1> DEFINE A == \A s \in Hashes : /\ stored'[s] # "cut"
                                  /\ stored[s] = "whole" => stored'[s] = "whole"
<1>1. ASSUME FetchInv, FetchInv', [FetchNext]_fetchVars PROVE A
  <2>1. ASSUME NEW s \in Hashes PROVE stored'[s] # "cut"
    BY <1>1, <2>1 DEF FetchInv, FetchTypeOK
  <2>2. ASSUME NEW s \in Hashes, stored[s] = "whole" PROVE stored'[s] = "whole"
    BY <1>1, <2>2 DEF FetchInv, FetchTypeOK, FetchNext, SensorChanges, List, FetchEnds, FetchKilled,
                      ReadLine, Download, Verify, fetchVars
  <2>3. QED
    BY <2>1, <2>2
<1>2. FetchInv /\ FetchInv' /\ [FetchNext]_fetchVars => [A]_fetchVars
  BY <1>1
<1>3. QED
  BY <1>2, FetchInvariant, PTL DEF FetchSpec, StoredIsWhole
-----------------------------------------------------------------------------
(* Health.  A part that works is on time, the sensor logs in every tick it *)
(* works in, and a stage that works has passed on what the one before it   *)
(* had a run earlier; a part that has stopped has left nothing behind      *)
(* since.                                                                  *)
HealthTypes ==
  /\ now \in Nat /\ running \in BOOLEAN /\ storage \in BOOLEAN
  /\ down \subseteq Parts
  /\ logged \subseteq 1..now /\ logins \subseteq logged
  /\ last \in [Stages -> Int] /\ changed \in [Parts -> Int]
  /\ rawTo \in Int /\ factsTo \in Int

(* Every time that is kept is past.                                        *)
InThePast ==
  /\ \A k \in Stages : -1 <= last[k] /\ last[k] <= now
  /\ \A p \in Parts : 0 <= changed[p] /\ changed[p] <= now
  /\ -1 <= rawTo /\ rawTo <= last["pull"] /\ rawTo <= last["ingest"]
  /\ -1 <= factsTo /\ factsTo <= rawTo

(* Since(p, n): p works, and has since before n.                           *)
Since(p, n) == p \notin down /\ changed[p] < n

OnTime ==
  \A k \in Timed : Since(PartOf(k), now - Every[k]) => now - last[k] <= Every[k]

Logs ==
  \A t \in 1..now :
    "sensor" \notin down /\ changed["sensor"] <= t =>
      /\ t \in logged
      /\ "auth" \notin down /\ changed["auth"] <= t => t \in logins

Quiet ==
  /\ "sensor" \in down => \A t \in logged : t < changed["sensor"]
  /\ "auth" \in down => \A t \in logins : t < changed["auth"]
  /\ \A p \in {"pull", "ingest", "worker", "fetch"} :
       p \in down => last[p] < changed[p]

PassedOn ==
  /\ Since("pull", last["ingest"] - Every["pull"]) =>
       rawTo >= last["ingest"] - Every["pull"]
  /\ (\A p \in {"pull", "ingest"} :
        Since(p, last["facts"] - Every["pull"] - Every["ingest"])) =>
       factsTo >= last["facts"] - Every["pull"] - Every["ingest"]
  /\ Since("fetch", last["facts"]) => last["fetch"] = last["facts"]

HealthInv == HealthTypes /\ InThePast /\ OnTime /\ Logs /\ Quiet /\ PassedOn

USE HealthAssumption

(* The names of the stages and of the parts they belong to.                *)
LEMMA StagesAre ==
  /\ \A k \in Timed : k \in Stages /\ PartOf(k) \in Parts /\ Every[k] \in Nat
  /\ {"pull", "ingest", "facts", "worker", "fetch"} = Stages
  /\ {"pull", "ingest", "facts", "worker"} = Timed
  /\ {"sensor", "auth", "pull", "ingest", "worker", "fetch"} = Parts
  /\ PartOf("pull") = "pull" /\ PartOf("ingest") = "ingest"
  /\ PartOf("facts") = "worker" /\ PartOf("worker") = "worker"
BY DEF Timed, Stages, Parts, PartOf

(* Before the first tick nothing has run and nothing is down.              *)
LEMMA HealthInvInit == HealthInit => HealthInv
<1> SUFFICES ASSUME HealthInit PROVE HealthInv
  OBVIOUS
<1> USE DEF HealthInit
<1>1. HealthTypes
  <2>1. -1 \in Int /\ 0 \in Int /\ 0 \in Nat
    OBVIOUS
  <2>2. last \in [Stages -> Int] /\ changed \in [Parts -> Int]
    BY <2>1
  <2>3. QED
    BY <2>1, <2>2 DEF HealthTypes
<1>2. InThePast /\ Quiet
  <2>1. \A k \in Stages : last[k] = -1
    OBVIOUS
  <2>2. \A p \in Parts : changed[p] = 0
    OBVIOUS
  <2>3. "pull" \in Stages /\ "ingest" \in Stages
    BY StagesAre
  <2>4. QED
    BY <2>1, <2>2, <2>3 DEF InThePast, Quiet
<1>3. OnTime /\ Logs /\ PassedOn
  <2>1. \A p \in Parts, n \in Int : n <= 0 => ~ Since(p, n)
    BY DEF Since
  <2>2. \A k \in Timed : 0 - Every[k] \in Int /\ 0 - Every[k] <= 0
    BY StagesAre
  <2>3. OnTime
    BY <2>1, <2>2, StagesAre DEF OnTime
  <2>4. Logs
    BY DEF Logs
  <2>5. Every["pull"] \in Nat /\ Every["ingest"] \in Nat
    BY StagesAre
  <2>6. last["ingest"] = -1 /\ last["facts"] = -1 /\ last["fetch"] = -1
    BY StagesAre
  <2>7. PassedOn
    BY <2>1, <2>5, <2>6, StagesAre DEF PassedOn
  <2>8. QED
    BY <2>3, <2>4, <2>7
<1>4. QED
  BY <1>1, <1>2, <1>3 DEF HealthInv

(* Time passes: what was on time is, and what has changed is not Since.    *)
LEMMA TimeKeeps ==
  ASSUME HealthInv, NEW broken \in SUBSET Parts, TimePasses(broken)
  PROVE  HealthInv'
<1> USE DEF HealthInv
<1>1. now \in Nat /\ now' = now + 1 /\ now' \in Nat /\ now < now'
  BY DEF TimePasses, HealthTypes
<1>2. last' = last /\ rawTo' = rawTo /\ factsTo' = factsTo /\ storage' = storage
      /\ down' = broken
  BY DEF TimePasses
<1>3. \A p \in Parts : /\ changed[p] \in Int /\ changed'[p] \in Int
                       /\ changed'[p] = changed[p] \/ changed'[p] = now'
                       /\ (p \in down <=> p \in down') => changed'[p] = changed[p]
                       /\ ~ (p \in down <=> p \in down') => changed'[p] = now'
  BY <1>1, <1>2 DEF TimePasses, HealthTypes
<1>4. HealthTypes'
  <2>1. logged' \subseteq 1..now' /\ logins' \subseteq logged'
    BY <1>1 DEF TimePasses, HealthTypes
  <2>2. changed' \in [Parts -> Int] /\ running' \in BOOLEAN
    BY <1>1 DEF TimePasses, HealthTypes
  <2>3. QED
    BY <1>1, <1>2, <2>1, <2>2 DEF HealthTypes
<1>5. InThePast'
  <2>1. \A k \in Stages : -1 <= last[k] /\ last[k] <= now' /\ last[k] \in Int
    BY <1>1 DEF InThePast, HealthTypes
  <2>2. \A p \in Parts : 0 <= changed'[p] /\ changed'[p] <= now'
    BY <1>1, <1>3 DEF InThePast
  <2>3. QED
    BY <1>2, <2>1, <2>2 DEF InThePast
<1>6. ASSUME NEW p \in Parts, NEW n \in Int, n <= now', Since(p, n)'
      PROVE  Since(p, n)
  BY <1>1, <1>2, <1>3, <1>6 DEF Since
<1>7. OnTime'
  <2> SUFFICES ASSUME NEW k \in Timed, Since(PartOf(k), now - Every[k])'
               PROVE  now' - last[k] <= Every[k]
    BY <1>2 DEF OnTime
  <2>1. PartOf(k) \in Parts /\ Every[k] \in Nat /\ last[k] \in Int
    BY StagesAre DEF HealthTypes
  <2>2. PartOf(k) \notin down' /\ changed'[PartOf(k)] < now' - Every[k]
    BY DEF Since
  <2>3. PartOf(k) \notin down /\ changed'[PartOf(k)] = changed[PartOf(k)]
    BY <1>1, <1>3, <2>1, <2>2
  <2>4. now' - last[k] <= Every[k] \/ now' - changed[PartOf(k)] <= Every[k]
    BY <2>3 DEF TimePasses, InTurnBy
  <2>5. QED
    BY <1>1, <1>3, <2>1, <2>2, <2>3, <2>4
<1>8. Logs'
  <2> SUFFICES ASSUME NEW t \in 1..now', "sensor" \notin down', changed'["sensor"] <= t
               PROVE  /\ t \in logged'
                      /\ "auth" \notin down' /\ changed'["auth"] <= t => t \in logins'
    BY DEF Logs
  <2>1. "sensor" \in Parts /\ "auth" \in Parts
    BY StagesAre
  <2>2. CASE t = now'
    <3>1. t \in logged'
      BY <1>2, <2>2 DEF TimePasses
    <3>2. ASSUME "auth" \notin down' PROVE t \in logins'
      BY <1>2, <2>2, <3>2 DEF TimePasses
    <3>3. QED
      BY <3>1, <3>2
  <2>3. CASE t # now'
    <3>1. t \in 1..now
      BY <1>1, <2>3
    <3>2. "sensor" \notin down /\ changed["sensor"] <= t
      BY <1>1, <1>3, <2>1, <3>1
    <3>3. ASSUME "auth" \notin down', changed'["auth"] <= t
          PROVE  "auth" \notin down /\ changed["auth"] <= t
      BY <1>1, <1>3, <2>1, <3>1, <3>3
    <3>4. t \in logged /\ ("auth" \notin down /\ changed["auth"] <= t => t \in logins)
      BY <3>1, <3>2 DEF Logs
    <3>5. logged \subseteq logged' /\ logins \subseteq logins'
      BY DEF TimePasses
    <3>6. QED
      BY <3>3, <3>4, <3>5
  <2>4. QED
    BY <2>2, <2>3
<1>9. Quiet'
  <2>1. ASSUME "sensor" \in down', NEW t \in logged' PROVE t < changed'["sensor"]
    <3>1. logged' = logged /\ t \in 1..now /\ "sensor" \in Parts
      BY <1>2, <2>1, StagesAre DEF TimePasses, HealthTypes
    <3>2. QED
      BY <1>1, <1>3, <2>1, <3>1 DEF Quiet
  <2>2. ASSUME "auth" \in down', NEW t \in logins' PROVE t < changed'["auth"]
    <3>1. logins' = logins /\ t \in 1..now /\ "auth" \in Parts
      BY <1>2, <2>2, StagesAre DEF TimePasses, HealthTypes
    <3>2. QED
      BY <1>1, <1>3, <2>2, <3>1 DEF Quiet
  <2>3. ASSUME NEW p \in {"pull", "ingest", "worker", "fetch"}, p \in down'
        PROVE  last[p] < changed'[p]
    <3>1. p \in Parts /\ p \in Stages
      BY StagesAre
    <3>2. last[p] \in Int /\ last[p] <= now
      BY <3>1 DEF InThePast, HealthTypes
    <3>3. QED
      BY <1>1, <1>3, <2>3, <3>1, <3>2 DEF Quiet
  <2>4. QED
    BY <1>2, <2>1, <2>2, <2>3 DEF Quiet
<1>10. PassedOn'
  <2> DEFINE np == last["ingest"] - Every["pull"]
             nf == last["facts"] - Every["pull"] - Every["ingest"]
             nl == last["facts"]
  <2>1. /\ np \in Int /\ np <= now' /\ nf \in Int /\ nf <= now'
        /\ nl \in Int /\ nl <= now'
    BY <1>1, StagesAre DEF InThePast, HealthTypes
  <2>2. {"pull", "ingest", "fetch"} \subseteq Parts
    BY StagesAre
  <2>3. /\ Since("pull", np) => rawTo >= np
        /\ (\A p \in {"pull", "ingest"} : Since(p, nf)) => factsTo >= nf
        /\ Since("fetch", nl) => last["fetch"] = last["facts"]
    BY DEF PassedOn
  <2>4. /\ np' = np /\ nf' = nf /\ nl' = nl
    BY <1>2
  <2>5. \A p \in {"pull", "ingest", "fetch"} : \A n \in {np, nf, nl} :
          Since(p, n)' => Since(p, n)
    BY <1>6, <2>1, <2>2
  <2> HIDE DEF np, nf, nl
  <2>6. /\ Since("pull", np)' => rawTo' >= np'
        /\ (\A p \in {"pull", "ingest"} : Since(p, nf)') => factsTo' >= nf'
        /\ Since("fetch", nl)' => (last["fetch"] = last["facts"])'
    BY <1>2, <2>3, <2>4, <2>5
  <2>7. QED
    BY <2>6 DEF PassedOn, np, nf, nl
<1>11. QED
  BY <1>4, <1>5, <1>7, <1>8, <1>9, <1>10

(* Stages have run: what they are parts of works, and they are on time.    *)
LEMMA RunKeeps ==
  ASSUME HealthInv, NEW K \in SUBSET Stages, \A k \in K : PartOf(k) \notin down,
         last' \in [Stages -> Int],
         \A j \in Stages : last'[j] = IF j \in K THEN now ELSE last[j],
         UNCHANGED <<now, logged, logins, down, changed>>
  PROVE  /\ OnTime' /\ Logs' /\ Quiet'
         /\ \A j \in Stages : -1 <= last'[j] /\ last'[j] <= now'
<1> USE DEF HealthInv
<1>1. /\ now' = now /\ down' = down /\ changed' = changed
      /\ logged' = logged /\ logins' = logins /\ now \in Nat
  BY DEF HealthTypes
<1>2. \A j \in Stages : -1 <= last'[j] /\ last'[j] <= now' /\ last[j] \in Int
  BY <1>1 DEF InThePast, HealthTypes
<1>3. OnTime'
  <2> SUFFICES ASSUME NEW j \in Timed, Since(PartOf(j), now - Every[j])
               PROVE  now - last'[j] <= Every[j]
    BY <1>1 DEF OnTime, Since
  <2>1. j \in Stages /\ Every[j] \in Nat /\ now - last[j] <= Every[j]
    BY StagesAre DEF OnTime
  <2>2. QED
    BY <1>1, <2>1
<1>4. Logs'
  BY <1>1 DEF Logs
<1>5. Quiet'
  <2> SUFFICES ASSUME NEW p \in {"pull", "ingest", "worker", "fetch"}, p \in down
               PROVE  last'[p] < changed[p]
    BY <1>1 DEF Quiet
  <2>1. p \in Stages /\ PartOf(p) = p
    BY StagesAre DEF PartOf
  <2>2. last'[p] = last[p]
    BY <1>1, <2>1
  <2>3. QED
    BY <2>2 DEF Quiet
<1>6. QED
  BY <1>1, <1>2, <1>3, <1>4, <1>5

(* A run of one stage.                                                     *)
LEMMA RanKeeps ==
  ASSUME HealthInv, NEW k \in Stages, Ran(k)
  PROVE  /\ OnTime' /\ Logs' /\ Quiet'
         /\ last' \in [Stages -> Int]
         /\ \A j \in Stages : last'[j] = IF j = k THEN now ELSE last[j]
         /\ \A j \in Stages : -1 <= last'[j] /\ last'[j] <= now'
<1> DEFINE K == {k}
<1>1. /\ last' \in [Stages -> Int]
      /\ \A j \in Stages : last'[j] = IF j \in K THEN now ELSE last[j]
      /\ UNCHANGED <<now, logged, logins, down, changed>>
      /\ \A j \in K : PartOf(j) \notin down
      /\ K \in SUBSET Stages
  BY DEF Ran, HealthInv, HealthTypes
<1>2. \A j \in Stages : last'[j] = IF j = k THEN now ELSE last[j]
  BY <1>1
<1> HIDE DEF K
<1>3. OnTime' /\ Logs' /\ Quiet' /\ \A j \in Stages : -1 <= last'[j] /\ last'[j] <= now'
  BY <1>1, RunKeeps
<1>4. QED
  BY <1>1, <1>2, <1>3

(* While the pull and the ingester work, raw_events holds what was logged  *)
(* up to a run of each ago.                                                *)
LEMMA RawIsRecent ==
  ASSUME HealthInv,
         \A p \in {"pull", "ingest"} : Since(p, now - Every["pull"] - Every["ingest"])
  PROVE  rawTo >= now - Every["pull"] - Every["ingest"]
<1> USE DEF HealthInv
<1>1. /\ Every["pull"] \in Nat /\ Every["ingest"] \in Nat /\ now \in Nat
      /\ last["ingest"] \in Int /\ rawTo \in Int
      /\ changed["pull"] \in Int /\ changed["ingest"] \in Int
  BY StagesAre DEF HealthTypes
<1>2. Since("ingest", now - Every["ingest"])
  BY <1>1 DEF Since
<1>3. last["ingest"] >= now - Every["ingest"]
  <2>1. "ingest" \in Timed /\ PartOf("ingest") = "ingest"
    BY StagesAre
  <2>2. now - last["ingest"] <= Every["ingest"]
    BY <1>2, <2>1 DEF OnTime
  <2>3. QED
    BY <1>1, <2>2
<1>4. Since("pull", last["ingest"] - Every["pull"])
  BY <1>1, <1>3 DEF Since
<1>5. QED
  BY <1>1, <1>3, <1>4 DEF PassedOn

(* Every step keeps the invariant.                                         *)
LEMMA HealthInvNext == HealthInv /\ [HealthNext]_healthVars => HealthInv'
<1> SUFFICES ASSUME HealthInv, [HealthNext]_healthVars PROVE HealthInv'
  OBVIOUS
<1> USE DEF HealthInv
<1>1. /\ Every["pull"] \in Nat /\ Every["ingest"] \in Nat /\ now \in Nat
      /\ \A k \in Stages : last[k] \in Int /\ -1 <= last[k] /\ last[k] <= now
      /\ rawTo \in Int /\ factsTo \in Int
      /\ -1 <= rawTo /\ rawTo <= last["pull"] /\ rawTo <= last["ingest"]
      /\ -1 <= factsTo /\ factsTo <= rawTo
      /\ {"pull", "ingest", "facts", "worker", "fetch"} \subseteq Stages
  BY StagesAre DEF HealthTypes, InThePast
<1>2. ASSUME NEW broken \in Outage, TimePasses(broken) PROVE HealthInv'
  <2>1. broken \in SUBSET Parts
    BY <1>2
  <2>2. QED
    BY <1>2, <2>1, TimeKeeps
<1>3. CASE Pull
  <2>1. /\ Ran("pull") /\ rawTo' = rawTo /\ factsTo' = factsTo
        /\ running' = running /\ storage' = storage
        /\ now' = now /\ down' = down /\ changed' = changed
        /\ logged' = logged /\ logins' = logins
    BY <1>3 DEF Pull, Ran
  <2>2. /\ OnTime' /\ Logs' /\ Quiet' /\ last' \in [Stages -> Int]
        /\ \A j \in Stages : last'[j] = IF j = "pull" THEN now ELSE last[j]
        /\ \A j \in Stages : -1 <= last'[j] /\ last'[j] <= now'
    BY <1>1, <2>1, RanKeeps
  <2>3. last'["pull"] = now /\ \A j \in Stages \ {"pull"} : last'[j] = last[j]
    BY <1>1, <2>2
  <2>4. HealthTypes'
    BY <2>1, <2>2 DEF HealthTypes
  <2>5. InThePast'
    BY <1>1, <2>1, <2>2, <2>3 DEF InThePast
  <2>6. PassedOn'
    BY <1>1, <2>1, <2>3 DEF PassedOn, Since
  <2>7. QED
    BY <2>2, <2>4, <2>5, <2>6
<1>4. CASE Ingest
  <2>1. /\ Ran("ingest") /\ rawTo' = last["pull"] /\ factsTo' = factsTo
        /\ running' = running /\ storage' = storage
        /\ now' = now /\ down' = down /\ changed' = changed
        /\ logged' = logged /\ logins' = logins
    BY <1>4 DEF Ingest, Ran
  <2>2. /\ OnTime' /\ Logs' /\ Quiet' /\ last' \in [Stages -> Int]
        /\ \A j \in Stages : last'[j] = IF j = "ingest" THEN now ELSE last[j]
        /\ \A j \in Stages : -1 <= last'[j] /\ last'[j] <= now'
    BY <1>1, <2>1, RanKeeps
  <2>3. last'["ingest"] = now /\ \A j \in Stages \ {"ingest"} : last'[j] = last[j]
    BY <1>1, <2>2
  <2>4. HealthTypes'
    BY <1>1, <2>1, <2>2 DEF HealthTypes
  <2>5. InThePast'
    <3>1. -1 <= rawTo' /\ rawTo' <= last'["pull"] /\ rawTo' <= last'["ingest"]
          /\ factsTo' <= rawTo' /\ -1 <= factsTo'
      BY <1>1, <2>1, <2>3
    <3>2. QED
      BY <2>1, <2>2, <3>1 DEF InThePast
  <2>6. PassedOn'
    <3>1. Since("pull", now - Every["pull"]) => last["pull"] >= now - Every["pull"]
      <4>1. "pull" \in Timed /\ PartOf("pull") = "pull" /\ last["pull"] \in Int
        BY <1>1, StagesAre
      <4>2. QED
        BY <1>1, <4>1 DEF OnTime
    <3>2. /\ last'["ingest"] = now /\ last'["facts"] = last["facts"]
          /\ last'["fetch"] = last["fetch"]
      BY <1>1, <2>3
    <3>3. QED
      BY <2>1, <3>1, <3>2 DEF PassedOn, Since
  <2>7. QED
    BY <2>2, <2>4, <2>5, <2>6
<1>5. CASE BuildFacts
  <2> DEFINE K == {"facts"} \cup ({"fetch"} \ down)
  <2>1. /\ "worker" \notin down /\ running' = TRUE /\ factsTo' = rawTo
        /\ last' = [last EXCEPT !["facts"] = now,
                         !["fetch"] = IF "fetch" \in down THEN @ ELSE now]
        /\ now' = now /\ down' = down /\ changed' = changed
        /\ logged' = logged /\ logins' = logins /\ rawTo' = rawTo /\ storage' = storage
    BY <1>5 DEF BuildFacts
  <2>2. /\ last' \in [Stages -> Int]
        /\ \A j \in Stages : last'[j] = IF j \in K THEN now ELSE last[j]
    BY <1>1, <2>1 DEF HealthTypes
  <2>3. K \in SUBSET Stages /\ \A k \in K : PartOf(k) \notin down
    BY <1>1, <2>1 DEF PartOf
  <2>4. /\ last'["facts"] = now
        /\ \A j \in {"pull", "ingest", "worker"} : last'[j] = last[j]
        /\ "fetch" \notin down => last'["fetch"] = now
    BY <1>1, <2>2
  <2> HIDE DEF K
  <2>5. /\ OnTime' /\ Logs' /\ Quiet'
        /\ \A j \in Stages : -1 <= last'[j] /\ last'[j] <= now'
    BY <2>1, <2>2, <2>3, RunKeeps
  <2>6. HealthTypes'
    BY <1>1, <2>1, <2>2 DEF HealthTypes
  <2>7. InThePast'
    <3>1. -1 <= rawTo' /\ rawTo' <= last'["pull"] /\ rawTo' <= last'["ingest"]
          /\ factsTo' <= rawTo' /\ -1 <= factsTo'
      BY <1>1, <2>1, <2>4
    <3>2. QED
      BY <2>1, <2>5, <3>1 DEF InThePast
  <2>8. PassedOn'
    <3>1. (\A p \in {"pull", "ingest"} : Since(p, now - Every["pull"] - Every["ingest"]))
            => factsTo' >= now - Every["pull"] - Every["ingest"]
      BY <2>1, RawIsRecent
    <3>2. Since("pull", last["ingest"] - Every["pull"]) =>
            rawTo >= last["ingest"] - Every["pull"]
      BY DEF PassedOn
    <3>3. QED
      BY <2>1, <2>4, <3>1, <3>2 DEF PassedOn, Since
  <2>9. QED
    BY <2>5, <2>6, <2>7, <2>8
<1>6. CASE FinishRun
  <2>1. /\ Ran("worker") /\ rawTo' = rawTo /\ factsTo' = factsTo
        /\ running' = FALSE /\ storage' = storage
        /\ now' = now /\ down' = down /\ changed' = changed
        /\ logged' = logged /\ logins' = logins
    BY <1>6 DEF FinishRun, Ran
  <2>2. /\ OnTime' /\ Logs' /\ Quiet' /\ last' \in [Stages -> Int]
        /\ \A j \in Stages : last'[j] = IF j = "worker" THEN now ELSE last[j]
        /\ \A j \in Stages : -1 <= last'[j] /\ last'[j] <= now'
    BY <1>1, <2>1, RanKeeps
  <2>3. \A j \in Stages \ {"worker"} : last'[j] = last[j]
    BY <1>1, <2>2
  <2>4. HealthTypes'
    BY <2>1, <2>2 DEF HealthTypes
  <2>5. InThePast'
    BY <1>1, <2>1, <2>2, <2>3 DEF InThePast
  <2>6. PassedOn'
    BY <1>1, <2>1, <2>3 DEF PassedOn, Since
  <2>7. QED
    BY <2>2, <2>4, <2>5, <2>6
<1>7. CASE CheckStorage
  BY <1>7 DEF CheckStorage, HealthTypes, InThePast, OnTime, Logs, Quiet, PassedOn, Since
<1>8. CASE UNCHANGED healthVars
  BY <1>8 DEF healthVars, HealthTypes, InThePast, OnTime, Logs, Quiet, PassedOn, Since
<1>9. QED
  BY <1>2, <1>3, <1>4, <1>5, <1>6, <1>7, <1>8 DEF HealthNext

(* What a smaller number counts in days is no more.                       *)
LEMMA TimesKeeps ==
  ASSUME NEW d \in Nat, NEW q \in Int, NEW r \in Int, q <= r
  PROVE  d * q <= d * r
OBVIOUS

(* The days and the rest of a number of ticks.                             *)
LEMMA DayAndRest ==
  ASSUME NEW d \in Nat \ {0}, NEW t \in Nat
  PROVE  /\ t \div d \in Int /\ t % d \in 0..(d - 1)
         /\ t = d * (t \div d) + (t % d)
OBVIOUS

(* Ticks no more than a day apart are of the same day or of one and the    *)
(* next; and then the second is not further into its day than they are     *)
(* apart.                                                                  *)
LEMMA DaysApart ==
  ASSUME NEW d \in Nat \ {0}, NEW a \in Nat, NEW b \in Nat, a <= b, b - a <= d
  PROVE  /\ b \div d - a \div d \in {0, 1}
         /\ a \div d < b \div d => b % d < b - a
<1> DEFINE q == a \div d
           r == b \div d
           u == a % d
           v == b % d
<1>1. /\ q \in Int /\ r \in Int /\ u \in 0..(d - 1) /\ v \in 0..(d - 1)
      /\ a = d * q + u /\ b = d * r + v
  BY DayAndRest
<1> HIDE DEF q, r, u, v
<1>2. q <= r
  <2> SUFFICES ASSUME r + 1 <= q PROVE FALSE
    BY <1>1
  <2>1. d * (r + 1) <= d * q
    BY <1>1, TimesKeeps
  <2>2. d * (r + 1) = d * r + d
    BY <1>1
  <2>3. d * r \in Int /\ d * q \in Int
    BY <1>1
  <2>4. QED
    BY <1>1, <2>1, <2>2, <2>3
<1>3. r <= q + 1
  <2> SUFFICES ASSUME q + 2 <= r PROVE FALSE
    BY <1>1
  <2>1. d * (q + 2) <= d * r
    BY <1>1, TimesKeeps
  <2>2. d * (q + 2) = d * q + d + d
    BY <1>1
  <2>3. d * r \in Int /\ d * q \in Int
    BY <1>1
  <2>4. QED
    BY <1>1, <2>1, <2>2, <2>3
<1>4. q < r => v < b - a
  <2> SUFFICES ASSUME q + 1 <= r PROVE v < b - a
    BY <1>1
  <2>1. d * (q + 1) <= d * r
    BY <1>1, TimesKeeps
  <2>2. d * (q + 1) = d * q + d
    BY <1>1
  <2>3. d * r \in Int /\ d * q \in Int
    BY <1>1
  <2>4. QED
    BY <1>1, <2>1, <2>2, <2>3
<1>5. QED
  BY <1>1, <1>2, <1>3, <1>4 DEF q, r, v

(* The ticks that have come in, and the last of them.                      *)
LEMMA LastOfTicks ==
  ASSUME HealthTypes, NEW S \in SUBSET logged, S # {}
  PROVE  Max(S) \in S /\ Max(S) \in 1..now /\ \A t \in S : t <= Max(S)
<1>1. S \in SUBSET Nat /\ now \in Nat /\ (\A t \in S : t <= now) /\ S \in SUBSET (1..now)
  BY DEF HealthTypes
<1>2. QED
  BY <1>1, MaxOfNat

(* Nobody has logged in for the whole window, and everybody connects.      *)
LEMMA DeadAuthSeen ==
  ASSUME HealthInv, LimitsFit,
         "auth" \in down, now - changed["auth"] >= AuthWindow,
         \A p \in {"sensor", "pull", "ingest"} : Works(p, AuthWindow)
  PROVE  Fault
<1> USE DEF HealthInv
<1> DEFINE E == Every["pull"] + Every["ingest"]
           I == (now - AuthWindow)..(now - E)
<1>1. /\ now \in Nat /\ AuthWindow \in Nat /\ MinConnects \in Nat
      /\ E \in Nat /\ E <= AuthWindow /\ MinConnects + E <= AuthWindow + 1
      /\ rawTo \in Int
      /\ \A p \in Parts : changed[p] \in Int /\ 0 <= changed[p]
      /\ {"sensor", "auth", "pull", "ingest"} \subseteq Parts
  BY StagesAre DEF HealthTypes, InThePast, LimitsFit
<1>2. LoginsRecent = {}
  <2> SUFFICES ASSUME NEW t \in LoginsRecent PROVE FALSE
    OBVIOUS
  <2>1. t \in logins /\ now - t <= AuthWindow /\ t < changed["auth"]
    BY DEF LoginsRecent, UpTo, Quiet
  <2>2. t \in Nat /\ changed["auth"] \in Int
    BY <1>1, <2>1 DEF HealthTypes
  <2>3. QED
    BY <1>1, <2>1, <2>2
<1>3. \A p \in {"sensor", "pull", "ingest"} : p \notin down /\ changed[p] < now - AuthWindow
  BY <1>1 DEF Works
<1>4. rawTo >= now - E
  <2>1. now - Every["pull"] - Every["ingest"] = now - E
        /\ now - Every["pull"] - Every["ingest"] >= now - AuthWindow
        /\ now - Every["pull"] - Every["ingest"] \in Int
    BY <1>1, StagesAre
  <2>2. \A p \in {"pull", "ingest"} : Since(p, now - Every["pull"] - Every["ingest"])
    BY <1>1, <1>3, <2>1 DEF Since
  <2>3. QED
    BY <2>1, <2>2, RawIsRecent
<1> HIDE DEF E
<1>5. I \subseteq ConnectsRecent
  <2> SUFFICES ASSUME NEW t \in I PROVE t \in ConnectsRecent
    OBVIOUS
  <2>1. t \in 1..now /\ changed["sensor"] <= t /\ now - t <= AuthWindow /\ t <= rawTo
    BY <1>1, <1>3, <1>4
  <2>2. t \in logged
    BY <1>3, <2>1 DEF Logs
  <2>3. QED
    BY <2>1, <2>2 DEF ConnectsRecent, RawEvents, UpTo
<1>6. IsFiniteSet(ConnectsRecent)
  <2>1. ConnectsRecent \subseteq 1..now
    BY DEF ConnectsRecent, RawEvents, UpTo, HealthTypes
  <2>2. IsFiniteSet(1..now)
    <3>1. 1 \in Int /\ now \in Int
      BY <1>1
    <3>2. QED
      BY <3>1, FS_Interval
  <2>3. QED
    BY <2>1, <2>2, FS_Subset
<1>7. Cardinality(I) = AuthWindow - E + 1
  <2>1. now - AuthWindow \in Int /\ now - E \in Int /\ now - AuthWindow <= now - E
        /\ (now - E) - (now - AuthWindow) + 1 = AuthWindow - E + 1
    BY <1>1
  <2>2. Cardinality(I) = (now - E) - (now - AuthWindow) + 1
    BY <2>1, FS_Interval
  <2>3. QED
    BY <2>1, <2>2
<1>8. Cardinality(I) <= Cardinality(ConnectsRecent) /\ Cardinality(ConnectsRecent) \in Nat
  <2> HIDE DEF I
  <2>1. QED
    BY <1>5, <1>6, FS_Subset, FS_CardinalityType
<1>9. QED
  BY <1>1, <1>2, <1>7, <1>8 DEF Fault

(* A part that has stopped is seen.                                        *)
LEMMA StoppedSeen == HealthInv => StoppedIsSeen
<1> SUFFICES ASSUME HealthInv, NEW p \in DOMAIN Limit, p \in down,
                    now - changed[p] >= Limit[p],
                    ~ (p \in {"pull", "worker", "fetch"} /\ last[p] = -1)
             PROVE  Status # "ok"
  BY DEF StoppedIsSeen
<1>1. SUFFICES Fault \/ Warn
  BY DEF Status
<1> USE DEF HealthInv
<1>2. /\ p \in {"sensor", "pull", "ingest", "worker", "fetch"} /\ p \in Parts
      /\ now \in Nat /\ changed[p] \in Int /\ changed[p] <= now
      /\ \A k \in Stages : last[k] \in Int
      /\ {"pull", "ingest", "worker", "fetch"} \subseteq Stages
      /\ PullWarn \in Nat /\ EventsWarn \in Nat /\ WorkerWarn \in Nat /\ FetchWarn \in Nat
  BY StagesAre DEF HealthTypes, InThePast, Limit
<1>3. Limit[p] = CASE p \in {"sensor", "ingest"} -> EventsWarn [] p = "pull" -> PullWarn
                   [] p = "worker" -> WorkerWarn [] p = "fetch" -> FetchWarn
  BY DEF Limit
<1>4. CASE p \in {"pull", "worker", "fetch"}
  <2>1. last[p] < changed[p] /\ last[p] # -1
    BY <1>4 DEF Quiet
  <2>2. last[p] \in Int /\ Limit[p] \in Nat /\ now - last[p] > Limit[p]
    BY <1>2, <1>3, <1>4, <2>1
  <2>3. QED
    BY <1>3, <1>4, <2>1, <2>2 DEF Warn, Overdue
<1>5. CASE p \in {"sensor", "ingest"}
  <2>1. Limit[p] = EventsWarn
    BY <1>3, <1>5
  <2>2. CASE RawEvents = {}
    <3>1. FactTicks \subseteq RawEvents
      <4> SUFFICES ASSUME NEW t \in FactTicks PROVE t \in RawEvents
        OBVIOUS
      <4>1. t \in logged /\ t <= factsTo /\ factsTo <= rawTo
        BY DEF FactTicks, UpTo, InThePast
      <4>2. t \in Int /\ factsTo \in Int /\ rawTo \in Int
        BY <4>1 DEF HealthTypes
      <4>3. QED
        BY <4>1, <4>2 DEF RawEvents, UpTo
    <3>2. QED
      BY <2>2, <3>1 DEF Fault
  <2>3. CASE RawEvents # {}
    <3>1. RawEvents \subseteq logged
      BY DEF RawEvents, UpTo
    <3>2. Newest \in RawEvents /\ Newest \in 1..now
      BY <2>3, <3>1, LastOfTicks DEF Newest
    <3>3. Newest < changed[p]
      <4>1. CASE p = "sensor"
        BY <3>1, <3>2, <4>1 DEF Quiet
      <4>2. CASE p = "ingest"
        <5>1. Newest <= rawTo /\ rawTo <= last["ingest"] /\ last["ingest"] < changed[p]
          BY <3>2, <4>2 DEF RawEvents, UpTo, InThePast, Quiet
        <5>2. rawTo \in Int /\ last["ingest"] \in Int
          BY <1>2 DEF HealthTypes
        <5>3. QED
          BY <1>2, <3>2, <5>1, <5>2
      <4>3. QED
        BY <1>5, <4>1, <4>2
    <3>4. now - Newest > EventsWarn /\ Newest # -1
      BY <1>2, <2>1, <3>2, <3>3
    <3>5. QED
      BY <3>4 DEF Warn, Overdue
  <2>4. QED
    BY <2>2, <2>3
<1>6. QED
  BY <1>2, <1>4, <1>5

(* While everything works nothing is wrong, but that the day may have no   *)
(* facts yet.                                                              *)
LEMMA NoAlarm == LimitsFit /\ HealthInv => NoFalseAlarm
<1> SUFFICES ASSUME LimitsFit, HealthInv, \A p \in Parts : Works(p, Delay)
             PROVE  /\ ~ Fault
                    /\ ~ storage => (Warn <=> DayOfTick(factsTo) < DayOfTick(now))
                    /\ DayOfTick(factsTo) < DayOfTick(now) => now % DayTicks < Delay
  BY DEF NoFalseAlarm, Status
<1> USE DEF HealthInv
<1> DEFINE E == Every["pull"] + Every["ingest"]
<1>1. /\ Every["pull"] \in Nat /\ Every["ingest"] \in Nat /\ Every["facts"] \in Nat
      /\ Every["worker"] \in Nat
      /\ Every["worker"] >= 0 /\ Delay \in Nat /\ Delay = E + Every["facts"] /\ E \in Nat
      /\ Every["pull"] <= PullWarn /\ Every["worker"] <= WorkerWarn
      /\ Every["worker"] <= Delay /\ Every["facts"] <= FetchWarn /\ E <= EventsWarn /\ E <= AuthWindow
      /\ Delay <= DayTicks /\ DayTicks \in Nat \ {0} /\ AuthWindow \in Nat
      /\ PullWarn \in Nat /\ EventsWarn \in Nat /\ WorkerWarn \in Nat /\ FetchWarn \in Nat
  BY StagesAre DEF LimitsFit, Delay
<1>2. /\ now \in Nat /\ rawTo \in Int /\ factsTo \in Int /\ rawTo <= last["pull"]
      /\ factsTo <= rawTo
      /\ \A k \in Stages : last[k] \in Int /\ last[k] <= now
      /\ \A p \in Parts : /\ changed[p] \in Int /\ 0 <= changed[p]
                          /\ p \notin down /\ changed[p] < now - Delay
      /\ {"pull", "ingest", "facts", "worker", "fetch"} \subseteq Stages
  BY <1>1, StagesAre DEF HealthTypes, InThePast, Works
<1>3. {"sensor", "auth", "pull", "ingest", "worker", "fetch"} \subseteq Parts
  BY StagesAre
<1>4. ASSUME NEW k \in {"pull", "facts", "worker"} PROVE now - last[k] <= Every[k]
  <2>1. k \in Timed /\ PartOf(k) \in Parts /\ Every[k] \in Nat /\ Every[k] <= Delay
    BY <1>1, StagesAre
  <2>2. Since(PartOf(k), now - Every[k])
    BY <1>1, <1>2, <2>1 DEF Since
  <2>3. QED
    BY <2>1, <2>2 DEF OnTime
<1>5. /\ last["pull"] >= now - PullWarn
      /\ last["facts"] >= now - Every["facts"]
  <2>1. last["pull"] \in Int /\ last["facts"] \in Int
    BY <1>2
  <2>2. QED
    BY <1>1, <1>2, <1>4, <2>1
<1>6. rawTo >= now - E /\ factsTo >= now - Delay
  <2>1. \A p \in {"pull", "ingest"} : changed[p] < now - Delay /\ p \notin down /\ changed[p] \in Int
    BY <1>2, <1>3
  <2>2. now - Every["pull"] - Every["ingest"] = now - E /\ now - E >= now - Delay
        /\ now - E \in Int
    BY <1>1, <1>2
  <2>3. \A p \in {"pull", "ingest"} : Since(p, now - Every["pull"] - Every["ingest"])
    BY <1>1, <1>2, <2>1, <2>2 DEF Since
  <2>4. rawTo >= now - Every["pull"] - Every["ingest"]
    BY <2>3, RawIsRecent
  <2>5. /\ last["facts"] - Every["pull"] - Every["ingest"] >= now - Delay
        /\ last["facts"] - Every["pull"] - Every["ingest"] \in Int
        /\ last["facts"] \in Int
    BY <1>1, <1>2, <1>5
  <2>6. \A p \in {"pull", "ingest"} : Since(p, last["facts"] - Every["pull"] - Every["ingest"])
    BY <1>1, <1>2, <2>1, <2>5 DEF Since
  <2>7. factsTo >= last["facts"] - Every["pull"] - Every["ingest"]
    BY <2>6 DEF PassedOn
  <2>8. QED
    BY <1>1, <1>2, <2>2, <2>4, <2>5, <2>7
<1>7. /\ 1 <= factsTo /\ factsTo <= rawTo /\ rawTo <= now /\ now - factsTo <= Delay
      /\ factsTo \in 1..now /\ rawTo \in 1..now
  <2>1. changed["sensor"] < now - Delay /\ changed["sensor"] \in Int /\ 0 <= changed["sensor"]
    BY <1>2, <1>3
  <2>2. last["pull"] <= now /\ last["pull"] \in Int
    BY <1>2
  <2>3. QED
    BY <1>1, <1>2, <1>6, <2>1, <2>2
<1>8. \A t \in {rawTo, factsTo} : t \in logged /\ t \in logins
  <2>1. \A p \in {"sensor", "auth"} : p \notin down /\ changed[p] < now - Delay /\ changed[p] \in Int
    BY <1>2, <1>3
  <2>2. \A t \in {rawTo, factsTo} : t \in 1..now /\ t >= now - Delay
    BY <1>1, <1>2, <1>6, <1>7
  <2>3. \A t \in {rawTo, factsTo} : changed["sensor"] <= t /\ changed["auth"] <= t
    BY <1>1, <1>2, <2>1, <2>2
  <2>4. QED
    BY <2>1, <2>2, <2>3 DEF Logs
<1>9. /\ rawTo \in RawEvents /\ factsTo \in FactTicks
      /\ RawEvents \subseteq logged /\ FactTicks \subseteq logged
      /\ \A t \in RawEvents : t <= rawTo /\ t \in Int
      /\ \A t \in FactTicks : t <= factsTo /\ t \in Int
  BY <1>2, <1>8 DEF RawEvents, FactTicks, UpTo, HealthTypes
<1>10. Newest = rawTo /\ Max(FactTicks) = factsTo
  <2>1. Max(RawEvents) \in RawEvents /\ rawTo <= Max(RawEvents)
    BY <1>9, LastOfTicks
  <2>2. Max(FactTicks) \in FactTicks /\ factsTo <= Max(FactTicks)
    BY <1>9, LastOfTicks
  <2>3. Max(RawEvents) \in Int /\ Max(RawEvents) <= rawTo /\ Newest = Max(RawEvents)
    BY <1>9, <2>1 DEF Newest
  <2>4. Max(FactTicks) \in Int /\ Max(FactTicks) <= factsTo
    BY <1>9, <2>2
  <2>5. QED
    BY <1>2, <2>1, <2>2, <2>3, <2>4
<1>11. /\ DayOfTick(now) - DayOfTick(factsTo) \in {0, 1}
       /\ DayOfTick(factsTo) \in Int /\ DayOfTick(now) \in Int
       /\ DayOfTick(factsTo) < DayOfTick(now) => now % DayTicks < Delay
  <2>1. now \in Nat /\ factsTo \in Nat /\ factsTo <= now /\ now - factsTo <= DayTicks
    BY <1>1, <1>2, <1>7
  <2>2. /\ now \div DayTicks - factsTo \div DayTicks \in {0, 1}
        /\ factsTo \div DayTicks < now \div DayTicks => now % DayTicks < now - factsTo
    BY <1>1, <2>1, DaysApart
  <2>3. factsTo \div DayTicks \in Int /\ now \div DayTicks \in Int /\ now % DayTicks \in Int
    BY <1>1, <2>1, DayAndRest
  <2>4. QED
    BY <1>1, <1>2, <1>7, <2>2, <2>3 DEF DayOfTick
<1>12. LagDays = DayOfTick(now) - DayOfTick(factsTo)
  BY <1>10 DEF LagDays
<1>13. factsTo \in AuthedRecent /\ rawTo \in LoginsRecent
  <2>1. DayOfTick(now) - DayOfTick(factsTo) < 3 /\ now - rawTo <= AuthWindow
        /\ factsTo <= factsTo /\ rawTo <= rawTo
    BY <1>1, <1>2, <1>6, <1>11
  <2>2. QED
    BY <1>8, <2>1 DEF AuthedRecent, LoginsRecent, Recent, UpTo
<1>14. ~ Fault
  BY <1>9, <1>11, <1>12, <1>13 DEF Fault, StaleFaultDays
<1>15. /\ ~ Overdue(last["pull"], PullWarn) /\ ~ Overdue(Newest, EventsWarn)
       /\ ~ Overdue(last["fetch"], FetchWarn) /\ ~ Overdue(last["worker"], WorkerWarn)
  <2>1. last["fetch"] = last["facts"]
    <3>1. last["facts"] \in Int /\ changed["fetch"] \in Int /\ "fetch" \notin down
          /\ changed["fetch"] < now - Delay
      BY <1>2, <1>3
    <3>2. Since("fetch", last["facts"])
      BY <1>1, <1>2, <1>5, <3>1 DEF Since
    <3>3. QED
      BY <3>2 DEF PassedOn
  <2>2. last["pull"] \in Int /\ last["facts"] \in Int /\ last["worker"] \in Int
    BY <1>2
  <2>3. now - last["fetch"] <= FetchWarn /\ now - last["pull"] <= PullWarn
    BY <1>1, <1>2, <1>5, <2>1, <2>2
  <2>4. now - Newest <= EventsWarn
    BY <1>1, <1>2, <1>6, <1>10
  <2>5. now - last["worker"] <= WorkerWarn
    BY <1>1, <1>2, <1>4, <2>2
  <2>6. QED
    BY <1>1, <1>2, <1>10, <2>1, <2>2, <2>3, <2>4, <2>5 DEF Overdue
<1>16. ~ storage => (Warn <=> DayOfTick(factsTo) < DayOfTick(now))
  <2>1. Warn <=> LagDays >= 1 \/ storage
    BY <1>15 DEF Warn, StaleWarnDays
  <2>2. LagDays >= 1 <=> DayOfTick(factsTo) < DayOfTick(now)
    BY <1>11, <1>12
  <2>3. QED
    BY <2>1, <2>2
<1>17. QED
  BY <1>11, <1>14, <1>16

(* What the banner computes from what was passed on says what the parts    *)
(* do, for any limits that leave the stages their time, and any order of   *)
(* failures of any parts together (health, stage_freshness).               *)
THEOREM HealthDoesHold ==
  ASSUME LimitsFit
  PROVE  HealthSpec => []HealthIsHonest
<1>1. HealthInv => HealthIsHonest
  <2> SUFFICES ASSUME HealthInv PROVE HealthIsHonest
    OBVIOUS
  <2>1. DeadAuthIsFault
    BY DeadAuthSeen DEF DeadAuthIsFault, Status
  <2>2. QED
    BY <2>1, StoppedSeen, NoAlarm DEF HealthIsHonest
<1>2. QED
  BY <1>1, HealthInvInit, HealthInvNext, PTL DEF HealthSpec

HIDE HealthAssumption
-----------------------------------------------------------------------------
(* Contributions.  Once VirusTotal holds a sample the date of its first    *)
(* upload never changes, so every answer gives that date or none.  As long *)
(* as no answer was lost the upload that is stamped is the first.          *)
ContribInv ==
  /\ clock \in 0..MaxClock
  /\ theirs \in -1..clock /\ took \in -1..clock
  /\ sent \in -1..clock /\ stamp \in -1..clock
  /\ detected \in Nat /\ missed \in BOOLEAN
  /\ sent # -1 => /\ took # -1 /\ clock - sent <= MaxCall
                  /\ missed \/ took = sent
  /\ stamp # -1 => took # -1 /\ (missed \/ stamp - took <= MaxCall)
  /\ took # -1 => missed \/ sent # -1 \/ stamp # -1
  /\ \A s \in snaps : /\ Held
                      /\ s.at \in 0..clock
                      /\ s.first \in {-1, FirstDate}

(* The date of the first upload is that of the earlier one.                *)
LEMMA FirstDateIs ==
  ASSUME NEW i \in Int, theirs \in -1..i, took \in -1..i
  PROVE  FirstDate = IF theirs = -1 THEN (IF took = -1 THEN FirstDate ELSE took)
                     ELSE IF took = -1 \/ theirs <= took THEN theirs ELSE took
<1> DEFINE S == {t \in {theirs, took} : t # -1}
<1>1. CASE theirs = -1 /\ took # -1
  <2>1. S = {took, took}
    BY <1>1
  <2>2. QED
    BY <1>1, <2>1, MinOfTwo DEF FirstDate
<1>2. CASE theirs # -1 /\ took = -1
  <2>1. S = {theirs, theirs}
    BY <1>2
  <2>2. QED
    BY <1>2, <2>1, MinOfTwo DEF FirstDate
<1>3. CASE theirs # -1 /\ took # -1
  <2>1. S = {theirs, took}
    BY <1>3
  <2>2. QED
    BY <1>3, <2>1, MinOfTwo DEF FirstDate
<1>4. QED
  BY <1>1, <1>2, <1>3

(* Nothing was uploaded and nothing asked.                                 *)
LEMMA ContribInvInit == ContribInit => ContribInv
<1> SUFFICES ASSUME ContribInit PROVE ContribInv
  OBVIOUS
<1>1. 0 \in 0..MaxClock /\ -1 \in -1..0
  BY ContribAssumption
<1>2. QED
  BY <1>1 DEF ContribInit, ContribInv

(* What a step does to what VirusTotal holds.                              *)
LEMMA FirstDateStays ==
  ASSUME ContribInv, [ContribNext]_contribVars, Held
  PROVE  Held' /\ FirstDate' = FirstDate
<1> USE DEF ContribInv
<1>1. clock \in Int /\ theirs \in -1..clock /\ took \in -1..clock
  BY ContribAssumption
<1>2. CASE UNCHANGED <<theirs, took>>
  BY <1>2 DEF Held, FirstDate
<1>3. CASE OtherUploads
  <2>1. theirs = -1 /\ theirs' = clock /\ took' = took /\ took # -1
    BY <1>3 DEF OtherUploads, Held
  <2>2. theirs' \in -1..clock /\ took' \in -1..clock /\ theirs' # -1
    BY <1>1, <2>1
  <2>3. FirstDate = took
    BY <1>1, <2>1, FirstDateIs
  <2>4. FirstDate' = IF theirs' = -1 THEN (IF took' = -1 THEN FirstDate' ELSE took')
                     ELSE IF took' = -1 \/ theirs' <= took' THEN theirs' ELSE took'
    <3>1. {t \in {theirs', took'} : t # -1} = {theirs', took'}
      BY <2>1, <2>2
    <3>2. QED
      BY <2>1, <2>2, <3>1, <1>1, MinOfTwo DEF FirstDate
  <2>5. QED
    BY <1>1, <2>1, <2>2, <2>3, <2>4 DEF Held
<1>4. CASE WeUpload /\ took = -1
  <2>1. took = -1 /\ took' = clock /\ theirs' = theirs /\ theirs # -1
    BY <1>4 DEF WeUpload, Held
  <2>2. theirs' \in -1..clock /\ took' \in -1..clock /\ took' # -1
    BY <1>1, <2>1
  <2>3. FirstDate = theirs
    BY <1>1, <2>1, FirstDateIs
  <2>4. FirstDate' = IF theirs' <= took' THEN theirs' ELSE took'
    <3>1. {t \in {theirs', took'} : t # -1} = {theirs', took'}
      BY <2>1, <2>2
    <3>2. QED
      BY <2>1, <2>2, <3>1, <1>1, MinOfTwo DEF FirstDate
  <2>5. QED
    BY <1>1, <2>1, <2>2, <2>3, <2>4 DEF Held
<1>5. QED
  BY <1>2, <1>3, <1>4
  DEF ContribNext, contribVars, Later, EnginesDetect, WeUpload, WeStamp, LoseAnswer, Snapshot

(* Every step keeps it: the calls, the stamp, and the answers.             *)
LEMMA ContribInvNext == ContribInv /\ [ContribNext]_contribVars => ContribInv'
<1> SUFFICES ASSUME ContribInv, [ContribNext]_contribVars PROVE ContribInv'
  OBVIOUS
<1>0. clock \in Nat /\ MaxClock \in Nat /\ MaxCall \in Nat
  BY ContribAssumption DEF ContribInv
<1> USE DEF ContribInv
<1>1. /\ clock' \in 0..MaxClock /\ clock' >= clock /\ clock' \in Nat
      /\ theirs' \in -1..clock' /\ took' \in -1..clock' /\ sent' \in -1..clock'
      /\ stamp' \in -1..clock' /\ detected' \in Nat /\ missed' \in BOOLEAN
  <2>1. CASE Later
    BY <1>0, <2>1 DEF Later
  <2>2. CASE WeUpload
    BY <1>0, <2>2 DEF WeUpload
  <2>3. CASE OtherUploads \/ EnginesDetect
    BY <1>0, <2>3 DEF OtherUploads, EnginesDetect
  <2>4. CASE WeStamp
    BY <1>0, <2>4 DEF WeStamp
  <2>5. CASE LoseAnswer
    BY <1>0, <2>5 DEF LoseAnswer
  <2>6. CASE UNCHANGED <<clock, theirs, took, sent, stamp, detected, missed>>
    BY <1>0, <2>6
  <2>7. QED
    BY <2>1, <2>2, <2>3, <2>4, <2>5, <2>6 DEF ContribNext, contribVars, Snapshot
<1>3. /\ sent' # -1 => /\ took' # -1 /\ clock' - sent' <= MaxCall
                       /\ missed' \/ took' = sent'
      /\ stamp' # -1 => took' # -1 /\ (missed' \/ stamp' - took' <= MaxCall)
      /\ took' # -1 => missed' \/ sent' # -1 \/ stamp' # -1
  <2>1. CASE Later
    BY <1>0, <2>1 DEF Later
  <2>2. CASE WeUpload
    <3>1. took # -1 => missed
      BY <2>2 DEF WeUpload
    <3>2. QED
      BY <1>0, <2>2, <3>1 DEF WeUpload
  <2>3. CASE WeStamp
    BY <1>0, <2>3 DEF WeStamp
  <2>4. CASE LoseAnswer
    BY <1>0, <2>4 DEF LoseAnswer
  <2>5. CASE UNCHANGED <<clock, took, sent, missed, stamp>>
    BY <2>5
  <2>6. QED
    BY <2>1, <2>2, <2>3, <2>4, <2>5 DEF ContribNext, contribVars, OtherUploads, EnginesDetect,
                                        Snapshot
<1>4. ASSUME NEW s \in snaps'
      PROVE  Held' /\ s.at \in 0..clock' /\ s.first \in {-1, FirstDate'}
  <2>1. CASE s \in snaps
    <3>1. Held /\ s.at \in 0..clock /\ s.first \in {-1, FirstDate}
      BY <2>1 DEF ContribInv
    <3>2. Held' /\ FirstDate' = FirstDate
      BY <3>1, FirstDateStays
    <3>3. QED
      BY <1>0, <1>1, <3>1, <3>2
  <2>2. CASE s \notin snaps
    <3>1. Snapshot
      BY <2>2 DEF ContribNext, contribVars, Later, OtherUploads, EnginesDetect, WeUpload, WeStamp,
                  LoseAnswer
    <3>2. Held /\ clock' = clock /\ s.at = clock /\ s.first \in {-1, FirstDate}
      BY <2>2, <3>1 DEF Snapshot
    <3>3. Held' /\ FirstDate' = FirstDate
      BY <3>2, FirstDateStays
    <3>4. QED
      BY <1>0, <3>2, <3>3
  <2>3. QED
    BY <2>1, <2>2
<1>5. QED
  BY <1>1, <1>3, <1>4

(* All that VirusTotal dates is the one first date.                        *)
LEMMA FirstsAre ==
  ASSUME ContribInv, Firsts # {}
  PROVE  /\ Firsts = {FirstDate} /\ Min(Firsts) = FirstDate /\ FirstDate \in Int
         /\ Held
<1>1. Held /\ Firsts = {FirstDate}
  BY DEF ContribInv, Firsts
<1>2. clock \in Int /\ theirs \in -1..clock /\ took \in -1..clock
  BY ContribAssumption DEF ContribInv
<1>3. FirstDate \in Int
  BY <1>1, <1>2, FirstDateIs DEF Held
<1>4. Min({FirstDate, FirstDate}) = FirstDate
  BY <1>3, MinOfTwo
<1>5. QED
  BY <1>1, <1>3, <1>4

(* When it is confirmed, nobody was earlier than our stamp by more than    *)
(* the tolerance; when it is preceded, somebody was before us, or an       *)
(* earlier upload of ours was.                                             *)
LEMMA AttributionSound ==
  ASSUME ContribInv, MaxCall <= Tolerance
  PROVE  AttributionIsRight
<1> USE DEF ContribInv
<1>1. /\ clock \in Nat /\ theirs \in -1..clock /\ took \in -1..clock /\ stamp \in -1..clock
      /\ Tolerance \in Nat /\ MaxCall \in Nat
  BY ContribAssumption
<1>2. ASSUME Attribution = "confirmed" PROVE theirs = -1 \/ theirs >= stamp - Tolerance
  <2>1. Firsts # {} /\ Min(Firsts) >= stamp - Tolerance
    BY <1>2 DEF Attribution
  <2>2. FirstDate >= stamp - Tolerance
    BY <2>1, FirstsAre
  <2>3. QED
    BY <1>1, <2>2, FirstDateIs
<1>3. ASSUME Attribution = "preceded"
      PROVE  (theirs # -1 /\ theirs < took) \/ (missed /\ took < stamp - Tolerance)
  <2>1. Firsts # {} /\ Claimed /\ ~ (Min(Firsts) >= stamp - Tolerance)
    BY <1>3 DEF Attribution
  <2>2. FirstDate \in Int /\ FirstDate < stamp - Tolerance
    BY <1>1, <2>1, FirstsAre
  <2>3. took # -1 /\ (missed \/ stamp - took <= MaxCall)
    BY <2>1 DEF Claimed
  <2>4. CASE FirstDate = took
    BY <1>1, <2>2, <2>3, <2>4
  <2>5. CASE FirstDate # took
    BY <1>1, <2>3, <2>5, FirstDateIs
  <2>6. QED
    BY <2>4, <2>5
<1>4. QED
  BY <1>2, <1>3 DEF AttributionIsRight

(* The snapshots the lift compares are in order, the first after the stamp.*)
LEMMA LiftSound == ContribInv => LiftIsAfterUpload
<1> SUFFICES ASSUME ContribInv, NEW a \in Initial, NEW b \in Current
             PROVE  /\ a.at <= b.at
                    /\ Claimed /\ (\E s \in snaps : s.at >= stamp) => a.at >= stamp
  BY DEF LiftIsAfterUpload
<1>1. a \in snaps
  BY DEF Initial, Oldest, After
<1>2. a.at <= b.at
  BY <1>1 DEF Current
<1>3. Claimed /\ (\E s \in snaps : s.at >= stamp) => a.at >= stamp
  BY DEF Initial, Oldest, After
<1>4. QED
  BY <1>2, <1>3

(* What the page claims is right, but for a first of ours whose answer was *)
(* lost, and final once VirusTotal's date is known, as long as no upload   *)
(* call takes longer than the tolerance, which is 15 minutes: the call     *)
(* gives up long before (verify_first).                                    *)
THEOREM ClaimDoesHold ==
  ASSUME MaxCall <= Tolerance
  PROVE  ContribSpec => ClaimHolds
<1>1. ASSUME ContribInv, [ContribNext]_contribVars, stamp' = stamp,
             Attribution # "unverified"
      PROVE  Attribution' = Attribution
  <2>1. Firsts # {} /\ Claimed
    BY <1>1 DEF Attribution
  <2>2. Firsts = {FirstDate} /\ Held
    BY <1>1, <2>1, FirstsAre
  <2>3. Held' /\ FirstDate' = FirstDate
    BY <1>1, <2>2, FirstDateStays
  <2>4. snaps \subseteq snaps'
    BY <1>1 DEF ContribNext, contribVars, Later, OtherUploads, EnginesDetect, WeUpload, WeStamp,
                LoseAnswer, Snapshot
  <2>5. Firsts' = {FirstDate}
    <3>1. ContribInv'
      BY <1>1, ContribInvNext
    <3>2. Firsts \subseteq Firsts'
      BY <2>4 DEF Firsts
    <3>3. Firsts' \subseteq {FirstDate'}
      BY <3>1 DEF ContribInv, Firsts
    <3>4. QED
      BY <2>2, <2>3, <3>2, <3>3
  <2>6. QED
    BY <1>1, <2>1, <2>2, <2>5 DEF Attribution, Claimed
<1>2. ContribInv => AttributionIsRight /\ LiftIsAfterUpload
  BY AttributionSound, LiftSound
<1>3. ContribInv /\ ContribInv' /\ [ContribNext]_contribVars =>
        [contribVars' # contribVars =>
           /\ AttributionIsRight' /\ LiftIsAfterUpload'
           /\ Attribution # "unverified" /\ stamp' = stamp
                => Attribution' = Attribution]_contribVars
  <2> SUFFICES ASSUME ContribInv, ContribInv', [ContribNext]_contribVars
               PROVE  /\ AttributionIsRight' /\ LiftIsAfterUpload'
                      /\ Attribution # "unverified" /\ stamp' = stamp
                           => Attribution' = Attribution
    OBVIOUS
  <2>1. AttributionIsRight' /\ LiftIsAfterUpload'
    BY <1>2, PTL
  <2>2. QED
    BY <1>1, <2>1
<1>4. QED
  BY <1>3, ContribInvInit, ContribInvNext, PTL DEF ContribSpec, ClaimHolds
-----------------------------------------------------------------------------
(* Trends.  Totals of sessions are sums over the days of a side; what they *)
(* come to is the number of sessions, counted one by one.  The samples of  *)
(* a side are those whose last day lies between two of its days.           *)
TrendsInv ==
  /\ trendDay \in Nat
  /\ counted \in [1..TrendDays -> [SessionFields -> Nat]]
  /\ lastSeen \in [Captures -> Nat]
  /\ epochs \subseteq Personas /\ IsFiniteSet(epochs)

Measure(f) == [d \in 1..TrendDays |-> counted[d][f]]

TotalsAreCounts ==
  \A side \in {0, 1}, f \in SessionFields :
    /\ DaysMeasured(side, f) \subseteq 1..TrendDays
    /\ IsFiniteSet(DaysMeasured(side, f))
    /\ \A d \in 1..TrendDays : Measure(f)[d] = counted[d][f] /\ counted[d][f] \in Nat
    /\ Total(side, f) = Cardinality(Copies(Measure(f), DaysMeasured(side, f)))

(* The sum of a measure over some days as its fold.                        *)
LEMMA MeasureUnfolds ==
  ASSUME NEW f, NEW S \in SUBSET (1..TrendDays)
  PROVE  MapThenSumSet(LAMBDA d : counted[d][f], S)
           = (CHOOSE it : Sums(it, Measure(f), S))[S]
BY DEF Measure, MapThenSumSet, MapThenFoldSet, Sums

(* Totals are counts.                                                      *)
LEMMA TotalsCount == TrendsInv => TotalsAreCounts
<1> SUFFICES ASSUME TrendsInv, NEW side \in {0, 1}, NEW f \in SessionFields
             PROVE  /\ DaysMeasured(side, f) \subseteq 1..TrendDays
                    /\ IsFiniteSet(DaysMeasured(side, f))
                    /\ \A d \in 1..TrendDays : Measure(f)[d] = counted[d][f]
                                               /\ counted[d][f] \in Nat
                    /\ Total(side, f) = Cardinality(Copies(Measure(f), DaysMeasured(side, f)))
  BY DEF TotalsAreCounts
<1> DEFINE S == DaysMeasured(side, f)
           m == Measure(f)
<1>1. S \subseteq 1..TrendDays
  BY DEF DaysMeasured, DayList
<1>2. IsFiniteSet(S)
  <2>1. IsFiniteSet(1..TrendDays)
    BY TrendsAssumption, FS_Interval
  <2>2. QED
    BY <1>1, <2>1, FS_Subset
<1>3. \A d \in 1..TrendDays : m[d] = counted[d][f] /\ counted[d][f] \in Nat
  BY DEF Measure, TrendsInv
<1>4. Total(side, f) = (CHOOSE it : Sums(it, m, S))[S]
  BY <1>1, MeasureUnfolds DEF Total, SessionFields
<1>5. \A d \in S : m[d] \in Nat
  BY <1>1, <1>3
<1>6. Total(side, f) = Cardinality(Copies(m, S))
  <2> HIDE DEF S, m
  <2>1. QED
    BY <1>2, <1>4, <1>5, SumIsCount
<1>7. QED
  BY <1>1, <1>2, <1>3, <1>6

(* No session has been counted.                                            *)
LEMMA TrendsInvInit == TrendsInit => TrendsInv
  BY FS_EmptySet DEF TrendsInit, TrendsInv, SessionFields

(* Sessions are only added, and what the operator enters is of the kind.   *)
LEMMA TrendsInvNext == TrendsInv /\ [TrendsNext]_trendVars => TrendsInv'
<1> SUFFICES ASSUME TrendsInv, [TrendsNext]_trendVars PROVE TrendsInv'
  OBVIOUS
<1> USE DEF TrendsInv
<1>1. ASSUME NEW d \in 1..TrendDays, NEW did \in Ways, MoreSessions(d, did)
      PROVE  TrendsInv'
  <2>1. \A f \in SessionFields : counted[d][f] \in Nat /\ counted[d][f] + 1 \in Nat
    OBVIOUS
  <2>2. [f \in SessionFields |-> IF f \in did \cup {"connections"}
                                 THEN counted[d][f] + 1 ELSE counted[d][f]]
          \in [SessionFields -> Nat]
    BY <2>1
  <2>3. QED
    BY <1>1, <2>2 DEF MoreSessions
<1>2. ASSUME NEW d \in 1..TrendDays, NEW s \in Captures, Capture(s, d)
      PROVE  TrendsInv'
  BY <1>2 DEF Capture
<1>3. QED
  BY <1>1, <1>2, FS_AddElement DEF TrendsNext, trendVars

(* The first and the last of the days that are measured.                   *)
LEMMA SpanIs ==
  ASSUME TrendsInv, NEW side \in {0, 1}
  PROVE  /\ DaysMeasured(side, "captured") \subseteq CapturedSpan(side)
         /\ \A d \in Nat : d \in CapturedSpan(side) <=> Between(side, d)
<1> DEFINE S == DaysMeasured(side, "captured")
<1>1. S \in SUBSET Nat /\ \A d \in S : d <= TrendDays
  BY TrendsAssumption DEF DaysMeasured, DayList
<1>2. TrendDays \in Nat
  BY TrendsAssumption
<1>3. CASE S = {}
  BY <1>3 DEF CapturedSpan, Between
<1>4. CASE S # {}
  <2>1. CapturedSpan(side) = Min(S)..Max(S)
    BY <1>4 DEF CapturedSpan
  <2>2. \A d : Between(side, d) <=> \E a, b \in S : a <= d /\ d <= b
    BY DEF Between
  <2> HIDE DEF S
  <2>3. /\ Min(S) \in S /\ \A d \in S : Min(S) <= d
        /\ Max(S) \in S /\ \A d \in S : d <= Max(S)
    BY <1>1, <1>2, <1>4, MinOfNat, MaxOfNat
  <2>4. S \subseteq Min(S)..Max(S)
    BY <1>1, <2>3
  <2>5. ASSUME NEW d \in Nat
        PROVE  d \in Min(S)..Max(S) <=> \E a, b \in S : a <= d /\ d <= b
    <3>1. \A a \in S : a \in Nat /\ Min(S) <= a /\ a <= Max(S)
      BY <1>1, <2>3
    <3>2. Min(S) \in Nat /\ Max(S) \in Nat
      BY <2>3, <3>1
    <3>3. ASSUME NEW a \in S, NEW b \in S, a <= d, d <= b
          PROVE  d \in Min(S)..Max(S)
      <4>1. a \in Nat /\ b \in Nat /\ Min(S) <= a /\ b <= Max(S)
        BY <3>1
      <4>2. QED
        BY <3>2, <3>3, <4>1
    <3>4. ASSUME d \in Min(S)..Max(S)
          PROVE  \E a, b \in S : a <= d /\ d <= b
      <4>1. Min(S) <= d /\ d <= Max(S)
        BY <3>2, <3>4
      <4>2. QED
        BY <2>3, <4>1
    <3>5. QED
      BY <3>3, <3>4
  <2>6. QED
    BY <2>1, <2>2, <2>4, <2>5 DEF S
<1>5. QED
  BY <1>3, <1>4

(* The same number of samples last seen on each day that is measured, and  *)
(* on no other in between, is that number times the days.                  *)
LEMMA SteadyCaptured ==
  ASSUME TrendsInv, NEW side \in {0, 1}, NEW n \in Nat,
         \A d \in DaysMeasured(side, "captured") : Cardinality(CapturedIn({d})) = n,
         CapturedIn(CapturedSpan(side) \ DaysMeasured(side, "captured")) = {}
  PROVE  /\ Cardinality(DaysMeasured(side, "captured")) \in Nat
         /\ Cardinality(DaysMeasured(side, "captured")) = 0
              => DaysMeasured(side, "captured") = {}
         /\ Total(side, "captured") = Cardinality(DaysMeasured(side, "captured")) * n
<1> DEFINE S == DaysMeasured(side, "captured")
<1>1. IsFiniteSet(S)
  <2>1. S \subseteq 1..TrendDays
    BY DEF DaysMeasured, DayList
  <2>2. IsFiniteSet(1..TrendDays)
    BY TrendsAssumption, FS_Interval
  <2>3. QED
    BY <2>1, <2>2, FS_Subset
<1>2. CapturedIn(CapturedSpan(side)) = {s \in Captures : lastSeen[s] \in S}
  <2>1. S \subseteq CapturedSpan(side)
    BY SpanIs
  <2>2. CapturedIn(CapturedSpan(side) \ S) = {}
    OBVIOUS
  <2> HIDE DEF S
  <2>3. QED
    BY <2>1, <2>2 DEF CapturedIn
<1>3. \A d \in S : Cardinality({s \in Captures : lastSeen[s] = d}) = n
  <2>1. \A d : CapturedIn({d}) = {s \in Captures : lastSeen[s] = d}
    BY DEF CapturedIn
  <2>2. QED
    BY <2>1
<1>4. Total(side, "captured") = Cardinality({s \in Captures : lastSeen[s] \in S})
  BY <1>2 DEF Total
<1>5. IsFiniteSet(Captures)
  BY TrendsAssumption
<1> HIDE DEF S
<1>6. Cardinality({s \in Captures : lastSeen[s] \in S}) = Cardinality(S) * n
  <2>1. ASSUME NEW C, NEW T, NEW g, C = Captures, T = S, g = lastSeen
        PROVE  Cardinality({s \in C : g[s] \in T}) = Cardinality(T) * n
    <3>1. IsFiniteSet(C) /\ IsFiniteSet(T) /\ n \in Nat
      BY <1>1, <1>5, <2>1
    <3>2. \A d \in T : Cardinality({s \in C : g[s] = d}) = n
      BY <1>3, <2>1
    <3>3. QED
      BY ONLY <3>1, <3>2, FibresAre
  <2>2. QED
    BY <2>1
<1>7. Cardinality(S) \in Nat /\ (Cardinality(S) = 0 => S = {})
  BY <1>1, FS_CardinalityType, FS_EmptySet
<1>8. QED
  BY <1>4, <1>6, <1>7 DEF S

(* And so it is of a measure of sessions that is the same on each day.     *)
LEMMA SteadySessions ==
  ASSUME TrendsInv, NEW side \in {0, 1}, NEW f \in SessionFields, NEW n \in Nat,
         \A d \in DaysMeasured(side, f) : counted[d][f] = n
  PROVE  /\ Cardinality(DaysMeasured(side, f)) \in Nat
         /\ Cardinality(DaysMeasured(side, f)) = 0 => DaysMeasured(side, f) = {}
         /\ Total(side, f) = Cardinality(DaysMeasured(side, f)) * n
<1> DEFINE S == DaysMeasured(side, f)
           m == Measure(f)
           many == 1..n
<1>1. /\ S \subseteq 1..TrendDays /\ IsFiniteSet(S)
      /\ \A d \in 1..TrendDays : m[d] = counted[d][f]
      /\ Total(side, f) = Cardinality(Copies(m, S))
  BY TotalsCount DEF TotalsAreCounts
<1>2. \A d \in S : m[d] = n
  BY <1>1
<1>3. Copies(m, S) = S \X many
  <2> HIDE DEF m, S
  <2>1. QED
    BY <1>2 DEF Copies
<1>4. IsFiniteSet(many) /\ Cardinality(many) = n
  <2>1. n \in Nat /\ 1 \in Int /\ n \in Int
    OBVIOUS
  <2>2. Cardinality(1..n) = (IF 1 > n THEN 0 ELSE n - 1 + 1) /\ IsFiniteSet(1..n)
    BY ONLY <2>1, FS_Interval
  <2>3. QED
    BY <2>1, <2>2
<1>5. /\ Cardinality(S \X many) = Cardinality(S) * Cardinality(many)
      /\ Cardinality(S) \in Nat /\ (Cardinality(S) = 0 => S = {})
  <2> HIDE DEF S, many
  <2>1. QED
    BY <1>1, <1>4, FS_Product, FS_CardinalityType, FS_EmptySet
<1>6. Total(side, f) = Cardinality(S) * n
  BY <1>1, <1>3, <1>4, <1>5
<1>7. QED
  BY <1>5, <1>6

(* The same on every day of both sides is no trend.                        *)
LEMMA SteadyFlat == TrendsInv => SteadyIsFlat
<1> SUFFICES ASSUME TrendsInv, NEW f \in Fields, Steady(f), Comparable(f)
             PROVE  20 * AbsDiffT(RateNow(f), RateBefore(f)) < RateBefore(f)
  BY DEF SteadyIsFlat, Direction
<1>0. PICK n \in 0..2 : \A side \in {0, 1} :
         IF f = "captured"
           THEN /\ \A d \in DaysMeasured(side, f) : Cardinality(CapturedIn({d})) = n
                /\ CapturedIn(CapturedSpan(side) \ DaysMeasured(side, f)) = {}
           ELSE \A d \in DaysMeasured(side, f) : counted[d][f] = n
  BY DEF Steady
<1>10. n \in Nat
  OBVIOUS
<1>1. ASSUME NEW side \in {0, 1}
      PROVE  /\ Cardinality(DaysMeasured(side, f)) \in Nat
             /\ Cardinality(DaysMeasured(side, f)) = 0 => DaysMeasured(side, f) = {}
             /\ Total(side, f) = Cardinality(DaysMeasured(side, f)) * n
  <2>0. CASE f = "captured"
    BY <1>0, <1>10, <2>0, SteadyCaptured
  <2>1. CASE f = "captured"
    BY <1>0, <1>10, <2>1, SteadyCaptured
  <2>2. CASE f # "captured"
    <3>1. f \in SessionFields /\ \A d \in DaysMeasured(side, f) : counted[d][f] = n
      BY <1>0, <2>2 DEF Fields
    <3>2. QED
      BY <1>10, <3>1, SteadySessions
  <2>3. QED
    BY <2>1, <2>2
<1> DEFINE a == Cardinality(DaysMeasured(0, f))
           b == Cardinality(DaysMeasured(1, f))
<1>2. /\ a \in Nat \ {0} /\ b \in Nat \ {0} /\ n \in Nat
      /\ Total(0, f) = a * n /\ Total(1, f) = b * n /\ b * n # 0
  BY <1>1 DEF Comparable
<1>3. RateNow(f) = (a * n) * b /\ RateBefore(f) = (b * n) * a
  BY <1>2 DEF RateNow, RateBefore
<1> HIDE DEF a, b
<1>4. n # 0
  BY <1>2
<1>5. (a * n) * b = (b * n) * a /\ (b * n) * a > 0 /\ (b * n) * a \in Nat
  BY <1>2, <1>4
<1>6. RateNow(f) = RateBefore(f) /\ RateBefore(f) \in Nat /\ RateBefore(f) > 0
  BY <1>3, <1>5
<1>7. AbsDiffT(RateNow(f), RateBefore(f)) = 0
  BY <1>6 DEF AbsDiffT
<1>8. QED
  BY <1>6, <1>7

(* The persona of a day is the last that began up to it.                   *)
LEMMA LastPersona ==
  ASSUME TrendsInv, NEW d \in Nat
  PROVE  LET past == {p \in epochs : p.day <= d}
         IN  IF past = {} THEN EpochFor(d) = "stock"
             ELSE \E p \in past : /\ EpochFor(d) = p.name
                                  /\ \A q \in past : q.day <= p.day
<1> DEFINE past == {p \in epochs : p.day <= d}
           days == {p.day : p \in past}
<1>1. CASE past = {}
  BY <1>1 DEF EpochFor
<1>2. CASE past # {}
  <2>1. days \in SUBSET Nat /\ days # {} /\ \A x \in days : x <= d
    <3>1. \A p \in past : p.day \in Nat /\ p.day <= d
      BY TrendsAssumption DEF TrendsInv
    <3> HIDE DEF past
    <3>2. QED
      BY <1>2, <3>1
  <2>2. Max(days) \in days /\ \A x \in days : x <= Max(days)
    <3> HIDE DEF days
    <3>1. QED
      BY <2>1, MaxOfNat
  <2>3. \E p \in past : \A q \in past : q.day <= p.day
    BY <2>2
  <2> DEFINE top == CHOOSE p \in past : \A q \in past : q.day <= p.day
  <2>4. top \in past /\ \A q \in past : q.day <= top.day
    <3> HIDE DEF past
    <3>1. QED
      BY <2>3
  <2>5. EpochFor(d) = top.name
    BY <1>2 DEF EpochFor
  <2>6. QED
    BY <1>2, <2>4, <2>5
<1>3. QED
  BY <1>1, <1>2

(* When the two windows carry no note the same persona was live on every   *)
(* day of both.                                                            *)
LEMMA OneHost == TrendsInv => UnmarkedIsOneHost
<1> SUFFICES ASSUME TrendsInv PROVE UnmarkedIsOneHost
  OBVIOUS
<1>1. /\ trendDay \in Nat /\ Period \in Nat \ {0} /\ TrendDays \in Nat
      /\ DayList(0) \subseteq 1..TrendDays /\ DayList(1) \subseteq 1..TrendDays
  BY TrendsAssumption DEF TrendsInv, DayList
<1>2. /\ \A d \in DayList(0) : d >= trendDay - Period /\ d < trendDay
      /\ \A d \in DayList(1) : d < trendDay - Period
  <2>1. (0 + 1) * Period = Period /\ 0 * Period = 0 /\ 1 * Period = Period
    BY <1>1
  <2>2. QED
    BY <1>1, <2>1 DEF DayList
<1>3. DayList(0) \cap DayList(1) = {} /\ trendDay \notin DayList(0)
  BY <1>1, <1>2
<1>4. ASSUME SamePersona, \A p, q \in epochs : p.name = q.name => p = q,
             DayList(0) # {}, DayList(1) # {},
             NEW d \in DayList(0) \cup DayList(1)
      PROVE  {p \in epochs : p.day <= d} = {p \in epochs : p.day <= Max(DayList(0))}
  <2> DEFINE lo == Min(DayList(1))
             mid == Min(DayList(0))
             hi == Max(DayList(0))
             Past(e) == {p \in epochs : p.day <= e}
  <2>1. /\ lo \in DayList(1) /\ \A e \in DayList(1) : lo <= e
        /\ mid \in DayList(0) /\ \A e \in DayList(0) : mid <= e
        /\ hi \in DayList(0) /\ \A e \in DayList(0) : e <= hi
    <3>1. /\ DayList(0) \in SUBSET Nat /\ DayList(1) \in SUBSET Nat
          /\ \A e \in DayList(0) : e <= TrendDays
      BY <1>1
    <3>2. QED
      BY ONLY <3>1, <1>1, <1>4, MinOfNat, MaxOfNat
  <2>2. lo \in Nat /\ hi \in Nat /\ d \in Nat /\ lo <= d /\ d <= hi
    BY <1>1, <1>2, <2>1
  <2>3. EpochFor(hi) = EpochFor(lo)
    BY <1>4 DEF SamePersona
  <2>4. \A p \in epochs : p.day \in Nat /\ p.name # "stock"
    BY TrendsAssumption DEF TrendsInv
  <2> HIDE DEF lo, hi, mid
  <2>5. Past(hi) \subseteq Past(lo)
    <3>1. CASE Past(hi) = {}
      BY <3>1
    <3>2. CASE Past(hi) # {}
      <4>1. PICK p \in Past(hi) : EpochFor(hi) = p.name /\ \A q \in Past(hi) : q.day <= p.day
        BY <2>2, <3>2, LastPersona
      <4>2. Past(lo) # {}
        BY <2>2, <2>3, <2>4, <4>1, LastPersona
      <4>3. PICK q \in Past(lo) : EpochFor(lo) = q.name
        BY <2>2, <4>2, LastPersona
      <4>4. p = q
        BY <1>4, <2>3, <4>1, <4>3
      <4>5. p.day <= lo
        BY <4>4
      <4>6. QED
        BY <2>2, <2>4, <4>1, <4>5
    <3>3. QED
      BY <3>1, <3>2
  <2>6. Past(lo) \subseteq Past(d) /\ Past(d) \subseteq Past(hi)
    BY <2>2, <2>4
  <2>7. Past(d) = Past(hi)
    BY <2>5, <2>6
  <2>8. QED
    BY <2>7 DEF hi
<1>5. ASSUME SamePersona, \A p, q \in epochs : p.name = q.name => p = q,
             DayList(0) # {}, DayList(1) # {},
             NEW d \in DayList(0) \cup DayList(1)
      PROVE  EpochFor(d) = EpochFor(Max(DayList(0)))
  <2> DEFINE Past(e) == {p \in epochs : p.day <= e}
             NameOf(past) ==
               IF past = {} THEN "stock"
               ELSE (CHOOSE p \in past : \A q \in past : q.day <= p.day).name
  <2>1. Past(d) = Past(Max(DayList(0)))
    BY <1>4, <1>5
  <2>2. \A e : EpochFor(e) = NameOf(Past(e))
    BY DEF EpochFor
  <2> HIDE DEF NameOf, Past
  <2>3. QED
    BY <2>1, <2>2
<1>6. QED
  BY <1>3, <1>5 DEF UnmarkedIsOneHost

(* Sessions that come on days a measure leaves out do not move it, and one *)
(* that comes on a day that counts adds one.                               *)
LEMMA OnlyCountedMove ==
  ASSUME TrendsInv, TotalsAreCounts, TotalsAreCounts',
         NEW d \in 1..TrendDays, NEW did \in Ways, MoreSessions(d, did),
         NEW f \in SessionFields, NEW side \in {0, 1}
  PROVE  LET grown == {e \in 1..TrendDays : counted'[e] # counted[e]}
         IN  /\ grown \subseteq Excluded(f) => Total(side, f)' = Total(side, f)
             /\ f = "connections" /\ grown \subseteq DayList(side) \ Excluded(f)
                  => Total(side, f)' = Total(side, f) + 1
<1> DEFINE S == DaysMeasured(side, f)
           m == Measure(f)
           T == DaysMeasured(side, f)'
           n == Measure(f)'
<1>1. /\ \A e \in 1..TrendDays : e # d => counted'[e] = counted[e]
      /\ counted'[d]["connections"] = counted[d]["connections"] + 1
      /\ counted[d]["connections"] \in Nat
      /\ Excluded(f)' = Excluded(f) /\ trendDay' = trendDay
  BY DEF MoreSessions, TrendsInv, Excluded, Affects, SessionFields
<1>2. {e \in 1..TrendDays : counted'[e] # counted[e]} = {d}
  <2>1. counted'[d] # counted[d]
    BY <1>1
  <2>2. QED
    BY <1>1, <2>1
<1>3. /\ S \subseteq 1..TrendDays /\ IsFiniteSet(S) /\ IsFiniteSet(T)
      /\ \A e \in 1..TrendDays : /\ m[e] = counted[e][f] /\ m[e] \in Nat
                                 /\ n[e] = counted'[e][f] /\ n[e] \in Nat
      /\ Total(side, f) = Cardinality(Copies(m, S))
      /\ Total(side, f)' = Cardinality(Copies(n, T))
  <2>1. Total(side, f)' = Cardinality(Copies(m, S))'
    BY DEF TotalsAreCounts
  <2>2. Cardinality(Copies(m, S))' = Cardinality(Copies(n, T))
    BY DEF Copies
  <2>3. QED
    BY <2>1, <2>2 DEF TotalsAreCounts
<1>4. \A e \in 1..TrendDays : e # d => (e \in T <=> e \in S) /\ n[e] = m[e]
  BY <1>1, <1>3 DEF DaysMeasured, DayList
<1>5. T \subseteq 1..TrendDays
  BY DEF DaysMeasured, DayList
<1>6. ASSUME d \in Excluded(f) PROVE Total(side, f)' = Total(side, f)
  <2>1. d \notin S /\ d \notin T
    BY <1>1, <1>6 DEF DaysMeasured
  <2>2. T = S /\ \A e \in S : n[e] = m[e]
    <3>1. S \subseteq 1..TrendDays /\ T \subseteq 1..TrendDays
      BY <1>3, <1>5
    <3>2. \A e \in 1..TrendDays : e # d => (e \in T <=> e \in S) /\ n[e] = m[e]
      BY <1>4
    <3> HIDE DEF S, m, T, n
    <3>3. T \subseteq S /\ S \subseteq T
      BY <2>1, <3>1, <3>2
    <3>4. T = S
      BY <3>3
    <3>5. \A e \in S : e # d /\ e \in 1..TrendDays
      BY <2>1, <3>1
    <3>6. QED
      BY <3>2, <3>4, <3>5
  <2> HIDE DEF S, m, T, n
  <2>3. Copies(n, T) = Copies(m, S)
    BY <2>2 DEF Copies
  <2>4. QED
    BY <1>3, <2>3
<1>7. ASSUME f = "connections", d \in DayList(side) \ Excluded(f)
      PROVE  Total(side, f)' = Total(side, f) + 1
  <2>1. d \in S /\ d \in T
    BY <1>1, <1>7 DEF DaysMeasured, DayList
  <2>2. T = S /\ n[d] = m[d] + 1 /\ \A e \in S \ {d} : n[e] = m[e]
    <3>1. S \subseteq 1..TrendDays /\ T \subseteq 1..TrendDays /\ d \in 1..TrendDays
      BY <1>3, <1>5, <2>1
    <3>2. m[d] = counted[d]["connections"] /\ n[d] = counted'[d]["connections"]
      BY <1>3, <1>7, <3>1
    <3>3. n[d] = m[d] + 1
      BY <1>1, <3>2
    <3> HIDE DEF S, m, T, n
    <3>4. \A e \in 1..TrendDays : e # d => (e \in T <=> e \in S) /\ n[e] = m[e]
      BY <1>4
    <3>5. T = S
      <4>1. T \subseteq S /\ S \subseteq T
        BY <2>1, <3>1, <3>4
      <4>2. QED
        BY <4>1
    <3>6. \A e \in S \ {d} : n[e] = m[e]
      BY <3>1, <3>4
    <3>7. QED
      BY <3>3, <3>5, <3>6
  <2>3. \A e \in S : m[e] \in Nat /\ n[e] \in Nat
    BY <1>3
  <2> DEFINE R == S \ {d}
  <2> HIDE DEF S, m, T, n
  <2>4. Copies(n, R) = Copies(m, R)
    BY <2>2 DEF Copies
  <2>5. Cardinality(Copies(m, S)) = m[d] + Cardinality(Copies(m, R))
    BY <1>3, <2>1, <2>3, CopiesAre
  <2>6. Cardinality(Copies(n, S)) = n[d] + Cardinality(Copies(n, R))
    BY <1>3, <2>1, <2>3, CopiesAre
  <2>7. IsFiniteSet(R) /\ \A e \in R : m[e] \in Nat
    BY <1>3, <2>3, FS_Subset
  <2>8. Cardinality(Copies(m, R)) \in Nat
    <3> HIDE DEF R
    <3>1. QED
      BY <2>7, CopiesAre
  <2>9. m[d] \in Nat
    BY <2>1, <2>3
  <2>10. Cardinality(Copies(n, S)) = Cardinality(Copies(m, S)) + 1
    BY <2>2, <2>4, <2>5, <2>6, <2>8, <2>9
  <2>11. QED
    BY <1>3, <2>2, <2>10
<1>8. QED
  BY <1>2, <1>6, <1>7

(* No sample counts for sessions that come on the days of an outage, as    *)
(* the days that are measured stay as they are.                            *)
LEMMA CapturedStays ==
  ASSUME TrendsInv, NEW d \in 1..TrendDays, NEW did \in Ways, MoreSessions(d, did),
         NEW side \in {0, 1}, {e \in 1..TrendDays : counted'[e] # counted[e]} \subseteq Excluded("captured")
  PROVE  Total(side, "captured")' = Total(side, "captured")
<1> DEFINE S == DaysMeasured(side, "captured")
<1>1. /\ \A e \in 1..TrendDays : e # d => counted'[e] = counted[e]
      /\ counted'[d]["connections"] = counted[d]["connections"] + 1
      /\ counted[d]["connections"] \in Nat
      /\ Excluded("captured")' = Excluded("captured") /\ trendDay' = trendDay
      /\ lastSeen' = lastSeen
  BY DEF MoreSessions, TrendsInv, Excluded, Affects, SessionFields
<1>2. d \in Excluded("captured")
  <2>1. counted'[d] # counted[d]
    BY <1>1
  <2>2. QED
    BY <2>1
<1>3. S' = S
  <2>1. \A e : e \in S' <=> e \in S
    BY <1>1, <1>2 DEF DaysMeasured, DayList
  <2> HIDE DEF S
  <2>2. QED
    BY <2>1
<1>4. CapturedSpan(side)' = CapturedSpan(side)
  BY <1>3 DEF CapturedSpan
<1>5. QED
  BY <1>1, <1>4 DEF Total, CapturedIn

(* A sample is one more where its last day comes between two days, and one *)
(* less where it was.                                                      *)
LEMMA SampleMoves ==
  ASSUME TrendsInv, NEW d \in 1..TrendDays, NEW t \in Captures, Capture(t, d),
         NEW s \in Captures, lastSeen'[s] # lastSeen[s]
  PROVE  SampleCountsOnce(s)
<1> SUFFICES ASSUME NEW side \in {0, 1}
             PROVE  Total(side, "captured")' - Total(side, "captured")
                      = (IF Between(side, lastSeen'[s]) THEN 1 ELSE 0)
                        - (IF Between(side, lastSeen[s]) THEN 1 ELSE 0)
  BY DEF SampleCountsOnce
<1> DEFINE D == CapturedSpan(side)
           T == {c \in Captures : lastSeen[c] \in D}
           U == {c \in Captures : lastSeen'[c] \in D}
           R == T \ {s}
<1>1. /\ lastSeen[s] \in Nat /\ lastSeen'[s] \in Nat
      /\ \A c \in Captures \ {s} : lastSeen'[c] = lastSeen[c]
      /\ trendDay' = trendDay /\ counted' = counted /\ gaps' = gaps
  BY DEF Capture, TrendsInv
<1>2. CapturedSpan(side)' = D
  BY <1>1 DEF CapturedSpan, DaysMeasured, DayList, Excluded, Affects
<1>3. Total(side, "captured") = Cardinality(T) /\ Total(side, "captured")' = Cardinality(U)
  BY <1>2 DEF Total, CapturedIn
<1>4. /\ Between(side, lastSeen[s]) <=> lastSeen[s] \in D
      /\ Between(side, lastSeen'[s]) <=> lastSeen'[s] \in D
  BY <1>1, SpanIs
<1>5. IsFiniteSet(R) /\ s \notin R
  BY TrendsAssumption, FS_Subset
<1>6. /\ T = IF lastSeen[s] \in D THEN R \cup {s} ELSE R
      /\ U = IF lastSeen'[s] \in D THEN R \cup {s} ELSE R
  BY <1>1
<1> HIDE DEF D, T, U, R
<1>7. Cardinality(R) \in Nat /\ Cardinality(R \cup {s}) = Cardinality(R) + 1
  BY <1>5, FS_AddElement, FS_CardinalityType
<1>8. QED
  BY <1>3, <1>4, <1>6, <1>7

(* A comparison of two periods reports no change that there was not, for   *)
(* any outages, personas, samples and length of the period (trends).       *)
THEOREM ComparisonDoesHold == TrendsSpec => ComparisonIsFair
<1> DEFINE Moved ==
      counted' # counted =>
        LET grown == {d \in 1..TrendDays : counted'[d] # counted[d]}
        IN  \A f \in Fields, side \in {0, 1} :
              /\ grown \subseteq Excluded(f) => Total(side, f)' = Total(side, f)
              /\ f = "connections" /\ grown \subseteq DayList(side) \ Excluded(f)
                   => Total(side, f)' = Total(side, f) + 1
    Sampled == \A s \in Captures : lastSeen'[s] # lastSeen[s] => SampleCountsOnce(s)
<1>1. TrendsInv => TotalsAreCounts /\ SteadyIsFlat /\ UnmarkedIsOneHost
  BY TotalsCount, SteadyFlat, OneHost
<1>2. ASSUME TrendsInv, TotalsAreCounts, TotalsAreCounts', TrendsNext
      PROVE  Moved /\ Sampled
  <2>1. Moved
    <3> SUFFICES ASSUME counted' # counted, NEW f \in Fields, NEW side \in {0, 1}
                 PROVE  LET grown == {d \in 1..TrendDays : counted'[d] # counted[d]}
                        IN  /\ grown \subseteq Excluded(f) => Total(side, f)' = Total(side, f)
                            /\ f = "connections" /\ grown \subseteq DayList(side) \ Excluded(f)
                                 => Total(side, f)' = Total(side, f) + 1
      OBVIOUS
    <3>1. PICK d \in 1..TrendDays, did \in Ways : MoreSessions(d, did)
      BY <1>2 DEF TrendsNext, Capture
    <3>2. CASE f = "captured"
      BY <1>2, <3>1, <3>2, CapturedStays
    <3>3. CASE f # "captured"
      BY <1>2, <3>1, <3>3, OnlyCountedMove DEF Fields
    <3>4. QED
      BY <3>2, <3>3
  <2>2. ASSUME NEW s \in Captures, lastSeen'[s] # lastSeen[s] PROVE SampleCountsOnce(s)
    <3>1. PICK d \in 1..TrendDays, t \in Captures : Capture(t, d)
      BY <1>2, <2>2 DEF TrendsNext, MoreSessions
    <3>2. QED
      BY <1>2, <2>2, <3>1, SampleMoves
  <2>3. QED
    BY <2>1, <2>2
<1>3. TrendsInv /\ TotalsAreCounts /\ TotalsAreCounts' /\ SteadyIsFlat' /\ UnmarkedIsOneHost'
      /\ [TrendsNext]_trendVars =>
        [trendVars' # trendVars => /\ SteadyIsFlat' /\ UnmarkedIsOneHost'
                                  /\ Moved /\ Sampled]_trendVars
  <2> HIDE DEF Moved, Sampled
  <2>1. QED
    BY <1>2
<1>4. QED
  BY <1>1, <1>3, TrendsInvInit, TrendsInvNext, PTL DEF TrendsSpec, ComparisonIsFair
-----------------------------------------------------------------------------
(* userdb.txt.  A file in which check_file finds nothing loads, and every  *)
(* entry of it is for the account and the password it spells               *)
(* (cowrie_userdb.py:43-45).                                               *)
LEMMA CleanLoads ==
  ASSUME NEW file, GateIsClean(file)
  PROVE  /\ Loads(file)
         /\ \A l \in ToSet(file), t \in Texts :
              IsEntry(l) =>
                /\ RuleMatches(l[1], t) => t = Text(l[1])
                /\ RuleMatches(Bare(Strip(l[3])), t) => t = Text(Strip(l[3])) \/ Strip(l[3]) = "!*"
<1>1. Decodes(file) /\ \A l \in ToSet(file) : ~ IsFinding(l)
  BY DEF GateIsClean, FindingsOf
<1>2. ASSUME NEW l \in ToSet(file), IsEntry(l)
      PROVE  /\ Strip(l[3]) # "" /\ l[1] \notin Patterns /\ l[1] # "*"
             /\ Strip(l[3]) \notin Patterns \cup {"*"} \cup (Denying \ {"!*"})
  <2>1. ~ Ignored(l)
    <3>1. ~ (1 >= 3)
      OBVIOUS
    <3>2. QED
      BY <1>2, <3>1 DEF Ignored, IsEntry
  <2>2. /\ Len(l) = 3 /\ ~ IsFatal(l) /\ PatternOf(l) \notin Patterns /\ l[1] # "*"
        /\ Strip(l[3]) \notin {"*"} \cup (Denying \ {"!*"})
    BY <1>1, <2>1 DEF IsFinding
  <2> DEFINE s == Strip(l[3])
  <2>3. s # ""
    BY <2>1, <2>2 DEF IsFatal
  <2>4. l[1] \notin Patterns /\ s \notin Patterns
    BY <2>2 DEF PatternOf
  <2>5. QED
    BY <2>2, <2>3, <2>4
<1>3. Loads(file)
  <2>1. ASSUME NEW l \in ToSet(file), IsEntry(l) PROVE LoadsEntry(l)
    BY <1>2, <2>1 DEF LoadsEntry, Bare, Broken, Patterns, Denying
  <2>2. QED
    BY <1>1, <2>1 DEF Loads, Decodes
<1>4. ASSUME NEW l \in ToSet(file), NEW t \in Texts, IsEntry(l)
      PROVE  /\ RuleMatches(l[1], t) => t = Text(l[1])
             /\ RuleMatches(Bare(Strip(l[3])), t) => t = Text(Strip(l[3])) \/ Strip(l[3]) = "!*"
  BY <1>2, <1>4 DEF RuleMatches, Bare, Patterns, Denying
<1>5. QED
  BY <1>3, <1>4

(* 10-validate-userdb.conf:5-7: the gate passes a file that Cowrie loads:  *)
(* what it finds fatal no load survives.                                   *)
LEMMA LoadsIsPassed ==
  ASSUME NEW file, Loads(file)
  PROVE  GatePasses(file)
<1>1. Decodes(file)
  BY DEF Loads, Decodes
<1>2. ASSUME NEW l \in ToSet(file), IsFatal(l) PROVE FALSE
  <2>1. Len(l) = 3 /\ ~ Ignored(l)
    BY <1>2 DEF IsFatal
  <2>2. IsEntry(l)
    BY <2>1 DEF Ignored, IsEntry
  <2>3. LoadsEntry(l)
    BY <2>2 DEF Loads
  <2>4. QED
    BY <1>2, <2>3 DEF LoadsEntry, IsFatal, PatternOf, Bare, Broken, Patterns
<1>3. QED
  BY <1>1, <1>2 DEF GatePasses

(* cowrie_userdb.py:43-45 and 10-validate-userdb.conf:5-7. *)
THEOREM RulesDoMatch == UserDbSpec => []RulesMatchCowrie
<1>1. RulesMatchCowrie
  BY CleanLoads, LoadsIsPassed DEF RulesMatchCowrie, CleanIsLiteral, FatalIsReal
<1>2. QED
  BY <1>1, PTL

-----------------------------------------------------------------------------
(* What a function has to satisfy to be the one a sequence of sequences is *)
(* flattened by.                                                           *)
Flattens(it, s) ==
  it = [i \in 1..Len(s) |-> IF i = 1 THEN s[i] ELSE it[i - 1] \o s[i]]

(* Sequences of one element each flatten to the sequence of these.         *)
LEMMA FlatOfOnes ==
  ASSUME NEW n \in Nat, NEW line, NEW s, s = [i \in 1..n |-> <<line[i]>>]
  PROVE  FlattenSeq(s) = [i \in 1..n |-> line[i]]
<1> DEFINE upTo(k) == [i \in 1..k |-> line[i]]
           f == [k \in 1..n |-> upTo(k)]
           it == CHOOSE i : Flattens(i, s)
<1>1. Len(s) = n /\ DOMAIN s = 1..n
  <2>1. s \in Seq({<<line[i]>> : i \in 1..n})
    BY SeqDef
  <2>2. QED
    BY <2>1, LenProperties
<1>2. CASE n = 0
  <2>1. s = <<>> /\ upTo(0) = <<>>
    BY <1>2
  <2>2. QED
    BY <1>1, <1>2, <2>1 DEF FlattenSeq
<1>3. CASE n > 0
  <2>1. \A k \in 1..n : k # 1 => upTo(k) = upTo(k - 1) \o s[k]
    <3> SUFFICES ASSUME NEW k \in 1..n, k # 1 PROVE upTo(k) = upTo(k - 1) \o s[k]
      OBVIOUS
    <3> DEFINE L == {line[i] : i \in 1..n}
    <3>0. s[k] = <<line[k]>> /\ line[k] \in L /\ \A i \in 1..n : line[i] \in L
      OBVIOUS
    <3> HIDE DEF L
    <3>1. upTo(k) \in Seq(L) /\ upTo(k - 1) \in Seq(L) /\ s[k] = <<line[k]>> /\ s[k] \in Seq(L)
      <4>1. upTo(k) \in [1..k -> L] /\ k \in Nat
        BY <3>0
      <4>2. upTo(k - 1) \in [1..k - 1 -> L] /\ k - 1 \in Nat
        BY <3>0
      <4>3. <<line[k]>> \in Seq(L)
        BY <3>0
      <4> HIDE DEF upTo
      <4>4. QED
        BY <3>0, <4>1, <4>2, <4>3, SeqDef
    <3>2. Len(upTo(k - 1)) = k - 1 /\ Len(upTo(k)) = k /\ Len(s[k]) = 1 /\ s[k][1] = line[k]
      BY <3>1
    <3>3. /\ upTo(k - 1) \o s[k] \in Seq(L)
          /\ Len(upTo(k - 1) \o s[k]) = k
      BY <3>1, <3>2, ConcatProperties
    <3>4. ASSUME NEW i \in 1..k PROVE upTo(k)[i] = (upTo(k - 1) \o s[k])[i]
      <4>1. CASE i = k
        BY <3>1, <3>2, <4>1, ConcatProperties
      <4>2. CASE i # k
        <5>1. i \in 1..k - 1
          BY <4>2
        <5>2. upTo(k)[i] = line[i] /\ upTo(k - 1)[i] = line[i]
          BY <5>1
        <5> HIDE DEF upTo
        <5>3. QED
          BY <3>1, <3>2, <5>1, <5>2, ConcatProperties
      <4>3. QED
        BY <4>1, <4>2
    <3> HIDE DEF upTo
    <3>5. QED
      BY <3>1, <3>2, <3>3, <3>4, SeqEqual
  <2>2. n >= 1 /\ upTo(1) = s[1]
    BY <1>3
  <2>3. Flattens(f, s)
    <3> DEFINE g == [i \in 1..n |-> IF i = 1 THEN s[i] ELSE f[i - 1] \o s[i]]
    <3>1. ASSUME NEW k \in 1..n PROVE f[k] = g[k]
      <4>1. CASE k = 1
        BY <2>2, <4>1
      <4>2. CASE k # 1
        <5>1. k - 1 \in 1..n /\ f[k - 1] = upTo(k - 1) /\ f[k] = upTo(k)
          BY <4>2
        <5> HIDE DEF upTo, f
        <5>2. QED
          BY <2>1, <4>2, <5>1
      <4>3. QED
        BY <4>1, <4>2
    <3>2. DOMAIN f = 1..n /\ DOMAIN g = 1..n
      OBVIOUS
    <3>3. f = g
      BY <3>1, <3>2
    <3>4. QED
      BY <1>1, <3>3 DEF Flattens
  <2> HIDE DEF f
  <2>4. Flattens(it, s)
    BY <2>3
  <2> HIDE DEF it
  <2>5. \A i \in 1..n : it[i] = IF i = 1 THEN s[i] ELSE it[i - 1] \o s[i]
    BY <1>1, <2>4 DEF Flattens
  <2> DEFINE Off == {k \in 1..n : it[k] # upTo(k)}
  <2>6. Off = {}
    <3> SUFFICES ASSUME Off # {} PROVE FALSE
      OBVIOUS
    <3>1. PICK k \in Off : \A l \in Off : k <= l
      <4>1. Off \in SUBSET Nat
        OBVIOUS
      <4> HIDE DEF Off
      <4>2. QED
        BY <4>1, LeastNat
    <3>2. k \in 1..n /\ it[k] # upTo(k)
      OBVIOUS
    <3>3. k # 1
      BY <2>2, <2>5, <3>2
    <3>4. k - 1 \in 1..n /\ ~ (k <= k - 1)
      BY <3>2, <3>3
    <3>5. k - 1 \notin Off
      <4> HIDE DEF Off
      <4> QED BY <3>1, <3>4
    <3>6. it[k - 1] = upTo(k - 1)
      BY <3>4, <3>5
    <3> HIDE DEF upTo, Off
    <3>7. it[k] = it[k - 1] \o s[k]
      BY <2>5, <3>2, <3>3
    <3>8. upTo(k) = upTo(k - 1) \o s[k]
      BY <2>1, <3>2, <3>3
    <3>9. QED
      BY <3>2, <3>6, <3>7, <3>8
  <2>7. n \in 1..n /\ n # 0
    BY <1>3
  <2>8. FlattenSeq(s) = it[n]
    BY <1>1, <2>7 DEF FlattenSeq, it, Flattens
  <2>9. it[n] = upTo(n)
    <3> HIDE DEF upTo
    <3> QED BY <2>6, <2>7
  <2>10. QED
    BY <2>8, <2>9
<1>4. QED
  BY <1>2, <1>3

(* SetToSeq lists a finite set.                                            *)
LEMMA ListOfSet ==
  ASSUME NEW K, IsFiniteSet(K)
  PROVE  /\ Cardinality(K) \in Nat
         /\ SetToSeq(K) \in [1..Cardinality(K) -> K]
         /\ \A o \in K : \E i \in 1..Cardinality(K) : SetToSeq(K)[i] = o
<1> DEFINE n == Cardinality(K)
<1>1. n \in Nat /\ ExistsBijection(1..n, K)
  BY FS_CardinalityType
<1>2. PICK b \in Bijection(1..n, K) : TRUE
  BY <1>1 DEF ExistsBijection
<1>3. b \in [1..n -> K] /\ IsInjective(b)
  BY <1>2 DEF Bijection, Injection, IsInjective
<1> DEFINE f == SetToSeq(K)
<1>4. f \in [1..n -> K] /\ IsInjective(f)
  <2> HIDE DEF n
  <2>1. f = CHOOSE g \in [1..n -> K] : IsInjective(g)
    BY DEF SetToSeq, n
  <2> HIDE DEF f
  <2>2. QED
    BY <1>3, <2>1
<1>5. ASSUME NEW o \in K, \A i \in 1..n : f[i] # o PROVE FALSE
  <2> HIDE DEF f
  <2> DEFINE R == K \ {o}
  <2>1. f \in Injection(1..n, R)
    BY <1>4, <1>5 DEF Injection, IsInjective
  <2>2. IsFiniteSet(R) /\ Cardinality(R) = n - 1
    BY FS_RemoveElement
  <2>3. IsFiniteSet(1..n) /\ Cardinality(1..n) = n
    <3> HIDE DEF n
    <3>1. Cardinality(1..n) = IF 1 > n THEN 0 ELSE n - 1 + 1
      BY <1>1, FS_Interval
    <3>2. QED
      BY <1>1, <3>1, FS_Interval
  <2>4. Cardinality(1..n) <= Cardinality(R)
    <3> HIDE DEF R, n
    <3>1. QED
      BY <2>1, <2>2, FS_Injection
  <2> HIDE DEF n
  <2>5. QED
    BY <1>1, <2>2, <2>3, <2>4
<1>6. QED
  BY <1>1, <1>4, <1>5

(* A text of one word is that word.                                        *)
LEMMA WordIs ==
  ASSUME NEW t \in Texts, IsWord(t)
  PROVE  t = Text(WordOf(t)) /\ t = <<<<WordOf(t)>>>>
<1>1. CASE t \in Compound
  <2>1. Len(<<"pw", "pw">>) = 2 /\ Len(<<<<"pw">>, <<"root", "x", "pw">>>>) = 2
    OBVIOUS
  <2>2. t = <<<<"pw", "pw">>>> \/ t = <<<<"pw">>, <<"root", "x", "pw">>>>
    BY <1>1 DEF Compound
  <2>3. CASE t = <<<<"pw", "pw">>>>
    <3>1. Len(t[1]) = 2
      BY <2>1, <2>3
    <3>2. QED
      BY <3>1 DEF IsWord
  <2>4. CASE t = <<<<"pw">>, <<"root", "x", "pw">>>>
    <3>1. Len(t) = 2
      BY <2>1, <2>4
    <3>2. QED
      BY <3>1 DEF IsWord
  <2>5. QED
    BY <2>2, <2>3, <2>4
<1>2. CASE t \in {Text(w) : w \in Words}
  BY <1>2 DEF Text, WordOf
<1>3. QED
  BY <1>1, <1>2 DEF Texts

(* The line of a pair.                                                     *)
Line(o) == <<WordOf(o[1]), "x", WordOf(o[2])>>

(* format_pair of a pair that is literal is that line alone.               *)
LEMMA PairIsLine ==
  ASSUME NEW u \in Texts, NEW p \in Texts, IsLiteralPair(u, p)
  PROVE  FormatPair(u, p) = << <<WordOf(u), "x", WordOf(p)>> >>
<1>1. u = <<<<WordOf(u)>>>> /\ p = <<<<WordOf(p)>>>>
  BY WordIs DEF IsLiteralPair
<1> DEFINE a == WordOf(u)  b == WordOf(p)
<1> HIDE DEF a, b
<1>2. FormatPair(<<<<a>>>>, <<<<b>>>>) = << <<a, "x", b>> >>
  <2>1. Front(<<<<a>>>>) = <<>> /\ Last(<<<<a>>>>) = <<a>>
    BY DEF Front, Last
  <2>2. Head(<<<<b>>>>) = <<b>> /\ Tail(<<<<b>>>>) = <<>>
    OBVIOUS
  <2>3. <<a>> \o <<"x">> \o <<b>> = <<a, "x", b>>
    <3> DEFINE U == {a, "x", b}
               l == <<a>> \o <<"x">>
               r == <<a, "x", b>>
    <3>1. <<a>> \in Seq(U) /\ <<"x">> \in Seq(U) /\ <<b>> \in Seq(U) /\ r \in Seq(U)
      OBVIOUS
    <3>2. /\ Len(<<a>>) = 1 /\ Len(<<"x">>) = 1 /\ Len(<<b>>) = 1 /\ Len(r) = 3
          /\ <<a>>[1] = a /\ <<"x">>[1] = "x" /\ <<b>>[1] = b
          /\ r[1] = a /\ r[2] = "x" /\ r[3] = b
      OBVIOUS
    <3> HIDE DEF U
    <3>3. l \in Seq(U) /\ Len(l) = 2 /\ l[1] = a /\ l[2] = "x"
      BY <3>1, <3>2, ConcatProperties
    <3> HIDE DEF l
    <3>4. /\ l \o <<b>> \in Seq(U) /\ Len(l \o <<b>>) = 3
          /\ (l \o <<b>>)[1] = a /\ (l \o <<b>>)[2] = "x" /\ (l \o <<b>>)[3] = b
      <4> DEFINE k == <<b>>
      <4>1. k \in Seq(U) /\ Len(k) = 1 /\ k[1] = b
        BY <3>1, <3>2
      <4> HIDE DEF k
      <4>2. /\ l \o k \in Seq(U) /\ Len(l \o k) = 2 + 1
            /\ \A i \in 1..2 + 1 : (l \o k)[i] = IF i <= 2 THEN l[i] ELSE k[i - 2]
        BY <3>3, <4>1, ConcatProperties
      <4>3. (l \o k)[1] = a /\ (l \o k)[2] = "x" /\ (l \o k)[3] = b
        BY <3>3, <4>1, <4>2
      <4>4. QED
        BY <4>2, <4>3 DEF k
    <3> HIDE DEF r
    <3>5. \A i \in 1..3 : (l \o <<b>>)[i] = r[i]
      BY <3>2, <3>4
    <3>6. l \o <<b>> = r
      BY <3>1, <3>2, <3>4, <3>5, SeqEqual
    <3>7. QED
      BY <3>6 DEF l, r
  <2>4. FormatPair(<<<<a>>>>, <<<<b>>>>) = <<>> \o << <<a, "x", b>> >> \o <<>>
    BY <2>1, <2>2, <2>3 DEF FormatPair
  <2> DEFINE l == <<a, "x", b>>
  <2> HIDE DEF l
  <2>5. <<>> \o <<l>> \o <<>> = <<l>>
    OBVIOUS
  <2>6. QED
    BY <2>4, <2>5 DEF l
<1>3. QED
  BY <1>1, <1>2 DEF a, b

(* A set of pairs that the generator may allow.                            *)
IsListing(K, allowRoot) ==
  /\ K \subseteq Texts \X Texts /\ IsFiniteSet(K)
  /\ \A o \in K : IsLiteralPair(o[1], o[2]) /\ (IsRoot(o[1]) => allowRoot)

Denied(allowRoot) == IF allowRoot THEN 0 ELSE 2

(* The lines of what is rendered: the rules that deny, and one for each    *)
(* pair.                                                                   *)
LEMMA BodyIs ==
  ASSUME NEW K, NEW allowRoot \in BOOLEAN, IsListing(K, allowRoot)
  PROVE  /\ Cardinality(K) \in Nat
         /\ Len(BodyOf(K, allowRoot)) = Denied(allowRoot) + Cardinality(K)
         /\ ToSet(BodyOf(K, allowRoot))
              = {BodyOf(K, allowRoot)[i] : i \in 1..Denied(allowRoot) + Cardinality(K)}
         /\ ~ allowRoot => /\ BodyOf(K, allowRoot)[1] = FormatDeny("root")
                           /\ BodyOf(K, allowRoot)[2] = FormatDeny("admin")
         /\ \A i \in 1..Cardinality(K) :
              BodyOf(K, allowRoot)[Denied(allowRoot) + i] = Line(SetToSeq(K)[i])
<1> DEFINE n == Cardinality(K)
           e == SetToSeq(K)
           D == IF allowRoot THEN <<>> ELSE <<FormatDeny("root"), FormatDeny("admin")>>
           s == [i \in 1..n |-> FormatPair(e[i][1], e[i][2])]
           F == [i \in 1..n |-> Line(e[i])]
           B == BodyOf(K, allowRoot)
           L == {Line(e[i]) : i \in 1..n} \cup {FormatDeny("root"), FormatDeny("admin")}
<1>1. n \in Nat /\ e \in [1..n -> K]
  BY ListOfSet DEF IsListing
<1>2. \A i \in 1..n : s[i] = <<Line(e[i])>>
  <2> SUFFICES ASSUME NEW i \in 1..n PROVE s[i] = <<Line(e[i])>>
    OBVIOUS
  <2>1. e[i] \in K
    BY <1>1
  <2> HIDE DEF e
  <2>2. e[i][1] \in Texts /\ e[i][2] \in Texts /\ IsLiteralPair(e[i][1], e[i][2])
    BY <2>1 DEF IsListing
  <2>3. FormatPair(e[i][1], e[i][2]) = <<Line(e[i])>>
    BY <2>2, PairIsLine DEF Line
  <2>4. QED
    BY <2>3
<1>3. B = D \o F
  <2> DEFINE line == [i \in 1..n |-> Line(e[i])]
  <2>1. s = [i \in 1..n |-> <<line[i]>>]
    BY <1>2
  <2>2. FlattenSeq(s) = F
    <3> HIDE DEF s, n
    <3>1. FlattenSeq(s) = [i \in 1..n |-> line[i]]
      <4>1. n \in Nat /\ s = [i \in 1..n |-> <<line[i]>>]
        BY <1>1, <2>1 DEF s, n
      <4> HIDE DEF line
      <4>2. QED
        BY <4>1, FlatOfOnes
    <3>2. QED
      BY <3>1
  <2>3. QED
    BY <2>2 DEF BodyOf
<1>4. /\ D \in Seq(L) /\ Len(D) = Denied(allowRoot) /\ Denied(allowRoot) \in {0, 2}
      /\ ~ allowRoot => D[1] = FormatDeny("root") /\ D[2] = FormatDeny("admin")
  <2>1. FormatDeny("root") \in L /\ FormatDeny("admin") \in L
    OBVIOUS
  <2> HIDE DEF L
  <2>2. QED
    BY <2>1 DEF Denied
<1>5. F \in Seq(L) /\ Len(F) = n /\ \A i \in 1..n : F[i] = Line(e[i])
  <2>1. F \in [1..n -> L]
    OBVIOUS
  <2>2. \A i \in 1..n : F[i] = Line(e[i])
    OBVIOUS
  <2> HIDE DEF L, F, n, e
  <2>3. F \in Seq(L) /\ DOMAIN F = 1..n
    BY <1>1, <2>1, SeqDef
  <2>4. Len(F) = n
    BY <1>1, <2>3, LenProperties
  <2>5. QED
    BY <2>2, <2>3, <2>4
<1>6. /\ D \o F \in Seq(L) /\ Len(D \o F) = Denied(allowRoot) + n
      /\ \A i \in 1..Denied(allowRoot) + n :
           (D \o F)[i] = IF i <= Denied(allowRoot) THEN D[i] ELSE F[i - Denied(allowRoot)]
  <2> DEFINE d == Denied(allowRoot)
  <2> HIDE DEF L, F, D, n, e, d
  <2>1. /\ D \o F \in Seq(L) /\ Len(D \o F) = d + n
        /\ \A i \in 1..d + n : (D \o F)[i] = IF i <= d THEN D[i] ELSE F[i - d]
    BY <1>4, <1>5, ConcatProperties DEF d
  <2>2. QED
    BY <2>1 DEF d
<1> HIDE DEF L, F, D, e, B
<1>7. B \in Seq(L) /\ Len(B) = Denied(allowRoot) + n /\ DOMAIN B = 1..Denied(allowRoot) + n
  <2> HIDE DEF n
  <2>1. QED
    BY <1>3, <1>6, LenProperties
<1> DEFINE d == Denied(allowRoot)
<1>8. ASSUME NEW i \in 1..n PROVE B[d + i] = Line(e[i])
  <2> HIDE DEF n, d
  <2>1. /\ d \in Nat /\ n \in Nat
        /\ \A j \in 1..d + n : B[j] = IF j <= d THEN D[j] ELSE F[j - d]
    BY <1>1, <1>3, <1>4, <1>6 DEF d
  <2>2. PICK j \in 1..d + n : j = d + i /\ ~ (j <= d) /\ j - d = i
    BY <2>1
  <2>3. B[j] = F[j - d]
    BY <2>1, <2>2
  <2>4. QED
    BY <1>5, <2>2, <2>3
<1>9. ASSUME ~ allowRoot PROVE B[1] = FormatDeny("root") /\ B[2] = FormatDeny("admin")
  <2> HIDE DEF n
  <2>1. d = 2
    BY <1>9 DEF Denied
  <2>2. 1 \in 1..d + n /\ 2 \in 1..d + n /\ 1 <= d /\ 2 <= d
    BY <1>1, <2>1
  <2>3. B[1] = D[1] /\ B[2] = D[2]
    BY <1>3, <1>6, <2>2
  <2>4. QED
    BY <1>4, <1>9, <2>3
<1>10. ToSet(B) = {B[i] : i \in 1..d + n}
  BY <1>7 DEF ToSet
<1>11. QED
  BY <1>1, <1>7, <1>8, <1>9, <1>10 DEF B, e

-----------------------------------------------------------------------------
(* build_userdb.py:21-23, 89: what is rendered for a set of pairs admits   *)
(* these and no others.                                                    *)
LEMMA BodyAdmits ==
  ASSUME NEW K, NEW allowRoot \in BOOLEAN, IsListing(K, allowRoot),
         NEW u \in Texts, NEW p \in Texts
  PROVE  Admits(BodyOf(K, allowRoot), u, p) <=> <<u, p>> \in K
<1> DEFINE n == Cardinality(K)
           d == Denied(allowRoot)
           e == SetToSeq(K)
           B == BodyOf(K, allowRoot)
           hits == Hits(B, u, p)
<1>1. /\ n \in Nat /\ e \in [1..n -> K]
      /\ \A o \in K : \E i \in 1..n : e[i] = o
  BY ListOfSet DEF IsListing
<1>2. /\ Len(B) = d + n
      /\ ~ allowRoot => B[1] = FormatDeny("root") /\ B[2] = FormatDeny("admin")
      /\ \A i \in 1..n : B[d + i] = Line(e[i])
  BY BodyIs
<1>3. d \in {0, 2} /\ (allowRoot <=> d = 0)
  BY DEF Denied
<1> HIDE DEF n, d, e, B
<1>4. ASSUME NEW i \in 1..n
      PROVE  /\ IsEntry(B[d + i]) /\ Strip(B[d + i][3]) \notin Denying
             /\ (/\ RuleMatches(B[d + i][1], u)
                 /\ RuleMatches(Bare(Strip(B[d + i][3])), p)) <=> e[i] = <<u, p>>
  <2> DEFINE a == WordOf(e[i][1])
             b == WordOf(e[i][2])
  <2>1. e[i] \in Texts \X Texts /\ IsLiteralPair(e[i][1], e[i][2])
    BY <1>1 DEF IsListing
  <2>2. e[i] = <<e[i][1], e[i][2]>> /\ e[i][1] \in Texts /\ e[i][2] \in Texts
    BY <2>1
  <2>3. e[i][1] = Text(a) /\ e[i][2] = Text(b)
    BY <2>1, <2>2, WordIs DEF IsLiteralPair
  <2>4. /\ B[d + i] = <<a, "x", b>>
        /\ B[d + i][1] = a /\ B[d + i][3] = b /\ Len(B[d + i]) = 3
    <3>1. B[d + i] = <<a, "x", b>>
      BY <1>2 DEF Line
    <3> HIDE DEF a, b
    <3>2. QED
      BY <3>1
  <2>5. /\ a # "#pw" /\ a \notin {"*"} \cup Patterns
        /\ b \notin {"*"} \cup Patterns \cup Denying /\ Strip(b) = b
    BY <2>1 DEF IsLiteralPair
  <2>6. Bare(b) = b
    BY <2>5 DEF Bare, Denying
  <2>7. (RuleMatches(a, u) <=> u = e[i][1]) /\ (RuleMatches(b, p) <=> p = e[i][2])
    BY <2>3, <2>5 DEF RuleMatches
  <2> HIDE DEF a, b
  <2>8. IsEntry(B[d + i])
    <3>1. 3 >= 3
      OBVIOUS
    <3>2. QED
      BY <2>4, <2>5, <3>1 DEF IsEntry
  <2>9. Strip(B[d + i][3]) = b /\ Bare(Strip(B[d + i][3])) = b
    BY <2>4, <2>5, <2>6
  <2>10. e[i] = <<u, p>> <=> u = e[i][1] /\ p = e[i][2]
    BY <2>2
  <2>11. QED
    BY <2>4, <2>5, <2>7, <2>8, <2>9, <2>10
<1>5. hits \subseteq 1..d + n
  BY <1>2 DEF Hits
<1>6. ASSUME NEW i \in 1..n
      PROVE  d + i \in hits <=> e[i] = <<u, p>>
  <2>1. d + i \in 1..d + n
    BY <1>1, <1>3
  <2>2. QED
    BY <1>2, <1>4, <2>1 DEF Hits
<1>7. ASSUME NEW j \in 1..d
      PROVE  /\ ~ allowRoot /\ Strip(B[j][3]) \in Denying
             /\ j \in hits => IsRoot(u)
             /\ IsRoot(u) => 1 \in hits \/ 2 \in hits
  <2>1. ~ allowRoot /\ d = 2 /\ j \in {1, 2}
    BY <1>3
  <2>2. /\ B[1] = <<"root", "x", "!*">> /\ B[2] = <<"admin", "x", "!*">>
    BY <1>2, <2>1 DEF FormatDeny
  <2>3. /\ B[1][1] = "root" /\ B[1][3] = "!*" /\ Len(B[1]) = 3
        /\ B[2][1] = "admin" /\ B[2][3] = "!*" /\ Len(B[2]) = 3
    BY <2>2
  <2>4. Strip("!*") = "!*" /\ Bare("!*") = "*" /\ "!*" \in Denying
    BY DEF Strip, Bare, Denying
  <2>5. \A t : RuleMatches("*", t)
    BY DEF RuleMatches
  <2>6. /\ RuleMatches("root", u) <=> u = Text("root")
        /\ RuleMatches("admin", u) <=> u = Text("admin")
    BY DEF RuleMatches, Patterns
  <2>7. IsRoot(u) <=> u = Text("root") \/ u = Text("admin")
    <3>1. ASSUME NEW w PROVE IsWord(Text(w)) /\ WordOf(Text(w)) = w
      BY DEF IsWord, WordOf, Text
    <3>2. IsRoot(u) => u = Text(WordOf(u))
      BY WordIs DEF IsRoot
    <3>3. QED
      BY <3>1, <3>2 DEF IsRoot, Roots
  <2>8. IsEntry(B[1]) /\ IsEntry(B[2])
    <3>1. 3 >= 3
      OBVIOUS
    <3>2. QED
      BY <2>3, <3>1 DEF IsEntry
  <2>9. 1 \in 1..Len(B) /\ 2 \in 1..Len(B)
    BY <1>1, <1>2, <2>1
  <2>10. /\ 1 \in hits <=> u = Text("root")
         /\ 2 \in hits <=> u = Text("admin")
    BY <2>3, <2>4, <2>5, <2>6, <2>8, <2>9 DEF Hits
  <2>11. QED
    BY <2>1, <2>3, <2>4, <2>7, <2>10
<1> HIDE DEF hits
<1>8. \A h \in hits : h \in 1..d \/ \E i \in 1..n : h = d + i
  <2> SUFFICES ASSUME NEW h \in hits, h \notin 1..d PROVE \E i \in 1..n : h = d + i
    OBVIOUS
  <2>1. h \in 1..d + n /\ d \in Nat /\ n \in Nat
    BY <1>1, <1>3, <1>5
  <2>2. h - d \in 1..n /\ h = d + (h - d)
    BY <2>1
  <2>3. QED
    BY <2>2
<1>9. hits # {} => Min(hits) \in hits /\ \A h \in hits : Min(hits) <= h
  <2>1. hits \in SUBSET Nat
    BY <1>1, <1>3, <1>5
  <2>2. QED
    BY <2>1, MinOfNat
<1>10. Admits(B, u, p) <=> hits # {} /\ Strip(B[Min(hits)][3]) \notin Denying
  BY DEF Admits, hits
<1>11. ASSUME <<u, p>> \in K PROVE Admits(B, u, p)
  <2>1. PICK i \in 1..n : e[i] = <<u, p>>
    BY <1>1, <1>11
  <2>2. d + i \in hits
    BY <1>6, <2>1
  <2>3. ~ (~ allowRoot /\ IsRoot(u))
    BY <1>11 DEF IsListing
  <2>4. Min(hits) \notin 1..d
    BY <1>7, <1>9, <2>2, <2>3
  <2>5. PICK k \in 1..n : Min(hits) = d + k
    BY <1>8, <1>9, <2>2, <2>4
  <2>6. QED
    BY <1>4, <1>10, <2>2, <2>5
<1>12. ASSUME Admits(B, u, p) PROVE <<u, p>> \in K
  <2>1. hits # {} /\ Strip(B[Min(hits)][3]) \notin Denying
    BY <1>10, <1>12
  <2>2. Min(hits) \notin 1..d
    BY <1>7, <2>1
  <2>3. PICK i \in 1..n : Min(hits) = d + i
    BY <1>8, <1>9, <2>1, <2>2
  <2>4. e[i] = <<u, p>>
    BY <1>6, <1>9, <2>1, <2>3
  <2>5. QED
    BY <1>1, <2>4
<1>13. QED
  BY <1>11, <1>12 DEF B
-----------------------------------------------------------------------------
(* What the writer has in hand, in the temporary file and in the live one  *)
(* was rendered for the pairs it goes with.                                *)
IsFor(file, A) ==
  \A K \in A : \E allowRoot \in BOOLEAN :
    file = BodyOf(K, allowRoot) /\ IsListing(K, allowRoot) /\ GateIsClean(file)

UserInv ==
  /\ DOMAIN seen \subseteq Offers /\ IsFiniteSet(DOMAIN seen)
  /\ wpc \in {"idle", "build", "fix", "written"}
  /\ IsFor(userdb, allows)
  /\ wpc \in {"build", "fix"} => IsFor(rendered, allowed)
  /\ wpc = "written" => IsFor(tmpdb, allowed)

(* Nothing was rendered yet.                                               *)
LEMMA UserInvInit == UserDbInit => UserInv
<1> SUFFICES ASSUME UserDbInit PROVE UserInv
  OBVIOUS
<1>1. DOMAIN seen = {}
  BY DEF UserDbInit
<1>2. IsFiniteSet({})
  BY FS_EmptySet
<1>3. QED
  BY <1>1, <1>2 DEF UserDbInit, UserInv, IsFor

(* What is rendered goes with the pairs that were picked, until it is the  *)
(* live file.                                                              *)
LEMMA UserInvNext == UserInv /\ [UserDbNext]_userdbVars => UserInv'
<1> SUFFICES ASSUME UserInv, [UserDbNext]_userdbVars PROVE UserInv'
  OBVIOUS
<1> USE DEF UserInv
<1>1. ASSUME NEW o \in Offers, Offer(o) PROVE UserInv'
  <2>1. DOMAIN seen' = DOMAIN seen \cup {o}
    BY <1>1 DEF Offer
  <2>2. IsFiniteSet(DOMAIN seen \cup {o})
    BY FS_AddElement
  <2>3. QED
    BY <1>1, <2>1, <2>2 DEF Offer, IsFor
<1>2. ASSUME NEW file \in HandFiles, Edit(file) PROVE UserInv'
  BY <1>2 DEF Edit, IsFor
<1>3. CASE Build
  <2>0. PICK allowRoot \in BOOLEAN :
          \E K \in TopOf(Candidates64(allowRoot)) :
            /\ GateIsClean(BodyOf(K, allowRoot))
            /\ rendered' = BodyOf(K, allowRoot) /\ allowed' = {K}
    BY <1>3 DEF Build
  <2>1. PICK K \in TopOf(Candidates64(allowRoot)) :
          /\ GateIsClean(BodyOf(K, allowRoot))
          /\ rendered' = BodyOf(K, allowRoot) /\ allowed' = {K}
    BY <2>0
  <2>2. K \subseteq DOMAIN seen /\ \A o \in K : IsLiteralPair(o[1], o[2]) /\ (IsRoot(o[1]) => allowRoot)
    BY DEF TopOf, Candidates64
  <2>3. IsListing(K, allowRoot)
    BY <2>2, FS_Subset, OffersAreTexts DEF IsListing
  <2>4. IsFor(rendered', allowed')
    BY <2>1, <2>3 DEF IsFor
  <2>5. QED
    BY <1>3, <2>4 DEF Build, IsFor
<1>4. CASE FixUserDb
  BY <1>4 DEF FixUserDb, IsFor
<1>5. CASE WriteTmp
  BY <1>5 DEF WriteTmp, WriterEnds, IsFor
<1>6. CASE Rename
  BY <1>6 DEF Rename, WriterEnds, IsFor
<1>7. CASE StartCowrie
  BY <1>7 DEF StartCowrie, IsFor
<1>8. CASE StopCowrie
  BY <1>8 DEF StopCowrie, IsFor
<1>9. CASE UNCHANGED userdbVars
  BY <1>9 DEF userdbVars, IsFor
<1>10. QED
  BY <1>1, <1>2, <1>3, <1>4, <1>5, <1>6, <1>7, <1>8, <1>9 DEF UserDbNext

(* build_userdb.py:21-23, 34-36, 89: of all texts, the file the generator  *)
(* installed accepts exactly the pairs it took from the events, and it     *)
(* loads, at any moment.                                                   *)
THEOREM TopPairsAreAllowed == UserDbSpec => []AllowsTheTopPairs
<1>1. UserInv => AllowsTheTopPairs
  <2> SUFFICES ASSUME UserInv, NEW K \in allows
               PROVE  /\ Loads(userdb)
                      /\ \A u, p \in Texts : Admits(userdb, u, p) <=> <<u, p>> \in K
    BY DEF AllowsTheTopPairs
  <2>1. PICK allowRoot \in BOOLEAN :
          userdb = BodyOf(K, allowRoot) /\ IsListing(K, allowRoot) /\ GateIsClean(userdb)
    BY DEF UserInv, IsFor
  <2>2. QED
    BY <2>1, CleanLoads, BodyAdmits
<1>2. QED
  BY <1>1, UserInvInit, UserInvNext, PTL DEF UserDbSpec
=============================================================================
