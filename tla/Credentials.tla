---------------------------- MODULE Credentials ----------------------------
(***************************************************************************)
(* build_entities and build_credentials: login attempts by day, and the    *)
(* lifetime of each credential pair derived from the days.                 *)
(*                                                                         *)
(* The rows of a day by pair and address (cred_ip_daily; hassh_ip_daily    *)
(* has the same shape) and by pair alone (cred_pair_daily) are rebuilt by  *)
(* two stages from what raw_events still holds, and kept as the set of the *)
(* attempts they count.                                                    *)
(***************************************************************************)
EXTENDS WorkerRun

CONSTANTS LoginOf,      (* the login attempts: pair, address, success      *)
          TagsOf,       (* the tags the rules give each pair               *)
          EntitiesFrom, (* the day cred_ip_daily came with an update       *)
          CredDays      (* TR_CRED_DAYS                                    *)

Logins == DOMAIN LoginOf
Pairs == {LoginOf[e].pair : e \in Logins}

ASSUME CredentialsAssumption ==
  /\ Logins \subseteq Events
  /\ Pairs \subseteq DOMAIN TagsOf
  /\ \A e \in Logins, f \in Logins \cap Operator :
       LoginOf[e].ip = LoginOf[f].ip => e \in Operator
  /\ EntitiesFrom \in Nat /\ CredDays \in Nat

VARIABLES ipDay,    \* cred_ip_daily: the attempts each day counts
          pairDay,  \* cred_pair_daily: the same
          pairs,    \* cred_pairs and cred_pair_tags
          tagIps    \* cred_tag_ips: the addresses behind each tag

credVars == <<ipDay, pairDay, pairs, tagIps>>

NoPair == [attempts |-> 0, successes |-> 0, ips |-> 0, tags |-> {}]

CredInit ==
  /\ ipDay = [d \in Days |-> {}] /\ pairDay = [d \in Days |-> {}]
  /\ pairs = [p \in Pairs |-> NoPair]
  /\ tagIps = {}

HaveRows(table) == {d \in Days : table[d] # {}}
LoginsOn(d) == {e \in Visible \cap Logins : DayOf(e) = d}

(* days_to_build of a table that is not there yet is not asked. *)
PlanEntities ==
  /\ IF today >= EntitiesFrom
       THEN PlanDays("plan", "entities", HaveRows(ipDay))
       ELSE Commit("plan", "entities")
  /\ UNCHANGED credVars

BuildEntities(d) ==
  /\ TakeDay("entities", d)
  /\ ipDay' = [ipDay EXCEPT ![d] = LoginsOn(d)]
  /\ UNCHANGED <<pairDay, pairs, tagIps>>

PlanCredentials ==
  /\ days = {}
  /\ PlanDays("entities", "pairs", HaveRows(pairDay))
  /\ UNCHANGED credVars

BuildPairs(d) ==
  /\ TakeDay("pairs", d)
  /\ pairDay' = [pairDay EXCEPT ![d] = LoginsOn(d)]
  /\ UNCHANGED <<ipDay, pairs, tagIps>>

AllOf(table) == UNION {table[d] : d \in Days}
OfPair(S, p) == {e \in S : LoginOf[e].pair = p}
IpsOf(S) == {LoginOf[e].ip : e \in S}
PeakIps(p) == Max({Cardinality(IpsOf(OfPair(pairDay[d], p))) : d \in Days})

(* tag_pair, for pairs that get no tag in code: without rules (load_rules  *)
(* finds no file) such a pair is unclustered.                              *)
Tags(p, rules) == IF rules /\ TagsOf[p] # {} THEN TagsOf[p] ELSE {"unclustered"}

(* Bug to catch: filled again from raw events. *)
LifetimeOfRaw(p, rules) ==
  LET S == OfPair(Visible \cap Logins, p)
  IN  [attempts |-> Cardinality(S),
       successes |-> Cardinality({e \in S : LoginOf[e].ok}),
       ips |-> Cardinality(IpsOf(S)), tags |-> Tags(p, rules)]

Lifetime(p, rules) ==
  LET S == OfPair(AllOf(pairDay), p)
  IN  [attempts |-> Cardinality(S),
       successes |-> Cardinality({e \in S : LoginOf[e].ok}),
       ips |-> Max({Cardinality(IpsOf(OfPair(AllOf(ipDay), p))), PeakIps(p)}),
       tags |-> Tags(p, rules)]

DerivePairs ==
  /\ days = {}
  /\ Commit("pairs", "tags")
  /\ \E rules \in BOOLEAN :
       pairs' = [p \in Pairs |-> IF OfPair(AllOf(pairDay), p) = {}
                                   THEN NoPair ELSE Lifetime(p, rules)]
  /\ UNCHANGED <<ipDay, pairDay, tagIps>>

(* The addresses behind each tag, over the last CredDays days. *)
DeriveTagIps ==
  /\ Commit("tags", "purge")
  /\ tagIps' = UNION {pairs[LoginOf[e].pair].tags \X {LoginOf[e].ip} :
                        e \in {f \in AllOf(ipDay) : DayOf(f) >= today - CredDays}}
  /\ UNCHANGED <<ipDay, pairDay, pairs>>

OperatorIps == {LoginOf[e].ip : e \in Logins \cap Operator}

Purged ==
  IF excluded THEN /\ ipDay' = [d \in Days |-> ipDay[d] \ Operator]
                   /\ tagIps' = {ti \in tagIps : ti[2] \notin OperatorIps}
              ELSE UNCHANGED <<ipDay, tagIps>>

PurgeCredentials ==
  /\ RunPurge
  /\ Purged
  /\ UNCHANGED <<pairDay, pairs>>

CredNext ==
  \/ Around /\ UNCHANGED credVars
  \/ PlanEntities \/ PlanCredentials \/ DerivePairs \/ DeriveTagIps
  \/ PurgeCredentials
  \/ \E d \in Days : BuildEntities(d) \/ BuildPairs(d)

CredSpec == RunInit /\ CredInit /\ [][CredNext]_<<runVars, credVars>>
-----------------------------------------------------------------------------
(* "They can never hold less than the daily record does", and the record   *)
(* outlives raw_events: what is counted of a pair for its lifetime never   *)
(* drops as long as nobody is excluded; and distinct sources are never     *)
(* more than there were, an address that comes on two days being one       *)
(* (build_credentials).                                                    *)
LifetimeIsFloor ==
  [][\A p \in Pairs :
       /\ pairs'[p].ips <= Cardinality(IpsOf(OfPair(came' \cap Logins, p)))
       /\ excluded' \/ (/\ pairs[p].attempts <= pairs'[p].attempts
                        /\ pairs[p].ips <= pairs'[p].ips)]_pairs

(* After the purge no excluded address is behind a tag again, although the *)
(* mapping is derived anew in every run (purge_excluded.sql).              *)
NoTaggedOperator == purged /\ pc = "idle" => \A ti \in tagIps : ti[2] \notin OperatorIps
=============================================================================
