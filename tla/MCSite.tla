------------------------------- MODULE MCSite -------------------------------
(***************************************************************************)
(* Small instances of what is asked about samples and what the site shows: *)
(* Submissions, FetchSamples, Contributions, Trends, Health and UserDb,    *)
(* one of them in each behaviour.  They share no variable, so together     *)
(* they have no more states than one by one.                               *)
(***************************************************************************)
EXTENDS MCSubmissions, FetchSamples, Contributions, Trends, Health, MCUserDb

VARIABLE component  \* the module that takes the steps

siteVars == <<fetchVars, contribVars, trendVars, healthVars, userdbVars>>

SiteInit ==
  /\ component \in {"submissions", "fetch", "contributions", "trends", "health",
                    "userdb"}
  /\ Init /\ FetchInit /\ ContribInit /\ TrendsInit /\ HealthInit
  /\ UserDbInit

(* Bound: nobody else gives MalwareBazaar a sample of the wrong size; the  *)
(* worker never asks it for one (submit_bazaar).                           *)
OthersFew == has'["mb"] \subseteq GoodSize

(* Bound: one session on each day but the second, which an outage has; and *)
(* two entries of the operator and samples that are seen, together.        *)
FewEntries ==
  /\ \A d \in (1..TrendDays) \ {2} : counted'[d]["connections"] <= 1
  /\ Cardinality(gaps') + Cardinality(epochs')
       + Cardinality({s \in Captures : lastSeen'[s] # 0}) <= 2

(* Bound: one part stops in the first day, and comes back by the second or *)
(* not at all; storage is reported at one time.                            *)
OneStops ==
  /\ Cardinality({p \in Parts : p \in down' \/ changed'[p] > 0}) <= 1
  /\ \A p \in Parts : changed'[p] <= DayTicks
  /\ storage' => storage \/ now = DayTicks

SiteNext ==
  /\ UNCHANGED component
  /\ \/ /\ component = "submissions" /\ Next /\ OthersFew
        /\ UNCHANGED siteVars
     \/ /\ component = "fetch" /\ FetchNext
        /\ UNCHANGED <<vars, contribVars, trendVars, healthVars, userdbVars>>
     \/ /\ component = "contributions" /\ ContribNext
        /\ UNCHANGED <<vars, fetchVars, trendVars, healthVars, userdbVars>>
     \/ /\ component = "trends" /\ TrendsNext /\ FewEntries
        /\ UNCHANGED <<vars, fetchVars, contribVars, healthVars, userdbVars>>
     \/ /\ component = "health" /\ HealthNext /\ OneStops
        /\ UNCHANGED <<vars, fetchVars, contribVars, trendVars, userdbVars>>
     \/ /\ component = "userdb" /\ UserDbNext
        /\ UNCHANGED <<vars, fetchVars, contribVars, trendVars, healthVars>>

SiteSpec == SiteInit /\ [][SiteNext]_<<component, vars, siteVars>>
-----------------------------------------------------------------------------
(* An outage of two days and one of a day, a persona in each.              *)
Outages == {[start |-> 2, end |-> 3, scope |-> "auth"],
            [start |-> 4, end |-> 4, scope |-> "all"]}
Posed == {[day |-> 2, name |-> "A"], [day |-> 4, name |-> "B"]}
AllOrNone == {{}, {"authenticated", "shell", "transferred"}}

(* Each stage of the pipeline runs in every tick. *)
Cycles == [k \in Timed |-> 1]
OneDown == {{}} \cup {{p} : p \in Parts}
=============================================================================
