------------------------------ MODULE Networks ------------------------------
(***************************************************************************)
(* The networks page: abuse_scores of asn.py ranks the networks of a       *)
(* window by how far their traffic got, then by share.                     *)
(*                                                                         *)
(* asn_ip_daily gains rows and verdicts come while pages are read; a page  *)
(* is a function of the tables and has no state.                           *)
(***************************************************************************)
EXTENDS Integers, FiniteSets, FiniteSetsExt

CONSTANTS NetIps,
          AsnOf,     (* the network of each address; 0 is "unknown"        *)
          Plain,     (* the addresses whose sources row has the number     *)
                     (* without the prefix AS                              *)
          NetRows,   (* the rows that may come: day, address, events, how  *)
                     (* deep (0 connect to 3 transfer), tunnels            *)
          NetDays,   (* bound: the days of a behaviour                     *)
          Window,    (* days                                               *)
          RowLimit,  (* LIMIT 200                                          *)
          ListLimit  (* limit                                              *)

ASSUME NetworksAssumption ==
  /\ AsnOf \in [NetIps -> Nat] /\ Plain \subseteq NetIps
  /\ \A r \in NetRows : r.ip \in NetIps /\ r.depth \in 0..3 /\ r.events \in Nat
  /\ NetDays \in Nat /\ Window \in Nat /\ RowLimit \in Nat /\ ListLimit \in Nat

VARIABLES netDay,
          asnRows,  \* asn_ip_daily
          malIps    \* source_stage: the addresses with malicious = 1

netVars == <<netDay, asnRows, malIps>>

NetInit == netDay = 1 /\ asnRows = {} /\ malIps = {}

NetNext ==
  \/ netDay < NetDays /\ netDay' = netDay + 1 /\ UNCHANGED <<asnRows, malIps>>
  \/ \E r \in NetRows : /\ r.day <= netDay
                        /\ asnRows' = asnRows \cup {r}
                        /\ UNCHANGED <<netDay, malIps>>
  \/ \E a \in NetIps : malIps' = malIps \cup {a} /\ UNCHANGED <<netDay, asnRows>>

NetSpec == NetInit /\ [][NetNext]_netVars
-----------------------------------------------------------------------------
InWindow == {r \in asnRows : r.day >= netDay - Window}
RowsOfAsn(n) == {r \in InWindow : AsnOf[r.ip] = n}
EventsIn(rows) == MapThenSumSet(LAMBDA r : r.events, rows)
EventsOf(n) == EventsIn(RowsOfAsn(n))
Asns == {AsnOf[r.ip] : r \in InWindow}

(* ORDER BY events DESC LIMIT: of two equal ones the lower stands for      *)
(* either.                                                                 *)
Louder(m, n) == EventsOf(m) > EventsOf(n) \/ (EventsOf(m) = EventsOf(n) /\ m < n)
Shortlist == {n \in Asns : Cardinality({m \in Asns : Louder(m, n)}) < RowLimit}

(* A network is spelled with its prefix in asn_ip_daily and with it or     *)
(* without in source_stage; there an unknown one is empty.                 *)
Spelled(a) == [asn |-> AsnOf[a], prefix |-> a \notin Plain]

(* Bug to catch: the spelling of source_stage taken as it is. *)
MaliciousAsIs == {Spelled(a).asn : a \in {b \in malIps : Spelled(b).prefix}} \ {0}

MaliciousAsns == {Spelled(a).asn : a \in malIps} \ {0}

(* _depth *)
DepthOf(n) ==
  IF n \in MaliciousAsns THEN 4 ELSE Max({r.depth : r \in RowsOfAsn(n)})

IpsIn(n) == {r.ip : r \in RowsOfAsn(n)}
TopEvents(n) == Max({EventsIn({r \in RowsOfAsn(n) : r.ip = a}) : a \in IpsIn(n)})

(* _classify, with 2 percent and 90 percent. *)
Tunnels(n) == MapThenSumSet(LAMBDA r : r.tunnels, RowsOfAsn(n))
AuthedIn(n) == {r \in RowsOfAsn(n) : r.depth >= 1}

Class(n) ==
  LET total == EventsIn(InWindow)
  IN  IF \E r \in RowsOfAsn(n) : r.depth >= 2 THEN "hands-on"
      ELSE IF Tunnels(n) > 0 /\ Tunnels(n) >= Cardinality(AuthedIn(n)) THEN "relay"
      ELSE IF /\ Cardinality(IpsIn(n)) = 1 \/ 10 * TopEvents(n) >= 9 * EventsOf(n)
              /\ 100 * EventsOf(n) >= 2 * total THEN "dedicated"
      ELSE IF AuthedIn(n) # {} THEN "credential-bulk" ELSE "background"

(* Depth first, share second. *)
RanksBefore(m, n) ==
  DepthOf(m) > DepthOf(n) \/ (DepthOf(m) = DepthOf(n) /\ Louder(m, n))

Listed ==
  {n \in Shortlist : Cardinality({m \in Shortlist : RanksBefore(m, n)}) < ListLimit}

(* "Anything that reached a shell outranks anything that merely shouted":  *)
(* a network that only connects is not listed while one that reached a     *)
(* shell is left out, as long as no more networks come than the query      *)
(* takes by volume (abuse_scores).                                         *)
ShellOutranksNoise ==
  Cardinality(Asns) <= RowLimit =>
    \A m \in Asns, n \in Listed : DepthOf(m) >= 2 /\ DepthOf(n) < 2 => m \in Listed

(* A network with an address that transferred malware shows as confirmed   *)
(* malware however the enrichment spelled its number, and not only in the  *)
(* window it did so (abuse_scores).                                        *)
MalwareIsDeepest ==
  \A a \in malIps : AsnOf[a] \in Asns \ {0} => DepthOf(AsnOf[a]) = 4

(* The label of a network and its depth come from different columns and    *)
(* agree: what reached a shell is hands-on, and hands-on reached a shell.  *)
ClassFitsDepth ==
  \A n \in Asns \ MaliciousAsns : Class(n) = "hands-on" <=> DepthOf(n) >= 2

(* The page lists by how far networks got, names those with malware and    *)
(* labels them as it ranks them.                                           *)
RankingIsSound == ShellOutranksNoise /\ MalwareIsDeepest /\ ClassFitsDepth
=============================================================================
