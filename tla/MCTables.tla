------------------------------ MODULE MCTables ------------------------------
(***************************************************************************)
(* Small instances of the tables the worker keeps beyond raw_events:       *)
(* SessionFacts, Sightings, Credentials and StageHistory, which share the  *)
(* run of the worker and no table; and of what is derived from tables:     *)
(* Families, Spikes and Networks.  One of them moves in each behaviour, so *)
(* together they have no more states than one by one.                      *)
(***************************************************************************)
EXTENDS MCSessionFacts, Sightings, Credentials, StageHistory,
        Families, Spikes, Networks, TLC

VARIABLE component  \* the module that takes the steps

tableVars == <<row, sightVars, credVars, stageVars, famVars, spikeVars, netVars>>

TablesInit ==
  /\ component \in {"sessions", "sightings", "credentials", "stages",
                    "families", "spikes", "networks"}
  /\ Init /\ SightInit /\ CredInit /\ StageInit
  /\ FamInit /\ SpikesInit /\ NetInit

(* Bounds: what comes to sightings and credentials is one event of four    *)
(* days, so that the first has aged on the seventh; one more that day, and *)
(* one of the operator.  Only the session that goes on over midnight comes *)
(* late, or in the middle of a run, to session_facts; and what is derived  *)
(* of these has four days, each with a session that is over by midnight.   *)
FewCome == came' \subseteq ({1, 2, 4, 5} \X {1}) \cup {<<1, 2>>, <<3, 2>>}
InTurn == \A e \in came' \ came : e # <<2, 2>> => pc = "idle" /\ DayOf(e) = today
FourDays ==
  /\ today' <= 4 /\ (excluded' => Operator \subseteq came)
  /\ today' # today => SomebodyCame

TablesNext ==
  /\ UNCHANGED component
  /\ \/ /\ component = "sessions" /\ Next /\ InTurn
        /\ UNCHANGED <<sightVars, credVars, stageVars, famVars, spikeVars, netVars>>
     \/ /\ component = "sightings" /\ SightNext /\ FewCome
        /\ UNCHANGED <<row, credVars, stageVars, famVars, spikeVars, netVars>>
     \/ /\ component = "credentials" /\ CredNext /\ FewCome
        /\ UNCHANGED <<row, sightVars, stageVars, famVars, spikeVars, netVars>>
     \/ /\ component = "stages" /\ StageNext /\ InTurn /\ FourDays
        /\ UNCHANGED <<sightVars, credVars, famVars, spikeVars, netVars>>
     \/ /\ component = "families" /\ FamNext
        /\ UNCHANGED <<vars, sightVars, credVars, stageVars, spikeVars, netVars>>
     \/ /\ component = "spikes" /\ SpikesNext
        /\ UNCHANGED <<vars, sightVars, credVars, stageVars, famVars, netVars>>
     \/ /\ component = "networks" /\ NetNext
        /\ UNCHANGED <<vars, sightVars, credVars, stageVars, famVars, spikeVars>>

(* The purge of an excluded address is final in what is derived from       *)
(* raw_events anew in each run (purge_excluded.sql, v_events).             *)
PurgeIsFinal == NoSightingReturns /\ NoTaggedOperator

TablesSpec == TablesInit /\ [][TablesNext]_<<component, runVars, tableVars>>
-----------------------------------------------------------------------------
(* One sample five times: uploaded, from a host, by the operator from      *)
(* another one, and again; and a file that is empty.                       *)
Transfer(s, u, up, n, i) ==
  [sha |-> s, url |-> u, upload |-> up, session |-> n, ip |-> i]
Moved == [e \in {<<1, 1>>, <<1, 2>>, <<2, 1>>, <<3, 2>>, <<4, 1>>} |->
  CASE e = <<1, 1>> -> Transfer("x", 0, TRUE, 1, 1)
    [] e = <<1, 2>> -> Transfer("x", 1, FALSE, 2, 2)
    [] e = <<2, 1>> -> Transfer("empty", 0, FALSE, 3, 1)
    [] e = <<3, 2>> -> Transfer("x", 2, FALSE, 9, 9)
    [] OTHER -> Transfer("x", 0, FALSE, 4, 2)]

(* One pair tried by two addresses on a day, by one of them on the next,   *)
(* and by the operator.                                                    *)
Login(i, ok) == [pair |-> "root", ip |-> i, ok |-> ok]
Tried == [e \in {<<1, 1>>, <<1, 2>>, <<2, 1>>, <<3, 2>>} |->
  CASE e = <<1, 1>> -> Login(1, FALSE)
    [] e = <<1, 2>> -> Login(2, TRUE)
    [] e = <<2, 1>> -> Login(1, TRUE)
    [] OTHER -> Login(9, TRUE)]
Tagged == [p \in {"root"} |-> {"default"}]

(* The session that goes on moves a file before midnight and gets a shell  *)
(* after it; another address logs in, and moves a file on another day.     *)
Address == [s \in Sessions |->
  IF s \in {0, 2, 4} THEN "i" ELSE IF s = 9 THEN "o" ELSE "j"]
Deed == [e \in Events |->
  CASE e \in {<<1, 2>>, <<3, 1>>} -> "file" [] e \in {<<2, 2>>, <<3, 2>>} -> "shell"
    [] e = <<1, 1>> -> "authed" [] OTHER -> "connected"]
Sample == [e \in {<<1, 2>>, <<3, 1>>} |-> "m"]

(* Labels that agree, that differ, and that name two families.             *)
Named == ("vt" :> {<<"mirai", "gafgyt">>, <<"gafgyt">>, <<>>})
         @@ ("uh" :> {<<"mirai">>, <<"xor", "mirai">>})
         @@ ("mb" :> {<<"gafgyt">>})

(* A loud network that only connects, one that reaches a shell later, one  *)
(* that transfers, and one whose number is not known.                      *)
Nets == ("a" :> 1) @@ ("b" :> 2) @@ ("c" :> 2) @@ ("d" :> 3) @@ ("e" :> 0)
NetRow(d, i, e, p, t) == [day |-> d, ip |-> i, events |-> e, depth |-> p, tunnels |-> t]
Traffic == {NetRow(1, "a", 9, 0, 0), NetRow(1, "b", 4, 1, 0), NetRow(2, "c", 1, 2, 0),
            NetRow(2, "d", 2, 3, 1), NetRow(2, "e", 3, 0, 2), NetRow(3, "a", 1, 1, 0)}
=============================================================================
