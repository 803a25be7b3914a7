--------------------------- MODULE Contributions ---------------------------
(***************************************************************************)
(* contributions.py: which samples the site claims to have contributed.    *)
(*                                                                         *)
(* The worker asks VirusTotal, uploads what it does not hold, stamps the   *)
(* upload when the call returns, and snapshots every later answer.  When   *)
(* the answer is an error, or the run is killed, nothing is stamped and a  *)
(* later run uploads again, though VirusTotal may have had the file from   *)
(* us since; and others may upload it at any time.  verify_first compares  *)
(* the stamp with VirusTotal's own date; trajectory the detections.        *)
(***************************************************************************)
EXTENDS Integers, FiniteSets, FiniteSetsExt

CONSTANTS MaxClock,    (* bound: the time of a behaviour                   *)
          Tolerance,   (* FIRST_TOLERANCE_S                                *)
          MaxCall      (* the longest an upload call takes                 *)

ASSUME ContribAssumption ==
  MaxClock \in Nat /\ Tolerance \in Nat /\ MaxCall \in Nat

VARIABLES clock,
          theirs,     \* when others uploaded the sample; -1 if not
          took,       \* when VirusTotal first took ours; -1 if not
          sent,       \* when it took the one that is not answered; -1
          missed,     \* one that it took was never stamped (history)
          stamp,      \* submitted_at of our row; -1 without one
          snaps,      \* vt_snapshots: time, first date and detections
          detected    \* the engines that detect the sample (external)

contribVars == <<clock, theirs, took, sent, missed, stamp, snaps, detected>>

ContribInit ==
  /\ clock = 0 /\ theirs = -1 /\ took = -1 /\ stamp = -1
  /\ sent = -1 /\ missed = FALSE /\ snaps = {} /\ detected = 0

Held == theirs # -1 \/ took # -1
FirstDate == Min({t \in {theirs, took} : t # -1})

Later ==
  /\ clock < MaxClock /\ clock' = clock + 1
  /\ sent # -1 => clock - sent < MaxCall
  /\ UNCHANGED <<theirs, took, sent, missed, stamp, snaps, detected>>

OtherUploads ==
  /\ theirs = -1 /\ theirs' = clock
  /\ UNCHANGED <<clock, took, sent, missed, stamp, snaps, detected>>

EnginesDetect ==
  /\ Held /\ detected < 2 /\ detected' = detected + 1
  /\ UNCHANGED <<clock, theirs, took, sent, missed, stamp, snaps>>

(* The verdict was unknown; it may be so no longer (submit_samples).  Only *)
(* what was submitted, or refused, is never sent again.                    *)
WeUpload ==
  /\ stamp = -1 /\ sent = -1 /\ sent' = clock
  /\ took' = IF took = -1 THEN clock ELSE took
  /\ UNCHANGED <<clock, theirs, missed, stamp, snaps, detected>>

WeStamp ==
  /\ sent # -1 /\ sent' = -1 /\ stamp' = clock
  /\ UNCHANGED <<clock, theirs, took, missed, snaps, detected>>

(* The row says error, or nothing: the run was killed. *)
LoseAnswer ==
  /\ sent # -1 /\ sent' = -1 /\ missed' = TRUE
  /\ UNCHANGED <<clock, theirs, took, stamp, snaps, detected>>

(* vt_lookup keeps a snapshot of each answer that is not a 404; the date   *)
(* is NULL when the answer lacks it.  A run asks about a sample once.      *)
Snapshot ==
  /\ Held /\ \A s \in snaps : s.at < clock
  /\ \E first \in {FirstDate, -1} :
       snaps' = snaps \cup {[at |-> clock, first |-> first, malicious |-> detected]}
  /\ UNCHANGED <<clock, theirs, took, sent, missed, stamp, detected>>

ContribNext ==
  \/ Later \/ OtherUploads \/ EnginesDetect
  \/ WeUpload \/ WeStamp \/ LoseAnswer \/ Snapshot

ContribSpec == ContribInit /\ [][ContribNext]_contribVars
-----------------------------------------------------------------------------
(* _submitted: only rows that say submitted; _snapshots. *)
Claimed == stamp # -1
Current == {s \in snaps : \A t \in snaps : t.at <= s.at}

(* Bug to catch: the date of the last answer. *)
FirstsOfLast == {s.first : s \in Current} \ {-1}

Firsts == {s.first : s \in snaps} \ {-1}

(* verify_first *)
Attribution ==
  IF ~ Claimed \/ Firsts = {} THEN "unverified"
  ELSE IF Min(Firsts) >= stamp - Tolerance THEN "confirmed" ELSE "preceded"

(* trajectory: the first answer since our upload, or the first of all.     *)
After == {s \in snaps : s.at >= stamp}
Oldest(S) == {s \in S : \A t \in S : s.at <= t.at}

Initial == IF Claimed /\ After # {} THEN Oldest(After) ELSE Oldest(snaps)
-----------------------------------------------------------------------------
(* A sample somebody else uploaded well before us is never claimed as a    *)
(* first ("the attribution check is deliberately conservative"); and one   *)
(* that was first ours is given away only when the answer to an upload was *)
(* lost, so that the stamp is that of a later one.                         *)
AttributionIsRight ==
  /\ Attribution = "confirmed" => theirs = -1 \/ theirs >= stamp - Tolerance
  /\ Attribution = "preceded" =>
       \/ theirs # -1 /\ theirs < took
       \/ missed /\ took < stamp - Tolerance

(* The initial detections are of an answer no older than our upload, once  *)
(* there is one, and never newer than the current ones (trajectory).       *)
LiftIsAfterUpload ==
  \A a \in Initial, b \in Current :
    /\ a.at <= b.at
    /\ Claimed /\ (\E s \in snaps : s.at >= stamp) => a.at >= stamp

(* What the page claims of a sample is right whenever it is read, and once *)
(* VirusTotal's date is known the verdict is final: later answers and      *)
(* later uploads do not change it (_build takes the earliest date).  (The  *)
(* first condition spares TLC the steps of other modules.)                 *)
ClaimHolds ==
  [][contribVars' # contribVars =>
     /\ AttributionIsRight' /\ LiftIsAfterUpload'
     /\ Attribution # "unverified" /\ stamp' = stamp
          => Attribution' = Attribution]_contribVars
=============================================================================
