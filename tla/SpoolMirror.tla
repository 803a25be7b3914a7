---------------------------- MODULE SpoolMirror ----------------------------
(***************************************************************************)
(* What the collector's spool may hold, and how it may change, whatever    *)
(* the pull does between two of its steps: the abstract specification that *)
(* LogPull implements, and the only view of the pull that Collector needs. *)
(*                                                                         *)
(* A copy only grows, and the byte it gains is the one at its own length   *)
(* of some log that the name stood for.  A dated name only ever stands     *)
(* for its own log.  The live name stands for a new log after a rotation,  *)
(* so the live copy may hold bytes of several logs and may be dropped, but *)
(* it never goes back to an earlier log, nor drops the one that is live.   *)
(***************************************************************************)
EXTENDS SensorLogs

CONSTANTS PullRetain,   (* TR_SPOOL_RETAIN_DAYS as pull.sh reads it        *)
          SpoolRetain   (* TR_SPOOL_RETAIN_DAYS as prune.py reads it       *)

(* The two programs read one variable, each with a default of its own (8   *)
(* and 3); the units set both to 8.                                        *)
ASSUME RetainAssumption ==
  /\ PullRetain \in Nat \ {0}
  /\ SpoolRetain \in Nat
  /\ PullRetain <= SpoolRetain

VARIABLES spool,    \* spool[n]: the collector's copy; <<>> when there is none
          mtime,    \* mtime[d]: the day the dated copy was last written (nobody
                    \* asks that of the live copy); 0 if it never was
          liveFrom  \* the log the live copy's last byte is of, or, in an empty
                    \* copy, the first that the next may be of (history)

mirrorVars == <<today, size, liveDay, dated, spool, mtime, liveFrom>>

MirrorInit ==
  /\ SensorInit
  /\ spool = [n \in Names |-> <<>>]
  /\ mtime = [d \in Days |-> 0]
  /\ liveFrom = 1

Touch(n) == IF n = Live THEN mtime ELSE [mtime EXCEPT ![n] = today]
LiveFrom(n, d) == IF n = Live THEN d ELSE liveFrom

SensorStep ==
  /\ \/ NextDay
     \/ Rotate
     \/ Write
     \/ \E d \in dated : PruneAge(d) \/ PruneSize(d)
  /\ UNCHANGED <<spool, mtime, liveFrom>>

(* The copy of n gains bytes of the log of day d.  A dated name is not     *)
(* asked for once it has left the window, except by a pull that midnight   *)
(* overtook.  The live copy gains nothing of a log whose dated copy has    *)
(* been begun.                                                             *)
Gain(n, d) ==
  \E k \in 1..MaxBytes :
    /\ IF n = Live THEN liveFrom <= d /\ d <= liveDay /\ mtime[d] = 0
                   ELSE d = n /\ n < liveDay /\ today <= n + PullRetain
    /\ Len(spool[n]) + k <= size[d]
    /\ spool' = [spool EXCEPT
                   ![n] = @ \o Run(d, Len(spool[n]), Len(spool[n]) + k)]
    /\ mtime' = Touch(n)
    /\ liveFrom' = LiveFrom(n, d)
    /\ UNCHANGED sensorVars

(* The pull starts its live copy again: what it held was rotated away. *)
DropLive ==
  /\ liveFrom' \in (liveFrom + 1)..liveDay
  /\ spool' = [spool EXCEPT ![Live] = <<>>]
  /\ UNCHANGED <<today, size, liveDay, dated, mtime>>

(* prune_spool: a dated copy is removed when it was last written           *)
(* SpoolRetain days ago.  One that is exactly that old by the day may or   *)
(* may not be by the second, and os.remove may fail, so any of them stay.  *)
ExpiredEarly == {n \in Days : spool[n] # <<>> /\ mtime[n] + SpoolRetain <= today + 1}
Expired == {n \in Days : spool[n] # <<>> /\ mtime[n] + SpoolRetain <= today}

RemoveCopies(S) ==
  /\ S \subseteq Expired
  /\ spool' = [n \in Names |-> IF n \in S THEN <<>> ELSE spool[n]]
  /\ UNCHANGED <<today, size, liveDay, dated, mtime, liveFrom>>

MirrorNext ==
  \/ SensorStep
  \/ \E n \in Names, d \in Days : Gain(n, d)
  \/ DropLive
  \/ \E S \in SUBSET Expired : RemoveCopies(S)

MirrorSpec == MirrorInit /\ [][MirrorNext]_mirrorVars
=============================================================================
