---------------------------- MODULE MCCollector ----------------------------
(***************************************************************************)
(* Small instances of Collector.  In the long logs, log 1 is a line and a  *)
(* blank one, and log 2 a blank one and a line; in the short ones each log *)
(* is one line.  A copy of log 1 that log 2 continues has a line of both.  *)
(***************************************************************************)
EXTENDS Collector

LongLogs == {<<1, 2>>, <<1, 3>>, <<2, 1>>, <<2, 3>>}
ShortLogs == {<<1, 2>>, <<2, 2>>}

OneSource == [b \in LogBytes |-> "a"]

(* A source of its own for the first day. *)
TwoSources == [b \in LogBytes |-> IF b[1] = 1 THEN "a" ELSE "b"]
=============================================================================
