--------------------------- MODULE MCSessionFacts ---------------------------
(***************************************************************************)
(* Small instances of SessionFacts: a session of each day, one that goes   *)
(* on over a midnight, and one of the operator.                            *)
(***************************************************************************)
EXTENDS SessionFacts

TwoADay == (Days \X {1}) \cup {<<1, 2>>, <<2, 2>>, <<3, 2>>}

(* Session 0 has an event of the days 1 and 2; the others are of one day,  *)
(* and 9 is the operator's.                                                *)
Across == [e \in TwoADay |-> IF e \in {<<1, 2>>, <<2, 2>>} THEN 0
               ELSE IF e = <<3, 2>> THEN 9 ELSE DayOf(e)]
OperatorsOwn == {<<3, 2>>}
=============================================================================
