------------------------------ MODULE MCUserDb ------------------------------
(***************************************************************************)
(* A small instance of UserDb.                                             *)
(***************************************************************************)
EXTENDS UserDb

(* Each word on either side of a pair, and root; each word in a line that  *)
(* is otherwise plain, a deny rule or a pattern, and lines with a field    *)
(* too many or too few before another line.                                *)
Sprayed ==
  {<<Text("pw"), t>> : t \in Texts} \cup {<<t, Text("pw")>> : t \in Texts}
  \cup {<<Text("root"), Text("root")>>}
ThreeFields ==
  {<<l, "x", p>> : l \in {"pw", "root", "/pw/"}, p \in Words}
  \cup {<<l, "x", p>> : l \in Words, p \in {"pw", "!*"}}
OddLines ==
  {<<l, "x", p, "pw">> : l \in {"pw", "/[/"}, p \in {"", "/[/", "pw", "high"}}
  \cup {<<l, "pw">> : l \in {"pw", "", "#pw"}} \cup {<<l>> : l \in Words}
OddWritten == {<<l>> : l \in OddLines}
HandWritten ==
  {<<l>> : l \in ThreeFields} \cup {<<l, <<"root", "x", "pw">>>> : l \in OddLines}
=============================================================================
