------------------------------ MODULE MCRollup ------------------------------
(***************************************************************************)
(* Small instances of Rollup.  Two events on the first day, so that it can *)
(* be partly there, the second of an address the operator excludes.        *)
(***************************************************************************)
EXTENDS Rollup

SomeEvents == (Days \X {1}) \cup {<<1, 2>>}
SomeOperator == {<<1, 2>>}
=============================================================================
