------------------------------- MODULE Ledger -------------------------------
(***************************************************************************)
(* What sample_provenance promises (record_provenance): the table only     *)
(* ever widens.  First seen moves earlier, last seen later, counts never   *)
(* drop, the origin is replaced only by that of an earlier sighting, and   *)
(* no entry is lost, whatever becomes of the tables it is read from.       *)
(***************************************************************************)
EXTENDS Integers

CONSTANTS Keys, NoEntry

VARIABLE entry  \* entry[k]: first and last seen, counts and origin

Widens(old, new) ==
  \/ old = NoEntry
  \/ /\ new # NoEntry
     /\ new.first <= old.first /\ old.last <= new.last
     /\ \A c \in DOMAIN old.counts : old.counts[c] <= new.counts[c]
     /\ new.first = old.first => new.origin = old.origin

LedgerInit == entry = [k \in Keys |-> NoEntry]

LedgerNext ==
  /\ DOMAIN entry' = Keys
  /\ \A k \in Keys : entry'[k] = entry[k] \/ Widens(entry[k], entry'[k])

LedgerSpec == LedgerInit /\ [][LedgerNext]_entry
=============================================================================
