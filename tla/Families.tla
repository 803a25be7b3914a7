------------------------------ MODULE Families ------------------------------
(***************************************************************************)
(* The family of a sample: derive and rebuild of families.py vote over the *)
(* labels the vendors gave it.                                             *)
(*                                                                         *)
(* payload_intel is read in the order of its rows, and INSERT OR REPLACE   *)
(* (_save_intel) moves a row to the end; of tokens with equal votes the    *)
(* one met first is taken.  A label is the sequence of its tokens that     *)
(* may name a family (tokens).                                             *)
(***************************************************************************)
EXTENDS Integers, FiniteSets, SequencesExt

CONSTANTS Labels,    (* per vendor, the labels it may give                 *)
          NoFamily

(* tokens keeps a token once per label.                                   *)
ASSUME FamiliesAssumption ==
  \A v \in DOMAIN Labels : \A l \in Labels[v] : l \in Seq(ToSet(l)) /\ IsInjective(l)

VARIABLES answers,   \* payload_intel of one sample: vendor, label, verdict
          family,    \* payload_families: name and how it is confirmed
          said       \* the labels the family was derived from (history)

famVars == <<answers, family, said>>

None == [name |-> NoFamily, confidence |-> "none"]

FamInit == answers = <<>> /\ family = None /\ said = {}

SaveIntel(v, label, flagged) ==
  LET old == {i \in DOMAIN answers : answers[i].vendor = v}
      kept == IF old = {} THEN answers ELSE RemoveAt(answers, Min(old))
  IN  /\ answers' = Append(kept, [vendor |-> v, label |-> label, flagged |-> flagged])
      /\ UNCHANGED <<family, said>>

(* The rows with a vote, and what they say. *)
Voters == {i \in DOMAIN answers : answers[i].flagged /\ answers[i].label # <<>>}
TokensOf(i) == ToSet(answers[i].label)
Tokens == UNION {TokensOf(i) : i \in Voters}
Said == {[vendor |-> answers[i].vendor, label |-> answers[i].label] : i \in Voters}

(* Two votes for naming a label's first token, one for a later one. *)
Votes(t) ==
  2 * Cardinality({i \in Voters : answers[i].label[1] = t})
  + Cardinality({i \in Voters : t \in ToSet(Tail(answers[i].label))})

Best == {t \in Tokens : \A u \in Tokens : Votes(u) <= Votes(t)}
NamedBy(t) == {answers[i].vendor : i \in {j \in Voters : t \in TokensOf(j)}}

(* Of some tokens the one that was met first. *)
FirstOf(T) ==
  LET i == Min({j \in Voters : TokensOf(j) \cap T # {}})
      label == answers[i].label
  IN  label[Min({k \in DOMAIN label : label[k] \in T})]

Naming(t) ==
  [name |-> t,
   confidence |-> IF Cardinality(NamedBy(t)) > 1 THEN "agreed" ELSE "single-vendor"]

(* Bug to catch: the votes are not counted. *)
DerivedFirst == IF Voters = {} THEN None ELSE Naming(FirstOf(Tokens))
Derived == IF Voters = {} THEN None ELSE Naming(FirstOf(Best))

(* DELETE, and a row for the sample if a family came out. *)
RebuildFamily == family' = Derived /\ said' = Said /\ UNCHANGED answers

FamNext ==
  \/ \E v \in DOMAIN Labels, flagged \in BOOLEAN :
       \E label \in Labels[v] : SaveIntel(v, label, flagged)
  \/ RebuildFamily

FamSpec == FamInit /\ [][FamNext]_famVars
-----------------------------------------------------------------------------
(* The family does not hang on which vendor answered last: rebuilt from    *)
(* the same labels it stays, unless two tokens lead, when it does hang on  *)
(* the order of the rows (derive, _save_intel).  And it is called agreed   *)
(* only if two vendors that flagged the sample name it: "how many distinct *)
(* vendors offered the winning token".                                     *)
SameLabelsSameFamily ==
  [][/\ RebuildFamily /\ said = Said /\ Cardinality(Best) = 1
       => family' = family
     /\ family' # family /\ family'.confidence = "agreed" =>
          \E r, s \in Said : /\ r.vendor # s.vendor
                             /\ family'.name \in ToSet(r.label) \cap ToSet(s.label)]_famVars
=============================================================================
