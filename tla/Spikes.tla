------------------------------- MODULE Spikes -------------------------------
(***************************************************************************)
(* Volume spikes: score_series of spikes.py scores each day against the    *)
(* days before it, and annotate, a stage of the worker, writes a note on   *)
(* each spike.  Counts of the last days may still grow after a note.       *)
(***************************************************************************)
EXTENDS Integers, FiniteSets, SequencesExt

CONSTANTS Counts,        (* the events a day may have                      *)
          SpikeDays,     (* bound: the days of a behaviour                 *)
          BaselineDays,  (* BASELINE_DAYS and MIN_BASELINE_DAYS            *)
          MinBaseline,
          MinEvents,     (* TR_SPIKE_MIN_EVENTS                            *)
          Growing,       (* the last days whose counts may change          *)
          MaxNotes       (* max_days of annotate                           *)

ASSUME SpikesAssumption ==
  /\ Counts \subseteq Nat /\ SpikeDays \in Nat /\ BaselineDays \in Nat
  /\ MinBaseline \in Nat \ {0} /\ MinEvents \in Nat \ {0}
  /\ Growing \in Nat /\ MaxNotes \in Nat \ {0}

VARIABLES series,   \* events of each day that has rows, oldest first
          notes,    \* spike_annotations: events and baseline, by day
          noted     \* the days the last annotate wrote (history)

spikeVars == <<series, notes, noted>>

SpikesInit == series = <<>> /\ notes = <<>> /\ noted = {}

(* statistics.median, doubled: the middle one twice, or the middle two.    *)
Smallest(s, k) == Min({v \in ToSet(s) : Cardinality({j \in DOMAIN s : s[j] <= v}) >= k})
Median2(s) == Smallest(s, (Len(s) + 1) \div 2) + Smallest(s, Len(s) \div 2 + 1)
AbsDiff(a, b) == IF a < b THEN b - a ELSE a - b

(* Bug to catch: all days but the one that is judged. *)
BaselineAround(i) == SubSeq(series, 1, i - 1) \o SubSeq(series, i + 1, Len(series))

(* The days before, BaselineDays at most. *)
Baseline(i) == SubSeq(series, IF i > BaselineDays THEN i - BaselineDays ELSE 1, i - 1)

(* The robust z-score of 3.5 and the ratio of 1.75, over doubled medians;  *)
(* the deviation is doubled twice, and 1 if it is zero.                    *)
Spike(i) ==
  LET med == Median2(Baseline(i))
      dev == Median2([j \in DOMAIN Baseline(i) |-> AbsDiff(2 * Baseline(i)[j], med)])
      mad == IF dev = 0 THEN 4 ELSE dev
  IN  /\ series[i] >= MinEvents /\ Len(Baseline(i)) >= MinBaseline
      /\ 2 * 6745 * (2 * series[i] - med) >= 35000 * mad
      /\ med > 0 /\ 8 * series[i] >= 7 * med

SpikesFound == {i \in DOMAIN series : Spike(i)}
LastOf(S) == {i \in S : Cardinality({j \in S : j > i}) < MaxNotes}

(* A day begins with what its first rollup counts, and the count of one of *)
(* the last days grows when it is rebuilt.                                 *)
SpikeDay(n) ==
  /\ Len(series) < SpikeDays
  /\ series' = Append(series, n)
  /\ notes' = Append(notes, [events |-> 0, baseline |-> 0])
  /\ UNCHANGED noted

DayGrows(i, n) ==
  /\ i \in DOMAIN series /\ i + Growing > Len(series)
  /\ n > series[i]
  /\ series' = [series EXCEPT ![i] = n]
  /\ UNCHANGED <<notes, noted>>

(* Bug to catch: a day that has a note is done. *)
ToNoteOnce == {i \in LastOf(SpikesFound) : notes[i].events = 0}

(* existing: a note is left alone while the day has the same events. *)
ToNote == {i \in LastOf(SpikesFound) : notes[i].events # series[i]}

(* The days _movers compares with: those before it that are no spikes. *)
Annotate ==
  /\ UNCHANGED series
  /\ noted' = ToNote
  /\ notes' = [i \in DOMAIN notes |-> IF i \in noted'
                 THEN [events |-> series[i], baseline |-> Median2(Baseline(i))]
                 ELSE notes[i]]

SpikesNext ==
  \/ \E n \in Counts : SpikeDay(n)
  \/ \E i \in 1..SpikeDays, n \in Counts : DayGrows(i, n)
  \/ Annotate

SpikesSpec == SpikesInit /\ [][SpikesNext]_spikeVars
-----------------------------------------------------------------------------
(* A note on a spike says what the day has come to, also when the day was  *)
(* noted before it was over; a pass over days that have not changed writes *)
(* nothing, and no note is ever taken back (annotate).                     *)
NotesAreCurrent ==
  [][/\ Annotate => \A i \in LastOf(SpikesFound) : notes'[i].events = series[i]
     /\ Annotate /\ (\A i \in LastOf(SpikesFound) : notes[i].events = series[i])
       => notes' = notes /\ noted' = {}
     /\ \A i \in DOMAIN notes : notes[i].events > 0 => notes'[i].events > 0]_spikeVars

(* A day is judged by the days before it alone: what it comes to itself    *)
(* never lifts the bar it has to pass, so a day that is a spike stays one  *)
(* as it grows, unless the days before it grow too (score_series).         *)
GrowingStaysSpike ==
  [][\A i \in DOMAIN series :
       /\ Spike(i) /\ series'[i] >= series[i]
       /\ \A j \in 1..(i - 1) : series'[j] = series[j]
       => Spike(i)']_spikeVars
=============================================================================
