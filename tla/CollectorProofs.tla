-------------------------- MODULE CollectorProofs --------------------------
(***************************************************************************)
(* The ingester stores what the spool brings, for any logs and settings.   *)
(*                                                                         *)
(* A place in the copy of a dated log is good when it is the end of a line *)
(* and not beyond the copy; a copy that is gone does not come back.  The   *)
(* offsets and the place the ingester is at are good, and what lies before *)
(* them is stored, in the batch, or old.                                   *)
(***************************************************************************)
EXTENDS Collector, Extrema, SequenceTheorems

(* What the proofs use of the constants.                                   *)
LEMMA ConstantsAre ==
  /\ MaxDay \in Nat \ {0} /\ MaxBytes \in Nat
  /\ PullRetain \in Nat /\ SpoolRetain \in Nat /\ PullRetain <= SpoolRetain
  /\ RawRetain \in Nat \ {0}
BY SensorAssumption, RetainAssumption, CollectorAssumption

USE ConstantsAre DEF Days, Names, Live

-----------------------------------------------------------------------------
(* Lines.                                                                  *)

(* The end of the line before place i, or the place one reads from.        *)
LEMMA EndBeforeIs ==
  ASSUME NEW s \in Seq(LogBytes), NEW from \in Nat, NEW i \in Nat
  PROVE  LET e == EndBefore(s, from, i)
         IN  /\ e \in Nat /\ from <= e
             /\ e = from \/ (e \in Ends(s, from) /\ e < i)
             /\ \A j \in Ends(s, from) : j < i => j <= e
<1> DEFINE E == {j \in Ends(s, from) : j < i}
<1>1. Len(s) \in Nat /\ Ends(s, from) \subseteq (from + 1)..Len(s)
  BY DEF Ends
<1>2. CASE E = {}
  <2>1. EndBefore(s, from, i) = from
    BY <1>2 DEF EndBefore
  <2>2. QED
    BY <1>2, <2>1
<1>3. CASE E # {}
  <2>1. E \in SUBSET Nat /\ \A j \in E : j <= i /\ from < j
    BY <1>1
  <2>2. EndBefore(s, from, i) = Max(E)
    BY <1>3 DEF EndBefore
  <2>3. Max(E) \in E /\ \A j \in E : j <= Max(E)
    <3> HIDE DEF E
    <3> QED BY <1>3, <2>1, MaxOfNat
  <2>4. QED
    BY <2>1, <2>2, <2>3
<1>4. QED
  BY <1>2, <1>3

(* A pass reads parts of the copy that are not empty.                      *)
LEMMA LinesAreSeqs ==
  ASSUME NEW s \in Seq(LogBytes), NEW from \in Nat
  PROVE  \A l \in LinesFrom(s, from) : l \in Seq(LogBytes) \ {<<>>}
<1> SUFFICES ASSUME NEW i \in Ends(s, from)
             PROVE  SubSeq(s, EndBefore(s, from, i) + 1, i - 1) \in Seq(LogBytes)
  BY DEF LinesFrom
<1>1. i \in Nat /\ i <= Len(s) /\ i \in (from + 1)..Len(s)
  BY DEF Ends
<1>2. EndBefore(s, from, i) \in Nat
  BY <1>1, EndBeforeIs
<1>3. QED
  BY <1>1, <1>2, SubSeqProperties

(* Where the reading ends: where it began or at the end of a line.         *)
LEMMA OffsetAfterIs ==
  ASSUME NEW s \in Seq(LogBytes), NEW from \in Nat
  PROVE  LET e == OffsetAfter(s, from)
         IN  /\ e \in Nat /\ from <= e
             /\ e = from \/ (e <= Len(s) /\ s[e] \in Newline /\ e >= 1)
             /\ Ends(s, e) = {}
<1> DEFINE e == EndBefore(s, from, Len(s) + 1)
<1>1. Len(s) \in Nat /\ Len(s) + 1 \in Nat
  OBVIOUS
<1>2. /\ e \in Nat /\ from <= e
      /\ e = from \/ (e \in Ends(s, from) /\ e < Len(s) + 1)
      /\ \A j \in Ends(s, from) : j < Len(s) + 1 => j <= e
  BY <1>1, EndBeforeIs
<1> HIDE DEF e
<1>3. Ends(s, e) = {}
  <2> SUFFICES ASSUME NEW j \in Ends(s, e) PROVE FALSE
    OBVIOUS
  <2>1. j \in (e + 1)..Len(s) /\ s[j] \in Newline
    BY DEF Ends
  <2>2. j \in Ends(s, from)
    BY <1>1, <1>2, <2>1 DEF Ends
  <2>3. QED
    BY <1>1, <1>2, <2>1, <2>2
<1>4. e = from \/ (e <= Len(s) /\ s[e] \in Newline /\ e >= 1)
  BY <1>2 DEF Ends
<1>5. QED
  BY <1>2, <1>3, <1>4 DEF e, OffsetAfter

(* The bytes of the log of day d, from its start.                          *)
IsPrefixOf(s, d) == \A i \in 1..Len(s) : s[i] = <<d, i>>

(* A line of the log is between its start or a newline and a newline.      *)
LEMMA SpanIs ==
  ASSUME NEW d \in Days, NEW span \in LineSpans(d)
  PROVE  /\ span[1] \in 1..MaxBytes /\ span[2] \in 1..MaxBytes
         /\ span[1] <= span[2]
         /\ span[1] = 1 \/ <<d, span[1] - 1>> \in Newline
         /\ \A i \in span[1]..span[2] : <<d, i>> \notin Newline
         /\ <<d, span[2] + 1>> \in Newline
BY DEF LineSpans

(* From the end of a line a pass reads every whole line there is after it. *)
LEMMA ReadsWholeLines ==
  ASSUME NEW d \in Days, NEW s \in Seq(LogBytes), IsPrefixOf(s, d),
         NEW from \in Nat, from > 0 => <<d, from>> \in Newline,
         NEW span \in LineSpans(d), ~ (span[2] < from),
         span[2] < OffsetAfter(s, from)
  PROVE  LineAt(d, span) \in LinesFrom(s, from)
<1>0. PICK a, b : a = span[1] /\ b = span[2]
  OBVIOUS
<1> DEFINE e == EndBefore(s, from, b + 1)
<1>1. /\ a \in 1..MaxBytes /\ b \in 1..MaxBytes /\ a <= b
      /\ a = 1 \/ <<d, a - 1>> \in Newline
      /\ \A i \in a..b : <<d, i>> \notin Newline
      /\ <<d, b + 1>> \in Newline
  BY <1>0, SpanIs
<1>2. Len(s) \in Nat
  OBVIOUS
<1>3. from < a
  <2>1. CASE from = 0
    BY <2>1, <1>1
  <2>2. CASE from > 0
    <3>1. from \notin a..b
      BY <2>2, <1>1
    <3>2. from <= b
      BY <1>0, <1>1
    <3>3. QED
      BY <3>1, <3>2, <1>1
  <2>3. QED
    BY <2>1, <2>2
<1>4. b + 1 <= Len(s)
  <2>1. /\ OffsetAfter(s, from) \in Nat
        /\ OffsetAfter(s, from) = from \/ OffsetAfter(s, from) <= Len(s)
    BY OffsetAfterIs
  <2>2. b < OffsetAfter(s, from)
    BY <1>0
  <2>3. QED
    BY <2>1, <2>2, <1>1, <1>2, <1>3
<1>5. b + 1 \in Ends(s, from)
  <2>1. s[b + 1] = <<d, b + 1>>
    BY <1>1, <1>2, <1>4 DEF IsPrefixOf
  <2>2. QED
    BY <1>1, <1>2, <1>3, <1>4, <2>1 DEF Ends
<1>6. /\ e \in Nat /\ from <= e
      /\ e = from \/ (e \in Ends(s, from) /\ e < b + 1)
      /\ \A j \in Ends(s, from) : j < b + 1 => j <= e
  <2>1. b + 1 \in Nat
    BY <1>1
  <2>2. QED
    BY <2>1, EndBeforeIs
<1> HIDE DEF e
<1>7. e = a - 1
  <2>1. e <= a - 1
    <3>1. CASE e = from
      BY <3>1, <1>1, <1>3
    <3>2. CASE e \in Ends(s, from) /\ e < b + 1
      <4>1. e \in 1..Len(s) /\ <<d, e>> \in Newline
        BY <3>2 DEF Ends, IsPrefixOf
      <4>2. e \notin a..b
        BY <4>1, <1>1
      <4>3. QED
        BY <3>2, <4>1, <4>2, <1>1, <1>2
    <3>3. QED
      BY <3>1, <3>2, <1>6
  <2>2. a - 1 <= e
    <3>1. CASE a - 1 = from
      BY <3>1, <1>6
    <3>2. CASE a - 1 # from
      <4>1. a - 1 \in (from + 1)..Len(s) /\ a # 1
        BY <3>2, <1>1, <1>2, <1>3, <1>4
      <4>2. s[a - 1] = <<d, a - 1>>
        BY <4>1 DEF IsPrefixOf
      <4>3. a - 1 \in Ends(s, from)
        BY <4>1, <4>2, <1>1 DEF Ends
      <4>4. QED
        BY <4>3, <1>1, <1>6
    <3>3. QED
      BY <3>1, <3>2
  <2>3. QED
    BY <2>1, <2>2, <1>1, <1>6
<1>8. SubSeq(s, e + 1, (b + 1) - 1) = LineAt(d, span)
  <2>1. e + 1 = a /\ (b + 1) - 1 = b
    BY <1>1, <1>7
  <2>2. SubSeq(s, a, b) = [i \in 1..(b - a + 1) |-> s[a + i - 1]]
    BY <1>1, <1>2, <1>4
  <2>3. LineAt(d, span) = [i \in 1..(b - (a - 1)) |-> <<d, (a - 1) + i>>]
    BY <1>0 DEF LineAt, Run
  <2>4. b - a + 1 = b - (a - 1)
    BY <1>1
  <2>5. \A i \in 1..(b - a + 1) : s[a + i - 1] = <<d, (a - 1) + i>>
    <3> TAKE i \in 1..(b - a + 1)
    <3>1. a + i - 1 \in 1..Len(s) /\ a + i - 1 = (a - 1) + i
      BY <1>1, <1>2, <1>4
    <3>2. QED
      BY <3>1 DEF IsPrefixOf
  <2>6. QED
    BY <2>1, <2>2, <2>3, <2>4, <2>5
<1>9. SubSeq(s, e + 1, (b + 1) - 1) # <<>>
  <2>1. LineAt(d, span) = [i \in 1..(b - (a - 1)) |-> <<d, (a - 1) + i>>]
    BY <1>0 DEF LineAt, Run
  <2>2. 1 \in DOMAIN LineAt(d, span)
    BY <2>1, <1>1
  <2>3. \A t \in Seq(LogBytes) : t = <<>> => DOMAIN t = {}
    OBVIOUS
  <2>4. <<>> \in Seq(LogBytes)
    OBVIOUS
  <2>5. QED
    BY <1>8, <2>2, <2>3, <2>4
<1>10. QED
  BY <1>5, <1>8, <1>9 DEF LinesFrom, e

(* From here on a day is a name other than the live one, no more.          *)
LEMMA NamesAre ==
  /\ Days \subseteq Names /\ Names \subseteq Nat
  /\ Live \in Names /\ Live \notin Days
  /\ \A n \in Names : n # Live => n \in Days
  /\ \A n \in Names : n \in 0..MaxDay
OBVIOUS

HIDE DEF Days, Names, Live
USE NamesAre
-----------------------------------------------------------------------------
(* The invariant.                                                          *)

(* The dated copies are the starts of their logs, and were written after   *)
(* the day of the log.                                                     *)
CopiesAreStarts ==
  /\ \A d \in Days : IsPrefixOf(spool[d], d) /\ Len(spool[d]) <= size[d]
  /\ Len(spool[Live]) <= MaxBytes
  /\ liveDay <= today
  /\ \A d \in Days : spool[d] # <<>> => d < mtime[d]

(* The pull does not ask for the log of day d any more at time now.        *)
Closed(d, now) == d + PullRetain < now

(* A place p in the copy s of the log of day d is the end of one of its    *)
(* lines, and is not beyond it, unless the copy is gone for good.          *)
Place(d, p, s, now) ==
  /\ p > 0 => <<d, p>> \in Newline
  /\ s # <<>> => p <= Len(s)
  /\ s = <<>> /\ p > 0 => Closed(d, now)

(* Every line before it is in S, or old.                                   *)
StoredTo(d, p, S, now) ==
  \A span \in LineSpans(d) :
    span[2] < p => LineAt(d, span) \in S \/ d + RawRetain <= now

(* A source's row counts at least the lines S and spans their days.        *)
Covers(row, S) ==
  /\ Cardinality(S) <= row.count
  /\ \A l \in S : row.first <= DayOf(l) /\ DayOf(l) <= row.last

(* The ingester has a dated file in hand, and, once it has read it, lines  *)
(* to store besides those that are.                                        *)
Busy == ipc \in {"stat", "read", "commit"} /\ name # Live
InHand == IF ipc = "commit" THEN raw \cup batch ELSE raw

OffsetsAreGood ==
  \A d \in Days : /\ Place(d, offset[d], spool[d], today)
                  /\ StoredTo(d, offset[d], raw, today)
HandIsGood ==
  Busy => /\ Place(name, at, spool[name], today)
          /\ StoredTo(name, at, InHand, today)
RowsAreGood == \A ip \in Sources : Covers(sources[ip], Stored(ip))

MirrorTypes ==
  /\ SensorTypeOK
  /\ spool \in [Names -> Seq(LogBytes)]
  /\ mtime \in [Days -> 0..MaxDay] /\ liveFrom \in Days
RowTypes ==
  /\ \A l \in raw : l \in Seq(LogBytes) \ {<<>>}
  /\ sources \in [Sources -> [count : Nat, first : 0..MaxDay, last : 0..MaxDay]]
  /\ offset \in [Names -> 0..MaxBytes]
ProcessTypes ==
  /\ ipc \in {"sleep", "next", "stat", "read", "commit"}
  /\ todo \subseteq Names /\ name \in Names /\ at \in 0..MaxBytes
  /\ \A l \in batch : l \in Seq(LogBytes) \ {<<>>}
  /\ pass \in {"none", "begun", "done"}
  /\ ppc \in {"idle", "sources", "spool", "look", "rows"}
  /\ gone \subseteq Names /\ late \in BOOLEAN

CollectorInv ==
  /\ MirrorTypes /\ RowTypes /\ ProcessTypes
  /\ CopiesAreStarts
  /\ OffsetsAreGood
  /\ HandIsGood
  /\ RowsAreGood

(* The type invariant is that of its three parts.                          *)
LEMMA TypesAre == CollectorTypeOK <=> MirrorTypes /\ RowTypes /\ ProcessTypes
BY DEF CollectorTypeOK, MirrorTypes, RowTypes, ProcessTypes

(* The lines of all logs are finitely many.                                *)
LEMMA EventsAreFinite == IsFiniteSet(Events)
<1> DEFINE Pairs == (1..MaxBytes) \X (1..MaxBytes)
           linesOf == [d \in Days |-> {LineAt(d, span) : span \in LineSpans(d)}]
<1>1. IsFiniteSet(Pairs)
  <2>1. 1 \in Int /\ MaxBytes \in Int
    OBVIOUS
  <2>2. IsFiniteSet(1..MaxBytes)
    BY <2>1, FS_Interval
  <2>3. QED
    BY <2>2, FS_Product
<1>2. ASSUME NEW d \in Days PROVE IsFiniteSet(linesOf[d])
  <2> DEFINE line == [span \in Pairs |-> LineAt(d, span)]
  <2>1. LineSpans(d) \in SUBSET Pairs
    BY DEF LineSpans
  <2>2. IsFiniteSet(LineSpans(d))
    <3> HIDE DEF Pairs
    <3> QED BY <1>1, <2>1, FS_Subset
  <2>3. linesOf[d] = {line[span] : span \in LineSpans(d)}
    BY <2>1
  <2>4. IsFiniteSet({line[span] : span \in LineSpans(d)})
    <3> HIDE DEF line
    <3> QED BY <2>2, ImageIsFinite
  <2>5. QED
    BY <2>3, <2>4
<1>3. IsFiniteSet(Days)
  <2>1. 1 \in Int /\ MaxDay \in Int
    OBVIOUS
  <2>2. QED
    BY <2>1, FS_Interval DEF Days
<1>4. Events = UNION {linesOf[d] : d \in Days}
  BY DEF Events
<1>5. IsFiniteSet({linesOf[d] : d \in Days})
  <2> HIDE DEF linesOf
  <2> QED BY <1>3, ImageIsFinite
<1>6. \A T \in {linesOf[d] : d \in Days} : IsFiniteSet(T)
  BY <1>2
<1> HIDE DEF linesOf
<1>7. QED
  BY <1>4, <1>5, <1>6, FS_UNION

(* An event is of the day of its log.                                      *)
LEMMA LinesAreEvents ==
  /\ \A d \in Days : \A span \in LineSpans(d) :
       LineAt(d, span) \in Events /\ DayOf(LineAt(d, span)) = d
  /\ \A l \in Events : DayOf(l) \in Days
<1>1. ASSUME NEW d \in Days, NEW span \in LineSpans(d)
      PROVE  LineAt(d, span) \in Events /\ DayOf(LineAt(d, span)) = d
  <2>1. LineAt(d, span) \in Events
    BY DEF Events
  <2>0. span[1] \in 1..MaxBytes /\ span[2] \in 1..MaxBytes /\ span[1] <= span[2]
    BY SpanIs
  <2>2. span[1] \in Nat /\ span[2] \in Nat /\ span[1] >= 1 /\ span[1] <= span[2]
    BY <2>0
  <2>3. 1 \in 1..(span[2] - (span[1] - 1))
    BY <2>2
  <2>4. LineAt(d, span)[1] = <<d, (span[1] - 1) + 1>>
    BY <2>3 DEF LineAt, Run
  <2>5. QED
    BY <2>1, <2>4 DEF DayOf
<1>2. ASSUME NEW l \in Events PROVE DayOf(l) \in Days
  <2>1. PICK d \in Days : \E span \in LineSpans(d) : l = LineAt(d, span)
    BY DEF Events
  <2>2. QED
    BY <1>1, <2>1
<1>3. QED
  BY <1>1, <1>2

-----------------------------------------------------------------------------
(* The pull, the sensor and the pruner's hand in the spool.                *)

(* Bytes of the log of day d appended to a copy at its own length.         *)
LEMMA GainedCopy ==
  ASSUME NEW s \in Seq(LogBytes), NEW d \in Days, NEW k \in Nat, Len(s) + k <= MaxBytes
  PROVE  LET t == s \o Run(d, Len(s), Len(s) + k)
         IN  /\ t \in Seq(LogBytes) /\ Len(t) = Len(s) + k
             /\ IsPrefixOf(s, d) => IsPrefixOf(t, d)
<1> DEFINE r == Run(d, Len(s), Len(s) + k)
<1>1. Len(s) \in Nat
  OBVIOUS
<1>2. r = [i \in 1..k |-> <<d, Len(s) + i>>]
  BY <1>1 DEF Run
<1>3. r \in [1..k -> LogBytes]
  BY <1>1, <1>2 DEF LogBytes
<1>4. r \in Seq(LogBytes) /\ Len(r) = k
  BY <1>3
<1>5. \A i \in 1..k : r[i] = <<d, Len(s) + i>>
  BY <1>2
<1> HIDE DEF r
<1>6. /\ s \o r \in Seq(LogBytes)
      /\ Len(s \o r) = Len(s) + k
      /\ \A i \in 1..(Len(s) + k) :
           (s \o r)[i] = IF i <= Len(s) THEN s[i] ELSE r[i - Len(s)]
  BY <1>4, ConcatProperties
<1>7. ASSUME IsPrefixOf(s, d), NEW i \in 1..(Len(s) + k) PROVE (s \o r)[i] = <<d, i>>
  <2>1. CASE i <= Len(s)
    BY <1>1, <1>6, <1>7, <2>1 DEF IsPrefixOf
  <2>2. CASE ~ (i <= Len(s))
    <3>1. i - Len(s) \in 1..k /\ Len(s) + (i - Len(s)) = i
      BY <1>1, <2>2
    <3>2. QED
      BY <1>5, <1>6, <2>2, <3>1
  <2>3. QED
    BY <2>1, <2>2
<1>8. QED
  BY <1>6, <1>7 DEF IsPrefixOf, r

(* What may happen to the spool, whoever does it.                          *)
SpoolStep ==
  \/ \E n \in Names, d \in Days : Gain(n, d)
  \/ DropLive
  \/ SensorStep
  \/ \E S \in SUBSET Expired : RemoveCopies(S)

(* What may happen to the copy s of the log of day c: it grows while the   *)
(* pull asks for it, and goes after.                                       *)
Moves(c, s, t, now) ==
  \/ t = s
  \/ ~ Closed(c, now) /\ t # <<>> /\ Len(s) <= Len(t)
  \/ t = <<>> /\ Closed(c, now)

(* A pull that appends to a copy.                                          *)
LEMMA GainKeeps ==
  ASSUME MirrorTypes, CopiesAreStarts, NEW n \in Names, NEW d \in Days, Gain(n, d)
  PROVE  /\ MirrorTypes' /\ CopiesAreStarts' /\ today' = today
         /\ \A c \in Days : Moves(c, spool[c], spool'[c], today)
<1>1. PICK k \in 1..MaxBytes :
        /\ n # Live => d = n /\ n < liveDay /\ today <= n + PullRetain
        /\ Len(spool[n]) + k <= size[d]
        /\ spool' = [spool EXCEPT ![n] = @ \o Run(d, Len(spool[n]), Len(spool[n]) + k)]
        /\ mtime' = Touch(n) /\ liveFrom' = LiveFrom(n, d) /\ UNCHANGED sensorVars
  BY DEF Gain
<1> DEFINE s == spool[n]
           t == s \o Run(d, Len(s), Len(s) + k)
<1>2. s \in Seq(LogBytes) /\ Len(s) \in Nat /\ size[d] \in 0..MaxBytes
  BY DEF MirrorTypes, SensorTypeOK
<1>a. /\ today \in Days /\ today \in Nat /\ today \in 0..MaxDay
      /\ liveDay \in Nat /\ n \in Nat /\ liveDay <= today
  BY DEF MirrorTypes, SensorTypeOK, CopiesAreStarts
<1>3. /\ t \in Seq(LogBytes) /\ Len(t) = Len(s) + k
      /\ IsPrefixOf(s, d) => IsPrefixOf(t, d)
  <2> HIDE DEF s
  <2>1. Len(s) + k <= MaxBytes /\ k \in Nat
    BY <1>1, <1>2 DEF s
  <2>2. QED
    BY <1>2, <2>1, GainedCopy
<1>4. /\ spool'[n] = t /\ \A m \in Names : m # n => spool'[m] = spool[m]
      /\ spool' \in [Names -> Seq(LogBytes)]
  BY <1>1, <1>3 DEF MirrorTypes
<1> HIDE DEF t
<1>5. Len(spool'[n]) = Len(spool[n]) + k /\ spool'[n] # <<>>
  <2>1. Len(t) > 0
    BY <1>2, <1>3
  <2>2. t # <<>>
    BY <2>1, <1>3
  <2>3. QED
    BY <1>3, <1>4, <2>2
<1>b. mtime' = IF n = Live THEN mtime ELSE [mtime EXCEPT ![n] = today]
  BY <1>1 DEF Touch
<1>6. MirrorTypes'
  <2>1. mtime' \in [Days -> 0..MaxDay]
    BY <1>a, <1>b DEF MirrorTypes
  <2>2. liveFrom' \in Days
    BY <1>1 DEF LiveFrom, MirrorTypes
  <2>3. SensorTypeOK'
    BY <1>1 DEF MirrorTypes, SensorTypeOK, sensorVars
  <2>4. QED
    BY <1>4, <2>1, <2>2, <2>3 DEF MirrorTypes
<1>7. CopiesAreStarts'
  <2>1. ASSUME NEW c \in Days PROVE IsPrefixOf(spool'[c], c) /\ Len(spool'[c]) <= size'[c]
    <3>1. CASE c = n
      <4>1. d = n /\ IsPrefixOf(s, d)
        BY <1>1, <3>1 DEF CopiesAreStarts
      <4>2. IsPrefixOf(t, d) /\ Len(t) <= size[d]
        BY <1>1, <1>3, <4>1
      <4>3. QED
        BY <1>1, <1>4, <3>1, <4>1, <4>2 DEF sensorVars
    <3>2. CASE c # n
      BY <1>1, <1>4, <3>2 DEF CopiesAreStarts, sensorVars
    <3>3. QED
      BY <3>1, <3>2
  <2>2. Len(spool'[Live]) <= MaxBytes
    <3>1. CASE n = Live
      BY <1>1, <1>2, <1>5, <3>1
    <3>2. CASE n # Live
      BY <1>4, <3>2 DEF CopiesAreStarts
    <3>3. QED
      BY <3>1, <3>2
  <2>3. ASSUME NEW c \in Days, spool'[c] # <<>> PROVE c < mtime'[c]
    <3>1. CASE c = n
      <4>1. n # Live /\ n < liveDay
        BY <1>1, <3>1
      <4>2. mtime'[c] = today
        BY <1>b, <3>1, <4>1 DEF MirrorTypes
      <4>3. QED
        BY <1>a, <3>1, <4>1, <4>2
    <3>2. CASE c # n
      <4>1. mtime'[c] = mtime[c]
        BY <1>b, <3>2 DEF MirrorTypes
      <4>2. QED
        BY <1>4, <2>3, <3>2, <4>1 DEF CopiesAreStarts
    <3>3. QED
      BY <3>1, <3>2
  <2>4. liveDay' <= today'
    BY <1>1 DEF sensorVars, CopiesAreStarts
  <2>5. QED
    BY <2>1, <2>2, <2>3, <2>4 DEF CopiesAreStarts, IsPrefixOf
<1>8. ASSUME NEW c \in Days, c = n
      PROVE  ~ Closed(c, today) /\ Len(spool[c]) <= Len(spool'[c])
  BY <1>1, <1>2, <1>a, <1>5, <1>8 DEF Closed
<1>9. QED
  BY <1>1, <1>4, <1>5, <1>6, <1>7, <1>8 DEF sensorVars, Moves

(* A step of the sensor.                                                   *)
LEMMA SensorKeeps ==
  ASSUME MirrorTypes, CopiesAreStarts, SensorStep
  PROVE  MirrorTypes' /\ CopiesAreStarts' /\ today <= today' /\ spool' = spool
<1>1. /\ today \in Nat /\ liveDay \in Nat /\ liveDay \in Days /\ liveDay <= today
      /\ dated \in SUBSET Days /\ today \in 1..MaxDay /\ size \in [Days -> 0..MaxBytes]
  BY DEF MirrorTypes, SensorTypeOK, CopiesAreStarts, Days
<1>2. UNCHANGED <<spool, mtime, liveFrom>>
  BY DEF SensorStep
<1>3. /\ SensorTypeOK' /\ today <= today' /\ liveDay' <= today'
      /\ \A d \in Days : size[d] <= size'[d]
  <2>0. SensorTypeOK /\ \A d \in Days : size[d] \in Nat
    BY <1>1 DEF MirrorTypes
  <2>1. CASE NextDay
    <3>1. today + 1 \in Days /\ today <= today + 1 /\ liveDay <= today + 1
      BY <1>1, <2>1 DEF NextDay, Days
    <3>2. QED
      BY <2>0, <2>1, <3>1 DEF NextDay, SensorTypeOK
  <2>2. CASE Rotate
    <3>1. dated \cup {liveDay} \in SUBSET Days
      BY <1>1
    <3>2. QED
      BY <1>1, <2>0, <2>2, <3>1 DEF Rotate, SensorTypeOK
  <2>3. CASE Write
    <3>1. size[liveDay] + 1 \in 0..MaxBytes /\ size[liveDay] \in Nat
      BY <1>1, <2>3 DEF Write
    <3>2. /\ size' \in [Days -> 0..MaxBytes]
          /\ \A d \in Days : size[d] <= size'[d]
      BY <1>1, <2>0, <2>3, <3>1 DEF Write
    <3>3. QED
      BY <1>1, <2>0, <2>3, <3>2 DEF Write, SensorTypeOK
  <2>4. ASSUME NEW d \in dated, PruneAge(d) \/ PruneSize(d)
        PROVE  /\ SensorTypeOK' /\ today <= today' /\ liveDay' <= today'
               /\ \A c \in Days : size[c] <= size'[c]
    <3>1. UNCHANGED <<today, size, liveDay>> /\ dated' = dated \ {d}
      BY <2>4 DEF PruneAge, PruneSize
    <3>2. QED
      BY <1>1, <2>0, <3>1 DEF SensorTypeOK
  <2>5. QED
    BY <2>1, <2>2, <2>3, <2>4 DEF SensorStep
<1>4. ASSUME NEW d \in Days PROVE Len(spool[d]) <= size'[d]
  <2>1. /\ size[d] \in Nat /\ size'[d] \in Nat /\ size[d] <= size'[d]
        /\ spool[d] \in Seq(LogBytes)
    BY <1>1, <1>3 DEF SensorTypeOK, MirrorTypes
  <2>2. Len(spool[d]) \in Nat /\ Len(spool[d]) <= size[d]
    BY <2>1 DEF CopiesAreStarts
  <2>3. QED
    BY <2>1, <2>2
<1>5. QED
  BY <1>2, <1>3, <1>4 DEF MirrorTypes, CopiesAreStarts, IsPrefixOf

(* After a step of the spool the copies are starts of their logs still; a  *)
(* copy that is there grows, unless it goes for good.                      *)
LEMMA SpoolKeeps ==
  ASSUME MirrorTypes, CopiesAreStarts, SpoolStep
  PROVE  /\ MirrorTypes' /\ CopiesAreStarts' /\ today <= today'
         /\ \A c \in Days : Moves(c, spool[c], spool'[c], today)
<1>0. /\ today \in Nat /\ liveDay \in Nat /\ liveDay \in Days /\ liveDay \in 1..MaxDay
      /\ \A d \in Days : mtime[d] \in Nat /\ size[d] \in Nat
  BY DEF MirrorTypes, SensorTypeOK, Days
<1>00. <<>> \in Seq(LogBytes) /\ Len(<<>>) = 0
  OBVIOUS
<1>1. ASSUME NEW n \in Names, NEW d \in Days, Gain(n, d)
      PROVE  /\ MirrorTypes' /\ CopiesAreStarts' /\ today <= today'
             /\ \A c \in Days : Moves(c, spool[c], spool'[c], today)
  BY <1>0, <1>1, GainKeeps
<1>2. CASE DropLive
  <2>0. liveFrom' \in Days
    BY <1>2, <1>0 DEF DropLive, MirrorTypes, Days
  <2>2. /\ spool'[Live] = <<>> /\ spool' \in [Names -> Seq(LogBytes)]
        /\ \A c \in Days : spool'[c] = spool[c]
        /\ UNCHANGED <<today, size, liveDay, dated, mtime>>
    BY <1>2, <1>00 DEF DropLive, MirrorTypes
  <2>3. MirrorTypes'
    BY <2>0, <2>2 DEF MirrorTypes, SensorTypeOK
  <2>4. CopiesAreStarts'
    <3>1. Len(spool'[Live]) <= MaxBytes
      BY <1>00, <2>2
    <3>2. QED
      BY <2>2, <3>1 DEF CopiesAreStarts, IsPrefixOf
  <2>5. QED
    BY <1>0, <2>2, <2>3, <2>4 DEF Moves
<1>3. CASE SensorStep
  BY <1>3, SensorKeeps DEF Moves
<1>4. ASSUME NEW S \in SUBSET Expired, RemoveCopies(S)
      PROVE  /\ MirrorTypes' /\ CopiesAreStarts' /\ today <= today'
             /\ \A c \in Days : Moves(c, spool[c], spool'[c], today)
  <2>2. /\ spool' = [n \in Names |-> IF n \in S THEN <<>> ELSE spool[n]]
        /\ UNCHANGED <<today, size, liveDay, dated, mtime, liveFrom>>
    BY <1>4 DEF RemoveCopies
  <2>3. MirrorTypes'
    BY <1>00, <2>2 DEF MirrorTypes, SensorTypeOK
  <2>4. \A n \in Names : spool'[n] = spool[n] \/ spool'[n] = <<>>
    BY <2>2
  <2>5. CopiesAreStarts'
    <3>1. ASSUME NEW c \in Days PROVE IsPrefixOf(spool'[c], c) /\ Len(spool'[c]) <= size[c]
      <4>1. CASE spool'[c] = spool[c]
        BY <4>1 DEF CopiesAreStarts
      <4>2. CASE spool'[c] = <<>>
        <5>1. Len(spool'[c]) = 0
          BY <4>2, <1>00
        <5>2. QED
          BY <5>1, <1>0 DEF IsPrefixOf
      <4>3. QED
        BY <4>1, <4>2, <2>4
    <3>2. Len(spool'[Live]) <= MaxBytes
      BY <1>00, <2>4 DEF CopiesAreStarts
    <3>3. QED
      BY <2>2, <2>4, <3>1, <3>2 DEF CopiesAreStarts, IsPrefixOf
  <2>6. ASSUME NEW c \in Days, c \in S PROVE Closed(c, today)
    <3>1. spool[c] # <<>> /\ mtime[c] + SpoolRetain <= today
      BY <2>6 DEF Expired
    <3>2. c < mtime[c] /\ c \in Nat
      BY <3>1 DEF CopiesAreStarts
    <3>3. QED
      BY <1>0, <3>1, <3>2 DEF Closed
  <2>7. ASSUME NEW c \in Days PROVE Moves(c, spool[c], spool'[c], today)
    BY <2>2, <2>6 DEF Moves
  <2>8. today <= today'
    BY <1>0, <2>2
  <2>9. QED
    BY <2>3, <2>5, <2>7, <2>8
<1>5. QED
  BY <1>1, <1>2, <1>3, <1>4 DEF SpoolStep

(* A good place is good after a step of the spool.                         *)
LEMMA PlaceStays ==
  ASSUME NEW d \in Days, NEW p \in Nat, NEW s \in Seq(LogBytes), NEW t \in Seq(LogBytes),
         NEW now \in Nat, NEW then \in Nat, now <= then,
         Moves(d, s, t, now), Place(d, p, s, now)
  PROVE  Place(d, p, t, then)
<1>1. Len(s) \in Nat /\ Len(t) \in Nat /\ d \in Nat
  OBVIOUS
<1>2. Closed(d, now) => Closed(d, then)
  BY <1>1 DEF Closed
<1>3. CASE t = s
  BY <1>2, <1>3 DEF Place
<1>4. CASE ~ Closed(d, now) /\ t # <<>> /\ Len(s) <= Len(t)
  <2>1. CASE s = <<>>
    <3>1. p = 0
      BY <1>4, <2>1 DEF Place
    <3>2. QED
      BY <1>1, <1>4, <3>1 DEF Place
  <2>2. CASE s # <<>>
    BY <1>1, <1>4, <2>2 DEF Place
  <2>3. QED
    BY <2>1, <2>2
<1>5. CASE t = <<>> /\ Closed(d, now)
  BY <1>2, <1>5 DEF Place
<1>6. QED
  BY <1>3, <1>4, <1>5 DEF Moves

(* What is stored up to a place is so later, as more is stored.            *)
LEMMA StoredStays ==
  ASSUME NEW d \in Days, NEW p, NEW S, NEW T, NEW now \in Nat, NEW then \in Nat, now <= then,
         \A l \in S \cap Events : l \in T \/ DayOf(l) + RawRetain <= then,
         StoredTo(d, p, S, now)
  PROVE  StoredTo(d, p, T, then)
<1> SUFFICES ASSUME NEW span \in LineSpans(d), span[2] < p
             PROVE  LineAt(d, span) \in T \/ d + RawRetain <= then
  BY DEF StoredTo
<1>1. LineAt(d, span) \in S \/ d + RawRetain <= now
  BY DEF StoredTo
<1>2. LineAt(d, span) \in Events /\ DayOf(LineAt(d, span)) = d
  BY LinesAreEvents
<1>3. d \in Nat
  OBVIOUS
<1>4. QED
  BY <1>1, <1>2, <1>3

(* A step of the spool alone: offsets and what is in hand stay good.       *)
LEMMA SpoolStepKeeps ==
  ASSUME CollectorInv, SpoolStep, UNCHANGED <<dbVars, ipc, todo, name, at, batch, ppc, gone>>,
         pass' \in {"none", "begun", "done"}, late' \in BOOLEAN
  PROVE  CollectorInv'
<1>1. MirrorTypes /\ CopiesAreStarts /\ RowTypes /\ ProcessTypes
  BY DEF CollectorInv
<1>2. /\ MirrorTypes' /\ CopiesAreStarts' /\ today <= today'
      /\ \A c \in Days : Moves(c, spool[c], spool'[c], today)
  BY <1>1, SpoolKeeps
<1>3. UNCHANGED <<raw, sources, offset, ipc, todo, name, at, batch, ppc, gone>>
  BY DEF dbVars
<1>4. /\ today \in Nat /\ today' \in Nat
      /\ \A d \in Days : spool[d] \in Seq(LogBytes) /\ spool'[d] \in Seq(LogBytes)
  BY <1>1, <1>2 DEF MirrorTypes, SensorTypeOK
<1>5. ASSUME NEW d \in Days, NEW p \in Nat, NEW S,
             Place(d, p, spool[d], today), StoredTo(d, p, S, today)
      PROVE  Place(d, p, spool'[d], today') /\ StoredTo(d, p, S, today')
  <2>1. Place(d, p, spool'[d], today')
    BY <1>2, <1>4, <1>5, PlaceStays
  <2>2. StoredTo(d, p, S, today')
    BY <1>2, <1>4, <1>5, StoredStays
  <2>3. QED
    BY <2>1, <2>2
<1>6. OffsetsAreGood'
  <2>1. \A d \in Days : offset[d] \in Nat
    BY <1>1 DEF RowTypes
  <2>2. \A d \in Days : /\ Place(d, offset[d], spool'[d], today')
                        /\ StoredTo(d, offset[d], raw, today')
    BY <1>5, <2>1 DEF CollectorInv, OffsetsAreGood
  <2>3. QED
    BY <1>3, <2>2 DEF OffsetsAreGood
<1>7. HandIsGood'
  <2>1. Busy' = Busy /\ InHand' = InHand
    BY <1>3 DEF Busy, InHand
  <2>2. CASE Busy
    <3>1. name \in Days /\ at \in Nat
      BY <1>1, <2>2 DEF Busy, ProcessTypes
    <3>2. Place(name, at, spool'[name], today') /\ StoredTo(name, at, InHand, today')
      BY <1>5, <2>2, <3>1 DEF CollectorInv, HandIsGood
    <3>3. QED
      BY <1>3, <2>1, <3>2 DEF HandIsGood
  <2>3. CASE ~ Busy
    BY <2>1, <2>3 DEF HandIsGood
  <2>4. QED
    BY <2>2, <2>3
<1>8. RowsAreGood'
  BY <1>3 DEF CollectorInv, RowsAreGood, Stored
<1>9. RowTypes' /\ ProcessTypes'
  BY <1>1, <1>3 DEF RowTypes, ProcessTypes
<1>10. QED
  BY <1>2, <1>6, <1>7, <1>8, <1>9 DEF CollectorInv

(* The pull.                                                               *)
LEMMA PullKeeps == CollectorInv /\ Pull => CollectorInv'
<1> SUFFICES ASSUME CollectorInv, Pull PROVE CollectorInv'
  OBVIOUS
<1>1. SpoolStep
  BY DEF Pull, SpoolStep
<1>2. UNCHANGED <<dbVars, ipc, todo, name, at, batch, ppc, gone, pass, late>>
  BY DEF Pull, ingestVars, pruneVars
<1>3. pass \in {"none", "begun", "done"} /\ late \in BOOLEAN
  BY DEF CollectorInv, ProcessTypes
<1>4. QED
  BY <1>1, <1>2, <1>3, SpoolStepKeeps

(* The sensor, and midnight.                                               *)
LEMMA SensorKeepsInv == CollectorInv /\ Sensor => CollectorInv'
<1> SUFFICES ASSUME CollectorInv, Sensor PROVE CollectorInv'
  OBVIOUS
<1>1. SpoolStep
  BY DEF Sensor, SpoolStep
<1>2. UNCHANGED <<dbVars, ipc, todo, name, at, batch, ppc, gone>>
  BY DEF Sensor
<1>3. pass \in {"none", "begun", "done"} /\ late \in BOOLEAN
  BY DEF CollectorInv, ProcessTypes
<1>4. pass' \in {"none", "begun", "done"}
  BY <1>3 DEF Sensor
<1>5. late' \in BOOLEAN
  <2>1. CASE today' = today
    BY <1>3, <2>1 DEF Sensor
  <2>2. CASE today' # today
    <3>1. late' = (ppc # "idle")
      BY <2>2 DEF Sensor
    <3>2. QED
      BY <3>1
  <2>3. QED
    BY <2>1, <2>2
<1>6. QED
  BY <1>1, <1>2, <1>4, <1>5, SpoolStepKeeps

(* Steps that leave the spool, the rows and what is in hand alone, or let  *)
(* go of what was in hand.                                                 *)
LEMMA IdleStepKeeps ==
  ASSUME CollectorInv, ProcessTypes', UNCHANGED <<mirrorVars, dbVars>>,
         \/ ~ Busy'
         \/ UNCHANGED <<ipc, name, at, batch>>
  PROVE  CollectorInv'
<1>1. UNCHANGED <<today, size, liveDay, dated, spool, mtime, liveFrom, raw, sources, offset>>
  BY DEF mirrorVars, dbVars
<1>2. HandIsGood'
  <2>1. CASE ~ Busy'
    BY <2>1 DEF HandIsGood
  <2>2. CASE UNCHANGED <<ipc, name, at, batch>>
    BY <1>1, <2>2 DEF CollectorInv, HandIsGood, Busy, InHand
  <2>3. QED
    BY <2>1, <2>2
<1>3. MirrorTypes' /\ RowTypes'
  BY <1>1 DEF CollectorInv, MirrorTypes, SensorTypeOK, RowTypes
<1>4. CopiesAreStarts'
  BY <1>1 DEF CollectorInv, CopiesAreStarts
<1>5. OffsetsAreGood' /\ RowsAreGood'
  BY <1>1 DEF CollectorInv, OffsetsAreGood, RowsAreGood, Stored
<1>6. QED
  BY <1>2, <1>3, <1>4, <1>5 DEF CollectorInv

(* The ingester between two files, and the steps of the pruner that look.  *)
LEMMA LooksKeep ==
  CollectorInv /\ (Glob \/ EndPass \/ StatDone \/ ReadGone \/ IngestCrash
                     \/ PruneRawDone \/ PruneLook \/ PruneKill)
    => CollectorInv'
<1> SUFFICES ASSUME CollectorInv,
                    Glob \/ EndPass \/ StatDone \/ ReadGone \/ IngestCrash
                      \/ PruneRawDone \/ PruneLook \/ PruneKill
             PROVE  CollectorInv'
  OBVIOUS
<1>1. ProcessTypes
  BY DEF CollectorInv
<1>2. \A l \in {} : l \in Seq(LogBytes) \ {<<>>}
  OBVIOUS
<1>3. 0 \in 0..MaxBytes
  OBVIOUS
<1>4. CASE Glob
  <2>1. ProcessTypes' /\ ~ Busy'
    BY <1>1, <1>4 DEF Glob, ProcessTypes, Busy, pruneVars
  <2>2. QED
    BY <1>4, <2>1, IdleStepKeeps DEF Glob
<1>5. CASE EndPass
  <2>1. ProcessTypes' /\ ~ Busy'
    BY <1>1, <1>5 DEF EndPass, ProcessTypes, Busy, pruneVars
  <2>2. QED
    BY <1>5, <2>1, IdleStepKeeps DEF EndPass
<1>6. CASE StatDone \/ ReadGone
  <2>1. ProcessTypes' /\ ~ Busy' /\ UNCHANGED <<mirrorVars, dbVars>>
    BY <1>1, <1>3, <1>6 DEF StatDone, ReadGone, Skip, ProcessTypes, Busy, pruneVars
  <2>2. QED
    BY <2>1, IdleStepKeeps
<1>7. CASE IngestCrash
  <2>1. ProcessTypes' /\ ~ Busy' /\ UNCHANGED <<mirrorVars, dbVars>>
    BY <1>1, <1>2, <1>3, <1>7 DEF IngestCrash, ProcessTypes, Busy, pruneVars
  <2>2. QED
    BY <2>1, IdleStepKeeps
<1>8. CASE PruneRawDone \/ PruneLook
  <2>1. ProcessTypes' /\ UNCHANGED <<mirrorVars, dbVars, ipc, name, at, batch>>
    BY <1>1, <1>8 DEF PruneRawDone, PruneLook, ProcessTypes, ingestVars
  <2>2. QED
    BY <2>1, IdleStepKeeps
<1>9. CASE PruneKill
  <2>1. ProcessTypes' /\ UNCHANGED <<mirrorVars, dbVars, ipc, name, at, batch>>
    BY <1>1, <1>9 DEF PruneKill, PruneEnds, ProcessTypes
  <2>2. QED
    BY <2>1, IdleStepKeeps
<1>10. QED
  BY <1>4, <1>5, <1>6, <1>7, <1>8, <1>9

(* process_file begins: the file has the place its row says.               *)
LEMMA ReadRowKeeps == CollectorInv /\ ReadRow => CollectorInv'
<1> SUFFICES ASSUME CollectorInv, ReadRow PROVE CollectorInv'
  OBVIOUS
<1> DEFINE n == Min(todo)
<1>1. n \in Names
  <2>1. todo \in SUBSET Nat /\ todo # {} /\ todo \subseteq Names
    BY DEF CollectorInv, ProcessTypes, ReadRow
  <2>2. QED
    BY <2>1, MinOfNat
<1>2. /\ name' = n /\ todo' = todo \ {n} /\ at' = offset[n] /\ ipc' = "stat"
      /\ UNCHANGED <<today, size, liveDay, dated, spool, mtime, liveFrom,
                     raw, sources, offset, batch, pass, ppc, gone, late>>
  BY DEF ReadRow, mirrorVars, dbVars, pruneVars
<1> HIDE DEF n
<1>3. ProcessTypes'
  BY <1>1, <1>2 DEF CollectorInv, ProcessTypes, RowTypes
<1>4. HandIsGood'
  <2>1. InHand' = raw
    BY <1>2 DEF InHand
  <2>2. ASSUME n # Live
        PROVE  Place(n, offset[n], spool[n], today) /\ StoredTo(n, offset[n], raw, today)
    BY <1>1, <2>2 DEF CollectorInv, OffsetsAreGood
  <2>3. QED
    BY <1>2, <2>1, <2>2 DEF HandIsGood, Busy
<1>5. QED
  BY <1>2, <1>3, <1>4 DEF CollectorInv, MirrorTypes, SensorTypeOK, RowTypes,
                          CopiesAreStarts, OffsetsAreGood, RowsAreGood, Stored

(* The size: the start of a file is a good place too.                      *)
LEMMA StatKeeps == CollectorInv /\ Stat => CollectorInv'
<1> SUFFICES ASSUME CollectorInv, Stat PROVE CollectorInv'
  OBVIOUS
<1>1. /\ ipc = "stat" /\ at' = Rescan /\ ipc' = "read" /\ (Rescan = 0 \/ Rescan = at)
      /\ UNCHANGED <<today, size, liveDay, dated, spool, mtime, liveFrom,
                     raw, sources, offset, todo, name, batch, pass, ppc, gone, late>>
  BY DEF Stat, Rescan, mirrorVars, dbVars, pruneVars
<1>2. ProcessTypes'
  BY <1>1 DEF CollectorInv, ProcessTypes
<1>3. HandIsGood'
  <2>1. InHand' = raw /\ InHand = raw /\ Busy' = Busy
    BY <1>1 DEF InHand, Busy
  <2>2. CASE at' = at
    BY <1>1, <2>1, <2>2 DEF CollectorInv, HandIsGood
  <2>3. CASE Busy /\ at' = 0
    <3>1. name \in Days /\ spool[name] \in Seq(LogBytes)
      BY <2>3 DEF CollectorInv, MirrorTypes, ProcessTypes, Busy
    <3>2. Place(name, 0, spool[name], today)
      <4>1. Len(spool[name]) \in Nat
        BY <3>1
      <4>2. QED
        BY <4>1 DEF Place
    <3>3. StoredTo(name, 0, raw, today)
      <4>1. \A span \in LineSpans(name) : span[2] \in 1..MaxBytes
        BY <3>1, SpanIs
      <4>2. QED
        BY <4>1 DEF StoredTo
    <3>4. QED
      BY <1>1, <2>1, <2>3, <3>2, <3>3 DEF HandIsGood
  <2>4. QED
    BY <1>1, <2>1, <2>2, <2>3 DEF HandIsGood
<1>4. QED
  BY <1>1, <1>2, <1>3 DEF CollectorInv, MirrorTypes, SensorTypeOK, RowTypes,
                          CopiesAreStarts, OffsetsAreGood, RowsAreGood, Stored

(* The lines: every one up to the new place is stored or in the batch.     *)
LEMMA ReadKeeps == CollectorInv /\ Read => CollectorInv'
<1> SUFFICES ASSUME CollectorInv, Read PROVE CollectorInv'
  OBVIOUS
<1> DEFINE s == spool[name]
<1>1. /\ ipc = "read" /\ s # <<>> /\ batch' = LinesFrom(s, at)
      /\ at' = OffsetAfter(s, at) /\ ipc' = "commit"
      /\ UNCHANGED <<today, size, liveDay, dated, spool, mtime, liveFrom,
                     raw, sources, offset, todo, name, pass, ppc, gone, late>>
  BY DEF Read, mirrorVars, dbVars, pruneVars
<1>2. /\ s \in Seq(LogBytes) /\ at \in Nat /\ at \in 0..MaxBytes /\ name \in Names
      /\ Len(s) \in Nat
  BY DEF CollectorInv, MirrorTypes, ProcessTypes
<1>3. Len(s) <= MaxBytes
  <2>1. CASE name = Live
    BY <2>1 DEF CollectorInv, CopiesAreStarts
  <2>2. CASE name # Live
    <3>1. name \in Days /\ size[name] \in 0..MaxBytes
      BY <1>2, <2>2 DEF CollectorInv, MirrorTypes, SensorTypeOK
    <3>2. Len(s) <= size[name]
      BY <3>1 DEF CollectorInv, CopiesAreStarts
    <3>3. QED
      BY <1>2, <3>1, <3>2
  <2>3. QED
    BY <2>1, <2>2
<1>4. /\ at' \in Nat /\ at <= at'
      /\ at' = at \/ (at' <= Len(s) /\ s[at'] \in Newline /\ at' >= 1)
  <2> HIDE DEF s
  <2>1. QED
    BY <1>1, <1>2, OffsetAfterIs
<1>5. ProcessTypes'
  <2>1. at' \in 0..MaxBytes
    BY <1>2, <1>3, <1>4
  <2>2. \A l \in batch' : l \in Seq(LogBytes) \ {<<>>}
    <3> HIDE DEF s
    <3> QED BY <1>1, <1>2, LinesAreSeqs
  <2>3. QED
    BY <1>1, <2>1, <2>2 DEF CollectorInv, ProcessTypes
<1>6. HandIsGood'
  <2> SUFFICES ASSUME Busy'
               PROVE  Place(name, at', s, today) /\ StoredTo(name, at', raw \cup batch', today)
    BY <1>1 DEF HandIsGood, InHand
  <2>1. Busy /\ InHand = raw /\ name \in Days
    BY <1>1, <1>2 DEF Busy, InHand
  <2>2. /\ Place(name, at, s, today) /\ StoredTo(name, at, raw, today)
        /\ IsPrefixOf(s, name)
    BY <2>1 DEF CollectorInv, HandIsGood, CopiesAreStarts
  <2> HIDE DEF s
  <2>3. Place(name, at', s, today)
    <3>1. CASE at' = at
      BY <2>2, <3>1
    <3>2. CASE at' <= Len(s) /\ s[at'] \in Newline /\ at' >= 1
      <4>1. s[at'] = <<name, at'>>
        BY <1>2, <1>4, <2>2, <3>2 DEF IsPrefixOf
      <4>2. QED
        BY <1>1, <3>2, <4>1 DEF Place
    <3>3. QED
      BY <1>4, <3>1, <3>2
  <2>4. StoredTo(name, at', raw \cup batch', today)
    <3> SUFFICES ASSUME NEW span \in LineSpans(name), span[2] < at'
                 PROVE  LineAt(name, span) \in raw \cup batch' \/ name + RawRetain <= today
      BY DEF StoredTo
    <3>1. CASE span[2] < at
      BY <2>2, <3>1 DEF StoredTo
    <3>2. CASE ~ (span[2] < at)
      <4>1. at > 0 => <<name, at>> \in Newline
        BY <2>2 DEF Place
      <4>2. span[2] < OffsetAfter(s, at)
        BY <1>1
      <4>3. LineAt(name, span) \in LinesFrom(s, at)
        BY <1>2, <2>1, <2>2, <3>2, <4>1, <4>2, ReadsWholeLines
      <4>4. QED
        BY <1>1, <4>3
    <3>3. QED
      BY <3>1, <3>2
  <2>5. QED
    BY <2>3, <2>4
<1>7. QED
  BY <1>1, <1>5, <1>6 DEF CollectorInv, MirrorTypes, SensorTypeOK, RowTypes,
                          CopiesAreStarts, OffsetsAreGood, RowsAreGood, Stored

-----------------------------------------------------------------------------
(* The commit.                                                             *)

(* A row that is credited with new lines counts them, and spans their days. *)
LEMMA CreditCovers ==
  ASSUME NEW row \in [count : Nat, first : 0..MaxDay, last : 0..MaxDay],
         NEW old \in SUBSET Events, NEW lines \in SUBSET Events, old \cap lines = {},
         Covers(row, old)
  PROVE  /\ Credit(row, lines) \in [count : Nat, first : 0..MaxDay, last : 0..MaxDay]
         /\ Covers(Credit(row, lines), old \cup lines)
<1>1. /\ IsFiniteSet(old) /\ IsFiniteSet(lines)
      /\ Cardinality(old) \in Nat /\ Cardinality(lines) \in Nat
  BY EventsAreFinite, FS_Subset, FS_CardinalityType
<1>2. CASE lines = {}
  BY <1>2 DEF Credit
<1>3. CASE lines # {}
  <2> DEFINE days == {DayOf(l) : l \in lines}
             row2 == Credit(row, lines)
  <2>0. \A l \in lines : DayOf(l) \in Days
    BY LinesAreEvents
  <2>00. \A d \in Days : d \in Nat /\ d \in 0..MaxDay /\ d <= MaxDay
    BY DEF Days
  <2>000. days # {} /\ \A x \in days : x \in Days
    BY <1>3, <2>0
  <2>1. days \in SUBSET Nat /\ days # {} /\ \A x \in days : x \in 0..MaxDay /\ x <= MaxDay
    <3> HIDE DEF days
    <3> QED BY <2>00, <2>000
  <2>2. /\ Min(days) \in days /\ \A x \in days : Min(days) <= x
        /\ Max(days) \in days /\ \A x \in days : x <= Max(days)
    <3> HIDE DEF days
    <3>1. MaxDay \in Nat
      OBVIOUS
    <3>2. QED
      BY <2>1, <3>1, MinOfNat, MaxOfNat
  <2>3. row2 = [count |-> row.count + Cardinality(lines),
                first |-> IF row.count = 0 \/ Min(days) < row.first
                            THEN Min(days) ELSE row.first,
                last  |-> IF Max(days) > row.last THEN Max(days) ELSE row.last]
    BY <1>3 DEF Credit
  <2>4. \A l \in lines : DayOf(l) \in days
    OBVIOUS
  <2>5. \A l \in old \cup lines : DayOf(l) \in Nat
    BY LinesAreEvents
  <2> HIDE DEF days, row2
  <2>6. /\ Min(days) \in 0..MaxDay /\ Max(days) \in 0..MaxDay
        /\ row.first \in 0..MaxDay /\ row.last \in 0..MaxDay /\ row.count \in Nat
    BY <2>1, <2>2
  <2>7. row2 \in [count : Nat, first : 0..MaxDay, last : 0..MaxDay]
    BY <1>1, <2>3, <2>6
  <2>8. Cardinality(old \cup lines) <= row2.count
    <3>1. Cardinality(old \cup lines) = Cardinality(old) + Cardinality(lines)
      <4>1. Cardinality(old \cap lines) = 0
        BY FS_EmptySet
      <4>2. Cardinality(old \cup lines)
              = Cardinality(old) + Cardinality(lines) - Cardinality(old \cap lines)
        BY <1>1, FS_Union
      <4>3. QED
        BY <1>1, <4>1, <4>2
    <3>2. QED
      BY <1>1, <2>3, <2>6, <3>1 DEF Covers
  <2>9. ASSUME NEW l \in old PROVE row2.first <= DayOf(l) /\ DayOf(l) <= row2.last
    <3>1. row.count # 0
      <4>1. old # {} /\ Cardinality(old) <= row.count
        BY <2>9 DEF Covers
      <4>2. Cardinality(old) # 0
        BY <1>1, <4>1, FS_EmptySet
      <4>3. QED
        BY <1>1, <2>6, <4>1, <4>2
    <3>2. row.first <= DayOf(l) /\ DayOf(l) <= row.last /\ DayOf(l) \in Nat
      BY <2>5, <2>9 DEF Covers
    <3>3. /\ row2.first = IF row.count = 0 \/ Min(days) < row.first
                            THEN Min(days) ELSE row.first
          /\ row2.last = IF Max(days) > row.last THEN Max(days) ELSE row.last
      BY <2>3
    <3>4. QED
      BY <2>6, <3>1, <3>2, <3>3
  <2>10. ASSUME NEW l \in lines PROVE row2.first <= DayOf(l) /\ DayOf(l) <= row2.last
    <3>1. Min(days) <= DayOf(l) /\ DayOf(l) <= Max(days) /\ DayOf(l) \in Nat
      BY <2>2, <2>4, <2>5
    <3>2. /\ row2.first = IF row.count = 0 \/ Min(days) < row.first
                            THEN Min(days) ELSE row.first
          /\ row2.last = IF Max(days) > row.last THEN Max(days) ELSE row.last
      BY <2>3
    <3>3. QED
      BY <2>6, <3>1, <3>2
  <2>11. QED
    BY <2>7, <2>8, <2>9, <2>10 DEF Covers, row2
<1>4. QED
  BY <1>2, <1>3

(* The commit stores the batch, its credit and its place together.         *)
LEMMA CommitKeeps == CollectorInv /\ Commit => CollectorInv'
<1> SUFFICES ASSUME CollectorInv, Commit PROVE CollectorInv'
  OBVIOUS
<1>1. /\ ipc = "commit" /\ raw' = raw \cup batch
      /\ sources' = [ip \in Sources |-> Credit(sources[ip], NewFrom(ip))]
      /\ offset' = [offset EXCEPT ![name] = at]
      /\ ipc' = "next" /\ name' = Live /\ at' = 0 /\ batch' = {}
      /\ UNCHANGED <<today, size, liveDay, dated, spool, mtime, liveFrom, todo, pass,
                     ppc, gone, late>>
  BY DEF Commit, mirrorVars, pruneVars
<1>2. name \in Names /\ at \in 0..MaxBytes /\ today \in Nat
  BY DEF CollectorInv, ProcessTypes, MirrorTypes, SensorTypeOK
<1>3. ASSUME NEW ip \in Sources
      PROVE  /\ sources'[ip] \in [count : Nat, first : 0..MaxDay, last : 0..MaxDay]
             /\ Covers(sources'[ip], Stored(ip)')
  <2>1. sources[ip] \in [count : Nat, first : 0..MaxDay, last : 0..MaxDay]
    BY DEF CollectorInv, RowTypes
  <2>2. Stored(ip) \in SUBSET Events /\ NewFrom(ip) \in SUBSET Events
    BY DEF Stored, NewFrom
  <2>3. Stored(ip) \cap NewFrom(ip) = {}
    BY DEF Stored, NewFrom, New
  <2>4. Covers(sources[ip], Stored(ip))
    BY DEF CollectorInv, RowsAreGood
  <2>5. Stored(ip)' = Stored(ip) \cup NewFrom(ip)
    BY <1>1 DEF Stored, NewFrom, New
  <2>6. sources'[ip] = Credit(sources[ip], NewFrom(ip))
    BY <1>1
  <2>7. PICK row, old, lines :
          row = sources[ip] /\ old = Stored(ip) /\ lines = NewFrom(ip)
    OBVIOUS
  <2>8. /\ Credit(row, lines) \in [count : Nat, first : 0..MaxDay, last : 0..MaxDay]
        /\ Covers(Credit(row, lines), old \cup lines)
    BY <2>1, <2>2, <2>3, <2>4, <2>7, CreditCovers
  <2>9. QED
    BY <2>5, <2>6, <2>7, <2>8
<1>4. RowTypes'
  <2>1. \A l \in raw' : l \in Seq(LogBytes) \ {<<>>}
    BY <1>1 DEF CollectorInv, RowTypes, ProcessTypes
  <2>2. sources' \in [Sources -> [count : Nat, first : 0..MaxDay, last : 0..MaxDay]]
    BY <1>1, <1>3
  <2>3. offset' \in [Names -> 0..MaxBytes]
    BY <1>1, <1>2 DEF CollectorInv, RowTypes
  <2>4. QED
    BY <2>1, <2>2, <2>3 DEF RowTypes
<1>5. OffsetsAreGood'
  <2> SUFFICES ASSUME NEW d \in Days
               PROVE  /\ Place(d, offset'[d], spool[d], today)
                      /\ StoredTo(d, offset'[d], raw', today)
    BY <1>1 DEF OffsetsAreGood
  <2>1. CASE d = name
    <3>1. Busy /\ InHand = raw'
      BY <1>1, <2>1 DEF Busy, InHand
    <3>2. offset'[d] = at
      BY <1>1, <1>2, <2>1 DEF CollectorInv, RowTypes
    <3>3. QED
      BY <2>1, <3>1, <3>2 DEF CollectorInv, HandIsGood
  <2>2. CASE d # name
    <3>1. offset'[d] = offset[d]
      BY <1>1, <2>2 DEF CollectorInv, RowTypes
    <3>2. Place(d, offset[d], spool[d], today) /\ StoredTo(d, offset[d], raw, today)
      BY DEF CollectorInv, OffsetsAreGood
    <3>3. StoredTo(d, offset[d], raw', today)
      BY <1>1, <3>2 DEF StoredTo
    <3>4. QED
      BY <3>1, <3>2, <3>3
  <2>3. QED
    BY <2>1, <2>2
<1>6. HandIsGood'
  BY <1>1 DEF HandIsGood, Busy
<1>7. ProcessTypes'
  <2>1. \A l \in {} : l \in Seq(LogBytes) \ {<<>>}
    OBVIOUS
  <2>2. 0 \in 0..MaxBytes
    OBVIOUS
  <2>3. QED
    BY <1>1, <2>1, <2>2 DEF CollectorInv, ProcessTypes
<1>8. RowsAreGood'
  BY <1>3 DEF RowsAreGood
<1>9. QED
  BY <1>1, <1>4, <1>5, <1>6, <1>7, <1>8
     DEF CollectorInv, MirrorTypes, SensorTypeOK, CopiesAreStarts

-----------------------------------------------------------------------------
(* The pruner.                                                             *)

(* What prune_by_age removes is old, and the rows cover what is left.      *)
LEMMA PruneRawKeeps == CollectorInv /\ PruneRaw => CollectorInv'
<1> SUFFICES ASSUME CollectorInv, PruneRaw PROVE CollectorInv'
  OBVIOUS
<1>1. /\ raw' \subseteq raw /\ \A l \in raw \ raw' : Aged(l)
      /\ UNCHANGED <<today, size, liveDay, dated, spool, mtime, liveFrom, sources, offset,
                     ipc, todo, name, at, batch, pass, ppc, gone, late>>
  BY DEF PruneRaw, mirrorVars, ingestVars, pruneVars
<1>2. today \in Nat
  BY DEF CollectorInv, MirrorTypes, SensorTypeOK
<1>3. \A l \in raw \cap Events : l \in raw' \/ DayOf(l) + RawRetain <= today
  BY <1>1 DEF Aged
<1>4. OffsetsAreGood'
  <2> SUFFICES ASSUME NEW d \in Days
               PROVE  /\ Place(d, offset[d], spool[d], today)
                      /\ StoredTo(d, offset[d], raw', today)
    BY <1>1 DEF OffsetsAreGood
  <2>1. Place(d, offset[d], spool[d], today) /\ StoredTo(d, offset[d], raw, today)
    BY DEF CollectorInv, OffsetsAreGood
  <2>2. StoredTo(d, offset[d], raw', today)
    BY <1>2, <1>3, <2>1, StoredStays
  <2>3. QED
    BY <2>1, <2>2
<1>5. HandIsGood'
  <2>1. Busy' = Busy
    BY <1>1 DEF Busy
  <2> SUFFICES ASSUME Busy
               PROVE  Place(name, at, spool[name], today) /\ StoredTo(name, at, InHand', today)
    BY <1>1, <2>1 DEF HandIsGood
  <2>2. /\ Place(name, at, spool[name], today) /\ StoredTo(name, at, InHand, today)
        /\ name \in Days
    BY DEF CollectorInv, HandIsGood, Busy, ProcessTypes
  <2>3. \A l \in InHand \cap Events : l \in InHand' \/ DayOf(l) + RawRetain <= today
    BY <1>1, <1>3 DEF InHand
  <2>4. StoredTo(name, at, InHand', today)
    <3>1. PICK S, T : S = InHand /\ T = InHand'
      OBVIOUS
    <3>2. StoredTo(name, at, T, today)
      BY <1>2, <2>2, <2>3, <3>1, StoredStays
    <3>3. QED
      BY <3>1, <3>2
  <2>5. QED
    BY <2>2, <2>4
<1>6. RowsAreGood'
  <2> SUFFICES ASSUME NEW ip \in Sources PROVE Covers(sources[ip], Stored(ip)')
    BY <1>1 DEF RowsAreGood
  <2>1. Stored(ip)' \subseteq Stored(ip) /\ Stored(ip) \subseteq Events
    BY <1>1 DEF Stored
  <2>2. IsFiniteSet(Stored(ip))
    BY <2>1, EventsAreFinite, FS_Subset
  <2>3. /\ Cardinality(Stored(ip)') <= Cardinality(Stored(ip))
        /\ Cardinality(Stored(ip)') \in Nat /\ Cardinality(Stored(ip)) \in Nat
    BY <2>1, <2>2, FS_Subset, FS_CardinalityType
  <2>4. Covers(sources[ip], Stored(ip)) /\ sources[ip].count \in Nat
    BY DEF CollectorInv, RowsAreGood, RowTypes
  <2>5. QED
    BY <2>1, <2>3, <2>4 DEF Covers
<1>7. QED
  BY <1>1, <1>4, <1>5, <1>6 DEF CollectorInv, MirrorTypes, SensorTypeOK, RowTypes,
                                ProcessTypes, CopiesAreStarts

(* A source's row goes only when the source has no event left.             *)
LEMMA PruneSourcesKeeps == CollectorInv /\ PruneSources => CollectorInv'
<1> SUFFICES ASSUME CollectorInv, PruneSources PROVE CollectorInv'
  OBVIOUS
<1>1. PICK S \in SUBSET Droppable :
        sources' = [ip \in Sources |-> IF ip \in S THEN NoRow ELSE sources[ip]]
  BY DEF PruneSources
<1>2. /\ ppc' = "spool"
      /\ UNCHANGED <<today, size, liveDay, dated, spool, mtime, liveFrom, raw, offset,
                     ipc, todo, name, at, batch, pass, gone, late>>
  BY DEF PruneSources, mirrorVars, ingestVars
<1>3. RowTypes'
  <2>1. NoRow \in [count : Nat, first : 0..MaxDay, last : 0..MaxDay]
    BY DEF NoRow
  <2>2. QED
    BY <1>1, <1>2, <2>1 DEF CollectorInv, RowTypes
<1>4. RowsAreGood'
  <2> SUFFICES ASSUME NEW ip \in Sources PROVE Covers(sources'[ip], Stored(ip))
    BY <1>2 DEF RowsAreGood, Stored
  <2>1. CASE ip \in S
    <3>1. Stored(ip) = {} /\ sources'[ip] = NoRow
      BY <1>1, <2>1 DEF Droppable
    <3>2. Cardinality({}) = 0
      BY FS_EmptySet
    <3>3. QED
      BY <3>1, <3>2 DEF Covers, NoRow
  <2>2. CASE ip \notin S
    BY <1>1, <2>2 DEF CollectorInv, RowsAreGood
  <2>3. QED
    BY <2>1, <2>2
<1>5. QED
  BY <1>2, <1>3, <1>4 DEF CollectorInv, MirrorTypes, SensorTypeOK, ProcessTypes,
       CopiesAreStarts, OffsetsAreGood, HandIsGood, Busy, InHand

(* The copies go.                                                          *)
LEMMA PruneSpoolKeeps == CollectorInv /\ PruneSpool => CollectorInv'
<1> SUFFICES ASSUME CollectorInv, PruneSpool PROVE CollectorInv'
  OBVIOUS
<1>1. PICK S \in SUBSET Expired : RemoveCopies(S)
  BY DEF PruneSpool
<1>2. /\ MirrorTypes' /\ CopiesAreStarts'
      /\ \A c \in Days : Moves(c, spool[c], spool'[c], today)
  BY <1>1, SpoolKeeps DEF CollectorInv, SpoolStep
<1>3. /\ today' = today
      /\ UNCHANGED <<raw, sources, offset, ipc, todo, name, at, batch, pass, gone, late>>
      /\ ppc' = "look"
  BY <1>1 DEF PruneSpool, RemoveCopies, dbVars, ingestVars
<1>4. /\ today \in Nat
      /\ \A d \in Days : spool[d] \in Seq(LogBytes) /\ spool'[d] \in Seq(LogBytes)
  BY <1>2 DEF CollectorInv, MirrorTypes, SensorTypeOK
<1>5. ASSUME NEW d \in Days, NEW p \in Nat, Place(d, p, spool[d], today)
      PROVE  Place(d, p, spool'[d], today)
  BY <1>2, <1>4, <1>5, PlaceStays
<1>6. OffsetsAreGood'
  <2>1. \A d \in Days : offset[d] \in Nat
    BY DEF CollectorInv, RowTypes
  <2>2. QED
    BY <1>3, <1>5, <2>1 DEF CollectorInv, OffsetsAreGood
<1>7. HandIsGood'
  <2>1. Busy' = Busy /\ InHand' = InHand
    BY <1>3 DEF Busy, InHand
  <2>2. at \in Nat /\ (Busy => name \in Days)
    BY DEF CollectorInv, ProcessTypes, Busy
  <2>3. QED
    BY <1>3, <1>5, <2>1, <2>2 DEF CollectorInv, HandIsGood
<1>8. RowTypes' /\ ProcessTypes' /\ RowsAreGood'
  BY <1>3 DEF CollectorInv, RowTypes, ProcessTypes, RowsAreGood, Stored
<1>9. QED
  BY <1>2, <1>6, <1>7, <1>8 DEF CollectorInv

(* The rows without a file go: the start of a file is a good place.        *)
LEMMA PruneRowsKeeps == CollectorInv /\ PruneRows => CollectorInv'
<1> SUFFICES ASSUME CollectorInv, PruneRows PROVE CollectorInv'
  OBVIOUS
<1>1. /\ offset' = [n \in Names |-> IF n \in gone THEN 0 ELSE offset[n]]
      /\ ppc' = "idle" /\ gone' = {} /\ late' = FALSE /\ pass' = "none"
      /\ UNCHANGED <<today, size, liveDay, dated, spool, mtime, liveFrom, raw, sources,
                     ipc, todo, name, at, batch>>
  BY DEF PruneRows, PruneEnds, mirrorVars
<1>2. RowTypes'
  <2>1. 0 \in 0..MaxBytes
    OBVIOUS
  <2>2. QED
    BY <1>1, <2>1 DEF CollectorInv, RowTypes
<1>3. OffsetsAreGood'
  <2> SUFFICES ASSUME NEW d \in Days
               PROVE  /\ Place(d, offset'[d], spool[d], today)
                      /\ StoredTo(d, offset'[d], raw, today)
    BY <1>1 DEF OffsetsAreGood
  <2>1. CASE d \in gone
    <3>1. offset'[d] = 0 /\ Len(spool[d]) \in Nat
      BY <1>1, <2>1 DEF CollectorInv, MirrorTypes
    <3>2. \A span \in LineSpans(d) : span[2] \in 1..MaxBytes
      BY SpanIs
    <3>3. QED
      BY <3>1, <3>2 DEF Place, StoredTo
  <2>2. CASE d \notin gone
    BY <1>1, <2>2 DEF CollectorInv, OffsetsAreGood
  <2>3. QED
    BY <2>1, <2>2
<1>4. QED
  BY <1>1, <1>2, <1>3 DEF CollectorInv, MirrorTypes, SensorTypeOK, ProcessTypes,
       CopiesAreStarts, HandIsGood, Busy, InHand, RowsAreGood, Stored

-----------------------------------------------------------------------------
(* The theorems.                                                           *)

(* It holds at the start.                                                  *)
LEMMA CollectorInvInit == CollectorInit => CollectorInv
<1> SUFFICES ASSUME CollectorInit PROVE CollectorInv
  OBVIOUS
<1> USE DEF CollectorInit, MirrorInit, SensorInit
<1>1. /\ 1 \in Days /\ 0 \in 0..MaxBytes /\ 0 \in 0..MaxDay
      /\ <<>> \in Seq(LogBytes) /\ Len(<<>>) = 0
  BY DEF Days
<1>2. MirrorTypes
  BY <1>1 DEF MirrorTypes, SensorTypeOK
<1>3. RowTypes /\ ProcessTypes
  BY <1>1 DEF RowTypes, ProcessTypes, NoRow
<1>4. CopiesAreStarts
  BY <1>1 DEF CopiesAreStarts, IsPrefixOf
<1>5. OffsetsAreGood
  <2>1. \A d \in Days : \A span \in LineSpans(d) : span[2] \in 1..MaxBytes
    BY SpanIs
  <2>2. QED
    BY <1>1, <2>1 DEF OffsetsAreGood, Place, StoredTo
<1>6. HandIsGood
  BY DEF HandIsGood, Busy
<1>7. RowsAreGood
  <2>1. Cardinality({}) = 0
    BY FS_EmptySet
  <2>2. \A ip \in Sources : Stored(ip) = {} /\ sources[ip] = NoRow
    BY DEF Stored
  <2>3. NoRow.count = 0
    BY DEF NoRow
  <2> HIDE DEF CollectorInit
  <2>4. QED
    BY <2>1, <2>2, <2>3 DEF RowsAreGood, Covers
<1>8. QED
  BY <1>2, <1>3, <1>4, <1>5, <1>6, <1>7 DEF CollectorInv

(* Every step keeps it.                                                    *)
LEMMA CollectorInvNext == CollectorInv /\ [CollectorNext]_vars => CollectorInv'
<1> SUFFICES ASSUME CollectorInv, [CollectorNext]_vars PROVE CollectorInv'
  OBVIOUS
<1>1. CASE UNCHANGED vars
  <2>1. UNCHANGED <<mirrorVars, dbVars, ipc, name, at, batch>>
    BY <1>1 DEF vars, mirrorVars, dbVars
  <2>2. ProcessTypes'
    BY <1>1 DEF vars, CollectorInv, ProcessTypes
  <2>3. QED
    BY <2>1, <2>2, IdleStepKeeps
<1>2. CASE CollectorNext
  BY <1>2, PullKeeps, SensorKeepsInv, LooksKeep, ReadRowKeeps, StatKeeps, ReadKeeps,
     CommitKeeps, PruneRawKeeps, PruneSourcesKeeps, PruneSpoolKeeps, PruneRowsKeeps
     DEF CollectorNext, Ingest, Prune
<1>3. QED
  BY <1>1, <1>2

(* The invariant holds whatever the pull, the sensor, the ingester and the *)
(* pruner do between each other's steps, and wherever they are killed.     *)
THEOREM CollectorInvariant == CollectorSpec => []CollectorInv
<1>1. QED
  BY CollectorInvInit, CollectorInvNext, PTL DEF CollectorSpec

(* Every variable of the collector has its type.                           *)
THEOREM CollectorTypes == CollectorSpec => []CollectorTypeOK
<1>1. CollectorInv => CollectorTypeOK
  BY TypesAre DEF CollectorInv
<1>2. QED
  BY <1>1, CollectorInvariant, PTL

(* No line is cut in two by a pass that resumes (process_file): the offset *)
(* of a dated file is the end of a line of its log and not beyond the copy. *)
THEOREM OffsetsAreLineEnds == CollectorSpec => []OffsetOnBoundary
<1>1. CollectorInv => OffsetOnBoundary
  BY DEF CollectorInv, OffsetsAreGood, Place, OffsetOnBoundary
<1>2. QED
  BY <1>1, CollectorInvariant, PTL

(* No line is passed over: what lies before the offset of a dated file is  *)
(* stored until prune_by_age may take it.                                  *)
THEOREM NoLineIsSkipped == CollectorSpec => []NothingSkipped
<1>1. CollectorInv => NothingSkipped
  BY DEF CollectorInv, OffsetsAreGood, StoredTo, NothingSkipped
<1>2. QED
  BY <1>1, CollectorInvariant, PTL

(* The sources table covers the raw one, though prune_sources deletes rows *)
(* between the steps of the ingester (ingest_line, prune.py).              *)
THEOREM SourcesAreCovered == CollectorSpec => []SourcesCoverRaw
<1>1. CollectorInv => SourcesCoverRaw
  BY DEF CollectorInv, RowsAreGood, Covers, SourcesCoverRaw
<1>2. QED
  BY <1>1, CollectorInvariant, PTL

-----------------------------------------------------------------------------
(* What a whole pass in each day gives: a copy that was last written before *)
(* today has been read by the end of today's pass, and stays read.          *)

(* The copy s is read, as far as there are whole lines, at place p.        *)
ReadTo(s, p) == s # <<>> => Ends(s, p) = {}

Holds(n) == ipc \in {"stat", "read", "commit"} /\ name = n
ToCommit(n) == ipc = "commit" /\ name = n

DayIsRead(d) ==
  /\ mtime[d] + 2 <= today =>
       /\ ReadTo(spool[d], offset[d])
       /\ ToCommit(d) => ReadTo(spool[d], at)
  /\ pass = "begun" /\ mtime[d] < today =>
       /\ ReadTo(spool[d], offset[d]) \/ d \in todo \/ Holds(d)
       /\ ToCommit(d) => ReadTo(spool[d], at)
  /\ pass = "done" /\ mtime[d] < today =>
       /\ ReadTo(spool[d], offset[d])
       /\ Holds(d) => ReadTo(spool[d], at)
       /\ ToCommit(d) => batch = {}

(* In the pass that counts, the place in hand is the row's until the size  *)
(* is looked at; and the pruner's list is of copies that are gone for good. *)
HandIsRow == pass # "none" /\ ipc = "stat" => at = offset[name]
GoneIsGone ==
  /\ ppc # "rows" => gone = {}
  /\ \A d \in gone : d # Live => spool[d] = <<>> /\ Closed(d, today)
  /\ \A d \in Days : mtime[d] # 0 => mtime[d] <= d + PullRetain

PassInv == (\A d \in Days : DayIsRead(d)) /\ HandIsRow /\ GoneIsGone

(* What the pull, the sensor and the pruner may do to a dated copy.        *)
LEMMA DatedStep ==
  ASSUME CollectorInv, SpoolStep
  PROVE  /\ today \in Nat /\ today' \in Nat /\ (today' = today \/ today' = today + 1)
         /\ \A d \in Days :
              /\ mtime[d] \in Nat /\ mtime'[d] \in Nat
              /\ \/ mtime'[d] = mtime[d] /\ (spool'[d] = spool[d] \/ spool'[d] = <<>>)
                 \/ mtime'[d] = today /\ today' = today /\ today <= d + PullRetain
              /\ spool[d] = <<>> /\ Closed(d, today) => spool'[d] = <<>> /\ Closed(d, today')
<1>1. /\ MirrorTypes /\ MirrorTypes' /\ today <= today'
      /\ \A c \in Days : Moves(c, spool[c], spool'[c], today)
  BY SpoolKeeps DEF CollectorInv
<1>2. /\ today \in Nat /\ today' \in Nat
      /\ \A d \in Days : mtime[d] \in Nat /\ mtime'[d] \in Nat
  <2>1. /\ today \in Days /\ today' \in Days
        /\ mtime \in [Days -> 0..MaxDay] /\ mtime' \in [Days -> 0..MaxDay]
    BY <1>1 DEF MirrorTypes, SensorTypeOK
  <2>2. QED
    BY <2>1
<1>3. today' = today \/ today' = today + 1
  BY DEF SpoolStep, Gain, sensorVars, DropLive, RemoveCopies,
         SensorStep, NextDay, Rotate, Write, PruneAge, PruneSize
<1>4. ASSUME NEW d \in Days
      PROVE  \/ mtime'[d] = mtime[d] /\ (spool'[d] = spool[d] \/ spool'[d] = <<>>)
             \/ mtime'[d] = today /\ today' = today /\ today <= d + PullRetain
  <2>1. ASSUME NEW n \in Names, NEW c \in Days, Gain(n, c)
        PROVE  \/ mtime'[d] = mtime[d] /\ spool'[d] = spool[d]
               \/ mtime'[d] = today /\ today' = today /\ today <= d + PullRetain
    <3>1. /\ today' = today
          /\ mtime' = IF n = Live THEN mtime ELSE [mtime EXCEPT ![n] = today]
          /\ n # Live => today <= n + PullRetain
          /\ \A m \in Names : m # n => spool'[m] = spool[m]
      BY <2>1, <1>1 DEF Gain, Touch, sensorVars, MirrorTypes
    <3>2. QED
      BY <3>1, <1>1 DEF MirrorTypes
  <2>2. CASE DropLive
    BY <2>2, <1>1 DEF DropLive, MirrorTypes
  <2>3. CASE SensorStep
    BY <2>3 DEF SensorStep
  <2>4. ASSUME NEW S \in SUBSET Expired, RemoveCopies(S)
        PROVE  mtime'[d] = mtime[d] /\ (spool'[d] = spool[d] \/ spool'[d] = <<>>)
    BY <2>4 DEF RemoveCopies
  <2>5. QED
    BY <2>1, <2>2, <2>3, <2>4 DEF SpoolStep
<1>5. ASSUME NEW d \in Days, spool[d] = <<>>, Closed(d, today)
      PROVE  spool'[d] = <<>> /\ Closed(d, today')
  <2>1. spool'[d] = <<>>
    BY <1>1, <1>5 DEF Moves
  <2>2. Closed(d, today')
    BY <1>1, <1>2, <1>5 DEF Closed
  <2>3. QED
    BY <2>1, <2>2
<1>6. QED
  BY <1>2, <1>3, <1>4, <1>5

(* A step of the spool, with no midnight or with one after a whole pass.   *)
LEMMA SpoolStepPass ==
  ASSUME CollectorInv, PassInv, SpoolStep,
         UNCHANGED <<raw, sources, offset, ipc, todo, name, at, batch, gone>>,
         ppc' = ppc \/ gone = {},
         \/ today' = today /\ pass' = pass
         \/ today' # today /\ pass = "done" /\ pass' = "none"
  PROVE  PassInv'
<1>1. /\ today \in Nat /\ today' \in Nat /\ (today' = today \/ today' = today + 1)
      /\ \A d \in Days :
           /\ mtime[d] \in Nat /\ mtime'[d] \in Nat
           /\ \/ mtime'[d] = mtime[d] /\ (spool'[d] = spool[d] \/ spool'[d] = <<>>)
              \/ mtime'[d] = today /\ today' = today /\ today <= d + PullRetain
           /\ spool[d] = <<>> /\ Closed(d, today) => spool'[d] = <<>> /\ Closed(d, today')
  BY DatedStep
<1>2. ASSUME NEW d \in Days PROVE DayIsRead(d)'
  <2>0. DayIsRead(d) /\ mtime[d] \in Nat /\ mtime'[d] \in Nat
    BY <1>1 DEF PassInv
  <2>1. CASE mtime'[d] = mtime[d] /\ (spool'[d] = spool[d] \/ spool'[d] = <<>>)
    <3>1. \A p : ReadTo(spool[d], p) => ReadTo(spool'[d], p)
      BY <2>1 DEF ReadTo
    <3>2. Holds(d)' = Holds(d) /\ ToCommit(d)' = ToCommit(d)
      BY DEF Holds, ToCommit
    <3>3. CASE today' = today /\ pass' = pass
      BY <2>0, <2>1, <3>1, <3>2, <3>3 DEF DayIsRead
    <3>4. CASE today' # today /\ pass = "done" /\ pass' = "none"
      <4>1. mtime'[d] + 2 <= today' => mtime[d] < today
        BY <1>1, <2>0, <2>1, <3>4
      <4>2. ToCommit(d) => Holds(d)
        BY DEF ToCommit, Holds
      <4>3. QED
        BY <2>0, <3>1, <3>2, <3>4, <4>1, <4>2 DEF DayIsRead
    <3>5. QED
      BY <3>3, <3>4
  <2>2. CASE mtime'[d] = today /\ today' = today
    <3>1. ~ (mtime'[d] + 2 <= today') /\ ~ (mtime'[d] < today')
      BY <1>1, <2>2
    <3>2. QED
      BY <3>1 DEF DayIsRead
  <2>3. QED
    BY <1>1, <2>1, <2>2
<1>3. HandIsRow'
  BY DEF PassInv, HandIsRow
<1>4. GoneIsGone'
  <2>1. gone \subseteq Names
    BY DEF CollectorInv, ProcessTypes
  <2>2. \A d \in gone : d # Live => spool'[d] = <<>> /\ Closed(d, today')
    BY <1>1, <2>1 DEF PassInv, GoneIsGone
  <2>3. \A d \in Days : mtime'[d] # 0 => mtime'[d] <= d + PullRetain
    BY <1>1 DEF PassInv, GoneIsGone
  <2>4. QED
    BY <2>2, <2>3 DEF PassInv, GoneIsGone
<1>5. QED
  BY <1>2, <1>3, <1>4 DEF PassInv

(* Steps that leave the copies and the offsets alone, and either what is   *)
(* in hand and to do, or nothing of them.                                  *)
LEMMA QuietStepPass ==
  ASSUME CollectorInv, PassInv, UNCHANGED <<mirrorVars, offset>>,
         pass' \in {pass, "none"},
         \/ UNCHANGED <<ipc, todo, name, at, batch>>
         \/ ipc' = "sleep" /\ (pass' # "begun"),
         GoneIsGone'
  PROVE  PassInv'
<1>1. UNCHANGED <<today, spool, mtime, offset>>
  BY DEF mirrorVars
<1>2. ASSUME NEW d \in Days PROVE DayIsRead(d)'
  <2>1. DayIsRead(d)
    BY DEF PassInv
  <2>2. CASE UNCHANGED <<ipc, todo, name, at, batch>>
    <3>1. Holds(d)' = Holds(d) /\ ToCommit(d)' = ToCommit(d)
      BY <2>2 DEF Holds, ToCommit
    <3>2. QED
      BY <1>1, <2>1, <2>2, <3>1 DEF DayIsRead
  <2>3. CASE ipc' = "sleep" /\ (pass' # "begun")
    <3>1. ~ Holds(d)' /\ ~ ToCommit(d)'
      BY <2>3 DEF Holds, ToCommit
    <3>2. QED
      BY <1>1, <2>1, <2>3, <3>1 DEF DayIsRead
  <2>4. QED
    BY <2>2, <2>3
<1>3. HandIsRow'
  BY <1>1 DEF PassInv, HandIsRow
<1>4. QED
  BY <1>2, <1>3 DEF PassInv

(* Steps between which nothing is in hand: the pass begins, or ends.       *)
LEMMA GlobPass == CollectorInv /\ PassInv /\ Glob => PassInv'
<1> SUFFICES ASSUME CollectorInv, PassInv, Glob PROVE PassInv'
  OBVIOUS
<1>1. /\ ipc = "sleep" /\ ipc' = "next" /\ todo' = {n \in Names : spool[n] # <<>>}
      /\ pass' = IF pass = "none" THEN "begun" ELSE pass
      /\ UNCHANGED <<today, spool, mtime, offset, name, at, batch, ppc, gone>>
  BY DEF Glob, mirrorVars, dbVars, pruneVars
<1>2. ASSUME NEW d \in Days PROVE DayIsRead(d)'
  <2>1. ~ Holds(d)' /\ ~ ToCommit(d)' /\ DayIsRead(d)
    BY <1>1 DEF Holds, ToCommit, PassInv
  <2>2. d \in todo' \/ ReadTo(spool[d], offset[d])
    BY <1>1 DEF ReadTo
  <2>3. QED
    BY <1>1, <2>1, <2>2 DEF DayIsRead
<1>3. HandIsRow' /\ GoneIsGone'
  BY <1>1 DEF PassInv, HandIsRow, GoneIsGone
<1>4. QED
  BY <1>2, <1>3 DEF PassInv

(* The end of a pass: the dated files have been read.                      *)
LEMMA EndPassPass == CollectorInv /\ PassInv /\ EndPass => PassInv'
<1> SUFFICES ASSUME CollectorInv, PassInv, EndPass PROVE PassInv'
  OBVIOUS
<1>1. /\ ipc = "next" /\ ipc' = "sleep" /\ todo = {}
      /\ pass' = IF pass = "begun" THEN "done" ELSE pass
      /\ UNCHANGED <<today, spool, mtime, offset, name, at, batch, ppc, gone>>
  BY DEF EndPass, mirrorVars, dbVars, pruneVars
<1>2. ASSUME NEW d \in Days PROVE DayIsRead(d)'
  <2>1. ~ Holds(d)' /\ ~ ToCommit(d)' /\ DayIsRead(d) /\ ~ Holds(d)
    BY <1>1 DEF Holds, ToCommit, PassInv
  <2>2. QED
    BY <1>1, <2>1 DEF DayIsRead
<1>3. HandIsRow' /\ GoneIsGone'
  BY <1>1 DEF PassInv, HandIsRow, GoneIsGone
<1>4. QED
  BY <1>2, <1>3 DEF PassInv

(* process_file, step by step.                                             *)
LEMMA ReadRowPass == CollectorInv /\ PassInv /\ ReadRow => PassInv'
<1> SUFFICES ASSUME CollectorInv, PassInv, ReadRow PROVE PassInv'
  OBVIOUS
<1> DEFINE n == Min(todo)
<1>1. /\ ipc = "next" /\ name' = n /\ todo' = todo \ {n} /\ at' = offset[n] /\ ipc' = "stat"
      /\ UNCHANGED <<today, spool, mtime, offset, batch, pass, ppc, gone>>
  BY DEF ReadRow, mirrorVars, dbVars, pruneVars
<1> HIDE DEF n
<1>2. ASSUME NEW d \in Days PROVE DayIsRead(d)'
  <2>1. ~ ToCommit(d)' /\ ~ Holds(d) /\ DayIsRead(d)
    BY <1>1 DEF Holds, ToCommit, PassInv
  <2>2. Holds(d)' => d = n /\ at' = offset[d]
    BY <1>1 DEF Holds
  <2>3. d \in todo => d \in todo' \/ Holds(d)'
    BY <1>1 DEF Holds
  <2>4. QED
    BY <1>1, <2>1, <2>2, <2>3 DEF DayIsRead
<1>3. HandIsRow' /\ GoneIsGone'
  BY <1>1 DEF PassInv, HandIsRow, GoneIsGone
<1>4. QED
  BY <1>2, <1>3 DEF PassInv

(* The size of a file is looked at.                                        *)
LEMMA StatPass == CollectorInv /\ PassInv /\ Stat => PassInv'
<1> SUFFICES ASSUME CollectorInv, PassInv, Stat PROVE PassInv'
  OBVIOUS
<1>1. /\ ipc = "stat" /\ at' = Rescan /\ ipc' = "read"
      /\ Rescan = IF Len(spool[name]) < at THEN 0 ELSE at
      /\ UNCHANGED <<today, spool, mtime, offset, todo, name, batch, pass, ppc, gone>>
  BY DEF Stat, Rescan, FileLen, mirrorVars, dbVars, pruneVars
<1>2. ASSUME NEW d \in Days PROVE DayIsRead(d)'
  <2>1. ~ ToCommit(d)' /\ Holds(d)' = Holds(d) /\ DayIsRead(d)
    BY <1>1 DEF Holds, ToCommit, PassInv
  <2>2. ASSUME Holds(d), ReadTo(spool[d], at) PROVE ReadTo(spool[d], at')
    <3>1. Place(d, at, spool[d], today) /\ d = name
      BY <2>2 DEF CollectorInv, HandIsGood, Busy, Holds
    <3>2. spool[d] # <<>> => ~ (Len(spool[d]) < at)
      <4>1. Len(spool[d]) \in Nat /\ at \in Nat
        BY DEF CollectorInv, MirrorTypes, ProcessTypes
      <4>2. QED
        BY <3>1, <4>1 DEF Place
    <3>3. QED
      BY <1>1, <2>2, <3>1, <3>2 DEF ReadTo
  <2>3. QED
    BY <1>1, <2>1, <2>2 DEF DayIsRead
<1>3. HandIsRow' /\ GoneIsGone'
  BY <1>1 DEF PassInv, HandIsRow, GoneIsGone
<1>4. QED
  BY <1>2, <1>3 DEF PassInv

(* A file is left without a read: it has no more, or it is not there.      *)
LEMMA SkipPass == CollectorInv /\ PassInv /\ (StatDone \/ ReadGone) => PassInv'
<1> SUFFICES ASSUME CollectorInv, PassInv, StatDone \/ ReadGone PROVE PassInv'
  OBVIOUS
<1>1. /\ ipc \in {"stat", "read"} /\ ipc' = "next"
      /\ UNCHANGED <<today, spool, mtime, offset, todo, batch, pass, ppc, gone>>
  BY DEF StatDone, ReadGone, Skip, mirrorVars, dbVars, pruneVars
<1>2. ASSUME NEW d \in Days, pass = "begun", Holds(d) PROVE ReadTo(spool[d], offset[d])
  <2>1. CASE ReadGone
    BY <1>2, <2>1 DEF ReadGone, Holds, ReadTo
  <2>2. CASE StatDone /\ spool[d] # <<>>
    <3>1. /\ name = d /\ at = offset[d] /\ Place(d, at, spool[d], today)
          /\ Len(spool[d]) = IF Len(spool[d]) < at THEN 0 ELSE at
      BY <1>2, <2>2 DEF StatDone, Rescan, FileLen, Holds, PassInv, HandIsRow,
                        CollectorInv, HandIsGood, Busy
    <3>2. Len(spool[d]) \in Nat /\ at \in Nat
      BY DEF CollectorInv, MirrorTypes, ProcessTypes
    <3>3. at = Len(spool[d])
      BY <2>2, <3>1, <3>2 DEF Place
    <3>4. Ends(spool[d], at) = {}
      BY <3>2, <3>3 DEF Ends
    <3>5. QED
      BY <3>1, <3>4 DEF ReadTo
  <2>3. QED
    BY <2>1, <2>2 DEF ReadTo
<1>3. ASSUME NEW d \in Days PROVE DayIsRead(d)'
  <2>1. ~ ToCommit(d)' /\ ~ Holds(d)' /\ DayIsRead(d)
    BY <1>1 DEF Holds, ToCommit, PassInv
  <2>2. QED
    BY <1>1, <1>2, <2>1 DEF DayIsRead
<1>4. HandIsRow' /\ GoneIsGone'
  BY <1>1 DEF PassInv, HandIsRow, GoneIsGone
<1>5. QED
  BY <1>3, <1>4 DEF PassInv

(* The lines of a file are read.                                           *)
LEMMA ReadPass == CollectorInv /\ PassInv /\ Read => PassInv'
<1> SUFFICES ASSUME CollectorInv, PassInv, Read PROVE PassInv'
  OBVIOUS
<1>1. /\ ipc = "read" /\ spool[name] # <<>> /\ batch' = LinesFrom(spool[name], at)
      /\ at' = OffsetAfter(spool[name], at) /\ ipc' = "commit"
      /\ UNCHANGED <<today, spool, mtime, offset, todo, name, pass, ppc, gone>>
  BY DEF Read, mirrorVars, dbVars, pruneVars
<1>2. ASSUME NEW d \in Days PROVE DayIsRead(d)'
  <2>1. Holds(d)' = Holds(d) /\ DayIsRead(d)
    BY <1>1 DEF Holds, PassInv
  <2>2. ASSUME ToCommit(d)'
        PROVE  /\ Holds(d) /\ ReadTo(spool[d], at')
               /\ ReadTo(spool[d], at) => batch' = {}
    <3>1. name = d /\ Holds(d)
      BY <1>1, <2>2 DEF ToCommit, Holds
    <3>2. spool[d] \in Seq(LogBytes) /\ at \in Nat
      BY DEF CollectorInv, MirrorTypes, ProcessTypes
    <3>3. Ends(spool[d], at') = {}
      <4>1. at' = OffsetAfter(spool[d], at)
        BY <1>1, <3>1
      <4>2. QED
        BY <4>1, <3>2, OffsetAfterIs
    <3>4. ReadTo(spool[d], at) => batch' = {}
      BY <1>1, <3>1 DEF ReadTo, LinesFrom
    <3>5. QED
      BY <3>1, <3>3, <3>4 DEF ReadTo
  <2>3. Holds(d)' => ToCommit(d)'
    BY <1>1 DEF Holds, ToCommit
  <2>4. QED
    BY <1>1, <2>1, <2>2, <2>3 DEF DayIsRead
<1>3. HandIsRow' /\ GoneIsGone'
  BY <1>1 DEF PassInv, HandIsRow, GoneIsGone
<1>4. QED
  BY <1>2, <1>3 DEF PassInv

(* What was read is committed with the offset behind it.                   *)
LEMMA CommitPass == CollectorInv /\ PassInv /\ Commit => PassInv'
<1> SUFFICES ASSUME CollectorInv, PassInv, Commit PROVE PassInv'
  OBVIOUS
<1>1. /\ ipc = "commit" /\ ipc' = "next" /\ offset' = [offset EXCEPT ![name] = at]
      /\ UNCHANGED <<today, spool, mtime, todo, pass, ppc, gone>>
  BY DEF Commit, mirrorVars, pruneVars
<1>2. ASSUME NEW d \in Days PROVE DayIsRead(d)'
  <2>1. ~ ToCommit(d)' /\ ~ Holds(d)' /\ DayIsRead(d)
    BY <1>1 DEF Holds, ToCommit, PassInv
  <2>2. offset'[d] = IF name = d THEN at ELSE offset[d]
    BY <1>1 DEF CollectorInv, RowTypes
  <2>3. (name = d <=> ToCommit(d)) /\ (name = d <=> Holds(d))
    BY <1>1 DEF ToCommit, Holds
  <2>4. QED
    BY <1>1, <2>1, <2>2, <2>3 DEF DayIsRead
<1>3. HandIsRow' /\ GoneIsGone'
  BY <1>1 DEF PassInv, HandIsRow, GoneIsGone
<1>4. QED
  BY <1>2, <1>3 DEF PassInv

(* The pruner deletes only rows of copies that are gone for good, and the  *)
(* day needs another pass before it is run again.                          *)
LEMMA PruneRowsPass == CollectorInv /\ PassInv /\ PruneRows => PassInv'
<1> SUFFICES ASSUME CollectorInv, PassInv, PruneRows PROVE PassInv'
  OBVIOUS
<1>1. /\ offset' = [n \in Names |-> IF n \in gone THEN 0 ELSE offset[n]]
      /\ ppc' = "idle" /\ gone' = {} /\ pass' = "none"
      /\ UNCHANGED <<today, spool, mtime, ipc, todo, name, at, batch>>
  BY DEF PruneRows, PruneEnds, mirrorVars
<1>2. ASSUME NEW d \in Days PROVE DayIsRead(d)'
  <2>1. DayIsRead(d) /\ ToCommit(d)' = ToCommit(d)
    BY <1>1 DEF ToCommit, PassInv
  <2>2. offset'[d] = offset[d] \/ spool[d] = <<>>
    BY <1>1 DEF PassInv, GoneIsGone
  <2>3. ReadTo(spool[d], offset[d]) => ReadTo(spool[d], offset'[d])
    BY <2>2 DEF ReadTo
  <2>4. QED
    BY <1>1, <2>1, <2>3 DEF DayIsRead
<1>3. HandIsRow' /\ GoneIsGone'
  BY <1>1 DEF PassInv, HandIsRow, GoneIsGone
<1>4. QED
  BY <1>2, <1>3 DEF PassInv

(* The pruner finds rows without a file, which stay without one.           *)
LEMMA PruneLookGone == CollectorInv /\ PassInv /\ PruneLook => GoneIsGone'
<1> SUFFICES ASSUME CollectorInv, PassInv, PruneLook PROVE GoneIsGone'
  OBVIOUS
<1>1. /\ gone' = {n \in Names : offset[n] > 0 /\ spool[n] = <<>>} /\ ppc' = "rows"
      /\ UNCHANGED <<today, spool, mtime, offset>>
  BY DEF PruneLook, mirrorVars, dbVars
<1>2. ASSUME NEW d \in gone', d # Live PROVE spool[d] = <<>> /\ Closed(d, today)
  <2>1. d \in Days /\ spool[d] = <<>> /\ offset[d] > 0
    BY <1>1, <1>2
  <2>2. Place(d, offset[d], spool[d], today)
    BY <2>1 DEF CollectorInv, OffsetsAreGood
  <2>3. QED
    BY <2>1, <2>2 DEF Place
<1>3. QED
  BY <1>1, <1>2 DEF PassInv, GoneIsGone

(* It holds at the start.                                                  *)
LEMMA PassInvInit == CollectorInit => PassInv
<1> SUFFICES ASSUME CollectorInit PROVE PassInv
  OBVIOUS
<1> USE DEF CollectorInit, MirrorInit, SensorInit
<1>1. ASSUME NEW d \in Days PROVE DayIsRead(d)
  BY DEF DayIsRead, ReadTo, ToCommit, Holds
<1>2. HandIsRow /\ GoneIsGone
  BY DEF HandIsRow, GoneIsGone
<1>3. QED
  BY <1>1, <1>2 DEF PassInv

(* Every step keeps it.                                                    *)
LEMMA PassInvNext ==
  ASSUME IngestKeepsUp, CollectorInv, PassInv, [CollectorNext]_vars
  PROVE  PassInv'
<1>1. CASE UNCHANGED vars
  BY <1>1, QuietStepPass DEF vars, mirrorVars, PassInv, GoneIsGone
<1>2. CASE Pull
  <2>1. SpoolStep /\ today' = today /\ pass' = pass
    BY <1>2 DEF Pull, SpoolStep, Gain, DropLive, sensorVars, ingestVars
  <2>2. UNCHANGED <<raw, sources, offset, ipc, todo, name, at, batch, gone, ppc>>
    BY <1>2 DEF Pull, dbVars, ingestVars, pruneVars
  <2>3. QED
    BY <2>1, <2>2, SpoolStepPass
<1>3. CASE Sensor
  <2>1. SpoolStep
    BY <1>3 DEF Sensor, SpoolStep
  <2>2. UNCHANGED <<raw, sources, offset, ipc, todo, name, at, batch, gone, ppc>>
    BY <1>3 DEF Sensor, dbVars
  <2>3. \/ today' = today /\ pass' = pass
        \/ today' # today /\ pass = "done" /\ pass' = "none"
    BY <1>3 DEF Sensor
  <2>4. QED
    BY <2>1, <2>2, <2>3, SpoolStepPass
<1>4. CASE PruneSpool
  <2>1. /\ SpoolStep /\ today' = today /\ ppc = "spool"
        /\ UNCHANGED <<raw, sources, offset, ipc, todo, name, at, batch, pass, gone>>
    BY <1>4 DEF PruneSpool, SpoolStep, RemoveCopies, dbVars, ingestVars
  <2>2. gone = {}
    BY <2>1 DEF PassInv, GoneIsGone
  <2>3. QED
    BY <2>1, <2>2, SpoolStepPass
<1>5. CASE IngestCrash
  BY <1>5, QuietStepPass DEF IngestCrash, PassInv, GoneIsGone, mirrorVars, dbVars, pruneVars
<1>6. CASE PruneRaw \/ PruneRawDone \/ PruneSources \/ PruneKill
  <2>1. /\ UNCHANGED <<mirrorVars, offset, ipc, todo, name, at, batch>>
        /\ pass' \in {pass, "none"}
    BY <1>6 DEF PruneRaw, PruneRawDone, PruneSources, PruneKill, PruneEnds, dbVars, ingestVars
  <2>2. GoneIsGone'
    BY <1>6, <2>1 DEF PruneRaw, PruneRawDone, PruneStarts, PruneSources, PruneKill, PruneEnds,
                      PassInv, GoneIsGone, mirrorVars, pruneVars
  <2>3. QED
    BY <2>1, <2>2, QuietStepPass
<1>7. CASE PruneLook
  <2>1. UNCHANGED <<mirrorVars, offset, ipc, todo, name, at, batch, pass>>
    BY <1>7 DEF PruneLook, dbVars, ingestVars
  <2>2. QED
    BY <1>7, <2>1, PruneLookGone, QuietStepPass
<1>8. QED
  BY <1>1, <1>2, <1>3, <1>4, <1>5, <1>6, <1>7, GlobPass, EndPassPass, ReadRowPass, StatPass,
     SkipPass, ReadPass, CommitPass, PruneRowsPass
     DEF CollectorNext, Ingest, Prune

(* If the ingester ends a pass in each day, every day's copy is read before *)
(* two midnights have passed since it was last written.                     *)
THEOREM PassInvariant ==
  ASSUME IngestKeepsUp
  PROVE  CollectorSpec => []PassInv
<1>1. CollectorInv /\ PassInv /\ [CollectorNext]_vars => PassInv'
  BY PassInvNext
<1>2. QED
  BY <1>1, PassInvInit, CollectorInvariant, PTL DEF CollectorSpec

(* "Removed N ingested files" (prune.py): if moreover prune_spool leaves a *)
(* copy for two days, what it removes has been read to the last whole line. *)
THEOREM RemovedFilesWereIngested ==
  ASSUME IngestKeepsUp, SpoolRetain >= 2
  PROVE  CollectorSpec => RemovedWasIngested
<1> DEFINE Kept == \A d \in Days : spool[d] # <<>> /\ spool'[d] = <<>> =>
                                     Ends(spool[d], offset[d]) = {}
<1>1. ASSUME CollectorInv, PassInv, [CollectorNext]_vars PROVE [Kept]_vars
  <2> SUFFICES ASSUME NEW d \in Days, spool[d] # <<>>, spool'[d] = <<>>
               PROVE  Ends(spool[d], offset[d]) = {}
    OBVIOUS
  <2>1. CASE PruneSpool
    <3>1. spool[d] # <<>> /\ mtime[d] + SpoolRetain <= today
      BY <2>1 DEF PruneSpool, RemoveCopies, Expired
    <3>2. today \in Nat /\ mtime[d] \in Nat /\ SpoolRetain \in Nat
      BY <1>1 DEF CollectorInv, MirrorTypes, SensorTypeOK
    <3>3. mtime[d] + 2 <= today
      BY <3>1, <3>2
    <3>4. QED
      BY <1>1, <3>1, <3>3 DEF PassInv, DayIsRead, ReadTo
  <2>2. CASE Pull \/ Sensor
    <3>1. CASE SensorStep
      BY <3>1 DEF SensorStep
    <3>2. CASE DropLive
      BY <1>1, <3>2 DEF DropLive, CollectorInv, MirrorTypes
    <3>3. ASSUME NEW n \in Names, NEW c \in Days, Gain(n, c) PROVE FALSE
      <4>1. CASE n = d
        <5>1. spool[d] \in Seq(LogBytes) /\ size[c] \in 0..MaxBytes
          BY <1>1 DEF CollectorInv, MirrorTypes, SensorTypeOK
        <5>2. PICK k \in 1..MaxBytes :
                /\ Len(spool[d]) + k <= size[c]
                /\ spool'[d] = spool[d] \o Run(c, Len(spool[d]), Len(spool[d]) + k)
          BY <1>1, <3>3, <4>1 DEF Gain, CollectorInv, MirrorTypes
        <5>0. k \in Nat /\ k > 0 /\ Len(spool[d]) \in Nat /\ Len(spool[d]) + k <= MaxBytes
          BY <5>1, <5>2
        <5>3. Len(spool'[d]) = Len(spool[d]) + k
          BY <5>0, <5>1, <5>2, GainedCopy
        <5>4. Len(<<>>) = 0
          OBVIOUS
        <5>5. QED
          BY <5>0, <5>3, <5>4
      <4>2. CASE n # d
        BY <1>1, <3>3, <4>2 DEF Gain, CollectorInv, MirrorTypes
      <4>3. QED
        BY <4>1, <4>2
    <3>4. QED
      BY <2>2, <3>1, <3>2, <3>3 DEF Pull, Sensor
  <2>3. CASE ~ (PruneSpool \/ Pull \/ Sensor)
    <3>1. spool' = spool
      BY <1>1, <2>3 DEF CollectorNext, Ingest, Prune, vars, mirrorVars, Glob, EndPass, ReadRow,
           Stat, StatDone, ReadGone, Skip, Read, Commit, IngestCrash, PruneRaw, PruneRawDone,
           PruneSources, PruneLook, PruneRows, PruneKill
    <3>2. QED
      BY <3>1
  <2>4. QED
    BY <2>1, <2>2, <2>3
<1>2. QED
  BY <1>1, PassInvariant, CollectorInvariant, PTL DEF CollectorSpec, RemovedWasIngested

-----------------------------------------------------------------------------
(* The live copy, which holds bytes of one log after another.              *)

(* The first byte of a line, and the byte behind its last.                 *)
First(l) == l[1][2]
End(l) == l[1][2] + Len(l)

(* No line that ends behind place q of s is one of the log of day e; and   *)
(* if q is beyond s, so that the next pass begins again, none at all.      *)
NoneFrom(e, s, q) == \A i \in Ends(s, q) : i - 1 > q => s[i - 1][1] # e
Clear(e, s, q) == NoneFrom(e, s, q) /\ (q > Len(s) => NoneFrom(e, s, 0))

(* t is s with bytes of the log of day d behind it, each at its place.     *)
Grown(s, t, d) ==
  /\ Len(s) < Len(t)
  /\ \A i \in 1..Len(s) : t[i] = s[i]
  /\ \A i \in (Len(s) + 1)..Len(t) : t[i] = <<d, i>>

(* Every byte is at its own place, and the last is of the log the copy is  *)
(* from, which no other byte's is after.                                   *)
Ordered(s, f) ==
  /\ \A i \in 1..Len(s) : s[i][2] = i /\ s[i][1] \in Days /\ s[i][1] <= f
  /\ s # <<>> => s[Len(s)][1] = f

(* An event is bytes of one day, of which the first has a place.           *)
LEMMA EventBytes ==
  ASSUME NEW l \in Events
  PROVE  /\ Len(l) \in Nat /\ Len(l) >= 1 /\ First(l) \in Nat /\ First(l) >= 1
         /\ End(l) \in Nat /\ End(l) > First(l)
         /\ DayOf(l) \in Days /\ l[1][1] = DayOf(l) /\ l[Len(l)][1] = DayOf(l)
<1>1. PICK d \in Days : \E span \in LineSpans(d) : l = LineAt(d, span)
  BY DEF Events
<1>2. PICK span \in LineSpans(d) : l = LineAt(d, span)
  BY <1>1
<1>3. PICK a, b : a = span[1] /\ b = span[2]
  OBVIOUS
<1>4. a \in 1..MaxBytes /\ b \in 1..MaxBytes /\ a <= b
  BY <1>3, SpanIs
<1>5. l = [i \in 1..(b - (a - 1)) |-> <<d, (a - 1) + i>>]
  BY <1>2, <1>3 DEF LineAt, Run
<1>6. /\ b - (a - 1) \in Nat /\ b - (a - 1) >= 1
      /\ 1 \in 1..(b - (a - 1)) /\ b - (a - 1) \in 1..(b - (a - 1))
  BY <1>4
<1>7. Len(l) = b - (a - 1)
  BY <1>5, <1>6
<1>8. l[1] = <<d, (a - 1) + 1>> /\ l[Len(l)][1] = d
  BY <1>5, <1>6, <1>7
<1>9. l[1][1] = d /\ l[1][2] = a
  BY <1>4, <1>8
<1>10. QED
  BY <1>4, <1>6, <1>7, <1>8, <1>9 DEF First, End, DayOf

(* A line that a pass reads is between its start and the newline it ends at. *)
LEMMA LineIsBetween ==
  ASSUME NEW s \in Seq(LogBytes), NEW q \in Nat, NEW l \in LinesFrom(s, q)
  PROVE  \E x, i \in 1..Len(s) :
           /\ q < x /\ x < i /\ i \in Ends(s, q)
           /\ Len(l) = i - x /\ l[1] = s[x] /\ l[Len(l)] = s[i - 1]
<1>1. PICK i \in Ends(s, q) : l = SubSeq(s, EndBefore(s, q, i) + 1, i - 1) /\ l # <<>>
  BY DEF LinesFrom
<1> DEFINE e == EndBefore(s, q, i)
<1>2. i \in Nat /\ i <= Len(s) /\ q < i /\ Len(s) \in Nat
  BY DEF Ends
<1>3. e \in Nat /\ q <= e /\ e < i
  BY <1>2, EndBeforeIs
<1> HIDE DEF e
<1>4. l = SubSeq(s, e + 1, i - 1)
  BY <1>1 DEF e
<1>5. e + 1 <= i - 1
  <2>1. CASE ~ (e + 1 <= i - 1)
    <3>1. SubSeq(s, e + 1, i - 1) = <<>>
      BY <1>2, <1>3, <2>1
    <3>2. QED
      BY <3>1, <1>1, <1>4
  <2>2. QED
    BY <2>1
<1>6. SubSeq(s, e + 1, i - 1) = [j \in 1..((i - 1) - (e + 1) + 1) |-> s[(e + 1) + j - 1]]
  BY <1>2, <1>3, <1>5
<1>7. (i - 1) - (e + 1) + 1 = i - (e + 1) /\ i - (e + 1) \in Nat /\ i - (e + 1) >= 1
  BY <1>2, <1>3, <1>5
<1>8. l = [j \in 1..(i - (e + 1)) |-> s[(e + 1) + j - 1]]
  BY <1>4, <1>6, <1>7
<1>9. Len(l) = i - (e + 1)
  BY <1>7, <1>8
<1>10. 1 \in 1..(i - (e + 1)) /\ i - (e + 1) \in 1..(i - (e + 1))
  BY <1>7
<1>11. l[1] = s[(e + 1) + 1 - 1] /\ l[Len(l)] = s[(e + 1) + (i - (e + 1)) - 1]
  BY <1>8, <1>9, <1>10
<1>12. (e + 1) + 1 - 1 = e + 1 /\ (e + 1) + (i - (e + 1)) - 1 = i - 1
  BY <1>2, <1>3
<1>13. l[1] = s[e + 1] /\ l[Len(l)] = s[i - 1]
  BY <1>11, <1>12
<1>14. e + 1 \in 1..Len(s) /\ i \in 1..Len(s) /\ q < e + 1 /\ e + 1 < i
  BY <1>2, <1>3, <1>5
<1>15. QED
  BY <1>1, <1>9, <1>13, <1>14

(* A line that a pass reads of the live copy has its bytes there.          *)
LEMMA LiveLine ==
  ASSUME NEW s \in Seq(LogBytes), NEW f \in Nat, Ordered(s, f), NEW q \in Nat,
         NEW l \in LinesFrom(s, q), l \in Events
  PROVE  /\ q < First(l) /\ End(l) \in Ends(s, q) /\ End(l) <= Len(s)
         /\ s[End(l)] \in Newline /\ DayOf(l) <= f
         /\ End(l) - 1 > q /\ s[End(l) - 1][1] = DayOf(l)
<1>1. PICK x, i \in 1..Len(s) :
           /\ q < x /\ x < i /\ i \in Ends(s, q)
           /\ Len(l) = i - x /\ l[1] = s[x] /\ l[Len(l)] = s[i - 1]
  BY LineIsBetween
<1>2. First(l) = x /\ l[1][1] = s[x][1] /\ s[x][1] <= f
  BY <1>1 DEF First, Ordered
<1>3. x \in Nat /\ i \in Nat /\ i <= Len(s) /\ Len(s) \in Nat
  BY <1>1
<1>4. End(l) = i
  BY <1>1, <1>2, <1>3 DEF First, End
<1>5. s[i] \in Newline
  BY <1>1 DEF Ends
<1>6. l[1][1] = DayOf(l) /\ l[Len(l)][1] = DayOf(l)
  BY EventBytes
<1>7. QED
  BY <1>1, <1>2, <1>3, <1>4, <1>5, <1>6

(* A line that a pass reads of a dated copy is one of its log.             *)
LEMMA DatedLine ==
  ASSUME NEW d \in Days, NEW s \in Seq(LogBytes), IsPrefixOf(s, d), NEW q \in Nat,
         NEW l \in LinesFrom(s, q)
  PROVE  DayOf(l) = d
<1>1. PICK x, i \in 1..Len(s) : l[1] = s[x]
  BY LineIsBetween
<1>2. l[1] = <<d, x>>
  BY <1>1 DEF IsPrefixOf
<1>3. QED
  BY <1>2 DEF DayOf

(* What is clear stays so as bytes of another log come.                    *)
LEMMA ClearGrows ==
  ASSUME NEW s \in Seq(LogBytes), NEW t \in Seq(LogBytes), NEW d \in Days, NEW e \in Days,
         Grown(s, t, d), e # d, s # <<>> => s[Len(s)][1] # e, NEW q \in Nat
  PROVE  /\ NoneFrom(e, s, q) => NoneFrom(e, t, q)
         /\ Clear(e, s, q) => Clear(e, t, q)
<1>1. Len(s) \in Nat /\ Len(t) \in Nat /\ Len(s) < Len(t)
  BY DEF Grown
<1>2. ASSUME NEW p \in Nat, NoneFrom(e, s, p) PROVE NoneFrom(e, t, p)
  <2> SUFFICES ASSUME NEW i \in Ends(t, p), i - 1 > p PROVE t[i - 1][1] # e
    BY DEF NoneFrom
  <2>1. i \in Nat /\ p < i /\ i <= Len(t) /\ t[i] \in Newline
    BY DEF Ends
  <2>2. CASE i <= Len(s)
    <3>1. i \in 1..Len(s) /\ i - 1 \in 1..Len(s)
      BY <1>1, <2>1, <2>2
    <3>2. t[i] = s[i] /\ t[i - 1] = s[i - 1]
      BY <3>1 DEF Grown
    <3>3. i \in Ends(s, p)
      BY <1>1, <2>1, <2>2, <3>2 DEF Ends
    <3>4. QED
      BY <1>2, <3>2, <3>3 DEF NoneFrom
  <2>3. CASE i = Len(s) + 1
    <3>1. i - 1 = Len(s) /\ Len(s) \in 1..Len(s)
      BY <1>1, <2>1, <2>3
    <3>2. t[i - 1] = s[Len(s)] /\ s # <<>>
      BY <3>1 DEF Grown
    <3>3. QED
      BY <3>2
  <2>4. CASE i > Len(s) + 1
    <3>1. i - 1 \in (Len(s) + 1)..Len(t)
      BY <1>1, <2>1, <2>4
    <3>2. t[i - 1] = <<d, i - 1>>
      BY <3>1 DEF Grown
    <3>3. QED
      BY <3>2
  <2>5. QED
    BY <1>1, <2>1, <2>2, <2>3, <2>4
<1>3. 0 \in Nat /\ (q > Len(t) => q > Len(s))
  BY <1>1
<1>4. QED
  BY <1>2, <1>3 DEF Clear

(* A copy without a byte of a log is clear of it everywhere.               *)
LEMMA FreeIsClear ==
  ASSUME NEW s \in Seq(LogBytes), NEW e, \A i \in 1..Len(s) : s[i][1] # e, NEW q \in Nat
  PROVE  NoneFrom(e, s, q) /\ NoneFrom(e, s, 0) /\ Clear(e, s, q)
<1>1. ASSUME NEW p \in Nat PROVE NoneFrom(e, s, p)
  <2> SUFFICES ASSUME NEW i \in Ends(s, p), i - 1 > p PROVE s[i - 1][1] # e
    BY DEF NoneFrom
  <2>1. i - 1 \in 1..Len(s)
    BY DEF Ends
  <2>2. QED
    BY <2>1
<1>2. QED
  BY <1>1 DEF Clear

(* A read takes no line of a log that is clear, and leaves it clear.       *)
LEMMA ReadIsClear ==
  ASSUME NEW s \in Seq(LogBytes), NEW e, NEW q \in Nat, q > Len(s) => NoneFrom(e, s, 0)
  PROVE  Clear(e, s, OffsetAfter(s, q))
<1>1. PICK p \in Nat : /\ p = OffsetAfter(s, q) /\ q <= p
                       /\ p = q \/ p <= Len(s)
                       /\ Ends(s, p) = {}
  BY OffsetAfterIs
<1>2. Len(s) \in Nat
  OBVIOUS
<1>3. p > Len(s) => q > Len(s)
  BY <1>1, <1>2
<1>4. NoneFrom(e, s, p)
  BY <1>1 DEF NoneFrom
<1>5. Clear(e, s, p)
  BY <1>3, <1>4 DEF Clear
<1>6. QED
  BY <1>1, <1>5

-----------------------------------------------------------------------------
(* An event counts once for its source, though it is read from the live    *)
(* copy and from the dated one, and its row goes by age while copies stay. *)
(* By the end of a pass the copies hold nothing of an old log that would   *)
(* be read again: for the dated copy that is DayIsRead; for the live one   *)
(* it is LiveInv.                                                          *)

(* The events of the log of day e are old enough to be pruned.             *)
OldLog(e) == e + RawRetain <= today

(* The live copy gains nothing of it any more.                             *)
Sealed(e) == liveFrom > e \/ mtime[e] # 0

Reads(n) == ipc = "read" /\ name = n

(* A line starts before place q, which is not beyond s.                    *)
Between(l, s, q) == First(l) <= q /\ q <= Len(s)

(* The live copy is from the log of the line and has its newline.          *)
InLive(l) ==
  /\ liveFrom = DayOf(l)
  /\ End(l) <= Len(spool[Live]) /\ spool[Live][End(l)] \in Newline

(* Of a log that is old and sealed, the live copy has no line that a pass  *)
(* will read: from the end of the pass on, and in a pass that began after  *)
(* the log was old, from when the live copy was read.                      *)
LiveIsRead(e) ==
  OldLog(e) /\ Sealed(e) =>
    /\ pass = "done" => /\ Clear(e, spool[Live], offset[Live])
                        /\ Holds(Live) => Clear(e, spool[Live], at)
    /\ pass = "begun" =>
         /\ Clear(e, spool[Live], offset[Live]) \/ Live \in todo \/ Holds(Live)
         /\ ToCommit(Live) => Clear(e, spool[Live], at)
         /\ Reads(Live) /\ at > Len(spool[Live]) => NoneFrom(e, spool[Live], 0)

(* A line stored before there was a dated copy is still in the live one,   *)
(* unless this is of a later log, and a pass that has read it is behind    *)
(* the start of the line.                                                  *)
RawIsThere(l) ==
  mtime[DayOf(l)] = 0 =>
    \/ liveFrom > DayOf(l)
    \/ /\ InLive(l)
       /\ pass = "done" => /\ Between(l, spool[Live], offset[Live])
                           /\ Holds(Live) => Between(l, spool[Live], at)
       /\ pass = "begun" =>
            /\ Between(l, spool[Live], offset[Live]) \/ Live \in todo \/ Holds(Live)
            /\ ToCommit(Live) => Between(l, spool[Live], at)
            /\ Reads(Live) => at <= Len(spool[Live])

(* In a pass that counts, what was stored of an old log is not read again. *)
NotAgain(l) == pass = "done" /\ OldLog(DayOf(l)) /\ ToCommit(Live) => l \notin batch

(* A line to commit is in its dated copy, or still in the live one.        *)
BatchIsThere(l) ==
  IF name = Live
    THEN mtime[DayOf(l)] = 0 =>
           \/ liveFrom > DayOf(l)
           \/ InLive(l) /\ End(l) <= at /\ at <= Len(spool[Live])
    ELSE name = DayOf(l) /\ mtime[DayOf(l)] # 0

LiveInv ==
  /\ Ordered(spool[Live], liveFrom)
  /\ \A e \in Days : LiveIsRead(e)
  /\ \A l \in raw \cap Events : RawIsThere(l) /\ NotAgain(l)
  /\ ipc = "commit" => \A l \in batch \cap Events : BatchIsThere(l)

(* What the types are of what is compared.                                 *)
LEMMA LiveTypes ==
  ASSUME CollectorInv
  PROVE  /\ spool[Live] \in Seq(LogBytes) /\ Len(spool[Live]) \in Nat
         /\ offset[Live] \in Nat /\ at \in Nat /\ today \in Nat
         /\ liveFrom \in Nat /\ liveFrom \in Days
         /\ \A e \in Days : /\ e \in Nat /\ mtime[e] \in Nat /\ offset[e] \in Nat
                            /\ spool[e] \in Seq(LogBytes) /\ Len(spool[e]) \in Nat
<1>1. /\ spool \in [Names -> Seq(LogBytes)] /\ offset \in [Names -> 0..MaxBytes]
      /\ at \in 0..MaxBytes /\ mtime \in [Days -> 0..MaxDay] /\ liveFrom \in Days
      /\ today \in Days
  BY DEF CollectorInv, MirrorTypes, RowTypes, ProcessTypes, SensorTypeOK
<1>2. QED
  BY <1>1

(* And after a step.                                                       *)
LEMMA LiveTypesAfter ==
  ASSUME CollectorInv'
  PROVE  /\ spool'[Live] \in Seq(LogBytes) /\ Len(spool'[Live]) \in Nat
         /\ today' \in Nat /\ liveFrom' \in Nat
<1>1. spool' \in [Names -> Seq(LogBytes)] /\ liveFrom' \in Days /\ today' \in Days
  BY DEF CollectorInv, MirrorTypes, SensorTypeOK
<1>2. QED
  BY <1>1

(* What a step of the pull, the sensor or the pruner does to the live copy. *)
Same == spool'[Live] = spool[Live] /\ liveFrom' = liveFrom
Drops == spool'[Live] = <<>> /\ liveFrom' > liveFrom /\ UNCHANGED <<today, mtime>>
GrowsBy(d) ==
  /\ Grown(spool[Live], spool'[Live], d)
  /\ liveFrom <= d /\ liveFrom' = d /\ mtime[d] = 0
  /\ UNCHANGED <<today, mtime>>
LiveMoves == Same \/ Drops \/ \E d \in Days : GrowsBy(d) /\ Continues(d)

(* Bytes of one log appended at the copy's own length.                     *)
LEMMA GainGrows ==
  ASSUME CollectorInv, NEW d \in Days, Gain(Live, d) PROVE GrowsBy(d)
<1>1. PICK k \in 1..MaxBytes :
        /\ liveFrom <= d /\ mtime[d] = 0
        /\ Len(spool[Live]) + k <= size[d]
        /\ spool' = [spool EXCEPT ![Live] = @ \o Run(d, Len(spool[Live]), Len(spool[Live]) + k)]
        /\ mtime' = mtime /\ liveFrom' = d /\ UNCHANGED sensorVars
  BY DEF Gain, Touch, LiveFrom
<1> DEFINE s == spool[Live]
           r == Run(d, Len(s), Len(s) + k)
<1>2. s \in Seq(LogBytes) /\ Len(s) \in Nat /\ k \in Nat /\ k >= 1
  BY LiveTypes
<1>3. spool'[Live] = s \o r
  BY <1>1 DEF CollectorInv, MirrorTypes
<1>4. r = [i \in 1..k |-> <<d, Len(s) + i>>]
  BY <1>2 DEF Run
<1>5. size[d] \in 0..MaxBytes
  BY DEF CollectorInv, MirrorTypes, SensorTypeOK
<1>6. Len(s) + k <= MaxBytes
  BY <1>1, <1>2, <1>5
<1>7. r \in [1..k -> LogBytes]
  BY <1>2, <1>4, <1>6 DEF LogBytes
<1>8. r \in Seq(LogBytes) /\ Len(r) = k
  BY <1>2, <1>7
<1>9. \A i \in 1..k : r[i] = <<d, Len(s) + i>>
  BY <1>4
<1> HIDE DEF r, s
<1>10. /\ Len(s \o r) = Len(s) + k
       /\ \A i \in 1..(Len(s) + k) :
            (s \o r)[i] = IF i <= Len(s) THEN s[i] ELSE r[i - Len(s)]
  BY <1>2, <1>8, ConcatProperties
<1>11. \A i \in 1..Len(s) : (s \o r)[i] = s[i]
  BY <1>2, <1>10
<1>12. ASSUME NEW i \in (Len(s) + 1)..(Len(s) + k) PROVE (s \o r)[i] = <<d, i>>
  <2>1. i - Len(s) \in 1..k /\ Len(s) + (i - Len(s)) = i /\ i \in 1..(Len(s) + k) /\ ~ (i <= Len(s))
    BY <1>2
  <2>2. QED
    BY <1>9, <1>10, <2>1
<1>13. Grown(s, s \o r, d)
  <2>1. Len(s \o r) = Len(s) + k /\ Len(s) < Len(s) + k
    BY <1>2, <1>10
  <2>2. \A i \in (Len(s) + 1)..Len(s \o r) : (s \o r)[i] = <<d, i>>
    BY <1>12, <2>1
  <2>3. QED
    BY <1>11, <2>1, <2>2 DEF Grown
<1>14. QED
  BY <1>1, <1>3, <1>13 DEF GrowsBy, s, sensorVars

(* The pull, the sensor and the pruner do one of these.                    *)
LEMMA PullMoves == ASSUME CollectorInv, Pull PROVE LiveMoves
<1>1. ASSUME NEW n \in Names, NEW d \in Days, Gain(n, d), n = Live => Continues(d)
      PROVE  LiveMoves
  <2>1. CASE n = Live
    BY <1>1, <2>1, GainGrows DEF LiveMoves
  <2>2. CASE n # Live
    BY <1>1, <2>2 DEF Gain, LiveFrom, CollectorInv, MirrorTypes, LiveMoves, Same
  <2>3. QED
    BY <2>1, <2>2
<1>2. CASE DropLive
  <2>1. liveFrom' > liveFrom
    <3>1. liveFrom \in Nat /\ liveDay \in Days
      BY LiveTypes DEF CollectorInv, MirrorTypes, SensorTypeOK
    <3>2. liveDay \in Nat
      BY <3>1
    <3>3. QED
      BY <1>2, <3>1, <3>2 DEF DropLive
  <2>2. QED
    BY <1>2, <2>1 DEF DropLive, CollectorInv, MirrorTypes, LiveMoves, Drops
<1>3. QED
  BY <1>1, <1>2 DEF Pull

(* The sensor and the pruner leave the live copy alone.                    *)
LEMMA OthersMove == ASSUME CollectorInv, Sensor \/ PruneSpool PROVE Same
<1>1. CASE Sensor
  BY <1>1 DEF Sensor, SensorStep, Same
<1>2. CASE PruneSpool
  BY <1>2 DEF PruneSpool, RemoveCopies, Expired, Same, CollectorInv, MirrorTypes
<1>3. QED
  BY <1>1, <1>2

(* How a log whose events are old is missing from the live copy: what was  *)
(* clear of it stays so, and the copy has none of it when it goes beyond.  *)
LEMMA ClearMoves ==
  ASSUME PullKeepsUp, CollectorInv, CollectorInv', Ordered(spool[Live], liveFrom),
         LiveMoves, NEW e \in Days, OldLog(e)
  PROVE  /\ Sealed(e) => \A q \in Nat :
              /\ NoneFrom(e, spool[Live], q) => NoneFrom(e, spool'[Live], q)
              /\ Clear(e, spool[Live], q) => Clear(e, spool'[Live], q)
         /\ ~ Sealed(e) /\ liveFrom' > e => \A q \in Nat :
              NoneFrom(e, spool'[Live], q) /\ Clear(e, spool'[Live], q)
<1> DEFINE s == spool[Live]
           t == spool'[Live]
<1>1. /\ s \in Seq(LogBytes) /\ t \in Seq(LogBytes) /\ Len(s) \in Nat
      /\ liveFrom \in Nat /\ liveFrom' \in Nat /\ e \in Nat /\ today \in Nat
  BY LiveTypes, LiveTypesAfter
<1>2. CASE Same
  BY <1>1, <1>2 DEF Same, Sealed
<1>3. CASE Drops
  <2>1. \A i \in 1..Len(t) : t[i][1] # e
    <3>1. t = <<>>
      BY <1>3 DEF Drops
    <3>2. Len(<<>>) = 0
      OBVIOUS
    <3>3. QED
      BY <3>1, <3>2
  <2>2. QED
    BY <1>1, <2>1, FreeIsClear
<1>4. ASSUME NEW d \in Days, GrowsBy(d), Continues(d) PROVE
         /\ Sealed(e) => \A q \in Nat :
              /\ NoneFrom(e, s, q) => NoneFrom(e, t, q)
              /\ Clear(e, s, q) => Clear(e, t, q)
         /\ ~ Sealed(e) /\ liveFrom' > e => \A q \in Nat :
              NoneFrom(e, t, q) /\ Clear(e, t, q)
  <2>1. /\ Grown(s, t, d) /\ liveFrom <= d /\ liveFrom' = d /\ mtime[d] = 0 /\ d \in Nat
        /\ s # <<>> => s[Len(s)][1] = liveFrom
    BY <1>4 DEF GrowsBy, Ordered
  <2>2. s # <<>> /\ liveFrom <= e => ~ (liveFrom < d)
    <3>1. s # <<>> /\ liveFrom < d => today < liveFrom + RawRetain
      BY <1>4 DEF Continues
    <3>2. QED
      BY <1>1, <3>1 DEF OldLog
  <2>3. ASSUME Sealed(e)
        PROVE  e # d /\ (s # <<>> => s[Len(s)][1] # e)
    <3>1. e # d
      BY <1>1, <2>1, <2>3 DEF Sealed
    <3>2. ASSUME s # <<>> PROVE liveFrom # e
      BY <1>1, <2>1, <2>2, <3>1, <3>2
    <3>3. QED
      BY <2>1, <3>1, <3>2
  <2>4. Sealed(e) => \A q \in Nat :
              /\ NoneFrom(e, s, q) => NoneFrom(e, t, q)
              /\ Clear(e, s, q) => Clear(e, t, q)
    BY <1>1, <2>1, <2>3, ClearGrows
  <2>5. ASSUME ~ Sealed(e), liveFrom' > e, NEW q \in Nat PROVE NoneFrom(e, t, q) /\ Clear(e, t, q)
    <3>1. s = <<>> /\ d # e
      BY <1>1, <2>1, <2>2, <2>5 DEF Sealed
    <3>2. Len(s) = 0
      BY <3>1
    <3>3. \A i \in 1..Len(t) : t[i] = <<d, i>>
      BY <2>1, <3>2 DEF Grown
    <3>4. \A i \in 1..Len(t) : t[i][1] # e
      BY <3>1, <3>3
    <3>5. QED
      BY <1>1, <3>4, FreeIsClear
  <2>6. QED
    BY <2>4, <2>5
<1>5. QED
  BY <1>2, <1>3, <1>4 DEF LiveMoves

(* A dated copy of a log whose events are old is not written any more.     *)
LEMMA OldIsClosed ==
  ASSUME PullRetain < RawRetain, CollectorInv, PassInv, SpoolStep, NEW e \in Days, OldLog(e)
  PROVE  /\ mtime'[e] = mtime[e] /\ (spool'[e] = spool[e] \/ spool'[e] = <<>>)
         /\ OldLog(e)' /\ mtime[e] < today
<1>1. /\ today \in Nat /\ today' \in Nat /\ (today' = today \/ today' = today + 1)
      /\ mtime[e] \in Nat /\ mtime'[e] \in Nat
      /\ \/ mtime'[e] = mtime[e] /\ (spool'[e] = spool[e] \/ spool'[e] = <<>>)
         \/ mtime'[e] = today /\ today' = today /\ today <= e + PullRetain
  BY DatedStep
<1>2. e \in Nat /\ e + RawRetain <= today
  BY DEF OldLog
<1>3. mtime[e] # 0 => mtime[e] <= e + PullRetain
  BY DEF PassInv, GoneIsGone
<1>4. ~ (today <= e + PullRetain) /\ today # 0
  BY <1>1, <1>2
<1>5. mtime[e] < today
  BY <1>1, <1>2, <1>3, <1>4
<1>6. e + RawRetain <= today'
  BY <1>1, <1>2
<1>7. QED
  BY <1>1, <1>4, <1>5, <1>6 DEF OldLog

(* The live copy keeps its bytes in order.                                 *)
LEMMA OrderStays ==
  ASSUME CollectorInv, CollectorInv', Ordered(spool[Live], liveFrom), LiveMoves
  PROVE  Ordered(spool'[Live], liveFrom')
<1> DEFINE s == spool[Live]
           t == spool'[Live]
<1>1. /\ s \in Seq(LogBytes) /\ t \in Seq(LogBytes) /\ Len(s) \in Nat /\ Len(t) \in Nat
      /\ liveFrom \in Nat /\ liveFrom' \in Nat
  BY LiveTypes, LiveTypesAfter
<1>2. CASE Same
  BY <1>2 DEF Same
<1>3. CASE Drops
  <2>1. t = <<>>
    BY <1>3 DEF Drops
  <2>2. Len(<<>>) = 0
    OBVIOUS
  <2>3. QED
    BY <2>1, <2>2 DEF Ordered
<1>4. ASSUME NEW d \in Days, GrowsBy(d) PROVE Ordered(t, liveFrom')
  <2>1. Grown(s, t, d) /\ liveFrom <= d /\ liveFrom' = d /\ d \in Nat
    BY <1>4 DEF GrowsBy
  <2>2. ASSUME NEW i \in 1..Len(t)
        PROVE  t[i][2] = i /\ t[i][1] \in Days /\ t[i][1] <= d
    <3>1. CASE i <= Len(s)
      <4>1. i \in 1..Len(s)
        BY <1>1, <3>1
      <4>2. t[i] = s[i] /\ s[i][2] = i /\ s[i][1] \in Days /\ s[i][1] <= liveFrom
        BY <2>1, <4>1 DEF Grown, Ordered
      <4>3. s[i][1] \in Nat
        BY <4>2
      <4>4. QED
        BY <1>1, <2>1, <4>2, <4>3
    <3>2. CASE ~ (i <= Len(s))
      <4>1. i \in (Len(s) + 1)..Len(t)
        BY <1>1, <3>2
      <4>2. t[i] = <<d, i>>
        BY <2>1, <4>1 DEF Grown
      <4>3. QED
        BY <2>1, <4>2
    <3>3. QED
      BY <3>1, <3>2
  <2>3. t[Len(t)][1] = d
    <3>1. Len(t) \in (Len(s) + 1)..Len(t)
      BY <1>1, <2>1 DEF Grown
    <3>2. t[Len(t)] = <<d, Len(t)>>
      BY <2>1, <3>1 DEF Grown
    <3>3. QED
      BY <3>2
  <2>4. QED
    BY <2>1, <2>2, <2>3 DEF Ordered
<1>5. QED
  BY <1>2, <1>3, <1>4 DEF LiveMoves

(* A line in the live copy stays there until a later log takes the copy.   *)
LEMMA LineMoves ==
  ASSUME CollectorInv, CollectorInv', LiveMoves, NEW l \in Events, InLive(l)
  PROVE  \/ liveFrom' > DayOf(l)
         \/ /\ InLive(l)' /\ Len(spool[Live]) <= Len(spool'[Live])
            /\ \A q \in Nat : Between(l, spool[Live], q) => Between(l, spool'[Live], q)
<1> DEFINE s == spool[Live]
           t == spool'[Live]
<1>1. /\ s \in Seq(LogBytes) /\ t \in Seq(LogBytes) /\ Len(s) \in Nat /\ Len(t) \in Nat
      /\ liveFrom \in Nat /\ liveFrom' \in Nat
  BY LiveTypes, LiveTypesAfter
<1>2. /\ liveFrom = DayOf(l) /\ End(l) <= Len(s) /\ s[End(l)] \in Newline
      /\ End(l) \in Nat /\ End(l) >= 1 /\ First(l) \in Nat
  <2>1. Len(l) \in Nat /\ First(l) \in Nat /\ First(l) >= 1 /\ End(l) \in Nat /\ End(l) > First(l)
    BY EventBytes
  <2>2. QED
    BY <2>1 DEF InLive
<1>3. CASE Same
  BY <1>1, <1>2, <1>3 DEF Same, InLive
<1>4. CASE Drops
  BY <1>2, <1>4 DEF Drops
<1>5. ASSUME NEW d \in Days, GrowsBy(d)
      PROVE  \/ liveFrom' > DayOf(l)
             \/ /\ InLive(l)' /\ Len(s) <= Len(t)
                /\ \A q \in Nat : Between(l, s, q) => Between(l, t, q)
  <2>1. Grown(s, t, d) /\ liveFrom <= d /\ liveFrom' = d /\ d \in Nat
    BY <1>5 DEF GrowsBy
  <2>2. Len(s) < Len(t) /\ End(l) \in 1..Len(s)
    BY <1>1, <1>2, <2>1 DEF Grown
  <2>3. t[End(l)] = s[End(l)] /\ End(l) <= Len(t)
    BY <1>1, <1>2, <2>1, <2>2 DEF Grown
  <2>4. \A q \in Nat : Between(l, s, q) => Between(l, t, q)
    BY <1>1, <2>2 DEF Between
  <2>5. liveFrom' > DayOf(l) \/ liveFrom' = DayOf(l)
    BY <1>1, <1>2, <2>1
  <2>6. liveFrom' = DayOf(l) => InLive(l)'
    BY <1>2, <2>3 DEF InLive
  <2>7. QED
    BY <1>1, <2>2, <2>4, <2>5, <2>6
<1>6. QED
  BY <1>3, <1>4, <1>5 DEF LiveMoves

(* The live copy never goes back to an earlier log.                        *)
LEMMA LiveGoesOn ==
  ASSUME CollectorInv, CollectorInv', LiveMoves PROVE liveFrom <= liveFrom'
<1>1. liveFrom \in Nat /\ liveFrom' \in Nat
  BY LiveTypes, LiveTypesAfter
<1>2. QED
  BY <1>1 DEF LiveMoves, Same, Drops, GrowsBy

(* A log is sealed for good, and a dated copy once begun has been begun.   *)
LEMMA SpoolGoesOn ==
  ASSUME CollectorInv, CollectorInv', SpoolStep, LiveMoves, NEW e \in Days
  PROVE  (Sealed(e) => Sealed(e)') /\ (mtime'[e] = 0 => mtime[e] = 0)
<1>1. /\ liveFrom <= liveFrom' /\ liveFrom \in Nat /\ liveFrom' \in Nat
      /\ today \in Days /\ e \in Nat /\ today \in Nat
  BY LiveGoesOn, LiveTypes, LiveTypesAfter DEF CollectorInv, MirrorTypes, SensorTypeOK
<1>2. mtime'[e] = 0 => mtime[e] = 0
  <2>1. mtime'[e] = mtime[e] \/ mtime'[e] = today
    BY DatedStep
  <2>2. today # 0
    BY <1>1 DEF Days
  <2>3. QED
    BY <2>1, <2>2
<1>3. QED
  BY <1>1, <1>2 DEF Sealed

(* A copy gets shorter only by being dropped.                              *)
LEMMA LiveShrinks ==
  ASSUME CollectorInv, CollectorInv', LiveMoves, NEW e
  PROVE  Len(spool'[Live]) < Len(spool[Live]) => NoneFrom(e, spool'[Live], 0)
<1>1. /\ spool'[Live] \in Seq(LogBytes)
      /\ Len(spool[Live]) \in Nat /\ Len(spool'[Live]) \in Nat
  BY LiveTypes, LiveTypesAfter
<1>2. CASE Drops
  <2>1. spool'[Live] = <<>>
    BY <1>2 DEF Drops
  <2>2. Len(<<>>) = 0
    OBVIOUS
  <2>3. \A i \in 1..Len(spool'[Live]) : spool'[Live][i][1] # e
    BY <2>1, <2>2
  <2>4. QED
    BY <1>1, <2>3, FreeIsClear
<1>3. CASE Same \/ \E d \in Days : GrowsBy(d)
  BY <1>1, <1>3 DEF Same, GrowsBy, Grown
<1>4. QED
  BY <1>2, <1>3 DEF LiveMoves

(* The pull, the sensor and the pruner leave the live copy as the passes   *)
(* need it.                                                                *)
LEMMA SpoolStepLive ==
  ASSUME PullKeepsUp, PullRetain < RawRetain, CollectorInv, CollectorInv', PassInv, LiveInv,
         SpoolStep, LiveMoves, UNCHANGED <<raw, offset, ipc, todo, name, at, batch>>,
         (today' = today /\ pass' = pass) \/ pass' = "none"
  PROVE  LiveInv'
<1>1. /\ offset[Live] \in Nat /\ at \in Nat /\ 0 \in Nat
      /\ Len(spool[Live]) \in Nat /\ Len(spool'[Live]) \in Nat
      /\ Holds(Live)' = Holds(Live) /\ ToCommit(Live)' = ToCommit(Live)
      /\ Reads(Live)' = Reads(Live)
  BY LiveTypes, LiveTypesAfter DEF Holds, ToCommit, Reads
<1>2. Ordered(spool'[Live], liveFrom')
  BY OrderStays DEF LiveInv
<1>3. ASSUME NEW e \in Days PROVE LiveIsRead(e)'
  <2>1. SUFFICES ASSUME pass' = pass, today' = today, OldLog(e), Sealed(e)', pass # "none"
                 PROVE  LiveIsRead(e)'
    BY DEF LiveIsRead, OldLog
  <2>2. /\ Sealed(e) => \A q \in Nat :
              /\ NoneFrom(e, spool[Live], q) => NoneFrom(e, spool'[Live], q)
              /\ Clear(e, spool[Live], q) => Clear(e, spool'[Live], q)
        /\ ~ Sealed(e) /\ liveFrom' > e => \A q \in Nat :
              NoneFrom(e, spool'[Live], q) /\ Clear(e, spool'[Live], q)
    BY <2>1, ClearMoves DEF LiveInv
  <2>3. LiveIsRead(e) /\ mtime'[e] = mtime[e]
    BY <2>1, OldIsClosed DEF LiveInv
  <2>4. CASE Sealed(e)
    <3>1. at > Len(spool'[Live]) => at > Len(spool[Live]) \/ NoneFrom(e, spool'[Live], 0)
      BY <1>1, LiveShrinks
    <3>2. QED
      BY <1>1, <2>1, <2>2, <2>3, <2>4, <3>1 DEF LiveIsRead
  <2>5. CASE ~ Sealed(e)
    <3>1. liveFrom' > e
      BY <2>1, <2>3, <2>5 DEF Sealed
    <3>2. QED
      BY <1>1, <2>2, <2>5, <3>1 DEF LiveIsRead
  <2>6. QED
    BY <2>4, <2>5
<1>4. ASSUME NEW l \in Events, RawIsThere(l) PROVE RawIsThere(l)'
  <2>1. DayOf(l) \in Days /\ liveFrom <= liveFrom' /\ liveFrom \in Nat /\ liveFrom' \in Nat
    BY LiveGoesOn, LiveTypes, LiveTypesAfter, LinesAreEvents
  <2>2. SUFFICES ASSUME mtime'[DayOf(l)] = 0, mtime[DayOf(l)] = 0, ~ (liveFrom' > DayOf(l))
                 PROVE  RawIsThere(l)'
    BY <2>1, SpoolGoesOn DEF RawIsThere
  <2>3. InLive(l)
    <3>1. DayOf(l) \in Nat
      BY <2>1
    <3>2. QED
      BY <1>4, <2>1, <2>2, <3>1 DEF RawIsThere
  <2>4. /\ InLive(l)' /\ Len(spool[Live]) <= Len(spool'[Live])
        /\ \A q \in Nat : Between(l, spool[Live], q) => Between(l, spool'[Live], q)
    BY <2>2, <2>3, LineMoves
  <2>5. ~ (liveFrom > DayOf(l))
    BY <2>3, <2>1 DEF InLive
  <2>6. at <= Len(spool[Live]) => at <= Len(spool'[Live])
    BY <1>1, <2>4
  <2>7. QED
    BY <1>1, <1>4, <2>2, <2>4, <2>5, <2>6 DEF RawIsThere
<1>5. ASSUME NEW l \in Events, NotAgain(l) PROVE NotAgain(l)'
  BY <1>1, <1>5 DEF NotAgain, OldLog
<1>6. ASSUME NEW l \in Events, BatchIsThere(l) PROVE BatchIsThere(l)'
  <2>1. DayOf(l) \in Days /\ liveFrom <= liveFrom' /\ liveFrom \in Nat /\ liveFrom' \in Nat
    BY LiveGoesOn, LiveTypes, LiveTypesAfter, LinesAreEvents
  <2>2. DayOf(l) \in Nat
    BY <2>1
  <2>3. mtime'[DayOf(l)] = 0 => mtime[DayOf(l)] = 0
    BY <2>1, SpoolGoesOn
  <2>4. CASE name = Live /\ mtime'[DayOf(l)] = 0
    <3>1. CASE liveFrom > DayOf(l)
      BY <2>1, <2>2, <2>4, <3>1 DEF BatchIsThere
    <3>2. CASE InLive(l) /\ End(l) <= at /\ at <= Len(spool[Live])
      <4>1. liveFrom' > DayOf(l) \/ (InLive(l)' /\ Len(spool[Live]) <= Len(spool'[Live]))
        BY <3>2, LineMoves
      <4>2. QED
        BY <1>1, <2>4, <3>2, <4>1 DEF BatchIsThere
    <3>3. QED
      BY <1>6, <2>3, <2>4, <3>1, <3>2 DEF BatchIsThere
  <2>5. CASE ~ (name = Live /\ mtime'[DayOf(l)] = 0)
    BY <1>6, <2>3, <2>5 DEF BatchIsThere
  <2>6. QED
    BY <2>4, <2>5
<1>7. QED
  BY <1>2, <1>3, <1>4, <1>5, <1>6 DEF LiveInv

(* Steps of the pruner that leave the copies alone.                        *)
LEMMA QuietLive ==
  ASSUME LiveInv, UNCHANGED <<mirrorVars, ipc, name, at, batch>>,
         raw' \subseteq raw,
         (UNCHANGED <<pass, offset, todo>>) \/ pass' = "none"
  PROVE  LiveInv'
<1>1. /\ UNCHANGED <<today, spool, mtime, liveFrom>>
      /\ Holds(Live)' = Holds(Live) /\ ToCommit(Live)' = ToCommit(Live)
      /\ Reads(Live)' = Reads(Live)
  BY DEF mirrorVars, Holds, ToCommit, Reads
<1>2. Ordered(spool'[Live], liveFrom')
  BY <1>1 DEF LiveInv
<1>3. ASSUME NEW e \in Days PROVE LiveIsRead(e)'
  BY <1>1 DEF LiveInv, LiveIsRead, OldLog, Sealed
<1>4. ASSUME NEW l \in Events, RawIsThere(l) PROVE RawIsThere(l)'
  BY <1>1, <1>4 DEF RawIsThere, InLive
<1>5. ASSUME NEW l \in Events, NotAgain(l) PROVE NotAgain(l)'
  BY <1>1, <1>5 DEF NotAgain, OldLog
<1>6. ASSUME NEW l \in Events, BatchIsThere(l) PROVE BatchIsThere(l)'
  BY <1>1, <1>6 DEF BatchIsThere, InLive
<1>7. QED
  BY <1>2, <1>3, <1>4, <1>5, <1>6 DEF LiveInv

(* An empty copy is clear, and holds no line.                              *)
LEMMA EmptyIsClear ==
  ASSUME NEW e, NEW q \in Nat
  PROVE  NoneFrom(e, <<>>, q) /\ NoneFrom(e, <<>>, 0) /\ Clear(e, <<>>, q)
<1>1. Len(<<>>) = 0 /\ <<>> \in Seq(LogBytes)
  OBVIOUS
<1>2. \A i \in 1..Len(<<>>) : <<>>[i][1] # e
  BY <1>1
<1>3. QED
  BY <1>1, <1>2, FreeIsClear

(* A copy that has a line is not empty.                                    *)
LEMMA NoLineInEmpty ==
  ASSUME CollectorInv, NEW l \in Events, InLive(l) PROVE spool[Live] # <<>>
<1>1. End(l) \in Nat /\ End(l) >= 1 /\ End(l) <= Len(spool[Live])
  BY EventBytes DEF InLive
<1>2. Len(<<>>) = 0
  OBVIOUS
<1>3. QED
  BY <1>1, <1>2

(* A pass begins: the live copy is to do if there is one.                  *)
LEMMA GlobLive == CollectorInv /\ LiveInv /\ Glob => LiveInv'
<1> SUFFICES ASSUME CollectorInv, LiveInv, Glob PROVE LiveInv'
  OBVIOUS
<1>1. /\ ipc = "sleep" /\ ipc' = "next"
      /\ spool[Live] # <<>> => Live \in todo'
      /\ pass' = IF pass = "none" THEN "begun" ELSE pass
      /\ UNCHANGED <<raw, offset, today, spool, mtime, liveFrom>>
      /\ offset[Live] \in Nat
  BY LiveTypes DEF Glob, mirrorVars, dbVars
<1>2. ~ Holds(Live)' /\ ~ ToCommit(Live)' /\ ~ Reads(Live)'
  BY <1>1 DEF Holds, ToCommit, Reads
<1>3. ASSUME NEW e \in Days PROVE LiveIsRead(e)'
  <2>1. Clear(e, spool[Live], offset[Live]) \/ Live \in todo'
    BY <1>1, EmptyIsClear
  <2>2. QED
    BY <1>1, <1>2, <2>1 DEF LiveInv, LiveIsRead, OldLog, Sealed
<1>4. ASSUME NEW l \in Events, RawIsThere(l) PROVE RawIsThere(l)'
  <2>1. InLive(l) => Live \in todo'
    BY <1>1, NoLineInEmpty
  <2>2. InLive(l)' = InLive(l)
    BY <1>1 DEF InLive
  <2>3. QED
    BY <1>1, <1>2, <1>4, <2>1, <2>2 DEF RawIsThere
<1>5. QED
  BY <1>1, <1>2, <1>3, <1>4 DEF LiveInv, NotAgain

(* The pass ends: the live copy has been read.                             *)
LEMMA EndPassLive == CollectorInv /\ LiveInv /\ EndPass => LiveInv'
<1> SUFFICES ASSUME CollectorInv, LiveInv, EndPass PROVE LiveInv'
  OBVIOUS
<1>1. /\ ipc = "next" /\ ipc' = "sleep" /\ Live \notin todo
      /\ pass' = IF pass = "begun" THEN "done" ELSE pass
      /\ UNCHANGED <<raw, offset, today, spool, mtime, liveFrom>>
  BY DEF EndPass, mirrorVars, dbVars
<1>2. ~ Holds(Live)' /\ ~ ToCommit(Live)' /\ ~ Reads(Live)' /\ ~ Holds(Live)
  BY <1>1 DEF Holds, ToCommit, Reads
<1>3. ASSUME NEW e \in Days PROVE LiveIsRead(e)'
  BY <1>1, <1>2 DEF LiveInv, LiveIsRead, OldLog, Sealed
<1>4. ASSUME NEW l \in Events, RawIsThere(l) PROVE RawIsThere(l)'
  <2>1. InLive(l)' = InLive(l)
    BY <1>1 DEF InLive
  <2>2. QED
    BY <1>1, <1>2, <1>4, <2>1 DEF RawIsThere
<1>5. QED
  BY <1>1, <1>2, <1>3, <1>4 DEF LiveInv, NotAgain

(* The ingester dies: what it had in hand is gone, and a pass that had not *)
(* ended does not count.                                                   *)
LEMMA CrashLive == CollectorInv /\ LiveInv /\ IngestCrash => LiveInv'
<1> SUFFICES ASSUME CollectorInv, LiveInv, IngestCrash PROVE LiveInv'
  OBVIOUS
<1>1. /\ ipc' = "sleep"
      /\ pass' = IF pass = "begun" THEN "none" ELSE pass
      /\ UNCHANGED <<raw, offset, today, spool, mtime, liveFrom>>
  BY DEF IngestCrash, mirrorVars, dbVars
<1>2. ~ Holds(Live)' /\ ~ ToCommit(Live)' /\ ~ Reads(Live)'
  BY <1>1 DEF Holds, ToCommit, Reads
<1>3. ASSUME NEW e \in Days PROVE LiveIsRead(e)'
  BY <1>1, <1>2 DEF LiveInv, LiveIsRead, OldLog, Sealed
<1>4. ASSUME NEW l \in Events, RawIsThere(l) PROVE RawIsThere(l)'
  <2>1. InLive(l)' = InLive(l)
    BY <1>1 DEF InLive
  <2>2. QED
    BY <1>1, <1>2, <1>4, <2>1 DEF RawIsThere
<1>5. QED
  BY <1>1, <1>2, <1>3, <1>4 DEF LiveInv, NotAgain

(* A file is taken up, at the place its row says.                          *)
LEMMA ReadRowLive == CollectorInv /\ LiveInv /\ ReadRow => LiveInv'
<1> SUFFICES ASSUME CollectorInv, LiveInv, ReadRow PROVE LiveInv'
  OBVIOUS
<1> DEFINE n == Min(todo)
<1>1. /\ ipc = "next" /\ ipc' = "stat"
      /\ name' = n /\ todo' = todo \ {n} /\ at' = offset[n]
      /\ UNCHANGED <<raw, offset, today, spool, mtime, liveFrom, pass>>
  BY DEF ReadRow, mirrorVars, dbVars
<1> HIDE DEF n
<1>2. /\ ~ ToCommit(Live)' /\ ~ Reads(Live)' /\ ~ Holds(Live)
      /\ Holds(Live)' => at' = offset[Live]
      /\ Live \in todo => Live \in todo' \/ Holds(Live)'
  BY <1>1 DEF Holds, ToCommit, Reads
<1>3. ASSUME NEW e \in Days PROVE LiveIsRead(e)'
  BY <1>1, <1>2 DEF LiveInv, LiveIsRead, OldLog, Sealed
<1>4. ASSUME NEW l \in Events, RawIsThere(l) PROVE RawIsThere(l)'
  <2>1. InLive(l)' = InLive(l)
    BY <1>1 DEF InLive
  <2>2. QED
    BY <1>1, <1>2, <1>4, <2>1 DEF RawIsThere
<1>5. QED
  BY <1>1, <1>2, <1>3, <1>4 DEF LiveInv, NotAgain

(* The size is looked at: a place beyond the copy becomes its start.       *)
LEMMA StatLive == CollectorInv /\ LiveInv /\ Stat => LiveInv'
<1> SUFFICES ASSUME CollectorInv, LiveInv, Stat PROVE LiveInv'
  OBVIOUS
<1>1. /\ ipc = "stat" /\ ipc' = "read"
      /\ at' = IF Len(spool[name]) < at THEN 0 ELSE at
      /\ UNCHANGED <<raw, offset, today, spool, mtime, liveFrom, pass, todo, name>>
      /\ Len(spool[Live]) \in Nat /\ at \in Nat
  BY LiveTypes DEF Stat, Rescan, FileLen, mirrorVars, dbVars
<1>2. /\ ~ ToCommit(Live)' /\ Holds(Live)' = Holds(Live)
      /\ Holds(Live) => at' = IF Len(spool[Live]) < at THEN 0 ELSE at
      /\ Reads(Live)' => at' <= Len(spool[Live])
  BY <1>1 DEF Holds, ToCommit, Reads
<1>3. ASSUME NEW e \in Days PROVE LiveIsRead(e)'
  <2>1. Holds(Live) /\ Clear(e, spool[Live], at) => Clear(e, spool[Live], at')
    <3>1. at > Len(spool[Live]) /\ NoneFrom(e, spool[Live], 0) => Clear(e, spool[Live], 0)
      BY <1>1 DEF Clear
    <3>2. QED
      BY <1>1, <1>2, <3>1 DEF Clear
  <2>2. ~ (Reads(Live)' /\ at' > Len(spool[Live]))
    BY <1>1, <1>2
  <2>3. QED
    BY <1>1, <1>2, <2>1, <2>2 DEF LiveInv, LiveIsRead, OldLog, Sealed
<1>4. ASSUME NEW l \in Events, RawIsThere(l) PROVE RawIsThere(l)'
  <2>1. InLive(l)' = InLive(l)
    BY <1>1 DEF InLive
  <2>2. Holds(Live) /\ Between(l, spool[Live], at) => Between(l, spool[Live], at')
    BY <1>1, <1>2 DEF Between
  <2>3. QED
    BY <1>1, <1>2, <1>4, <2>1, <2>2 DEF RawIsThere
<1>5. QED
  BY <1>1, <1>2, <1>3, <1>4 DEF LiveInv, NotAgain

(* A file is left without a read: it has no more, or it is not there.      *)
LEMMA SkipLive == CollectorInv /\ PassInv /\ LiveInv /\ (StatDone \/ ReadGone) => LiveInv'
<1> SUFFICES ASSUME CollectorInv, PassInv, LiveInv, StatDone \/ ReadGone PROVE LiveInv'
  OBVIOUS
<1> DEFINE s == spool[Live]
           o == offset[Live]
<1>1. /\ ipc \in {"stat", "read"} /\ ipc' = "next"
      /\ UNCHANGED <<raw, offset, today, spool, mtime, liveFrom, todo, pass>>
  BY DEF StatDone, ReadGone, Skip, mirrorVars, dbVars
<1>t. s \in Seq(LogBytes) /\ Len(s) \in Nat /\ o \in Nat /\ at \in Nat
  BY LiveTypes
<1>2. ~ ToCommit(Live)' /\ ~ Holds(Live)' /\ ~ Reads(Live)'
  BY <1>1 DEF Holds, ToCommit, Reads
<1>3. ASSUME pass = "begun", Holds(Live) PROVE s = <<>> \/ o = Len(s)
  <2>1. CASE ReadGone
    BY <1>3, <2>1 DEF ReadGone, Holds
  <2>2. CASE StatDone
    <3>1. at = o /\ Len(s) = IF Len(s) < at THEN 0 ELSE at
      BY <1>3, <2>2 DEF StatDone, Rescan, FileLen, Holds, PassInv, HandIsRow
    <3>2. Len(s) = 0 => s = <<>>
      BY <1>t
    <3>3. QED
      BY <1>t, <3>1, <3>2
  <2>3. QED
    BY <2>1, <2>2
<1> HIDE DEF s, o
<1>4. ASSUME NEW e \in Days, pass = "begun", Holds(Live) PROVE Clear(e, s, o)
  <2>1. CASE s = <<>>
    BY <1>t, <2>1, EmptyIsClear
  <2>2. CASE o = Len(s)
    <3>1. Ends(s, o) = {} /\ ~ (o > Len(s))
      BY <1>t, <2>2 DEF Ends
    <3>2. QED
      BY <3>1 DEF Clear, NoneFrom
  <2>3. QED
    BY <1>3, <1>4, <2>1, <2>2
<1>5. ASSUME NEW e \in Days PROVE LiveIsRead(e)'
  BY <1>1, <1>2, <1>4 DEF LiveInv, LiveIsRead, OldLog, Sealed, s, o
<1>6. ASSUME NEW l \in Events, RawIsThere(l) PROVE RawIsThere(l)'
  <2>1. InLive(l)' = InLive(l)
    BY <1>1 DEF InLive
  <2>2. ASSUME InLive(l), pass = "begun", Holds(Live) PROVE Between(l, s, o)
    <3>1. o = Len(s)
      BY <1>3, <2>2, NoLineInEmpty DEF s
    <3>2. First(l) \in Nat /\ End(l) \in Nat /\ First(l) < End(l) /\ End(l) <= Len(s)
      BY <2>2, EventBytes DEF InLive, s
    <3>3. QED
      BY <1>t, <3>1, <3>2 DEF Between
  <2>3. QED
    BY <1>1, <1>2, <1>6, <2>1, <2>2 DEF RawIsThere, s, o
<1>7. QED
  BY <1>1, <1>2, <1>5, <1>6 DEF LiveInv, NotAgain

(* The lines of a file are read: none of the live copy's is stored that    *)
(* would be stored again, and what it leaves is clear.                     *)
LEMMA ReadLive == CollectorInv /\ LiveInv /\ Read => LiveInv'
<1> SUFFICES ASSUME CollectorInv, LiveInv, Read PROVE LiveInv'
  OBVIOUS
<1> DEFINE s == spool[Live]
           o == offset[Live]
<1>1. /\ ipc = "read" /\ ipc' = "commit" /\ spool[name] # <<>>
      /\ batch' = LinesFrom(spool[name], at) /\ at' = OffsetAfter(spool[name], at)
      /\ UNCHANGED <<raw, offset, today, spool, mtime, liveFrom, todo, pass, name>>
  BY DEF Read, mirrorVars, dbVars
<1>t. /\ s \in Seq(LogBytes) /\ Len(s) \in Nat /\ o \in Nat /\ at \in Nat /\ at' \in Nat
      /\ liveFrom \in Nat /\ Ordered(s, liveFrom)
  <2>1. spool[name] \in Seq(LogBytes)
    BY DEF CollectorInv, MirrorTypes, ProcessTypes
  <2>2. at' \in Nat
    BY <1>1, <2>1, LiveTypes, OffsetAfterIs
  <2>3. QED
    BY <2>2, LiveTypes DEF LiveInv
<1>2. /\ ~ Reads(Live)' /\ Holds(Live)' = Holds(Live) /\ ~ ToCommit(Live)
      /\ ToCommit(Live)' = Holds(Live) /\ Reads(Live) = Holds(Live)
  <2>1. Holds(Live) <=> name = Live
    BY <1>1 DEF Holds
  <2>2. (Holds(Live)' <=> name = Live) /\ (ToCommit(Live)' <=> name = Live)
    BY <1>1 DEF Holds, ToCommit
  <2>3. Reads(Live) <=> name = Live
    BY <1>1 DEF Reads
  <2>4. ~ Reads(Live)' /\ ~ ToCommit(Live)
    BY <1>1 DEF Reads, ToCommit
  <2>5. /\ Holds(Live) \in BOOLEAN /\ Holds(Live)' \in BOOLEAN /\ ToCommit(Live)' \in BOOLEAN
        /\ Reads(Live) \in BOOLEAN
    BY DEF Holds, ToCommit, Reads
  <2>6. QED
    BY <2>1, <2>2, <2>3, <2>4, <2>5
<1>3. ASSUME Holds(Live)
      PROVE  /\ batch' = LinesFrom(s, at) /\ at' = OffsetAfter(s, at)
             /\ at <= at' /\ (at' = at \/ at' <= Len(s)) /\ Ends(s, at') = {}
  <2>1. name = Live
    BY <1>3 DEF Holds
  <2>2. batch' = LinesFrom(s, at) /\ at' = OffsetAfter(s, at)
    BY <1>1, <2>1
  <2>3. QED
    BY <1>t, <2>2, OffsetAfterIs
<1> HIDE DEF s, o
<1>4. ASSUME NEW e \in Days PROVE LiveIsRead(e)'
  <2>1. ASSUME Holds(Live), Clear(e, s, at) PROVE Clear(e, s, at')
    <3>1. at > Len(s) => NoneFrom(e, s, 0)
      BY <2>1 DEF Clear
    <3>2. QED
      BY <1>t, <1>3, <2>1, <3>1, ReadIsClear
  <2>2. ASSUME Holds(Live), at > Len(s) => NoneFrom(e, s, 0) PROVE Clear(e, s, at')
    BY <1>t, <1>3, <2>2, ReadIsClear
  <2>3. LiveIsRead(e)
    BY DEF LiveInv
  <2>4. QED
    BY <1>1, <1>2, <2>1, <2>2, <2>3 DEF LiveIsRead, OldLog, Sealed, s, o
<1>5. ASSUME NEW l \in Events, InLive(l), Holds(Live)
      PROVE  /\ End(l) <= at'
             /\ at <= Len(s) => Between(l, s, at')
  <2>1. /\ First(l) \in Nat /\ End(l) \in Nat /\ First(l) < End(l) /\ End(l) <= Len(s)
        /\ s[End(l)] \in Newline
    BY <1>5, EventBytes DEF InLive, s
  <2>2. End(l) <= at'
    <3>1. End(l) \notin Ends(s, at')
      BY <1>3, <1>5
    <3>2. QED
      BY <1>t, <2>1, <3>1 DEF Ends
  <2>3. at <= Len(s) => at' <= Len(s)
    BY <1>3, <1>5, <1>t
  <2>4. QED
    BY <1>t, <2>1, <2>2, <2>3 DEF Between
<1>6. ASSUME NEW l \in Events, RawIsThere(l) PROVE RawIsThere(l)'
  <2>1. InLive(l)' = InLive(l)
    BY <1>1 DEF InLive
  <2>2. Between(l, s, at) => at <= Len(s)
    BY DEF Between
  <2>3. QED
    BY <1>1, <1>2, <1>5, <1>6, <2>1, <2>2 DEF RawIsThere, s, o
<1>7. ASSUME NEW l \in raw \cap Events, pass = "done", OldLog(DayOf(l)), Holds(Live), l \in batch'
      PROVE  FALSE
  <2>1. /\ at < First(l) /\ End(l) \in Ends(s, at) /\ End(l) - 1 > at
        /\ s[End(l) - 1][1] = DayOf(l) /\ DayOf(l) \in Days
    BY <1>t, <1>3, <1>7, LiveLine, EventBytes
  <2>2. ~ NoneFrom(DayOf(l), s, at)
    BY <2>1 DEF NoneFrom
  <2>3. ~ Sealed(DayOf(l))
    <3>1. LiveIsRead(DayOf(l))
      BY <2>1 DEF LiveInv
    <3>2. QED
      BY <1>7, <2>2, <3>1 DEF LiveIsRead, Clear, s
  <2>4. Between(l, s, at)
    BY <1>7, <2>3 DEF LiveInv, RawIsThere, Sealed, s
  <2>5. QED
    <3>1. First(l) \in Nat
      BY EventBytes
    <3>2. QED
      BY <1>t, <2>1, <2>4, <3>1 DEF Between
<1>8. ASSUME NEW l \in batch' \cap Events PROVE BatchIsThere(l)'
  <2>1. CASE Holds(Live)
    <3>1. /\ at < First(l) /\ End(l) <= Len(s) /\ s[End(l)] \in Newline /\ DayOf(l) <= liveFrom
          /\ DayOf(l) \in Days /\ First(l) \in Nat /\ End(l) \in Nat /\ First(l) < End(l)
      BY <1>t, <1>3, <1>8, <2>1, LiveLine, EventBytes
    <3>2. DayOf(l) \in Nat
      BY <3>1
    <3>3. liveFrom > DayOf(l) \/ liveFrom = DayOf(l)
      BY <1>t, <3>1, <3>2
    <3>4. liveFrom = DayOf(l) => InLive(l)
      BY <3>1 DEF InLive, s
    <3>5. ASSUME liveFrom = DayOf(l) PROVE End(l) <= at' /\ at' <= Len(s)
      <4>1. End(l) <= at'
        BY <1>5, <2>1, <3>4, <3>5
      <4>2. QED
        BY <1>t, <1>3, <2>1, <3>1, <4>1
    <3>6. InLive(l)' = InLive(l) /\ name' = Live
      BY <1>1, <2>1 DEF InLive, Holds
    <3>7. QED
      BY <1>1, <3>3, <3>4, <3>5, <3>6 DEF BatchIsThere, s
  <2>2. CASE ~ Holds(Live)
    <3>1. name # Live /\ name \in Days
      BY <1>1, <2>2 DEF Holds, CollectorInv, ProcessTypes
    <3>2. spool[name] \in Seq(LogBytes) /\ IsPrefixOf(spool[name], name) /\ name < mtime[name]
      BY <1>1, <3>1, LiveTypes DEF CollectorInv, CopiesAreStarts
    <3>3. DayOf(l) = name
      BY <1>1, <1>8, <1>t, <3>1, <3>2, DatedLine
    <3>4. mtime[name] # 0
      BY <3>1, <3>2, LiveTypes
    <3>5. QED
      BY <1>1, <3>1, <3>3, <3>4 DEF BatchIsThere
  <2>3. QED
    BY <2>1, <2>2
<1>9. ASSUME NEW l \in raw \cap Events PROVE NotAgain(l)'
  BY <1>1, <1>2, <1>7 DEF NotAgain, OldLog
<1>10. QED
  BY <1>1, <1>t, <1>4, <1>6, <1>8, <1>9 DEF LiveInv, s

(* What was read is stored, with the place behind it.                      *)
LEMMA CommitLive == CollectorInv /\ LiveInv /\ Commit => LiveInv'
<1> SUFFICES ASSUME CollectorInv, LiveInv, Commit PROVE LiveInv'
  OBVIOUS
<1> DEFINE s == spool[Live]
<1>1. /\ ipc = "commit" /\ ipc' = "next" /\ raw' = raw \cup batch
      /\ offset' = [offset EXCEPT ![name] = at]
      /\ UNCHANGED <<today, spool, mtime, liveFrom, todo, pass>>
  BY DEF Commit, mirrorVars
<1>t. Len(s) \in Nat /\ at \in Nat
  BY LiveTypes
<1>2. /\ ~ Reads(Live)' /\ ~ Holds(Live)' /\ ~ ToCommit(Live)'
      /\ Holds(Live) => ToCommit(Live)
  BY <1>1 DEF Holds, ToCommit, Reads
<1>3. offset'[Live] = IF Holds(Live) THEN at ELSE offset[Live]
  <2>1. offset \in [Names -> 0..MaxBytes]
    BY DEF CollectorInv, RowTypes
  <2>2. Holds(Live) <=> name = Live
    BY <1>1 DEF Holds
  <2>3. QED
    BY <1>1, <2>1, <2>2
<1> HIDE DEF s
<1>4. ASSUME NEW e \in Days PROVE LiveIsRead(e)'
  <2>1. LiveIsRead(e)
    BY DEF LiveInv
  <2>2. CASE Holds(Live)
    BY <1>1, <1>2, <1>3, <2>1, <2>2 DEF LiveIsRead, OldLog, Sealed, s
  <2>3. CASE ~ Holds(Live)
    BY <1>1, <1>2, <1>3, <2>1, <2>3 DEF LiveIsRead, OldLog, Sealed, s
  <2>4. QED
    BY <2>2, <2>3
<1>5. ASSUME NEW l \in Events, RawIsThere(l) PROVE RawIsThere(l)'
  <2>1. InLive(l)' = InLive(l)
    BY <1>1 DEF InLive
  <2>2. CASE Holds(Live)
    BY <1>1, <1>2, <1>3, <1>5, <2>1, <2>2 DEF RawIsThere, s
  <2>3. CASE ~ Holds(Live)
    BY <1>1, <1>2, <1>3, <1>5, <2>1, <2>3 DEF RawIsThere, s
  <2>4. QED
    BY <2>2, <2>3
<1>6. ASSUME NEW l \in batch \cap Events PROVE RawIsThere(l)'
  <2>1. BatchIsThere(l)
    BY <1>1 DEF LiveInv
  <2>2. CASE name = Live
    <3>1. InLive(l)' = InLive(l) /\ Holds(Live)
      BY <1>1, <2>2 DEF InLive, Holds
    <3>2. First(l) \in Nat /\ End(l) \in Nat /\ First(l) < End(l)
      BY EventBytes
    <3>3. End(l) <= at /\ at <= Len(s) => Between(l, s, at)
      BY <1>t, <3>2 DEF Between
    <3>4. QED
      BY <1>1, <1>2, <1>3, <2>1, <2>2, <3>1, <3>3 DEF RawIsThere, BatchIsThere, s
  <2>3. CASE name # Live
    BY <1>1, <2>1, <2>3 DEF RawIsThere, BatchIsThere
  <2>4. QED
    BY <2>2, <2>3
<1>7. QED
  BY <1>1, <1>2, <1>4, <1>5, <1>6 DEF LiveInv, NotAgain

(* The live copy and what was stored of it agree in every behaviour.       *)
LEMMA LiveInvInit == CollectorInit => LiveInv
<1> SUFFICES ASSUME CollectorInit PROVE LiveInv
  OBVIOUS
<1>1. spool[Live] = <<>> /\ raw = {} /\ pass = "none" /\ ipc = "sleep"
  BY DEF CollectorInit, MirrorInit
<1>2. Len(<<>>) = 0
  OBVIOUS
<1>3. Ordered(spool[Live], liveFrom)
  BY <1>1, <1>2 DEF Ordered
<1>4. QED
  BY <1>1, <1>3 DEF LiveInv, LiveIsRead

(* Every step keeps it.                                                    *)
LEMMA LiveInvNext ==
  ASSUME PullKeepsUp, PullRetain < RawRetain,
         CollectorInv, CollectorInv', PassInv, LiveInv, [CollectorNext]_vars
  PROVE  LiveInv'
<1>1. CASE Pull
  <2>1. SpoolStep /\ UNCHANGED <<raw, offset, ipc, todo, name, at, batch, pass>>
    BY <1>1 DEF Pull, SpoolStep, dbVars, ingestVars, pruneVars
  <2>2. today' = today
    BY <1>1 DEF Pull, Gain, DropLive, sensorVars
  <2>3. QED
    BY <1>1, <2>1, <2>2, PullMoves, SpoolStepLive
<1>2. CASE Sensor
  <2>1. SpoolStep /\ UNCHANGED <<raw, offset, ipc, todo, name, at, batch>>
    BY <1>2 DEF Sensor, SpoolStep, dbVars
  <2>2. (today' = today /\ pass' = pass) \/ pass' = "none"
    BY <1>2 DEF Sensor
  <2>3. LiveMoves
    BY <1>2, OthersMove DEF LiveMoves
  <2>4. QED
    BY <2>1, <2>2, <2>3, SpoolStepLive
<1>3. CASE PruneSpool
  <2>1. SpoolStep /\ UNCHANGED <<raw, offset, ipc, todo, name, at, batch, pass, today>>
    BY <1>3 DEF PruneSpool, SpoolStep, dbVars, ingestVars, RemoveCopies
  <2>2. LiveMoves
    BY <1>3, OthersMove DEF LiveMoves
  <2>3. QED
    BY <2>1, <2>2, SpoolStepLive
<1>4. CASE PruneRaw \/ PruneRawDone \/ PruneSources \/ PruneLook \/ PruneRows \/ PruneKill
  <2>1. UNCHANGED <<mirrorVars, ipc, name, at, batch>> /\ raw' \subseteq raw
    BY <1>4 DEF PruneRaw, PruneRawDone, PruneSources, PruneLook, PruneRows, PruneKill,
                dbVars, ingestVars
  <2>2. (UNCHANGED <<pass, offset, todo>>) \/ pass' = "none"
    BY <1>4 DEF PruneRaw, PruneRawDone, PruneSources, PruneLook, PruneRows, PruneKill,
                dbVars, ingestVars, PruneEnds
  <2>3. QED
    BY <2>1, <2>2, QuietLive
<1>5. CASE UNCHANGED vars
  BY <1>5, QuietLive DEF vars, mirrorVars
<1>6. CASE Ingest \/ IngestCrash
  BY <1>6, GlobLive, EndPassLive, CrashLive, ReadRowLive, StatLive, SkipLive, ReadLive, CommitLive
     DEF Ingest
<1>7. QED
  BY <1>1, <1>2, <1>3, <1>4, <1>5, <1>6 DEF CollectorNext, Prune

(* An event that is old and will not be stored again: the dated copy has   *)
(* been read, and the live copy is clear of its log, or is of that log and *)
(* read beyond its start.                                                  *)
DatedIsDone(l) ==
  /\ OldLog(DayOf(l))
  /\ ReadTo(spool[DayOf(l)], offset[DayOf(l)])
  /\ Holds(DayOf(l)) => ReadTo(spool[DayOf(l)], at)
  /\ ipc = "commit" => l \notin batch

LogIsClear(e) ==
  /\ Sealed(e)
  /\ Clear(e, spool[Live], offset[Live])
  /\ Holds(Live) => Clear(e, spool[Live], at)
  /\ Live \in gone => NoneFrom(e, spool[Live], 0)

LineIsPassed(l) ==
  /\ mtime[DayOf(l)] = 0 /\ liveFrom = DayOf(l)
  /\ Between(l, spool[Live], offset[Live])
  /\ Holds(Live) => Between(l, spool[Live], at)
  /\ Live \notin gone

Settled(l) == DatedIsDone(l) /\ (LogIsClear(DayOf(l)) \/ LineIsPassed(l))

(* It stays so as the pull, the sensor and the pruner change the copies.   *)
LEMMA SettledSpool ==
  ASSUME PullKeepsUp, PullRetain < RawRetain, CollectorInv, CollectorInv', PassInv, LiveInv,
         SpoolStep, LiveMoves, UNCHANGED <<offset, ipc, name, at, batch, gone>>,
         NEW l \in Events, Settled(l)
  PROVE  Settled(l)'
<1> DEFINE s == spool[Live]
           t == spool'[Live]
<1>1. PICK e \in Days : e = DayOf(l)
  BY LinesAreEvents
<1>2. /\ OldLog(e) /\ DatedIsDone(l)
      /\ LogIsClear(e) \/ LineIsPassed(l)
  BY <1>1 DEF Settled, DatedIsDone
<1>t. /\ s \in Seq(LogBytes) /\ t \in Seq(LogBytes) /\ Len(s) \in Nat /\ Len(t) \in Nat
      /\ offset[Live] \in Nat /\ at \in Nat /\ 0 \in Nat /\ e \in Nat /\ today \in Nat
      /\ liveFrom \in Nat /\ liveFrom' \in Nat
  BY LiveTypes, LiveTypesAfter
<1>3. /\ mtime'[e] = mtime[e] /\ (spool'[e] = spool[e] \/ spool'[e] = <<>>)
      /\ OldLog(e)' /\ Holds(Live)' = Holds(Live) /\ Holds(e)' = Holds(e)
  BY <1>2, OldIsClosed DEF Holds
<1>4. DatedIsDone(l)'
  BY <1>1, <1>2, <1>3 DEF DatedIsDone, ReadTo
<1>5. /\ Sealed(e) => \A q \in Nat :
              /\ NoneFrom(e, s, q) => NoneFrom(e, t, q)
              /\ Clear(e, s, q) => Clear(e, t, q)
      /\ ~ Sealed(e) /\ liveFrom' > e => \A q \in Nat : NoneFrom(e, t, q) /\ Clear(e, t, q)
  BY <1>2, ClearMoves DEF LiveInv
<1> HIDE DEF s, t
<1>6. CASE LogIsClear(e)
  <2>1. Sealed(e) /\ Sealed(e)'
    BY <1>6, SpoolGoesOn DEF LogIsClear
  <2>2. LogIsClear(e)'
    BY <1>t, <1>3, <1>5, <1>6, <2>1 DEF LogIsClear, s, t
  <2>3. QED
    BY <1>1, <1>4, <2>2 DEF Settled
<1>7. CASE LineIsPassed(l)
  <2>1. /\ mtime[e] = 0 /\ liveFrom = e /\ Between(l, s, offset[Live])
        /\ Holds(Live) => Between(l, s, at)
        /\ Live \notin gone
    BY <1>1, <1>7 DEF LineIsPassed, s
  <2>2. ~ Sealed(e)
    BY <1>t, <2>1 DEF Sealed
  <2>3. CASE liveFrom' > e
    <3>1. Sealed(e)'
      BY <2>3 DEF Sealed
    <3>2. LogIsClear(e)'
      BY <1>t, <1>5, <2>2, <2>3, <3>1 DEF LogIsClear, t
    <3>3. QED
      BY <1>1, <1>4, <3>2 DEF Settled
  <2>4. CASE ~ (liveFrom' > e)
    <3>1. liveFrom' = e /\ Len(s) <= Len(t)
      <4>1. CASE Same
        BY <1>t, <2>1, <4>1 DEF Same, s, t
      <4>2. CASE Drops
        BY <2>1, <2>4, <4>2 DEF Drops
      <4>3. ASSUME NEW d \in Days, GrowsBy(d) PROVE liveFrom' = e /\ Len(s) <= Len(t)
        BY <1>t, <2>1, <2>4, <4>3 DEF GrowsBy, Grown, s, t
      <4>4. QED
        BY <4>1, <4>2, <4>3 DEF LiveMoves
    <3>2. \A q \in Nat : Between(l, s, q) => Between(l, t, q)
      BY <1>t, <3>1 DEF Between
    <3>3. LineIsPassed(l)'
      BY <1>1, <1>t, <1>3, <2>1, <3>1, <3>2 DEF LineIsPassed, t
    <3>4. QED
      BY <1>4, <3>3 DEF Settled
  <2>5. QED
    BY <2>3, <2>4
<1>8. QED
  BY <1>2, <1>6, <1>7

(* And as the pruner goes through the rows.                                *)
LEMMA SettledPrune ==
  ASSUME CollectorInv, PassInv, LiveInv,
         PruneRaw \/ PruneRawDone \/ PruneSources \/ PruneLook \/ PruneRows \/ PruneKill,
         NEW l \in Events, Settled(l)
  PROVE  Settled(l)'
<1>1. PICK e \in Days : e = DayOf(l)
  BY LinesAreEvents
<1>2. /\ OldLog(e) /\ DatedIsDone(l)
      /\ LogIsClear(e) \/ LineIsPassed(l)
  BY <1>1 DEF Settled, DatedIsDone
<1>3. /\ UNCHANGED <<today, spool, mtime, liveFrom, ipc, name, at, batch>>
      /\ \A n \in Names : Holds(n)' = Holds(n)
  BY DEF PruneRaw, PruneRawDone, PruneSources, PruneLook, PruneRows, PruneKill,
         mirrorVars, dbVars, ingestVars, Holds
<1>4. CASE PruneRows
  <2>1. offset' = [n \in Names |-> IF n \in gone THEN 0 ELSE offset[n]] /\ gone' = {}
    BY <1>4 DEF PruneRows, PruneEnds
  <2>2. offset'[e] = offset[e] \/ spool[e] = <<>>
    BY <2>1 DEF PassInv, GoneIsGone
  <2>3. offset'[Live] = IF Live \in gone THEN 0 ELSE offset[Live]
    BY <2>1
  <2>4. DatedIsDone(l)'
    BY <1>1, <1>2, <1>3, <2>2 DEF DatedIsDone, ReadTo, OldLog
  <2>5. NoneFrom(e, spool[Live], 0) => Clear(e, spool[Live], 0)
    BY DEF Clear
  <2>6. LogIsClear(e) => LogIsClear(e)'
    BY <1>3, <2>1, <2>3, <2>5 DEF LogIsClear, Sealed
  <2>7. LineIsPassed(l) => LineIsPassed(l)'
    BY <1>3, <2>1, <2>3 DEF LineIsPassed
  <2>8. QED
    BY <1>1, <1>2, <2>4, <2>6, <2>7 DEF Settled
<1>5. CASE ~ PruneRows
  <2>1. offset' = offset
    BY <1>5 DEF PruneRaw, PruneRawDone, PruneSources, PruneLook, PruneKill, dbVars
  <2>2. Live \in gone' => Live \in gone \/ spool[Live] = <<>>
    BY <1>5 DEF PruneRaw, PruneRawDone, PruneSources, PruneLook, PruneKill, PruneEnds, pruneVars
  <2>3. DatedIsDone(l)'
    BY <1>1, <1>2, <1>3, <2>1 DEF DatedIsDone, ReadTo, OldLog
  <2>4. LogIsClear(e) => LogIsClear(e)'
    <3>1. spool[Live] = <<>> => NoneFrom(e, spool[Live], 0)
      BY EmptyIsClear
    <3>2. QED
      BY <1>3, <2>1, <2>2, <3>1 DEF LogIsClear, Sealed
  <2>5. LineIsPassed(l) => LineIsPassed(l)'
    <3>1. LineIsPassed(l) => spool[Live] # <<>>
      <4>1. First(l) \in Nat /\ First(l) >= 1 /\ offset[Live] \in Nat
        BY EventBytes, LiveTypes
      <4>2. Len(<<>>) = 0
        OBVIOUS
      <4>3. QED
        BY <4>1, <4>2 DEF LineIsPassed, Between
    <3>2. QED
      BY <1>3, <2>1, <2>2, <3>1 DEF LineIsPassed
  <2>6. QED
    BY <1>1, <1>2, <2>3, <2>4, <2>5 DEF Settled
<1>6. QED
  BY <1>4, <1>5

(* Steps of the ingester after which it holds no file: at most the row of  *)
(* the file it held has the place it was at.                               *)
LEMMA SettledLoose ==
  ASSUME UNCHANGED <<mirrorVars, gone>>, ipc' \in {"sleep", "next"},
         \/ offset' = offset
         \/ /\ ipc = "commit" /\ offset \in [Names -> 0..MaxBytes]
            /\ offset' = [offset EXCEPT ![name] = at],
         NEW l \in Events, Settled(l)
  PROVE  Settled(l)'
<1>1. PICK e \in Days : e = DayOf(l)
  BY LinesAreEvents
<1>2. /\ UNCHANGED <<today, spool, mtime, liveFrom, gone>> /\ ipc' # "commit"
      /\ \A n \in Names : ~ Holds(n)'
  BY DEF mirrorVars, Holds
<1>3. ASSUME NEW n \in Names
      PROVE  offset'[n] = offset[n] \/ (Holds(n) /\ offset'[n] = at)
  BY DEF Holds
<1>4. e \in Names /\ Live \in Names
  OBVIOUS
<1>5. DatedIsDone(l)'
  BY <1>1, <1>2, <1>3, <1>4 DEF Settled, DatedIsDone, OldLog
<1>6. LogIsClear(e) => LogIsClear(e)'
  BY <1>2, <1>3, <1>4 DEF LogIsClear, Sealed
<1>7. LineIsPassed(l) => LineIsPassed(l)'
  BY <1>2, <1>3, <1>4 DEF LineIsPassed
<1>8. QED
  BY <1>1, <1>5, <1>6, <1>7 DEF Settled

(* A file is taken up, and its size looked at.                             *)
LEMMA SettledTaken ==
  ASSUME CollectorInv, ReadRow \/ Stat, NEW l \in Events, Settled(l)
  PROVE  Settled(l)'
<1>1. PICK e \in Days : e = DayOf(l)
  BY LinesAreEvents
<1>2. /\ UNCHANGED <<today, spool, mtime, liveFrom, offset, gone>> /\ ipc' # "commit"
  BY DEF ReadRow, Stat, mirrorVars, dbVars, pruneVars
<1>3. ASSUME NEW n \in Names, Holds(n)'
      PROVE  \/ at' = offset[n]
             \/ Holds(n) /\ at' = IF Len(spool[n]) < at THEN 0 ELSE at
  BY <1>3 DEF ReadRow, Stat, Rescan, FileLen, Holds
<1>t. Len(spool[Live]) \in Nat /\ at \in Nat /\ Len(spool[e]) \in Nat
  BY LiveTypes
<1>4. ASSUME Holds(e), ReadTo(spool[e], at)
      PROVE  ReadTo(spool[e], IF Len(spool[e]) < at THEN 0 ELSE at)
  <2>1. Place(e, at, spool[e], today)
    BY <1>4 DEF CollectorInv, HandIsGood, Busy, Holds
  <2>2. QED
    BY <1>4, <1>t, <2>1 DEF Place, ReadTo
<1>5. DatedIsDone(l)'
  BY <1>1, <1>2, <1>3, <1>4 DEF Settled, DatedIsDone, OldLog
<1>6. LogIsClear(e) => LogIsClear(e)'
  <2>1. Clear(e, spool[Live], at) => Clear(e, spool[Live], IF Len(spool[Live]) < at THEN 0 ELSE at)
    BY <1>t DEF Clear
  <2>2. QED
    BY <1>2, <1>3, <2>1 DEF LogIsClear, Sealed
<1>7. LineIsPassed(l) => LineIsPassed(l)'
  <2>1. Between(l, spool[Live], at) =>
          Between(l, spool[Live], IF Len(spool[Live]) < at THEN 0 ELSE at)
    BY <1>t DEF Between
  <2>2. QED
    BY <1>2, <1>3, <2>1 DEF LineIsPassed
<1>8. QED
  BY <1>1, <1>5, <1>6, <1>7 DEF Settled

(* A file is read: the event is not among its lines.                       *)
LEMMA SettledRead ==
  ASSUME CollectorInv, LiveInv, Read, NEW l \in Events, Settled(l)
  PROVE  Settled(l)'
<1> DEFINE s == spool[Live]
           c == spool[name]
<1>1. PICK e \in Days : e = DayOf(l)
  BY LinesAreEvents
<1>2. /\ UNCHANGED <<today, spool, mtime, liveFrom, offset, gone, name>>
      /\ ipc = "read" /\ c # <<>> /\ batch' = LinesFrom(c, at) /\ at' = OffsetAfter(c, at)
      /\ \A n \in Names : Holds(n) <=> n = name
      /\ \A n \in Names : Holds(n)' <=> n = name
  BY DEF Read, mirrorVars, dbVars, pruneVars, Holds
<1>t. /\ s \in Seq(LogBytes) /\ Len(s) \in Nat /\ at \in Nat /\ liveFrom \in Nat
      /\ c \in Seq(LogBytes) /\ Len(c) \in Nat /\ Ordered(s, liveFrom)
      /\ name \in Names
  <2>1. name \in Names /\ spool[name] \in Seq(LogBytes)
    BY DEF CollectorInv, MirrorTypes, ProcessTypes
  <2>2. QED
    BY <2>1, LiveTypes DEF LiveInv
<1>3. /\ at' \in Nat /\ at <= at' /\ (at' = at \/ at' <= Len(c)) /\ Ends(c, at') = {}
  BY <1>2, <1>t, OffsetAfterIs
<1> HIDE DEF s, c
<1>4. l \notin batch'
  <2>1. CASE name = e
    <3>1. Ends(c, at) = {}
      BY <1>1, <1>2, <2>1 DEF Settled, DatedIsDone, ReadTo, c
    <3>2. LinesFrom(c, at) = {}
      BY <3>1 DEF LinesFrom
    <3>3. QED
      BY <1>2, <3>2
  <2>2. CASE name = Live
    <3>1. SUFFICES ASSUME l \in LinesFrom(s, at) PROVE FALSE
      BY <1>2, <2>2 DEF s, c
    <3>2. /\ at < First(l) /\ End(l) \in Ends(s, at) /\ End(l) - 1 > at
          /\ s[End(l) - 1][1] = e /\ First(l) \in Nat
      BY <1>1, <1>t, <3>1, LiveLine, EventBytes
    <3>3. ~ LogIsClear(e)
      BY <1>2, <2>2, <3>2 DEF LogIsClear, Clear, NoneFrom, s
    <3>4. ~ LineIsPassed(l)
      <4>1. LineIsPassed(l) => Between(l, spool[Live], at)
        BY <1>2, <2>2 DEF LineIsPassed
      <4>2. ~ Between(l, spool[Live], at)
        BY <1>t, <3>2 DEF Between
      <4>3. QED
        BY <4>1, <4>2
    <3>5. QED
      BY <1>1, <3>3, <3>4 DEF Settled
  <2>3. CASE name # e /\ name # Live
    <3>1. name \in Days
      BY <1>t, <2>3
    <3>2. IsPrefixOf(c, name)
      BY <3>1 DEF CollectorInv, CopiesAreStarts, c
    <3>3. \A m \in LinesFrom(c, at) : DayOf(m) = name
      BY <1>t, <3>1, <3>2, DatedLine
    <3>4. QED
      BY <1>1, <1>2, <2>3, <3>3
  <2>4. QED
    BY <2>1, <2>2, <2>3
<1>5. DatedIsDone(l)'
  <2>1. Holds(e)' => ReadTo(spool[e], at')
    BY <1>2, <1>3 DEF ReadTo, c
  <2>2. QED
    BY <1>1, <1>2, <1>4, <2>1 DEF Settled, DatedIsDone, OldLog
<1>6. LogIsClear(e) => LogIsClear(e)'
  <2>1. ASSUME LogIsClear(e), name = Live PROVE Clear(e, s, at')
    <3>1. Clear(e, s, at) /\ at' = OffsetAfter(s, at)
      BY <1>2, <2>1 DEF LogIsClear, s, c
    <3>2. at > Len(s) => NoneFrom(e, s, 0)
      BY <3>1 DEF Clear
    <3>3. QED
      BY <1>t, <3>1, <3>2, ReadIsClear
  <2>2. QED
    BY <1>2, <2>1 DEF LogIsClear, Sealed, s
<1>7. LineIsPassed(l) => LineIsPassed(l)'
  <2>1. ASSUME LineIsPassed(l), name = Live PROVE Between(l, s, at')
    <3>1. First(l) <= at /\ at <= Len(s) /\ c = s /\ First(l) \in Nat
      BY <1>2, <2>1, EventBytes DEF LineIsPassed, Between, s, c
    <3>2. QED
      BY <1>t, <1>3, <3>1 DEF Between
  <2>2. QED
    BY <1>2, <2>1 DEF LineIsPassed, s
<1>8. QED
  BY <1>1, <1>5, <1>6, <1>7 DEF Settled

(* No step brings an event back that is settled.                           *)
LEMMA SettledStays ==
  ASSUME PullKeepsUp, PullRetain < RawRetain, CollectorInv, CollectorInv', PassInv, LiveInv,
         [CollectorNext]_vars, NEW l \in Events, Settled(l)
  PROVE  Settled(l)'
<1>1. CASE Pull \/ Sensor \/ PruneSpool
  <2>1. SpoolStep /\ UNCHANGED <<offset, ipc, name, at, batch, gone>>
    BY <1>1 DEF Pull, Sensor, PruneSpool, SpoolStep, dbVars, ingestVars, pruneVars
  <2>2. LiveMoves
    BY <1>1, PullMoves, OthersMove DEF LiveMoves
  <2>3. QED
    BY <2>1, <2>2, SettledSpool
<1>2. CASE Glob \/ EndPass \/ StatDone \/ ReadGone \/ IngestCrash
  <2>1. UNCHANGED <<mirrorVars, gone, offset>> /\ ipc' \in {"sleep", "next"}
    BY <1>2 DEF Glob, EndPass, StatDone, ReadGone, Skip, IngestCrash, dbVars, pruneVars
  <2>2. QED
    BY <2>1, SettledLoose
<1>3. CASE Commit
  <2>1. /\ UNCHANGED <<mirrorVars, gone>> /\ ipc' \in {"sleep", "next"} /\ ipc = "commit"
        /\ offset \in [Names -> 0..MaxBytes]
        /\ offset' = [offset EXCEPT ![name] = at]
    BY <1>3 DEF Commit, pruneVars, CollectorInv, RowTypes
  <2>2. QED
    BY <2>1, SettledLoose
<1>4. CASE UNCHANGED vars
  BY <1>4 DEF vars, Settled, DatedIsDone, LogIsClear, LineIsPassed, OldLog, Sealed, Holds
<1>5. QED
  BY <1>1, <1>2, <1>3, <1>4, SettledTaken, SettledRead, SettledPrune
     DEF CollectorNext, Ingest, Prune

(* A run of the pruner begins after a whole pass, so what it takes by age  *)
(* is settled.                                                             *)
LEMMA PrunedIsSettled ==
  ASSUME IngestKeepsUp, PullRetain < RawRetain, CollectorInv, PassInv, LiveInv,
         PruneStarts, NEW l \in raw \cap Events, Aged(l)
  PROVE  Settled(l)
<1>1. PICK e \in Days : e = DayOf(l)
  BY LinesAreEvents
<1>2. pass = "done" /\ gone = {} /\ OldLog(e)
  BY <1>1 DEF PruneStarts, PassInv, GoneIsGone, Aged, OldLog
<1>3. mtime[e] < today
  <2>1. e \in Nat /\ mtime[e] \in Nat /\ today \in Nat
    BY LiveTypes
  <2>2. mtime[e] # 0 => mtime[e] <= e + PullRetain
    BY DEF PassInv, GoneIsGone
  <2>3. today # 0
    BY <1>2, <2>1 DEF OldLog
  <2>4. QED
    BY <1>2, <2>1, <2>2, <2>3 DEF OldLog
<1>4. DayIsRead(e) /\ LiveIsRead(e) /\ RawIsThere(l) /\ NotAgain(l)
  BY DEF PassInv, LiveInv
<1>5. ASSUME ipc = "commit" PROVE l \notin batch
  <2>1. CASE name = Live
    BY <1>1, <1>2, <1>4, <1>5, <2>1 DEF NotAgain, ToCommit
  <2>2. CASE name = e
    BY <1>2, <1>3, <1>4, <1>5, <2>2 DEF DayIsRead, ToCommit
  <2>3. CASE name # Live /\ name # e
    BY <1>1, <1>5, <2>3 DEF LiveInv, BatchIsThere
  <2>4. QED
    BY <2>1, <2>2, <2>3
<1>6. DatedIsDone(l)
  BY <1>1, <1>2, <1>3, <1>4, <1>5 DEF DatedIsDone, DayIsRead
<1>7. CASE Sealed(e)
  BY <1>1, <1>2, <1>4, <1>6, <1>7 DEF Settled, LogIsClear, LiveIsRead
<1>8. CASE ~ Sealed(e)
  <2>1. mtime[e] = 0 /\ ~ (liveFrom > e)
    BY <1>8 DEF Sealed
  <2>2. InLive(l) /\ Between(l, spool[Live], offset[Live])
        /\ (Holds(Live) => Between(l, spool[Live], at))
    BY <1>1, <1>2, <1>4, <2>1 DEF RawIsThere
  <2>3. LineIsPassed(l)
    BY <1>1, <1>2, <2>1, <2>2 DEF LineIsPassed, InLive
  <2>4. QED
    BY <1>6, <2>3 DEF Settled
<1>9. QED
  BY <1>7, <1>8

(* The events of a source that were stored, as far as it can be told from  *)
(* what is: those that are, and those that are settled.                    *)
Known(ip) == {l \in Sent(ip) : l \in raw \/ Settled(l)}
CountInv == \A ip \in Sources : sources[ip].count <= Cardinality(Known(ip))

(* They are finitely many, and only grow.                                  *)
LEMMA KnownIsFinite ==
  ASSUME NEW ip \in Sources
  PROVE  /\ IsFiniteSet(Sent(ip)) /\ IsFiniteSet(Known(ip)) /\ IsFiniteSet(Known(ip)')
         /\ Cardinality(Known(ip)) \in Nat /\ Cardinality(Known(ip)') \in Nat
         /\ Cardinality(Known(ip)) <= Cardinality(Sent(ip))
<1>1. Sent(ip) \subseteq Events /\ Known(ip) \subseteq Sent(ip) /\ Known(ip)' \subseteq Sent(ip)
  BY DEF Sent, Known
<1>2. IsFiniteSet(Sent(ip))
  BY <1>1, EventsAreFinite, FS_Subset
<1>3. QED
  BY <1>1, <1>2, FS_Subset, FS_CardinalityType

(* No step forgets one of them.                                            *)
LEMMA KnownGrows ==
  ASSUME IngestKeepsUp, PullKeepsUp, PullRetain < RawRetain,
         CollectorInv, CollectorInv', PassInv, LiveInv, [CollectorNext]_vars, NEW ip \in Sources
  PROVE  Known(ip) \subseteq Known(ip)'
<1> SUFFICES ASSUME NEW l \in Sent(ip), l \in raw \/ Settled(l)
             PROVE  l \in raw' \/ Settled(l)'
  BY DEF Known, Sent
<1>1. l \in Events
  BY DEF Sent
<1>2. CASE Settled(l)
  BY <1>1, <1>2, SettledStays
<1>3. CASE l \in raw /\ PruneRaw
  <2>1. l \in raw' \/ Aged(l)
    BY <1>3 DEF PruneRaw
  <2>2. ASSUME Aged(l) PROVE Settled(l)
    BY <1>1, <1>3, <2>2, PrunedIsSettled DEF PruneRaw
  <2>3. QED
    BY <1>1, <2>1, <2>2, SettledStays
<1>4. CASE l \in raw /\ ~ PruneRaw
  BY <1>4 DEF CollectorNext, Ingest, Prune, vars, dbVars, Pull, Sensor, Glob, EndPass, ReadRow,
              Stat, StatDone, ReadGone, Skip, Read, Commit, IngestCrash, PruneRawDone,
              PruneSources, PruneSpool, PruneLook, PruneRows, PruneKill
<1>5. QED
  BY <1>2, <1>3, <1>4

(* What a source counts is known, after every step.                        *)
LEMMA CountInvNext ==
  ASSUME IngestKeepsUp, PullKeepsUp, PullRetain < RawRetain,
         CollectorInv, CollectorInv', PassInv, LiveInv, CountInv, [CollectorNext]_vars
  PROVE  CountInv'
<1> SUFFICES ASSUME NEW ip \in Sources
             PROVE  sources'[ip].count <= Cardinality(Known(ip)')
  BY DEF CountInv
<1>1. /\ sources[ip].count \in Nat /\ sources[ip].count <= Cardinality(Known(ip))
      /\ Known(ip) \subseteq Known(ip)'
  BY KnownGrows DEF CollectorInv, RowTypes, CountInv
<1>2. Cardinality(Known(ip)) <= Cardinality(Known(ip)')
  BY <1>1, KnownIsFinite, FS_Subset
<1>3. CASE Commit
  <2> DEFINE N == NewFrom(ip)
  <2>1. sources'[ip] = Credit(sources[ip], N)
    BY <1>3 DEF Commit
  <2>2. N \subseteq Known(ip)' /\ Known(ip) \cap N = {}
    <3>1. ASSUME NEW l \in N PROVE l \in Sent(ip) /\ l \in raw' /\ l \notin raw /\ ~ Settled(l)
      BY <1>3, <3>1 DEF Commit, NewFrom, New, Sent, Settled, DatedIsDone
    <3>2. QED
      BY <3>1 DEF Known, Sent
  <2> HIDE DEF N
  <2>3. CASE N = {}
    <3>1. sources'[ip] = sources[ip]
      BY <2>1, <2>3 DEF Credit
    <3>2. QED
      BY <1>1, <1>2, <3>1, KnownIsFinite
  <2>4. CASE N # {}
    <3>1. sources'[ip].count = sources[ip].count + Cardinality(N)
      BY <2>1, <2>4 DEF Credit
    <3>2. IsFiniteSet(N) /\ Cardinality(N) \in Nat
      BY <2>2, KnownIsFinite, FS_Subset, FS_CardinalityType
    <3>3. Cardinality(Known(ip) \cup N) = Cardinality(Known(ip)) + Cardinality(N)
      <4>1. Cardinality(Known(ip) \cap N) = 0
        BY <2>2, FS_EmptySet
      <4>2. Cardinality(Known(ip) \cup N)
              = Cardinality(Known(ip)) + Cardinality(N) - Cardinality(Known(ip) \cap N)
        BY <3>2, KnownIsFinite, FS_Union
      <4>3. Cardinality(Known(ip)) \in Nat /\ Cardinality(N) \in Nat
        BY <3>2, KnownIsFinite
      <4>4. QED
        BY <4>1, <4>2, <4>3
    <3>4. Cardinality(Known(ip) \cup N) <= Cardinality(Known(ip)')
      <4>1. Known(ip) \cup N \subseteq Known(ip)'
        BY <1>1, <2>2
      <4>2. QED
        BY <4>1, KnownIsFinite, FS_Subset
    <3>5. QED
      BY <1>1, <3>1, <3>2, <3>3, <3>4, KnownIsFinite
  <2>5. QED
    BY <2>3, <2>4
<1>4. CASE ~ Commit
  <2>1. sources'[ip] = sources[ip] \/ sources'[ip].count = 0
    BY <1>4 DEF CollectorNext, Ingest, Prune, vars, dbVars, Pull, Sensor, Glob, EndPass, ReadRow,
              Stat, StatDone, ReadGone, Skip, Read, IngestCrash, PruneRaw, PruneRawDone,
              PruneSources, PruneSpool, PruneLook, PruneRows, PruneKill, NoRow
  <2>2. QED
    BY <1>1, <1>2, <2>1, KnownIsFinite
<1>5. QED
  BY <1>3, <1>4

(* "Re-pulls and offset resets never duplicate data" (ingest.py), where    *)
(* the ingester ends a pass between midnights and prunes, raw events are   *)
(* kept longer than the pull asks for logs, and the pull does not leave a  *)
(* live copy for that long to go on with it.                               *)
THEOREM EventsCountOnce ==
  ASSUME IngestKeepsUp, PullKeepsUp, PullRetain < RawRetain
  PROVE  CollectorSpec => []CountedOnce
<1>1. CollectorInit => CountInv
  <2> SUFFICES ASSUME CollectorInit, NEW ip \in Sources
               PROVE  sources[ip].count <= Cardinality(Known(ip))
    BY DEF CountInv
  <2>1. sources[ip].count = 0
    BY DEF CollectorInit, NoRow
  <2>2. QED
    BY <2>1, KnownIsFinite
<1>2. CollectorInv /\ CollectorInv' /\ PassInv /\ LiveInv /\ [CollectorNext]_vars => LiveInv'
  BY LiveInvNext
<1>3. CollectorInv /\ CollectorInv' /\ PassInv /\ LiveInv /\ CountInv /\ [CollectorNext]_vars
        => CountInv'
  BY CountInvNext
<1>4. CollectorInv /\ CountInv => CountedOnce
  <2> SUFFICES ASSUME CollectorInv, CountInv, NEW ip \in Sources
               PROVE  sources[ip].count <= Cardinality(Sent(ip))
    BY DEF CountedOnce
  <2>1. /\ sources[ip].count \in Nat /\ sources[ip].count <= Cardinality(Known(ip))
        /\ Cardinality(Sent(ip)) \in Nat
    BY KnownIsFinite, FS_CardinalityType DEF CollectorInv, RowTypes, CountInv
  <2>2. QED
    BY <2>1, KnownIsFinite
<1>5. CollectorSpec => [](LiveInv /\ CountInv)
  BY <1>1, <1>2, <1>3, LiveInvInit, CollectorInvariant, PassInvariant, PTL DEF CollectorSpec
<1>6. QED
  BY <1>4, <1>5, CollectorInvariant, PTL
=============================================================================
