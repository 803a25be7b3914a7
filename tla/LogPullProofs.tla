--------------------------- MODULE LogPullProofs ----------------------------
(***************************************************************************)
(* Proofs about LogPull, for every value of its constants: the inductive   *)
(* invariant IInv, the properties that follow from it, and that LogPull    *)
(* implements SpoolMirror.                                                 *)
(***************************************************************************)
EXTENDS LogPull, SequenceTheorems, FiniteSetTheorems, TLAPS

USE SensorAssumption, RetainAssumption, PullAssumption DEF Days, Names, Live

(* A run of k bytes of the log of day d appended to a copy of length n at  *)
(* position n lengthens the copy by k and leaves what it had.              *)
LEMMA AppendRun ==
  ASSUME NEW s \in Seq(Bytes), NEW d \in Days, NEW k \in Nat
  PROVE  /\ s \o Run(d, Len(s), Len(s) + k) \in Seq(Bytes)
         /\ Len(s \o Run(d, Len(s), Len(s) + k)) = Len(s) + k
         /\ \A i \in 1..Len(s) : (s \o Run(d, Len(s), Len(s) + k))[i] = s[i]
         /\ \A i \in (Len(s) + 1)..(Len(s) + k) :
              (s \o Run(d, Len(s), Len(s) + k))[i] = <<d, i>>
<1> DEFINE r == Run(d, Len(s), Len(s) + k)
<1>1. Len(s) \in Nat
  OBVIOUS
<1>2. r = [i \in 1..k |-> <<d, Len(s) + i>>]
  BY <1>1 DEF Run
<1>3. r \in [1..k -> Bytes]
  BY <1>1, <1>2 DEF Bytes
<1>4. r \in Seq(Bytes) /\ Len(r) = k
  BY <1>3
<1>5. \A i \in 1..k : r[i] = <<d, Len(s) + i>>
  BY <1>2
<1> HIDE DEF r
<1>6. /\ s \o r \in Seq(Bytes)
      /\ Len(s \o r) = Len(s) + k
      /\ \A i \in 1..(Len(s) + k) :
           (s \o r)[i] = IF i <= Len(s) THEN s[i] ELSE r[i - Len(s)]
  BY <1>4, ConcatProperties
<1>7. \A i \in (Len(s) + 1)..(Len(s) + k) : (s \o r)[i] = <<d, i>>
  <2>1. TAKE i \in (Len(s) + 1)..(Len(s) + k)
  <2>2. i - Len(s) \in 1..k /\ Len(s) + (i - Len(s)) = i
    BY <1>1
  <2>3. QED
    BY <1>1, <1>5, <1>6, <2>2
<1>8. \A i \in 1..Len(s) : (s \o r)[i] = s[i]
  BY <1>1, <1>6
<1>9. QED
  BY <1>6, <1>7, <1>8 DEF r

(* There are no copies at the start.                                       *)
LEMMA InitCopyInv == Init => CopyInv
<1> SUFFICES ASSUME Init PROVE CopyInv
  OBVIOUS
<1> USE DEF Init, MirrorInit, SensorInit
<1>1. TypeOK
  <2>1. <<>> \in Seq(Bytes)
    OBVIOUS
  <2>2. spool \in [Names -> Seq(Bytes)]
    BY <2>1
  <2>3. SensorTypeOK
    BY DEF SensorTypeOK
  <2>4. NoChunk \in [day : Days, from : 0..MaxBytes, upto : 0..MaxBytes]
    BY DEF NoChunk
  <2>5. /\ msize \in [Names -> 0..MaxBytes]
        /\ mtime \in [Days -> 0..MaxDay]
    OBVIOUS
  <2>6. /\ startDay \in Days /\ mlive \in Days /\ cur \in Names \cup {-1}
        /\ have \in 0..MaxBytes /\ heartbeat \in 0..MaxDay
    OBVIOUS
  <2>7. QED
    BY <2>2, <2>3, <2>4, <2>5, <2>6 DEF TypeOK
<1>2. DatedPrefix /\ LivePositions
  BY DEF DatedPrefix, LivePositions
<1>3. LogOrder /\ WrittenLater
  BY DEF LogOrder, WrittenLater
<1>4. RunOrder /\ ChunkFits /\ PassedIsCopied
  BY DEF RunOrder, ChunkFits, PassedIsCopied
<1>5. QED
  BY <1>1, <1>2, <1>3, <1>4 DEF CopyInv
-----------------------------------------------------------------------------
(* The steps of a run.                                                     *)

(* A run begins with the listing of the sensor.                            *)
LEMMA StartInv == ASSUME CopyInv, Start PROVE CopyInv'
<1>i. /\ TypeOK /\ DatedPrefix /\ LivePositions /\ LogOrder
      /\ WrittenLater /\ RunOrder /\ ChunkFits /\ PassedIsCopied
  BY DEF CopyInv
<1>t. /\ today \in Days /\ liveDay \in Days /\ dated \subseteq Days
      /\ size \in [Days -> 0..MaxBytes]
  BY <1>i DEF TypeOK, SensorTypeOK
<1>1. listed' \subseteq {Live} \cup dated
  BY DEF Start, FirstFiles, Listing
<1>2. \A n \in Names : SizeOf(n) \in 0..MaxBytes
  <2>1. \A n \in Listing : LogOf(n) \in Days
    BY <1>t DEF LogOf, Listing
  <2>2. QED
    BY <1>t, <2>1 DEF SizeOf
<1>3. TypeOK'
  <2>1. msize' \in [Names -> 0..MaxBytes]
    BY <1>2 DEF Start
  <2>2. listed' \in SUBSET Names
    BY <1>t, <1>1
  <2>3. QED
    BY <1>i, <1>t, <2>1, <2>2 DEF TypeOK, SensorTypeOK, Start, sensorVars
<1>4. DatedPrefix' /\ LivePositions'
  BY <1>i DEF DatedPrefix, LivePositions, Start, sensorVars
<1>5. LogOrder' /\ WrittenLater'
  BY <1>i DEF LogOrder, WrittenLater, Start, sensorVars
<1>6. RunOrder'
  <2>1. ASSUME NEW n \in listed', n # Live
        PROVE  n < mlive' /\ msize'[n] = size'[n]
    <3>1. n \in dated /\ n \in Names
      BY <1>t, <1>1, <2>1
    <3>2. SizeOf(n) = size[n]
      BY <2>1, <3>1 DEF SizeOf, LogOf, Listing
    <3>3. QED
      BY <1>i, <3>1, <3>2 DEF LogOrder, Start, sensorVars
  <2>2. QED
    BY <1>t, <2>1 DEF RunOrder, Start, sensorVars
<1>7. ChunkFits'
  BY DEF ChunkFits, Start
<1>8. PassedIsCopied'
  <2>1. ASSUME NEW n \in listed' PROVE ~ Passed(n)'
    <3>1. n \in Nat
      BY <1>t, <1>1
    <3>2. QED
      BY <3>1 DEF Passed, Start
  <2>2. QED
    BY <2>1 DEF PassedIsCopied
<1>9. QED
  BY <1>3, <1>4, <1>5, <1>6, <1>7, <1>8 DEF CopyInv

(* The run moves to entry n: what it had passed, and no more, lies before  *)
(* n.                                                                      *)
LEMMA NextEntryPassed ==
  ASSUME CopyInv, NEW n \in Pending, \A m \in Pending : n <= m, pc = "entry",
         NEW m \in listed, m < n
  PROVE  Passed(m)
<1>1. m \in Int /\ n \in Int /\ cur \in Int
  BY DEF CopyInv, TypeOK, Pending
<1>2. m \notin Pending
  BY <1>1
<1>3. QED
  BY <1>1, <1>2 DEF Pending, Passed

(* An entry that is not asked for leaves the copies alone.                 *)
LEMMA SkipInv == ASSUME NEW n \in Names, CopyInv, SkipEntry(n) PROVE CopyInv'
<1>i. /\ TypeOK /\ DatedPrefix /\ LivePositions /\ LogOrder
      /\ WrittenLater /\ RunOrder /\ ChunkFits /\ PassedIsCopied
  BY DEF CopyInv
<1> USE DEF sensorVars
<1>1. TypeOK'
  BY <1>i DEF TypeOK, SensorTypeOK, SkipEntry
<1>2. DatedPrefix' /\ LivePositions'
  BY <1>i DEF DatedPrefix, LivePositions, SkipEntry
<1>3. LogOrder' /\ WrittenLater'
  BY <1>i DEF LogOrder, WrittenLater, SkipEntry
<1>4. RunOrder'
  BY <1>i DEF RunOrder, SkipEntry
<1>5. ChunkFits'
  BY <1>i DEF ChunkFits, SkipEntry
<1>6. PassedIsCopied'
  <2> SUFFICES ASSUME ~ failed, NEW m \in listed, Passed(m)', InWindow(m)
               PROVE  Len(spool[m]) >= msize[m]
    BY DEF PassedIsCopied, InWindow, Oldest, SkipEntry
  <2>1. m # n /\ m \in Int /\ n \in Int
    BY <1>i DEF TypeOK, SkipEntry
  <2>2. m < n
    BY <2>1 DEF Passed, SkipEntry
  <2>3. Passed(m)
    BY <2>2, NextEntryPassed DEF SkipEntry
  <2>4. QED
    BY <1>i, <2>3 DEF PassedIsCopied, SkipEntry
<1>7. QED
  BY <1>1, <1>2, <1>3, <1>4, <1>5, <1>6 DEF CopyInv

(* An entry is taken up; a live copy longer than its file is dropped.      *)
LEMMA TakeInv == ASSUME NEW n \in Names, CopyInv, TakeEntry(n) PROVE CopyInv'
<1>i. /\ TypeOK /\ DatedPrefix /\ LivePositions /\ LogOrder
      /\ WrittenLater /\ RunOrder /\ ChunkFits /\ PassedIsCopied
  BY DEF CopyInv
<1> USE DEF sensorVars
<1>t. /\ spool \in [Names -> Seq(Bytes)] /\ n \in listed
      /\ msize[n] \in 0..MaxBytes /\ Len(spool[n]) \in Nat
  <2>1. spool \in [Names -> Seq(Bytes)] /\ msize \in [Names -> 0..MaxBytes]
    BY <1>i DEF TypeOK
  <2>2. QED
    BY <2>1 DEF Pending, TakeEntry
<1>1. n # Live => Len(spool[n]) <= msize[n]
  BY <1>i, <1>t DEF RunOrder, DatedPrefix, TakeEntry
<1>2. /\ spool' \in [Names -> Seq(Bytes)]
      /\ \A d \in Days : spool'[d] = spool[d]
      /\ \A m \in Names : m # n => spool'[m] = spool[m]
      /\ spool'[Live] = spool[Live] \/ spool'[Live] = <<>>
      /\ have' = Len(spool'[n]) /\ have' <= msize[n]
  <2>1. CASE Len(spool[n]) > msize[n]
    <3>1. n = Live
      BY <1>t, <1>1, <2>1
    <3>2. spool' = [spool EXCEPT ![Live] = <<>>] /\ have' = 0
      BY <2>1, <3>1 DEF TakeEntry
    <3>3. <<>> \in Seq(Bytes)
      OBVIOUS
    <3>4. QED
      BY <1>t, <3>1, <3>2, <3>3
  <2>2. CASE ~ Len(spool[n]) > msize[n]
    BY <1>t, <2>2 DEF TakeEntry
  <2>3. QED
    BY <2>1, <2>2
<1>3. TypeOK'
  <2>1. have' \in 0..MaxBytes
    BY <1>t, <1>2
  <2>3. liveFrom' \in Days
    BY <1>i DEF TypeOK, TakeEntry, LiveFrom
  <2>2. QED
    BY <1>i, <1>2, <2>1, <2>3 DEF TypeOK, SensorTypeOK, TakeEntry
<1>4. DatedPrefix'
  BY <1>i, <1>2 DEF DatedPrefix, TakeEntry
<1>5. LivePositions'
  <2>1. CASE spool'[Live] = <<>>
    BY <2>1 DEF LivePositions
  <2>2. CASE spool'[Live] = spool[Live]
    BY <1>i, <2>2 DEF LivePositions, TakeEntry
  <2>3. QED
    BY <1>2, <2>1, <2>2
<1>6. LogOrder' /\ WrittenLater'
  <2>1. Len(spool'[Live]) <= MaxBytes
    BY <1>i, <1>2 DEF LogOrder
  <2>2. QED
    BY <1>i, <1>2, <2>1 DEF LogOrder, WrittenLater, TakeEntry
<1>7. RunOrder'
  BY <1>i, <1>t DEF RunOrder, InWindow, Oldest, TakeEntry
<1>8. ChunkFits'
  BY <1>2 DEF ChunkFits, TakeEntry
<1>9. PassedIsCopied'
  <2> SUFFICES ASSUME ~ failed, NEW m \in listed, Passed(m)', InWindow(m)
               PROVE  Len(spool'[m]) >= msize[m]
    BY DEF PassedIsCopied, InWindow, Oldest, TakeEntry
  <2>1. m \in Names /\ m \in Int /\ n \in Int
    BY <1>i DEF TypeOK
  <2>2. m < n
    BY <2>1 DEF Passed, TakeEntry
  <2>3. Passed(m)
    BY <2>2, NextEntryPassed DEF TakeEntry
  <2>4. spool'[m] = spool[m]
    <3>1. m # n
      BY <2>1, <2>2
    <3>2. QED
      BY <1>2, <2>1, <3>1
  <2>5. QED
    BY <1>i, <2>3, <2>4 DEF PassedIsCopied, TakeEntry
<1>10. QED
  BY <1>3, <1>4, <1>5, <1>6, <1>7, <1>8, <1>9 DEF CopyInv

(* A file is done with.                                                    *)
LEMMA FileDoneInv == ASSUME CopyInv, FileDone PROVE CopyInv'
<1>i. /\ TypeOK /\ DatedPrefix /\ LivePositions /\ LogOrder
      /\ WrittenLater /\ RunOrder /\ ChunkFits /\ PassedIsCopied
  BY DEF CopyInv
<1> USE DEF sensorVars
<1>1. TypeOK'
  <2>1. have' \in 0..MaxBytes
    BY DEF FileDone
  <2>2. QED
    BY <1>i, <2>1 DEF TypeOK, SensorTypeOK, FileDone
<1>2. DatedPrefix' /\ LivePositions'
  BY <1>i DEF DatedPrefix, LivePositions, FileDone
<1>3. LogOrder' /\ WrittenLater'
  BY <1>i DEF LogOrder, WrittenLater, FileDone
<1>4. RunOrder'
  BY <1>i DEF RunOrder, FileDone
<1>5. ChunkFits'
  BY <1>i DEF ChunkFits, FileDone
<1>6. PassedIsCopied'
  <2> SUFFICES ASSUME ~ failed, NEW m \in listed, Passed(m)', InWindow(m)
               PROVE  Len(spool[m]) >= msize[m]
    BY DEF PassedIsCopied, InWindow, Oldest, FileDone
  <2>1. CASE m = cur
    BY <1>i, <2>1 DEF ChunkFits, FileDone
  <2>2. CASE m # cur
    <3>1. Passed(m)
      BY <2>2 DEF Passed, FileDone
    <3>2. QED
      BY <1>i, <3>1 DEF PassedIsCopied, FileDone
  <2>3. QED
    BY <2>1, <2>2
<1>7. QED
  BY <1>1, <1>2, <1>3, <1>4, <1>5, <1>6 DEF CopyInv

(* A request fails.                                                        *)
LEMMA FetchFailInv == ASSUME CopyInv, FetchFail PROVE CopyInv'
<1>i. /\ TypeOK /\ DatedPrefix /\ LivePositions /\ LogOrder
      /\ WrittenLater /\ RunOrder /\ ChunkFits /\ PassedIsCopied
  BY DEF CopyInv
<1> USE DEF sensorVars
<1>1. TypeOK'
  <2>1. have' \in 0..MaxBytes
    BY DEF FetchFail
  <2>2. QED
    BY <1>i, <2>1 DEF TypeOK, SensorTypeOK, FetchFail
<1>2. DatedPrefix' /\ LivePositions'
  BY <1>i DEF DatedPrefix, LivePositions, FetchFail
<1>3. LogOrder' /\ WrittenLater'
  BY <1>i DEF LogOrder, WrittenLater, FetchFail
<1>4. RunOrder' /\ ChunkFits' /\ PassedIsCopied'
  BY <1>i DEF RunOrder, ChunkFits, PassedIsCopied, FetchFail
<1>5. QED
  BY <1>1, <1>2, <1>3, <1>4 DEF CopyInv

(* A request is answered.                                                  *)
LEMMA FetchOkInv == ASSUME CopyInv, FetchOk PROVE CopyInv'
<1>i. /\ TypeOK /\ DatedPrefix /\ LivePositions /\ LogOrder
      /\ WrittenLater /\ RunOrder /\ ChunkFits /\ PassedIsCopied
  BY DEF CopyInv
<1> USE DEF sensorVars
<1>t. /\ cur \in Names /\ liveDay \in Days /\ LogOf(cur) \in Days
      /\ have \in 0..MaxBytes /\ msize[cur] \in 0..MaxBytes
      /\ size \in [Days -> 0..MaxBytes] /\ size[LogOf(cur)] \in 0..MaxBytes
  <2>1. /\ liveDay \in Days /\ listed \subseteq Names
        /\ have \in 0..MaxBytes /\ msize \in [Names -> 0..MaxBytes]
        /\ size \in [Days -> 0..MaxBytes]
    BY <1>i DEF TypeOK, SensorTypeOK
  <2>2. cur \in Names
    BY <1>i, <2>1 DEF RunOrder, FetchOk
  <2>3. LogOf(cur) \in Days
    BY <2>1, <2>2 DEF LogOf
  <2>4. QED
    BY <2>1, <2>2, <2>3
<1>s. SizeOf(cur) = size[LogOf(cur)]
  BY DEF SizeOf, FetchOk
<1>1. /\ chunk'.day = LogOf(cur) /\ chunk'.from = have /\ chunk'.upto \in Nat
      /\ have < chunk'.upto /\ chunk'.upto <= msize[cur]
      /\ chunk'.upto <= size[LogOf(cur)]
      /\ chunk' = [day |-> chunk'.day, from |-> chunk'.from, upto |-> chunk'.upto]
  <2>1. chunk' = [day |-> LogOf(cur), from |-> have, upto |-> have + Served]
    BY DEF FetchOk
  <2>2. Wanted \in Int /\ Wanted <= msize[cur] - have
    BY <1>t DEF Wanted
  <2>3. /\ Served \in Int /\ Served <= msize[cur] - have
        /\ Served <= size[LogOf(cur)] - have
    BY <1>t, <1>s, <2>2 DEF Served
  <2>4. Served > 0
    BY DEF FetchOk
  <2>5. QED
    BY <1>t, <2>1, <2>3, <2>4
<1>2. TypeOK'
  <2>1. chunk' \in [day : Days, from : 0..MaxBytes, upto : 0..MaxBytes]
    BY <1>t, <1>1
  <2>2. QED
    BY <1>i, <2>1 DEF TypeOK, SensorTypeOK, FetchOk
<1>3. DatedPrefix' /\ LivePositions'
  BY <1>i DEF DatedPrefix, LivePositions, FetchOk
<1>4. LogOrder' /\ WrittenLater'
  BY <1>i DEF LogOrder, WrittenLater, FetchOk
<1>5. RunOrder'
  BY <1>i DEF RunOrder, InWindow, Oldest, FetchOk
<1>6. ChunkFits'
  <2>1. Len(spool[cur]) = have
    BY <1>i DEF ChunkFits, FetchOk
  <2>2. cur # Live => LogOf(cur) = cur
    BY DEF LogOf
  <2>3. cur = Live => LogOf(cur) = liveDay
    BY DEF LogOf
  <2>4. LogOf(cur) <= liveDay
    BY <1>i, <1>t, <2>2, <2>3 DEF LogOrder, Listing, FetchOk
  <2>5. cur = Live => \A i \in 1..Len(spool[Live]) : spool[Live][i][1] <= liveDay
    BY <1>i DEF LivePositions
  <2>6. QED
    BY <1>1, <2>1, <2>2, <2>3, <2>4, <2>5 DEF ChunkFits, FetchOk
<1>7. PassedIsCopied'
  BY <1>i DEF PassedIsCopied, Passed, InWindow, Oldest, FetchOk
<1>8. QED
  BY <1>2, <1>3, <1>4, <1>5, <1>6, <1>7 DEF CopyInv

(* What was answered is appended, or part of it.                           *)
LEMMA AppendInv == ASSUME CopyInv, AppendBytes PROVE CopyInv'
<1>i. /\ TypeOK /\ DatedPrefix /\ LivePositions /\ LogOrder
      /\ WrittenLater /\ RunOrder /\ ChunkFits /\ PassedIsCopied
  BY DEF CopyInv
<1> USE DEF sensorVars
<1>t. /\ spool \in [Names -> Seq(Bytes)] /\ size \in [Days -> 0..MaxBytes]
      /\ mtime \in [Days -> 0..MaxDay] /\ today \in Days /\ liveDay \in Days
      /\ chunk \in [day : Days, from : 0..MaxBytes, upto : 0..MaxBytes]
      /\ msize \in [Names -> 0..MaxBytes] /\ listed \subseteq Names
  BY <1>i DEF TypeOK, SensorTypeOK
<1>c. /\ cur \in listed /\ InWindow(cur) /\ cur \in Names
      /\ startDay \in Days /\ today <= startDay + 1 /\ mlive <= liveDay
      /\ cur # Live => cur < mlive
  <2>1. startDay \in Days
    BY <1>i DEF TypeOK
  <2>2. QED
    BY <1>i, <1>t, <2>1 DEF RunOrder, AppendBytes
<1>f. /\ Len(spool[cur]) = chunk.from /\ chunk.from < chunk.upto
      /\ chunk.upto <= size[chunk.day] /\ chunk.upto <= msize[cur]
      /\ chunk.day <= liveDay /\ (cur # Live => chunk.day = cur)
      /\ cur = Live => \A i \in 1..Len(spool[Live]) : spool[Live][i][1] <= chunk.day
  BY <1>i DEF ChunkFits, AppendBytes
<1>k. PICK k \in 1..(chunk.upto - chunk.from) :
        /\ spool' = [spool EXCEPT
                       ![cur] = @ \o Run(chunk.day, chunk.from, chunk.from + k)]
        /\ IF chunk.from + k = chunk.upto
             THEN pc' = "fetch" /\ have' = chunk.upto /\ chunk' = NoChunk
             ELSE UNCHANGED <<pc, have>> /\ chunk' = [chunk EXCEPT !.from = @ + k]
  BY DEF AppendBytes
<1> DEFINE n == chunk.from  d == chunk.day  t == spool'[cur]
<1>n. /\ n \in 0..MaxBytes /\ d \in Days /\ k \in Nat /\ k > 0
      /\ chunk.upto \in 0..MaxBytes /\ n + k <= chunk.upto
  BY <1>t
<1>1. /\ t \in Seq(Bytes)
      /\ Len(t) = n + k
      /\ \A i \in 1..n : t[i] = spool[cur][i]
      /\ \A i \in (n + 1)..(n + k) : t[i] = <<d, i>>
  <2>1. spool[cur] \in Seq(Bytes)
    BY <1>t, <1>c
  <2>2. t = spool[cur] \o Run(d, Len(spool[cur]), Len(spool[cur]) + k)
    BY <1>t, <1>c, <1>f, <1>k
  <2> DEFINE r == spool[cur] \o Run(d, Len(spool[cur]), Len(spool[cur]) + k)
  <2>3. /\ r \in Seq(Bytes)
        /\ Len(r) = Len(spool[cur]) + k
        /\ \A i \in 1..Len(spool[cur]) : r[i] = spool[cur][i]
        /\ \A i \in (Len(spool[cur]) + 1)..(Len(spool[cur]) + k) : r[i] = <<d, i>>
    BY <1>n, <2>1, AppendRun
  <2> HIDE DEF t, r
  <2>4. QED
    BY <1>f, <2>2, <2>3 DEF r
<1>2. /\ spool' \in [Names -> Seq(Bytes)]
      /\ \A m \in Names : m # cur => spool'[m] = spool[m]
      /\ \A e \in Days : e # cur => spool'[e] = spool[e]
  BY <1>t, <1>c, <1>k, <1>1
<1>m. /\ mtime' \in [Days -> 0..MaxDay]
      /\ cur \in Days => mtime'[cur] = today
      /\ \A e \in Days : e # cur => mtime'[e] = mtime[e]
  <2>0. mtime' = Touch(cur)
    BY DEF AppendBytes
  <2>1. CASE cur = Live
    <3>1. mtime' = mtime /\ cur \notin Days
      BY <2>0, <2>1 DEF Touch
    <3>2. QED
      BY <1>t, <3>1
  <2>2. CASE cur # Live
    <3>1. mtime' = [mtime EXCEPT ![cur] = today] /\ today \in 0..MaxDay
      BY <1>t, <2>0, <2>2 DEF Touch
    <3>2. QED
      BY <1>t, <3>1
  <2>3. QED
    BY <2>1, <2>2
<1>l. liveFrom' \in Days
  BY <1>i, <1>n DEF TypeOK, AppendBytes, LiveFrom
<1> HIDE DEF t
<1>3. ASSUME chunk.from + k = chunk.upto,
             pc' = "fetch", have' = chunk.upto, chunk' = NoChunk
      PROVE  TypeOK' /\ ChunkFits'
  <2>1. TypeOK'
    <3>1. chunk' \in [day : Days, from : 0..MaxBytes, upto : 0..MaxBytes]
      BY <1>3 DEF NoChunk
    <3>2. have' \in 0..MaxBytes
      BY <1>3, <1>n
    <3>4. pc' \in {"idle", "entry", "fetch", "append"}
      BY <1>3
    <3>5. QED
      BY <1>i, <1>2, <1>m, <1>l, <3>1, <3>2, <3>4 DEF TypeOK, SensorTypeOK, AppendBytes
  <2>2. ChunkFits'
    BY <1>1, <1>3 DEF ChunkFits, AppendBytes, t
  <2>3. QED
    BY <2>1, <2>2
<1>4. ASSUME chunk.from + k # chunk.upto, pc' = pc, have' = have,
             chunk' = [chunk EXCEPT !.from = chunk.from + k]
      PROVE  TypeOK' /\ ChunkFits'
  <2>0. /\ chunk'.day = d /\ chunk'.from = n + k /\ chunk'.upto = chunk.upto
        /\ chunk' \in [day : Days, from : 0..MaxBytes, upto : 0..MaxBytes]
    <3>1. n + k \in 0..MaxBytes
      BY <1>n
    <3>2. QED
      BY <1>4, <1>t, <3>1
  <2>1. TypeOK'
    BY <1>i, <1>2, <1>m, <1>l, <1>4, <2>0 DEF TypeOK, SensorTypeOK, AppendBytes
  <2>2. ChunkFits'
    <3>1. cur = Live => \A i \in 1..(n + k) : t[i][1] <= d
      <4>1. ASSUME cur = Live, NEW i \in 1..(n + k) PROVE t[i][1] <= d
        <5>1. CASE i \in 1..n
          BY <1>1, <1>f, <4>1, <5>1
        <5>2. CASE i \in (n + 1)..(n + k)
          BY <1>1, <1>n, <5>2
        <5>3. QED
          BY <1>n, <5>1, <5>2
      <4>2. QED
        BY <4>1
    <3>2. Len(t) < chunk.upto
      BY <1>1, <1>4, <1>n
    <3>3. QED
      BY <1>1, <1>4, <1>f, <1>n, <2>0, <3>1, <3>2 DEF ChunkFits, AppendBytes, t
  <2>3. QED
    BY <2>1, <2>2
<1>5. TypeOK' /\ ChunkFits'
  BY <1>3, <1>4, <1>k
<1>6. DatedPrefix'
  <2> SUFFICES ASSUME NEW e \in Days
               PROVE  /\ Len(spool'[e]) <= size[e]
                      /\ \A i \in 1..Len(spool'[e]) : spool'[e][i] = <<e, i>>
    BY DEF DatedPrefix, AppendBytes
  <2>1. CASE e # cur
    BY <1>i, <1>2, <2>1 DEF DatedPrefix
  <2>2. CASE e = cur
    <3>1. d = e /\ Len(t) <= size[e]
      <4>1. d = e /\ chunk.upto <= size[e]
        BY <1>f, <2>2
      <4>2. size[e] \in Int /\ Len(t) <= chunk.upto
        BY <1>1, <1>n, <1>t
      <4>3. QED
        BY <1>1, <1>n, <4>1, <4>2
    <3>2. \A i \in 1..n : t[i] = <<e, i>>
      BY <1>1, <1>f, <1>i, <2>2 DEF DatedPrefix
    <3>3. ASSUME NEW i \in 1..(n + k) PROVE t[i] = <<e, i>>
      <4>1. i \in 1..n \/ i \in (n + 1)..(n + k)
        BY <1>n
      <4>2. QED
        BY <1>1, <3>1, <3>2, <4>1
    <3>4. QED
      BY <1>1, <2>2, <3>1, <3>3 DEF t
  <2>3. QED
    BY <2>1, <2>2
<1>7. LivePositions'
  <2>1. CASE cur # Live
    <3>1. spool'[Live] = spool[Live]
      BY <1>2, <2>1
    <3>2. QED
      BY <1>i, <3>1 DEF LivePositions, AppendBytes
  <2>2. CASE cur = Live
    <3>1. \A i \in 1..n : /\ t[i] = spool[Live][i]
                          /\ t[i][1] <= d /\ t[i][2] = i
                          /\ i > 1 => t[i - 1][1] <= t[i][1]
      <4>1. ASSUME NEW i \in 1..n
            PROVE  /\ t[i] = spool[Live][i]
                   /\ t[i][1] <= d /\ t[i][2] = i
                   /\ i > 1 => t[i - 1][1] <= t[i][1]
        <5>1. i > 1 => i - 1 \in 1..n
          BY <1>n
        <5>2. QED
          BY <1>1, <1>f, <1>i, <2>2, <5>1 DEF LivePositions
      <4>2. QED
        BY <4>1
    <3>2. ASSUME NEW i \in (n + 1)..(n + k)
          PROVE  /\ t[i][1] = d /\ t[i][2] = i
                 /\ i > 1 => t[i - 1][1] <= t[i][1]
      <4>1. t[i] = <<d, i>>
        BY <1>1
      <4>2. CASE i = n + 1
        <5>1. i > 1 => i - 1 \in 1..n
          BY <1>n, <4>2
        <5>2. QED
          BY <3>1, <4>1, <5>1
      <4>3. CASE i # n + 1
        <5>1. i - 1 \in (n + 1)..(n + k)
          BY <1>n, <4>3
        <5>2. t[i - 1] = <<d, i - 1>>
          BY <1>1, <5>1
        <5>3. QED
          BY <1>n, <4>1, <5>2
      <4>4. QED
        BY <4>2, <4>3
    <3>3. d <= liveDay /\ liveDay' = liveDay /\ spool'[Live] = t
      BY <1>f, <2>2 DEF AppendBytes, t
    <3>4. ASSUME NEW i \in 1..(n + k)
          PROVE  /\ t[i][2] = i /\ t[i][1] <= liveDay
                 /\ i > 1 => t[i - 1][1] <= t[i][1]
      <4>1. CASE i \in 1..n
        <5>1. spool[Live][i][1] <= liveDay
          BY <1>f, <1>i, <2>2, <4>1 DEF LivePositions
        <5>2. QED
          BY <3>1, <4>1, <5>1
      <4>2. CASE i \in (n + 1)..(n + k)
        BY <3>2, <3>3, <4>2
      <4>3. QED
        BY <1>n, <4>1, <4>2
    <3>5. QED
      BY <1>1, <3>3, <3>4 DEF LivePositions
  <2>3. QED
    BY <2>1, <2>2
<1>8. LogOrder'
  <2>1. Len(spool'[Live]) <= MaxBytes
    <3>1. CASE cur = Live
      BY <1>1, <1>n, <3>1 DEF t
    <3>2. CASE cur # Live
      BY <1>2, <1>i, <3>2 DEF LogOrder
    <3>3. QED
      BY <3>1, <3>2
  <2>2. \A e \in Days : spool'[e] # <<>> => e < liveDay
    <3>1. ASSUME NEW e \in Days, spool'[e] # <<>> PROVE e < liveDay
      <4>1. CASE e = cur
        <5>1. mlive \in Int
          BY <1>i DEF TypeOK
        <5>2. QED
          BY <1>c, <1>t, <4>1, <5>1
      <4>2. CASE e # cur
        BY <1>2, <1>i, <3>1, <4>2 DEF LogOrder
      <4>3. QED
        BY <4>1, <4>2
    <3>2. QED
      BY <3>1
  <2>3. QED
    BY <1>i, <2>1, <2>2 DEF LogOrder, AppendBytes
<1>9. WrittenLater'
  <2>1. mlive \in Int /\ liveDay <= today
    BY <1>i DEF TypeOK, LogOrder
  <2> SUFFICES ASSUME NEW e \in Days
               PROVE  /\ mtime'[e] <= today
                      /\ mtime'[e] # 0 => e < mtime'[e] /\ mtime'[e] <= e + PullRetain
                      /\ spool'[e] # <<>> => mtime'[e] # 0
                      /\ mtime'[e] # 0 /\ spool'[e] = <<>> =>
                           mtime'[e] + SpoolRetain <= today
    BY DEF WrittenLater, AppendBytes
  <2>2. CASE e = cur
    <3>1. mtime'[e] = today
      BY <1>m, <2>2
    <3>2. e < today /\ e >= startDay - (PullRetain - 1)
      BY <1>c, <1>t, <2>1, <2>2 DEF InWindow, Oldest
    <3>3. today <= e + PullRetain
      BY <1>c, <1>t, <3>2
    <3>4. spool'[e] # <<>>
      BY <1>1, <1>n, <2>2 DEF t
    <3>5. today \in Nat /\ today # 0
      BY <1>t
    <3>6. /\ mtime'[e] <= today
          /\ e < mtime'[e] /\ mtime'[e] <= e + PullRetain
          /\ mtime'[e] # 0
      BY <3>1, <3>2, <3>3, <3>5
    <3>7. QED
      BY <3>4, <3>6
  <2>3. CASE e # cur
    <3>1. mtime'[e] = mtime[e] /\ spool'[e] = spool[e]
      BY <1>2, <1>m, <2>3
    <3>2. QED
      BY <1>i, <3>1 DEF WrittenLater
  <2>4. QED
    BY <2>2, <2>3
<1>10. RunOrder'
  <2>1. pc' \in {"fetch", "append"} /\ pc = "append"
    BY <1>k DEF AppendBytes
  <2>2. QED
    BY <1>i, <2>1 DEF RunOrder, InWindow, Oldest, AppendBytes
<1>11. PassedIsCopied'
  <2> SUFFICES ASSUME ~ failed, NEW m \in listed, Passed(m)', InWindow(m)
               PROVE  Len(spool'[m]) >= msize[m]
    BY DEF PassedIsCopied, InWindow, Oldest, AppendBytes
  <2>1. pc' # "entry" /\ pc = "append"
    BY <1>k DEF AppendBytes
  <2>2. m < cur /\ m \in Names
    BY <1>t, <2>1 DEF Passed, AppendBytes
  <2>3. spool'[m] = spool[m]
    BY <1>c, <1>2, <2>2
  <2>4. QED
    BY <1>i, <2>1, <2>2, <2>3 DEF PassedIsCopied, Passed
<1>12. QED
  BY <1>5, <1>6, <1>7, <1>8, <1>9, <1>10, <1>11 DEF CopyInv

(* A run that ends, by itself or not, leaves nothing but the copies.       *)
LEMMA EndRunInv ==
  ASSUME CopyInv, EndRun, UNCHANGED <<sensorVars, spool, mtime, liveFrom>>,
         heartbeat' \in 0..MaxDay
  PROVE  CopyInv'
<1>i. /\ TypeOK /\ DatedPrefix /\ LivePositions /\ LogOrder
      /\ WrittenLater /\ RunOrder /\ ChunkFits /\ PassedIsCopied
  BY DEF CopyInv
<1> USE DEF sensorVars
<1>1. TypeOK'
  <2>1. msize' \in [Names -> 0..MaxBytes]
    BY DEF EndRun
  <2>2. chunk' \in [day : Days, from : 0..MaxBytes, upto : 0..MaxBytes]
    BY DEF EndRun, NoChunk
  <2>3. startDay' \in Days /\ mlive' \in Days /\ have' \in 0..MaxBytes
    BY DEF EndRun
  <2>4. QED
    BY <1>i, <2>1, <2>2, <2>3 DEF TypeOK, SensorTypeOK, EndRun
<1>2. DatedPrefix' /\ LivePositions'
  BY <1>i DEF DatedPrefix, LivePositions
<1>3. LogOrder' /\ WrittenLater'
  BY <1>i DEF LogOrder, WrittenLater
<1>4. RunOrder' /\ ChunkFits' /\ PassedIsCopied'
  BY DEF RunOrder, ChunkFits, PassedIsCopied, EndRun
<1>5. QED
  BY <1>1, <1>2, <1>3, <1>4 DEF CopyInv

(* A run ends.                                                             *)
LEMMA FinishInv == ASSUME CopyInv, Finish PROVE CopyInv'
<1>1. heartbeat' \in 0..MaxDay
  <2>1. heartbeat \in 0..MaxDay /\ today \in 0..MaxDay
    BY DEF CopyInv, TypeOK, SensorTypeOK
  <2>2. QED
    BY <2>1 DEF Finish
<1>2. QED
  BY <1>1, EndRunInv DEF Finish

(* A run is killed.                                                        *)
LEMMA KillInv == ASSUME CopyInv, Kill PROVE CopyInv'
<1>1. heartbeat' \in 0..MaxDay
  BY DEF CopyInv, TypeOK, Kill
<1>2. QED
  BY <1>1, EndRunInv DEF Kill

-----------------------------------------------------------------------------
(* The steps of the others.                                                *)

(* The pruner removes copies.                                              *)
LEMMA PruneSpoolInv == ASSUME CopyInv, PruneSpool PROVE CopyInv'
<1>i. /\ TypeOK /\ DatedPrefix /\ LivePositions /\ LogOrder
      /\ WrittenLater /\ RunOrder /\ ChunkFits /\ PassedIsCopied
  BY DEF CopyInv
<1>s. PICK S \in SUBSET Expired : RemoveCopies(S)
  BY DEF PruneSpool
<1>u. UNCHANGED <<today, size, liveDay, dated, mtime, liveFrom, pullVars>>
  BY <1>s DEF PruneSpool, RemoveCopies
<1>t. /\ spool \in [Names -> Seq(Bytes)] /\ today \in Days /\ startDay \in Days
      /\ mtime \in [Days -> 0..MaxDay] /\ listed \subseteq Names
  BY <1>i DEF TypeOK, SensorTypeOK
<1>1. /\ spool' = [n \in Names |-> IF n \in S THEN <<>> ELSE spool[n]]
      /\ S \subseteq {d \in Days : spool[d] # <<>> /\ mtime[d] + SpoolRetain <= today}
  BY <1>s DEF RemoveCopies, Expired
(* A copy the run may still ask for is not expired.                        *)
<1>2. ASSUME NEW n \in listed, pc # "idle", InWindow(n) PROVE n \notin S
  <2>1. CASE n = Live
    BY <1>1, <2>1
  <2>2. CASE n # Live
    <3>1. ASSUME n \in S PROVE FALSE
      <4>1. n \in Days /\ mtime[n] \in 0..MaxDay
        BY <1>1, <1>t, <3>1
      <4>2. n < mtime[n]
        BY <1>i, <1>1, <3>1 DEF WrittenLater
      <4>3. mtime[n] + SpoolRetain <= today
        BY <1>1, <3>1
      <4>4. today <= startDay + 1
        BY <1>i, <1>2 DEF RunOrder
      <4>5. n >= startDay - (PullRetain - 1)
        BY <1>2, <2>2 DEF InWindow, Oldest
      <4>6. QED
        BY <1>t, <4>1, <4>2, <4>3, <4>4, <4>5
    <3>2. QED
      BY <3>1
  <2>3. QED
    BY <2>1, <2>2
<1>3. /\ \A n \in Names : n \notin S => spool'[n] = spool[n]
      /\ \A n \in S : spool'[n] = <<>>
      /\ spool'[Live] = spool[Live]
  BY <1>1
<1>4. TypeOK'
  <2>1. spool' \in [Names -> Seq(Bytes)]
    <3>1. <<>> \in Seq(Bytes)
      OBVIOUS
    <3>2. QED
      BY <1>1, <1>t, <3>1
  <2>2. QED
    BY <1>i, <1>u, <2>1 DEF TypeOK, SensorTypeOK, pullVars
<1>5. DatedPrefix'
  <2> SUFFICES ASSUME NEW d \in Days
               PROVE  /\ Len(spool'[d]) <= size[d]
                      /\ \A i \in 1..Len(spool'[d]) : spool'[d][i] = <<d, i>>
    BY <1>u DEF DatedPrefix
  <2>1. CASE d \in S
    <3>1. spool'[d] = <<>> /\ size[d] \in Nat
      BY <1>3, <1>i, <2>1 DEF TypeOK, SensorTypeOK
    <3>2. QED
      BY <3>1
  <2>2. CASE d \notin S
    BY <1>3, <1>i, <2>2 DEF DatedPrefix
  <2>3. QED
    BY <2>1, <2>2
<1>6. LivePositions'
  BY <1>3, <1>i, <1>u DEF LivePositions
<1>7. LogOrder' /\ WrittenLater'
  <2>1. \A d \in Days : spool'[d] # <<>> => spool[d] # <<>>
    BY <1>3
  <2>2. ASSUME NEW d \in Days, spool'[d] = <<>>, mtime[d] # 0
        PROVE  mtime[d] + SpoolRetain <= today
    <3>1. CASE d \in S
      BY <1>1, <3>1
    <3>2. CASE d \notin S
      BY <1>3, <1>i, <2>2, <3>2 DEF WrittenLater
    <3>3. QED
      BY <3>1, <3>2
  <2>3. QED
    BY <1>3, <1>i, <1>u, <2>1, <2>2 DEF LogOrder, WrittenLater
<1>8. RunOrder'
  BY <1>i, <1>u DEF RunOrder, InWindow, Oldest, pullVars
<1>9. ChunkFits'
  <2>1. ASSUME pc \in {"fetch", "append"} PROVE spool'[cur] = spool[cur]
    <3>1. cur \in listed /\ InWindow(cur) /\ pc # "idle"
      BY <1>i, <2>1 DEF RunOrder
    <3>2. QED
      BY <1>2, <1>3, <1>t, <3>1
  <2>2. QED
    BY <1>3, <1>i, <1>u, <2>1 DEF ChunkFits, pullVars
<1>10. PassedIsCopied'
  <2> SUFFICES ASSUME pc # "idle", ~ failed, NEW m \in listed, Passed(m), InWindow(m)
               PROVE  Len(spool'[m]) >= msize[m]
    BY <1>u DEF PassedIsCopied, Passed, InWindow, Oldest, pullVars
  <2>1. spool'[m] = spool[m]
    BY <1>2, <1>3, <1>t
  <2>2. QED
    BY <1>i, <2>1 DEF PassedIsCopied
<1>11. QED
  BY <1>4, <1>5, <1>6, <1>7, <1>8, <1>9, <1>10 DEF CopyInv

(* The sensor writes, rotates, prunes, and days go by.                     *)
LEMMA EnvironmentInv == ASSUME CopyInv, Environment PROVE CopyInv'
<1>i. /\ TypeOK /\ DatedPrefix /\ LivePositions /\ LogOrder
      /\ WrittenLater /\ RunOrder /\ ChunkFits /\ PassedIsCopied
  BY DEF CopyInv
<1>u. UNCHANGED <<spool, mtime, liveFrom, pc, startDay, listed, mlive, msize, cur, have,
                  chunk, failed, heartbeat>>
  BY DEF Environment, SensorStep, pullVars
<1>t. /\ today \in Days /\ liveDay \in Days /\ dated \subseteq Days
      /\ size \in [Days -> 0..MaxBytes] /\ startDay \in Days /\ mlive \in Days
      /\ chunk.day \in Days /\ chunk.upto \in 0..MaxBytes
      /\ spool \in [Names -> Seq(Bytes)] /\ listed \subseteq Names
  BY <1>i DEF TypeOK, SensorTypeOK
<1>n. /\ today \in Nat /\ liveDay \in Nat /\ startDay \in Nat /\ mlive \in Nat
      /\ \A d \in Days : size[d] \in Nat
  BY <1>t
(* What any step of the sensor or the clock may do.                        *)
<1>1. /\ today' \in Days /\ today <= today' /\ today' <= today + 1
      /\ liveDay' \in Days /\ liveDay <= liveDay' /\ liveDay' <= today'
      /\ dated' \subseteq Days /\ \A d \in dated' : d < liveDay'
      /\ size' \in [Days -> 0..MaxBytes]
      /\ \A d \in Days : size[d] <= size'[d]
      /\ \A d \in Days : d < liveDay => size'[d] = size[d]
  <2>o. liveDay <= today /\ \A d \in dated : d < liveDay
    BY <1>i DEF LogOrder
  <2>1. CASE NextDay
    BY <1>t, <2>o, <2>1 DEF NextDay
  <2>2. CASE Rotate
    BY <1>t, <2>o, <2>2 DEF Rotate
  <2>3. CASE Write
    <3>1. size[liveDay] + 1 \in 0..MaxBytes
      BY <1>t, <2>3 DEF Write
    <3>2. size' = [size EXCEPT ![liveDay] = size[liveDay] + 1]
      BY <2>3 DEF Write
    <3>3. /\ size' \in [Days -> 0..MaxBytes]
          /\ \A d \in Days : d # liveDay => size'[d] = size[d]
          /\ size'[liveDay] = size[liveDay] + 1
      BY <1>t, <3>1, <3>2
    <3>4. \A d \in Days : size[d] <= size'[d]
      <4>1. TAKE d \in Days
      <4>2. size[d] \in Int
        BY <1>t
      <4>3. QED
        BY <3>3, <4>2
    <3>5. today' = today /\ liveDay' = liveDay /\ dated' = dated
      BY <2>3 DEF Write
    <3>6. \A d \in Days : d < liveDay => size'[d] = size[d]
      BY <1>t, <3>3
    <3>7. today <= today' /\ today' <= today + 1 /\ liveDay <= liveDay'
      BY <1>n, <3>5
    <3>8. QED
      BY <1>t, <2>o, <3>3, <3>4, <3>5, <3>6, <3>7
  <2>4. CASE \E d \in dated : PruneAge(d) \/ PruneSize(d)
    <3>1. today' = today /\ liveDay' = liveDay /\ dated' \subseteq dated
          /\ size' = size
      BY <2>4 DEF PruneAge, PruneSize
    <3>2. QED
      BY <1>t, <2>o, <3>1
  <2>5. QED
    BY <2>1, <2>2, <2>3, <2>4 DEF Environment, SensorStep
<1>a. today' \in Nat /\ today <= today' /\ today' <= today + 1
  BY <1>1
<1>b. liveDay' \in Nat /\ liveDay <= liveDay'
  BY <1>1
<1>c. \A d \in Days : size'[d] \in Nat /\ size[d] <= size'[d]
  <2>1. /\ size' \in [Days -> 0..MaxBytes]
        /\ \A d \in Days : size[d] <= size'[d]
    BY <1>1
  <2>2. QED
    BY <2>1
<1>2. TypeOK'
  BY <1>1, <1>i, <1>u DEF TypeOK, SensorTypeOK
<1>3. DatedPrefix'
  <2> SUFFICES ASSUME NEW d \in Days
               PROVE  /\ Len(spool[d]) <= size'[d]
                      /\ \A i \in 1..Len(spool[d]) : spool[d][i] = <<d, i>>
    BY <1>u DEF DatedPrefix
  <2>1. Len(spool[d]) \in Nat
    BY <1>t
  <2>2. Len(spool[d]) <= size[d] /\ size[d] <= size'[d]
    BY <1>c, <1>i DEF DatedPrefix
  <2>3. QED
    BY <1>c, <1>i, <1>n, <2>1, <2>2 DEF DatedPrefix
<1>4. LivePositions'
  <2> SUFFICES ASSUME NEW i \in 1..Len(spool[Live])
               PROVE  spool[Live][i][1] <= liveDay'
    BY <1>i, <1>u DEF LivePositions
  <2>1. spool[Live] \in Seq(Bytes)
    BY <1>t
  <2>2. spool[Live][i] \in Bytes
    BY <2>1
  <2>3. spool[Live][i][1] \in Days /\ spool[Live][i][1] <= liveDay
    BY <1>i, <2>2 DEF LivePositions, Bytes
  <2>4. QED
    BY <1>b, <1>n, <2>3
<1>5. LogOrder'
  BY <1>1, <1>i, <1>t, <1>u DEF LogOrder
<1>6. WrittenLater'
  <2> SUFFICES ASSUME NEW d \in Days
               PROVE  /\ mtime[d] <= today'
                      /\ mtime[d] + SpoolRetain <= today =>
                           mtime[d] + SpoolRetain <= today'
    BY <1>i, <1>u DEF WrittenLater
  <2>1. mtime \in [Days -> 0..MaxDay]
    BY <1>i DEF TypeOK
  <2>2. mtime[d] \in Nat /\ mtime[d] <= today
    BY <1>i, <2>1 DEF WrittenLater
  <2>3. QED
    BY <1>a, <1>n, <2>2
<1>7. RunOrder'
  <2> SUFFICES ASSUME pc # "idle"
               PROVE  /\ startDay <= today' /\ today' <= startDay + 1
                      /\ mlive <= liveDay'
                      /\ \A n \in listed : n # Live => n < mlive /\ msize[n] = size'[n]
                      /\ pc # "entry" => cur \in listed /\ InWindow(cur)
    BY <1>u DEF RunOrder, InWindow, Oldest
  <2>1. /\ startDay <= today /\ today <= startDay + 1 /\ mlive <= liveDay
        /\ \A n \in listed : n # Live => n < mlive /\ msize[n] = size[n]
        /\ pc # "entry" => cur \in listed /\ InWindow(cur)
    BY <1>i DEF RunOrder
  <2>2. today' = today \/ today = startDay
    BY DEF Environment
  <2>3. ASSUME NEW n \in listed, n # Live PROVE size'[n] = size[n]
    <3>1. n \in Days /\ n < liveDay
      BY <1>t, <2>1, <2>3
    <3>2. QED
      BY <1>1, <3>1
  <2>4. startDay <= today' /\ today' <= startDay + 1 /\ mlive <= liveDay'
    BY <1>a, <1>b, <1>n, <2>1, <2>2
  <2>5. QED
    BY <2>1, <2>3, <2>4
<1>8. ChunkFits'
  <2> SUFFICES ASSUME pc = "append"
               PROVE  chunk.upto <= size'[chunk.day] /\ chunk.day <= liveDay'
    BY <1>i, <1>u DEF ChunkFits
  <2>1. chunk.upto <= size[chunk.day] /\ chunk.day <= liveDay
    BY <1>i DEF ChunkFits
  <2>2. chunk.upto \in Nat /\ chunk.day \in Nat /\ chunk.day \in Days
    BY <1>t
  <2>3. size[chunk.day] \in Nat /\ size'[chunk.day] \in Nat
        /\ size[chunk.day] <= size'[chunk.day]
    BY <1>c, <1>n, <2>2
  <2>4. QED
    BY <1>b, <1>n, <2>1, <2>2, <2>3
<1>9. PassedIsCopied'
  BY <1>i, <1>u DEF PassedIsCopied, Passed, InWindow, Oldest
<1>10. QED
  BY <1>2, <1>3, <1>4, <1>5, <1>6, <1>7, <1>8, <1>9 DEF CopyInv

(* Nothing happens.                                                        *)
LEMMA StutterInv == ASSUME CopyInv, UNCHANGED vars PROVE CopyInv'
<1>1. TypeOK' /\ DatedPrefix' /\ LivePositions' /\ LogOrder'
  BY DEF CopyInv, vars, TypeOK, SensorTypeOK, DatedPrefix, LivePositions, LogOrder
<1>2. WrittenLater' /\ RunOrder' /\ ChunkFits' /\ PassedIsCopied'
  BY DEF CopyInv, vars, WrittenLater, RunOrder, ChunkFits, PassedIsCopied, Passed,
         InWindow, Oldest
<1>3. QED
  BY <1>1, <1>2 DEF CopyInv

(* Every step keeps what is known of the copies.                           *)
LEMMA NextCopyInv == CopyInv /\ [Next]_vars => CopyInv'
<1> SUFFICES ASSUME CopyInv, [Next]_vars PROVE CopyInv'
  OBVIOUS
<1>1. CASE PullStep
  BY <1>1, StartInv, SkipInv, TakeInv, FileDoneInv, FetchOkInv, FetchFailInv,
     AppendInv, FinishInv DEF PullStep
<1>2. CASE Kill
  BY <1>2, KillInv
<1>3. CASE Environment
  BY <1>3, EnvironmentInv
<1>4. CASE PruneSpool
  BY <1>4, PruneSpoolInv
<1>5. CASE UNCHANGED vars
  BY <1>5, StutterInv
<1>6. QED
  BY <1>1, <1>2, <1>3, <1>4, <1>5 DEF Next

-----------------------------------------------------------------------------
(* The live copy and the log it stands for.                                *)

(* Every step keeps the floor of the live copy.                            *)
LEMMA FloorInv == ASSUME IInv, [Next]_vars PROVE LiveFloor'
<1>i. /\ TypeOK /\ LiveFloor /\ RunOrder /\ ChunkFits /\ LivePositions
  BY DEF IInv, CopyInv
<1>t. /\ spool \in [Names -> Seq(Bytes)] /\ size \in [Days -> 0..MaxBytes]
      /\ liveFrom \in Days /\ liveDay \in Days /\ mlive \in Days
      /\ msize \in [Names -> 0..MaxBytes] /\ listed \subseteq Names
      /\ chunk \in [day : Days, from : 0..MaxBytes, upto : 0..MaxBytes]
  BY <1>i DEF TypeOK, SensorTypeOK
<1>l. Len(spool[Live]) \in Nat /\ Live \in Names
  BY <1>t
<1>1. CASE Start
  <2>1. /\ mlive' = liveDay /\ pc' = "entry" /\ liveFrom' = liveFrom
        /\ spool' = spool /\ size' = size /\ liveDay' = liveDay
    BY <1>1 DEF Start, sensorVars
  <2>2. msize'[Live] = size[liveDay]
    BY <1>1, <1>l DEF Start, SizeOf, Listing, LogOf
  <2>3. QED
    BY <1>i, <2>1, <2>2 DEF LiveFloor
<1>2. ASSUME NEW n \in Names, SkipEntry(n) PROVE LiveFloor'
  BY <1>2, <1>i DEF LiveFloor, SkipEntry, sensorVars
<1>3. ASSUME NEW n \in Names, TakeEntry(n) PROVE LiveFloor'
  <2>1. CASE ~ Len(spool[n]) > msize[n]
    BY <1>3, <1>i, <2>1 DEF LiveFloor, TakeEntry, sensorVars
  <2>2. CASE n = Live /\ Len(spool[n]) > msize[n]
    <3>1. /\ liveFrom' = mlive /\ spool'[Live] = <<>> /\ pc' = "fetch"
          /\ size' = size /\ liveDay' = liveDay
      BY <1>3, <1>t, <1>l, <2>2 DEF TakeEntry, LiveFrom, sensorVars
    <3>2. mlive <= liveDay
      BY <1>3, <1>i DEF RunOrder, TakeEntry
    <3>4. size[mlive] \in 0..MaxBytes
      BY <1>t
    <3>5. size[mlive] >= 0
      BY <3>4
    <3>6. Len(spool'[Live]) = 0
      BY <3>1
    <3>3. QED
      BY <3>1, <3>2, <3>5, <3>6 DEF LiveFloor
  <2>3. CASE n # Live /\ Len(spool[n]) > msize[n]
    <3>1. /\ liveFrom' = liveFrom /\ spool'[Live] = spool[Live] /\ pc' = "fetch"
          /\ size' = size /\ liveDay' = liveDay
      BY <1>3, <1>t, <1>l, <2>3 DEF TakeEntry, LiveFrom, sensorVars
    <3>2. QED
      BY <1>i, <3>1 DEF LiveFloor
  <2>4. QED
    BY <2>1, <2>2, <2>3
<1>4. CASE FileDone \/ FetchFail
  <2>1. cur \in Names
    BY <1>4, <1>i, <1>t DEF RunOrder, FileDone, FetchFail
  <2>2. cur' = cur /\ cur # -1
    BY <1>4, <2>1 DEF FileDone, FetchFail
  <2>3. QED
    BY <1>4, <1>i, <2>2 DEF LiveFloor, FileDone, FetchFail, sensorVars
<1>5. CASE FetchOk
  <2>1. cur = Live => chunk'.day = liveDay
    BY <1>5 DEF FetchOk, LogOf
  <2>2. QED
    BY <1>5, <1>i, <2>1 DEF LiveFloor, FetchOk, sensorVars
<1>6. CASE AppendBytes
  <2>1. CASE cur = Live
    <3>1. PICK k \in 1..(chunk.upto - chunk.from) :
            /\ spool' = [spool EXCEPT
                           ![cur] = @ \o Run(chunk.day, chunk.from, chunk.from + k)]
            /\ IF chunk.from + k = chunk.upto
                 THEN pc' = "fetch"
                 ELSE chunk' = [chunk EXCEPT !.from = @ + k]
      BY <1>6 DEF AppendBytes
    <3>2. /\ Len(spool[Live]) = chunk.from /\ chunk.upto <= size[chunk.day]
          /\ chunk.day <= liveDay
      BY <1>6, <1>i, <2>1 DEF ChunkFits, AppendBytes
    <3>3. /\ chunk.day \in Days /\ chunk.from \in 0..MaxBytes
          /\ chunk.upto \in 0..MaxBytes /\ size[chunk.day] \in 0..MaxBytes
      BY <1>t
    <3>4. k \in Nat /\ chunk.from + k <= chunk.upto
      BY <3>3
    <3>5. spool[Live] \in Seq(Bytes)
      BY <1>t, <1>l
    <3> DEFINE s == spool[Live]  e == chunk.day
    <3>12. s \in Seq(Bytes) /\ e \in Days
      BY <3>3, <3>5
    <3> HIDE DEF s, e
    <3>13. Len(s \o Run(e, Len(s), Len(s) + k)) = Len(s) + k
      BY <3>4, <3>12, AppendRun
    <3>6. Len(spool[Live] \o Run(chunk.day, Len(spool[Live]), Len(spool[Live]) + k))
            = Len(spool[Live]) + k
      BY <3>13 DEF s, e
    <3>7. spool'[Live]
            = spool[Live] \o Run(chunk.day, Len(spool[Live]), Len(spool[Live]) + k)
      BY <1>l, <1>t, <2>1, <3>1, <3>2
    <3>8. Len(spool'[Live]) <= size[chunk.day]
      <4>1. Len(spool'[Live]) = chunk.from + k
        BY <3>2, <3>6, <3>7
      <4>2. QED
        BY <3>2, <3>3, <3>4, <4>1
    <3>9. /\ liveFrom' = chunk.day /\ size' = size /\ liveDay' = liveDay
          /\ pc' # "entry"
      BY <1>6, <2>1 DEF AppendBytes, LiveFrom, sensorVars
    <3>10. pc' = "append" => chunk'.day = chunk.day
      BY <1>t, <3>1
    <3>11. QED
      <4>1. pc' = "append" /\ cur' = Live => liveFrom' <= chunk'.day
        BY <3>3, <3>9, <3>10
      <4>2. QED
        BY <3>2, <3>8, <3>9, <4>1 DEF LiveFloor
  <2>2. CASE cur # Live
    <3>1. /\ liveFrom' = liveFrom /\ size' = size /\ liveDay' = liveDay
          /\ pc' # "entry" /\ cur' = cur
      BY <1>6, <2>2 DEF AppendBytes, LiveFrom, sensorVars
    <3>2. spool'[Live] = spool[Live]
      BY <1>6, <1>t, <1>l, <2>2 DEF AppendBytes
    <3>3. QED
      BY <1>i, <2>2, <3>1, <3>2 DEF LiveFloor
  <2>3. QED
    BY <2>1, <2>2
<1>7. CASE Finish \/ Kill
  BY <1>7, <1>i DEF LiveFloor, Finish, Kill, EndRun, sensorVars
<1>8. CASE PruneSpool
  <2>1. spool'[Live] = spool[Live] /\ UNCHANGED <<size, liveDay, liveFrom, pullVars>>
    BY <1>8, <1>l DEF PruneSpool, RemoveCopies, Expired
  <2>2. QED
    BY <1>i, <2>1 DEF LiveFloor, pullVars
<1>9. CASE Environment
  <2>1. UNCHANGED <<spool, liveFrom, pullVars>>
    BY <1>9 DEF Environment, SensorStep
  <2>2. liveDay <= liveDay' /\ liveDay' \in Int /\ size[liveFrom] <= size'[liveFrom]
        /\ size'[liveFrom] \in Int
    <3>1. liveDay \in Int /\ size[liveFrom] \in Int /\ today \in Int
      BY <1>i, <1>t DEF TypeOK, SensorTypeOK
    <3>2. CASE NextDay
      BY <3>1, <3>2 DEF NextDay
    <3>3. CASE Rotate
      BY <3>1, <3>3 DEF Rotate
    <3>4. CASE Write
      <4>1. size' = [size EXCEPT ![liveDay] = size[liveDay] + 1] /\ liveDay' = liveDay
        BY <3>4 DEF Write
      <4>2. size[liveDay] \in 0..MaxBytes /\ size[liveFrom] \in 0..MaxBytes
        BY <1>t
      <4>3. size'[liveFrom] = IF liveFrom = liveDay THEN size[liveDay] + 1 ELSE size[liveFrom]
        BY <1>t, <4>1
      <4>4. QED
        <5>1. liveDay \in Int /\ liveDay <= liveDay' /\ liveDay' \in Int
          BY <1>t, <4>1
        <5>2. size[liveDay] \in Int /\ size[liveFrom] \in Int
          BY <4>2
        <5>3. size[liveFrom] <= size'[liveFrom] /\ size'[liveFrom] \in Int
          BY <4>3, <5>2
        <5>4. QED
          BY <5>1, <5>3
    <3>5. CASE \E d \in dated : PruneAge(d) \/ PruneSize(d)
      BY <3>1, <3>5 DEF PruneAge, PruneSize
    <3>6. QED
      BY <1>9, <3>2, <3>3, <3>4, <3>5 DEF Environment, SensorStep
  <2>3. liveFrom \in Int /\ liveDay \in Int /\ size[liveFrom] \in Int
    BY <1>t
  <2>4. liveFrom <= liveDay'
    BY <1>i, <2>2, <2>3 DEF LiveFloor
  <2>5. Len(spool[Live]) <= size'[liveFrom]
    BY <1>i, <1>l, <2>2, <2>3 DEF LiveFloor
  <2>6. QED
    BY <1>i, <2>1, <2>4, <2>5 DEF LiveFloor, pullVars
<1>10. CASE UNCHANGED vars
  BY <1>10, <1>i DEF LiveFloor, vars
<1>11. QED
  BY <1>1, <1>2, <1>3, <1>4, <1>5, <1>6, <1>7, <1>8, <1>9, <1>10 DEF Next, PullStep

(* Every step keeps dated copies behind the live one.                      *)
LEMMA DatedAfterLiveInv == ASSUME IInv, [Next]_vars PROVE DatedAfterLive'
<1>i. /\ TypeOK /\ DatedAfterLive /\ RunOrder /\ LogOrder
  BY DEF IInv, CopyInv
<1>t. /\ mtime \in [Days -> 0..MaxDay] /\ liveDay \in Days /\ mlive \in Days
      /\ today \in Days /\ listed \subseteq Names
  BY <1>i DEF TypeOK, SensorTypeOK
<1>1. CASE Start
  <2>1. pc = "idle" /\ pc' = "entry" /\ mlive' = liveDay /\ mtime' = mtime
    BY <1>1 DEF Start
  <2>2. QED
    BY <1>i, <2>1 DEF DatedAfterLive
<1>2. ASSUME NEW n \in Names, SkipEntry(n) PROVE DatedAfterLive'
  BY <1>2, <1>i DEF DatedAfterLive, SkipEntry
<1>3. ASSUME NEW n \in Names, TakeEntry(n) PROVE DatedAfterLive'
  BY <1>3, <1>i DEF DatedAfterLive, TakeEntry
<1>4. CASE FileDone \/ FetchFail
  BY <1>4, <1>i DEF DatedAfterLive, FileDone, FetchFail
<1>5. CASE FetchOk
  <2>1. cur = Live => chunk'.day = liveDay
    BY <1>5 DEF FetchOk, LogOf
  <2>2. mlive <= liveDay
    BY <1>5, <1>i DEF RunOrder, FetchOk
  <2>3. QED
    BY <1>5, <1>i, <2>1, <2>2 DEF DatedAfterLive, FetchOk
<1>6. CASE AppendBytes
  <2>1. pc = "append" /\ pc' # "idle" /\ mlive' = mlive /\ cur' = cur
        /\ mtime' = Touch(cur)
    BY <1>6 DEF AppendBytes
  <2>2. pc' = "append" => chunk'.day = chunk.day
    <3>1. chunk \in [day : Days, from : 0..MaxBytes, upto : 0..MaxBytes]
      BY <1>i DEF TypeOK
    <3>2. QED
      BY <1>6, <3>1 DEF AppendBytes
  <2>3. ASSUME NEW d \in Days, mtime'[d] # 0 PROVE d < mlive
    <3>1. CASE d = cur
      <4>1. cur \in listed /\ cur # Live
        BY <1>i, <2>1, <3>1 DEF RunOrder
      <4>2. QED
        BY <1>i, <2>1, <3>1, <4>1 DEF RunOrder
    <3>2. CASE d # cur
      <4>1. mtime'[d] = mtime[d]
        BY <1>t, <2>1, <3>2 DEF Touch
      <4>2. QED
        BY <1>i, <2>1, <2>3, <4>1 DEF DatedAfterLive
    <3>3. QED
      BY <3>1, <3>2
  <2>4. QED
    BY <1>i, <2>1, <2>2, <2>3 DEF DatedAfterLive
<1>7. CASE Finish \/ Kill
  <2>1. pc # "idle" /\ pc' = "idle" /\ mtime' = mtime /\ liveDay' = liveDay
    BY <1>7 DEF Finish, Kill, EndRun, sensorVars
  <2>2. mlive <= liveDay
    BY <1>i, <2>1 DEF RunOrder
  <2>3. ASSUME NEW d \in Days, mtime[d] # 0 PROVE d < liveDay
    <3>1. d < mlive
      BY <1>i, <2>1, <2>3 DEF DatedAfterLive
    <3>2. QED
      BY <1>t, <2>2, <3>1
  <2>4. QED
    BY <2>1, <2>3 DEF DatedAfterLive
<1>8. CASE PruneSpool
  BY <1>8, <1>i DEF DatedAfterLive, PruneSpool, RemoveCopies, pullVars
<1>9. CASE Environment
  <2>1. UNCHANGED <<mtime, pullVars>>
    BY <1>9 DEF Environment, SensorStep
  <2>2. liveDay <= liveDay' /\ liveDay' \in Int
    BY <1>9, <1>t DEF Environment, SensorStep, NextDay, Rotate, Write, PruneAge, PruneSize
  <2>3. ASSUME NEW d \in Days, d < liveDay PROVE d < liveDay'
    BY <1>t, <2>2, <2>3
  <2>4. QED
    BY <1>i, <2>1, <2>3 DEF DatedAfterLive, pullVars
<1>10. CASE UNCHANGED vars
  BY <1>10, <1>i DEF DatedAfterLive, vars
<1>11. QED
  BY <1>1, <1>2, <1>3, <1>4, <1>5, <1>6, <1>7, <1>8, <1>9, <1>10 DEF Next, PullStep

(* The invariant holds at the start.                                       *)
LEMMA InitInv == Init => IInv
<1>1. Init => LiveFloor /\ DatedAfterLive
  BY DEF Init, MirrorInit, SensorInit, LiveFloor, DatedAfterLive
<1>2. QED
  BY <1>1, InitCopyInv DEF IInv

(* Every step keeps it.                                                    *)
LEMMA NextInv == IInv /\ [Next]_vars => IInv'
  BY NextCopyInv, FloorInv, DatedAfterLiveInv DEF IInv

(* The inductive invariant of pull.sh: it holds of every behaviour.        *)
THEOREM Invariant == Spec => []IInv
  BY InitInv, NextInv, PTL DEF Spec

(* The variables of pull.sh and the sensor stay in their types.            *)
THEOREM TypeCorrect == Spec => []TypeOK
  BY Invariant, PTL DEF IInv, CopyInv

(* Whatever is cut short, retried, rotated or removed, a dated copy holds  *)
(* the first bytes of its log.                                             *)
THEOREM DatedCopies == Spec => []DatedPrefix
  BY Invariant, PTL DEF IInv, CopyInv

(* The live copy mixes logs only in their order and never moves a byte.    *)
THEOREM LiveCopy == Spec => []LivePositions
  BY Invariant, PTL DEF IInv, CopyInv

(* At the end of a clean run all of the manifest has been passed.          *)
LEMMA CleanIsComplete == IInv => CleanRunIsComplete
<1> SUFFICES ASSUME IInv, AtCleanEnd, NEW n \in listed, InWindow(n)
             PROVE  Len(spool[n]) >= msize[n] /\ (n # Live => Complete(n))
  BY DEF CleanRunIsComplete
<1>i. TypeOK
  BY DEF IInv, CopyInv
<1>t. /\ n \in Names /\ cur \in Int /\ spool \in [Names -> Seq(Bytes)]
      /\ size \in [Days -> 0..MaxBytes]
  <2>1. listed \subseteq Names /\ cur \in Names \cup {-1}
    BY <1>i DEF TypeOK
  <2>2. spool \in [Names -> Seq(Bytes)] /\ size \in [Days -> 0..MaxBytes]
    BY <1>i DEF TypeOK, SensorTypeOK
  <2>3. QED
    BY <2>1, <2>2
<1>1. Passed(n)
  <2>1. n \notin Pending /\ pc = "entry"
    BY DEF AtCleanEnd
  <2>2. QED
    BY <1>t, <2>1 DEF Pending, Passed
<1>2. Len(spool[n]) >= msize[n]
  BY <1>1 DEF IInv, CopyInv, PassedIsCopied, AtCleanEnd
<1>3. ASSUME n # Live PROVE Complete(n)
  <2>1. msize[n] = size[n]
    BY <1>3 DEF IInv, CopyInv, RunOrder, AtCleanEnd
  <2>2. n \in Days /\ Len(spool[n]) \in Nat /\ size[n] \in Nat
    BY <1>t, <1>3
  <2>3. Len(spool[n]) <= size[n]
    BY <2>2 DEF IInv, CopyInv, DatedPrefix
  <2>4. QED
    BY <1>2, <2>1, <2>2, <2>3 DEF Complete
<1>4. QED
  BY <1>2, <1>3

(* A run without a failed request has copied all it was told of.           *)
THEOREM CleanRun == Spec => []CleanRunIsComplete
  BY CleanIsComplete, Invariant, PTL

-----------------------------------------------------------------------------
(* An outage shorter than the window loses nothing.                        *)

(* The size cap of the sensor is not met, and its age rule keeps a log at  *)
(* least as long as the pull asks for it: 7 and 8 days as deployed.        *)
SensorKeepsWindow == ~ SensorFull /\ SensorRetain >= PullRetain - 1

(* MAX_FILES, 64 as deployed, does not cut the manifest.                   *)
ManifestFits == Cardinality(Listing) <= MaxFiles

(* No log has bytes of a day that has not come.                           *)
NothingLater == \A d \in Days : d > liveDay => size[d] = 0

(* A log that was written and rotated is there while a pull asks for it.   *)
SensorHas ==
  \A d \in Days : d < liveDay /\ size[d] > 0 /\ d + SensorRetain >= today => d \in dated

(* A run was told of every rotated log that it has to fetch.               *)
RunListed ==
  pc # "idle" => \A d \in Days : d < mlive /\ size[d] > 0 /\ InWindow(d) => d \in listed

(* What IInv lacks: that the sensor had the logs, and told the run so.     *)
OutageInv == NothingLater /\ SensorHas /\ RunListed

(* MAX_FILES names are all of a manifest of no more than that.             *)
LEMMA AllListed == ASSUME TypeOK, ManifestFits PROVE FirstFiles(Listing) = Listing
<1>1. SUFFICES ASSUME NEW n \in Listing PROVE Cardinality({m \in Listing : m < n}) < MaxFiles
  BY DEF FirstFiles
<1>2. dated \subseteq Days
  BY DEF TypeOK, SensorTypeOK
<1>3. IsFiniteSet(Listing)
  <2>1. IsFiniteSet(0..MaxDay)
    BY FS_Interval
  <2>2. Listing \subseteq 0..MaxDay
    BY <1>2 DEF Listing
  <2>3. QED
    BY <2>1, <2>2, FS_Subset
<1>4. /\ IsFiniteSet(Listing \ {n})
      /\ Cardinality(Listing \ {n}) = Cardinality(Listing) - 1
  BY <1>3, FS_RemoveElement
<1>5. {m \in Listing : m < n} \subseteq Listing \ {n}
  BY <1>2 DEF Listing
<1>6. /\ Cardinality({m \in Listing : m < n}) \in Nat
      /\ Cardinality({m \in Listing : m < n}) <= Cardinality(Listing \ {n})
      /\ Cardinality(Listing) \in Nat
  BY <1>3, <1>4, <1>5, FS_Subset, FS_CardinalityType
<1>7. QED
  BY <1>4, <1>6 DEF ManifestFits

(* Rotation adds a log to the ones the sensor has, age takes only what is  *)
(* out of the window, and a run begins with all there is.                  *)
LEMMA OutageStep ==
  ASSUME SensorKeepsWindow, IInv, OutageInv, ManifestFits, [Next]_vars
  PROVE  OutageInv'
<1>i. /\ TypeOK /\ LogOrder /\ RunOrder
      /\ NothingLater /\ SensorHas /\ RunListed
  BY DEF IInv, CopyInv, OutageInv
<1>t. /\ today \in Nat /\ liveDay \in Days /\ dated \subseteq Days
      /\ size \in [Days -> 0..MaxBytes] /\ startDay \in Nat /\ mlive \in Nat
      /\ liveDay \in Nat /\ liveDay <= today
  <2>1. /\ today \in Days /\ liveDay \in Days /\ dated \subseteq Days /\ mlive \in Days
        /\ size \in [Days -> 0..MaxBytes] /\ startDay \in Days /\ liveDay <= today
    BY <1>i DEF TypeOK, SensorTypeOK, LogOrder
  <2>2. QED
    BY <2>1
<1>1. CASE Environment
  <2>1. UNCHANGED pullVars /\ SensorStep
    BY <1>1 DEF Environment
  <2>2. CASE NextDay
    BY <1>i, <1>t, <2>1, <2>2
       DEF OutageInv, NothingLater, SensorHas, RunListed, InWindow, Oldest, NextDay, pullVars
  <2>3. CASE Rotate
    <3>1. UNCHANGED <<today, size>> /\ liveDay' = today /\ liveDay < today /\ dated' = dated \cup {liveDay}
      BY <2>3 DEF Rotate
    <3>2. NothingLater'
      BY <1>i, <1>t, <3>1 DEF NothingLater
    <3>3. SensorHas'
      BY <1>i, <1>t, <3>1 DEF NothingLater, SensorHas
    <3>4. RunListed'
      BY <1>i, <2>1, <3>1 DEF RunListed, InWindow, Oldest, pullVars
    <3>5. QED
      BY <3>2, <3>3, <3>4 DEF OutageInv
  <2>4. CASE Write
    <3>1. UNCHANGED <<today, liveDay, dated>> /\ size' = [size EXCEPT ![liveDay] = @ + 1]
      BY <2>4 DEF Write
    <3>2. \A d \in Days : d # liveDay => size'[d] = size[d]
      BY <1>t, <3>1
    <3>3. NothingLater' /\ SensorHas'
      BY <1>i, <1>t, <3>1, <3>2 DEF NothingLater, SensorHas
    <3>4. RunListed'
      <4>1. pc # "idle" => mlive <= liveDay
        BY <1>i DEF RunOrder
      <4>2. ASSUME NEW d \in Days, pc # "idle", d < mlive PROVE size'[d] = size[d]
        BY <1>t, <3>2, <4>1, <4>2
      <4>3. QED
        BY <1>i, <2>1, <3>1, <4>2 DEF RunListed, InWindow, Oldest, pullVars
    <3>5. QED
      BY <3>3, <3>4 DEF OutageInv
  <2>5. ASSUME NEW e \in dated, PruneAge(e) \/ PruneSize(e) PROVE OutageInv'
    <3>1. e + SensorRetain < today /\ dated' = dated \ {e} /\ UNCHANGED <<today, size, liveDay>>
      BY <2>5 DEF PruneAge, PruneSize, SensorKeepsWindow
    <3>2. NothingLater' /\ RunListed'
      BY <1>i, <2>1, <3>1 DEF NothingLater, RunListed, InWindow, Oldest, pullVars
    <3>3. SensorHas'
      BY <1>i, <1>t, <3>1 DEF SensorHas
    <3>4. QED
      BY <3>2, <3>3 DEF OutageInv
  <2>6. QED
    BY <2>1, <2>2, <2>3, <2>4, <2>5 DEF SensorStep
<1>2. CASE ~ Environment
  <2>1. UNCHANGED sensorVars
    BY <1>2 DEF Next, PullStep, Start, SkipEntry, TakeEntry, FileDone, FetchOk, FetchFail,
                AppendBytes, Finish, Kill, PruneSpool, RemoveCopies, vars, sensorVars
  <2>2. NothingLater' /\ SensorHas'
    BY <1>i, <2>1 DEF NothingLater, SensorHas, sensorVars
  <2>3. RunListed'
    <3>1. CASE Start
      <4>1. listed' = Listing /\ startDay' = today /\ mlive' = liveDay
        BY <1>i, <3>1, AllListed DEF Start
      <4>2. ASSUME NEW d \in Days, d < liveDay, size[d] > 0, d >= today - (PullRetain - 1)
            PROVE  d \in dated
        <5>1. d + SensorRetain >= today
          BY <1>t, <4>2 DEF SensorKeepsWindow
        <5>2. QED
          BY <1>i, <4>2, <5>1 DEF SensorHas
      <4>3. QED
        BY <2>1, <4>1, <4>2 DEF RunListed, InWindow, Oldest, Listing, sensorVars
    <3>2. CASE Finish \/ Kill
      BY <3>2 DEF Finish, Kill, EndRun, RunListed
    <3>3. CASE ~ (Start \/ Finish \/ Kill)
      <4>1. UNCHANGED <<startDay, listed, mlive>> /\ (pc' # "idle" => pc # "idle")
        BY <1>2, <3>3 DEF Next, PullStep, SkipEntry, TakeEntry, FileDone, FetchOk, FetchFail,
                AppendBytes, PruneSpool, RemoveCopies, vars, pullVars
      <4>2. QED
        BY <1>i, <2>1, <4>1 DEF RunListed, InWindow, Oldest, sensorVars
    <3>4. QED
      BY <3>1, <3>2, <3>3
  <2>4. QED
    BY <2>2, <2>3 DEF OutageInv
<1>3. QED
  BY <1>1, <1>2

(* "An outage of up to a week loses nothing" (pull.sh): it holds as long   *)
(* as the sensor's age rule, and not its size cap, decides what it keeps.  *)
THEOREM Outage ==
  ASSUME SensorKeepsWindow
  PROVE  Spec /\ []ManifestFits => []OutageLosesNothing
<1>1. Init => OutageInv
  BY DEF Init, MirrorInit, SensorInit, OutageInv, NothingLater, SensorHas, RunListed
<1>2. IInv /\ OutageInv /\ ManifestFits /\ [Next]_vars => OutageInv'
  BY OutageStep
<1>3. IInv /\ OutageInv => OutageLosesNothing
  <2> SUFFICES ASSUME IInv, OutageInv, AtCleanEnd, heartbeat > 0,
                      startDay - heartbeat < PullRetain,
                      NEW d \in heartbeat..(mlive - 1)
               PROVE  Complete(d)
    BY DEF OutageLosesNothing
  <2>1. TypeOK
    BY DEF IInv, CopyInv
  <2>2. /\ heartbeat \in 0..MaxDay /\ mlive \in Days /\ startDay \in Days
        /\ spool \in [Names -> Seq(Bytes)] /\ size \in [Days -> 0..MaxBytes]
    BY <2>1 DEF TypeOK, SensorTypeOK
  <2>3. d \in Days /\ d < mlive /\ d # Live /\ InWindow(d)
    BY <2>2 DEF InWindow, Oldest
  <2>4. CASE size[d] > 0
    <3>1. d \in listed
      BY <2>3, <2>4 DEF OutageInv, RunListed, AtCleanEnd
    <3>2. QED
      BY <2>3, <3>1, CleanIsComplete DEF CleanRunIsComplete
  <2>5. CASE ~ size[d] > 0
    <3>1. Len(spool[d]) <= size[d] /\ Len(spool[d]) \in Nat /\ size[d] \in Nat
      BY <2>2, <2>3 DEF IInv, CopyInv, DatedPrefix
    <3>2. QED
      BY <2>5, <3>1 DEF Complete
  <2>6. QED
    BY <2>4, <2>5
<1>4. QED
  BY <1>1, <1>2, <1>3, Invariant, PTL DEF Spec

(* A copy the run is at is not one the spool pruner has removed.           *)
LEMMA AppendedIsPresent ==
  ASSUME IInv, AppendBytes, cur \in Days, mtime[cur] # 0
  PROVE  spool[cur] # <<>>
<1>1. InWindow(cur) /\ today <= startDay + 1
  BY DEF IInv, CopyInv, RunOrder, AppendBytes
<1>2. today \in Nat /\ startDay \in Nat /\ mtime[cur] \in Nat
  BY DEF IInv, CopyInv, TypeOK, SensorTypeOK
<1>3. today <= cur + PullRetain
  BY <1>1, <1>2 DEF InWindow, Oldest
<1>4. cur < mtime[cur]
  BY DEF IInv, CopyInv, WrittenLater
<1>5. SUFFICES ASSUME spool[cur] = <<>> PROVE FALSE
  OBVIOUS
<1>6. mtime[cur] + SpoolRetain <= today
  BY <1>5 DEF IInv, CopyInv, WrittenLater
<1>7. QED
  BY <1>2, <1>3, <1>4, <1>6

(* "A file prune has deleted is never fetched again": it holds when the    *)
(* pruner keeps copies at least as long as the pull asks for them.         *)
THEOREM NoRefetch == Spec => NeverFetchedAgain
<1>1. ASSUME IInv, [Next]_vars, NEW d \in Days, mtime[d] # 0, spool[d] = <<>>
      PROVE  spool'[d] = <<>>
  <2>t. spool \in [Names -> Seq(Bytes)] /\ d \in Names
    BY <1>1 DEF IInv, CopyInv, TypeOK
  <2>1. CASE AppendBytes
    <3>1. d # cur
      BY <1>1, <2>1, AppendedIsPresent
    <3>2. spool'[d] = spool[d]
      BY <2>1, <2>t, <3>1 DEF AppendBytes
    <3>3. QED
      BY <1>1, <3>2
  <2>2. ASSUME NEW n \in Names, TakeEntry(n) PROVE spool'[d] = <<>>
    BY <1>1, <2>2, <2>t DEF TakeEntry
  <2>3. CASE PruneSpool
    BY <1>1, <2>3, <2>t DEF PruneSpool, RemoveCopies
  <2>4. ASSUME spool' = spool PROVE spool'[d] = <<>>
    BY <1>1, <2>4
  <2>5. CASE PullStep
    <3>1. ASSUME NEW n \in Names, SkipEntry(n) PROVE spool' = spool
      BY <3>1 DEF SkipEntry
    <3>2. CASE Start \/ FileDone \/ FetchOk \/ FetchFail \/ Finish
      BY <2>4, <3>2 DEF Start, FileDone, FetchOk, FetchFail, Finish
    <3>3. QED
      BY <2>1, <2>2, <2>4, <2>5, <3>1, <3>2 DEF PullStep
  <2>6. CASE Kill \/ Environment \/ UNCHANGED vars
    BY <2>4, <2>6 DEF Kill, Environment, SensorStep, vars
  <2>7. QED
    BY <1>1, <2>3, <2>5, <2>6 DEF Next
<1>2. IInv /\ [Next]_vars =>
        [\A d \in Days : mtime[d] # 0 /\ spool[d] = <<>> => spool'[d] = <<>>]_vars
  BY <1>1
<1>3. QED
  BY <1>2, Invariant, PTL DEF Spec, NeverFetchedAgain

-----------------------------------------------------------------------------
(* LogPull implements SpoolMirror.                                         *)

(* What is appended is more of one log, as the mirror has it.              *)
LEMMA AppendIsGain == ASSUME IInv, AppendBytes PROVE \E n \in Names, d \in Days : Gain(n, d)
<1>i. /\ TypeOK /\ LogOrder /\ RunOrder /\ ChunkFits
  BY DEF IInv, CopyInv
<1>c. /\ chunk.day \in Days /\ chunk.from \in 0..MaxBytes /\ chunk.upto \in 0..MaxBytes
      /\ listed \subseteq Names /\ today \in Nat /\ startDay \in Nat /\ mlive \in Nat
      /\ liveDay \in Nat /\ size \in [Days -> 0..MaxBytes]
  <2>1. chunk \in [day : Days, from : 0..MaxBytes, upto : 0..MaxBytes]
    BY <1>i DEF TypeOK
  <2>2. chunk.day \in Days /\ chunk.from \in 0..MaxBytes /\ chunk.upto \in 0..MaxBytes
    BY <2>1
  <2>3. listed \subseteq Names
    BY <1>i DEF TypeOK
  <2>4. today \in Days /\ startDay \in Days /\ mlive \in Days /\ liveDay \in Days
    BY <1>i DEF TypeOK, SensorTypeOK
  <2>5. today \in Nat /\ startDay \in Nat /\ mlive \in Nat /\ liveDay \in Nat
    BY <2>4, SensorAssumption DEF Days
  <2>6. size \in [Days -> 0..MaxBytes]
    BY <1>i DEF TypeOK, SensorTypeOK
  <2>7. QED
    BY <2>2, <2>3, <2>5, <2>6
<1>1. cur \in listed /\ InWindow(cur) /\ today <= startDay + 1 /\ mlive <= liveDay
      /\ (cur # Live => cur < mlive)
  BY <1>i DEF RunOrder, AppendBytes
<1>n. cur \in Names
  BY <1>1, <1>c
<1>2. /\ Len(spool[cur]) = chunk.from /\ chunk.from < chunk.upto
      /\ chunk.upto <= size[chunk.day] /\ chunk.day <= liveDay
      /\ cur # Live => chunk.day = cur
  BY <1>i DEF ChunkFits, AppendBytes
<1>3. PICK k \in 1..(chunk.upto - chunk.from) :
        spool' = [spool EXCEPT
                    ![cur] = @ \o Run(chunk.day, chunk.from, chunk.from + k)]
  BY DEF AppendBytes
<1>4. k \in 1..MaxBytes /\ chunk.from + k <= chunk.upto /\ k \in Nat
  BY <1>c
<1>5. IF cur = Live THEN chunk.day <= liveDay /\ mtime[chunk.day] = 0
                    ELSE chunk.day = cur /\ cur < liveDay /\ today <= cur + PullRetain
  <2>1. CASE cur = Live
    <3>1. mlive <= chunk.day /\ (mtime[chunk.day] # 0 => chunk.day < mlive)
      BY <1>c, <2>1 DEF IInv, DatedAfterLive, AppendBytes
    <3>2. QED
      BY <1>2, <1>c, <2>1, <3>1
  <2>2. CASE cur # Live
    <3>1. cur >= startDay - (PullRetain - 1)
      BY <1>1, <2>2 DEF InWindow, Oldest
    <3>2. cur < liveDay /\ today <= cur + PullRetain
      BY <1>1, <1>c, <1>n, <2>2, <3>1
    <3>3. QED
      BY <1>2, <2>2, <3>2
  <2>3. QED
    BY <2>1, <2>2
<1>6. Len(spool[cur]) + k <= size[chunk.day]
  <2>1. size[chunk.day] \in Nat
    BY <1>c
  <2>2. QED
    BY <1>2, <1>4, <1>c, <2>1
<1>f. cur = Live => liveFrom <= chunk.day
  BY DEF IInv, LiveFloor, AppendBytes
<1>7. mtime' = Touch(cur) /\ liveFrom' = LiveFrom(cur, chunk.day) /\ UNCHANGED sensorVars
  BY DEF AppendBytes
<1>8. spool' = [spool EXCEPT ![cur] = @ \o Run(chunk.day, Len(spool[cur]), Len(spool[cur]) + k)]
  BY <1>2, <1>3
<1>9. Gain(cur, chunk.day)
  BY <1>4, <1>5, <1>6, <1>7, <1>8, <1>f DEF Gain
<1>10. QED
  BY <1>9, <1>c, <1>n

(* An entry taken up drops the live copy, or leaves the mirror alone.      *)
LEMMA TakeIsDrop ==
  ASSUME IInv, NEW n \in Names, TakeEntry(n)
  PROVE  DropLive \/ UNCHANGED mirrorVars
<1>t. /\ n \in listed /\ msize \in [Names -> 0..MaxBytes]
      /\ spool \in [Names -> Seq(Bytes)] /\ size \in [Days -> 0..MaxBytes]
  <2>1. TypeOK
    BY DEF IInv, CopyInv
  <2>2. QED
    BY <2>1 DEF TypeOK, SensorTypeOK, TakeEntry, Pending
<1>1. CASE Len(spool[n]) > msize[n]
  <2>1. n = Live
    <3>1. SUFFICES ASSUME n # Live PROVE FALSE
      OBVIOUS
    <3>2. msize[n] = size[n] /\ n \in Days
      BY <1>t, <3>1 DEF IInv, CopyInv, RunOrder, TakeEntry
    <3>3. Len(spool[n]) <= size[n] /\ Len(spool[n]) \in Nat /\ size[n] \in Nat
      BY <1>t, <3>2 DEF IInv, CopyInv, DatedPrefix
    <3>4. QED
      BY <1>1, <3>2, <3>3
  <2>2. QED
    <3>1. /\ spool' = [spool EXCEPT ![Live] = <<>>] /\ liveFrom' = mlive
          /\ UNCHANGED <<sensorVars, mtime>>
      BY <1>1, <2>1 DEF TakeEntry, LiveFrom
    <3>2. pc = "entry" /\ n > cur /\ mlive <= liveDay
      BY DEF IInv, CopyInv, RunOrder, TakeEntry, Pending
    <3>3. cur \in Names \cup {-1} /\ mlive \in Days /\ liveDay \in Days /\ liveFrom \in Days
      BY DEF IInv, CopyInv, TypeOK, SensorTypeOK
    <3>4. cur = -1
      BY <2>1, <3>2, <3>3
    <3>5. liveFrom <= mlive /\ (liveFrom = mlive => Len(spool[Live]) <= msize[Live])
      BY <3>2, <3>4 DEF IInv, LiveFloor
    <3>6. Len(spool[Live]) \in Nat /\ msize[Live] \in 0..MaxBytes
      BY <1>t
    <3>7. liveFrom # mlive
      BY <1>1, <2>1, <3>5, <3>6
    <3>8. mlive \in (liveFrom + 1)..liveDay
      BY <3>2, <3>3, <3>5, <3>7
    <3>9. QED
      BY <3>1, <3>8 DEF DropLive, sensorVars
<1>2. CASE ~ Len(spool[n]) > msize[n]
  BY <1>2 DEF TakeEntry, mirrorVars, sensorVars
<1>3. QED
  BY <1>1, <1>2

(* Every step of LogPull is a step of SpoolMirror or changes none of its   *)
(* variables.                                                              *)
THEOREM Refinement == Spec => ImplementsMirror
<1>1. Init => MirrorInit
  BY DEF Init
<1>2. IInv /\ [Next]_vars => [MirrorNext]_mirrorVars
  <2> SUFFICES ASSUME IInv, [Next]_vars PROVE [MirrorNext]_mirrorVars
    OBVIOUS
  <2>1. CASE AppendBytes
    BY <2>1, AppendIsGain DEF MirrorNext
  <2>2. ASSUME NEW n \in Names, TakeEntry(n) PROVE [MirrorNext]_mirrorVars
    BY <2>2, TakeIsDrop DEF MirrorNext
  <2>3. ASSUME NEW n \in Names, SkipEntry(n) PROVE [MirrorNext]_mirrorVars
    BY <2>3 DEF SkipEntry, mirrorVars, sensorVars
  <2>4. CASE Start \/ FileDone \/ FetchOk \/ FetchFail \/ Finish \/ Kill
    BY <2>4 DEF Start, FileDone, FetchOk, FetchFail, Finish, Kill, mirrorVars, sensorVars
  <2>5. CASE Environment
    BY <2>5 DEF Environment, MirrorNext
  <2>6. CASE PruneSpool
    BY <2>6 DEF PruneSpool, MirrorNext
  <2>7. CASE UNCHANGED vars
    BY <2>7 DEF vars, mirrorVars
  <2>8. QED
    BY <2>1, <2>2, <2>3, <2>4, <2>5, <2>6, <2>7 DEF Next, PullStep
<1>3. QED
  BY <1>1, <1>2, Invariant, PTL DEF Spec, ImplementsMirror, MirrorSpec
=============================================================================
