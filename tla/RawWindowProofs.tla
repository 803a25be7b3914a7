-------------------------- MODULE RawWindowProofs --------------------------
(***************************************************************************)
(* What every table of the worker that is rebuilt by day rests on: which   *)
(* events raw_events still has, and which days days_to_build asks for.     *)
(*                                                                         *)
(* RawInv is kept by each of the three things that happen to raw_events.   *)
(* It says that the pruner takes the oldest first, and none before its     *)
(* time; and, where somebody comes every day, that the newest event is     *)
(* never far behind today.                                                 *)
(***************************************************************************)
EXTENDS RawWindow, Extrema

USE RawWindowAssumption

Timed == came \ {Untimed}

(* None is pruned before its time, and what is pruned is no younger than   *)
(* what is left.                                                           *)
OldestGoFirst ==
  \A e \in Timed \ raw :
    /\ DayOf(e) + RawRetain <= today
    /\ \A f \in raw \ {Untimed} : DayOf(e) <= DayOf(f)

(* Since the first day, somebody came the day before, or is under way.     *)
NewestIsNear ==
  Active /\ today > 1 => \E e \in came \ Operator : DayOf(e) >= today - 1 - MaxLate

RawInv ==
  /\ RawTypeOK
  /\ IsFiniteSet(came)
  /\ \A e \in came : DayOf(e) <= today
  /\ OldestGoFirst
  /\ NewestIsNear

(* The pruner does not reach what is still under way, or is rebuilt.       *)
WindowIsWide == RawRetain >= RecentDays + MaxLate + 2

(* That, and somebody comes every day.                                     *)
KeptFor == Active /\ WindowIsWide

-----------------------------------------------------------------------------
(* An event is of a day, and Untimed of none.                              *)
LEMMA EventsAreTimed ==
  /\ \A e \in Events : DayOf(e) \in Days /\ e[2] \in Nat
  /\ DayOf(Untimed) = 0
  /\ Untimed \notin Events
  /\ \A e \in Events : e = <<DayOf(e), e[2]>>
BY DEF DayOf, Days, Untimed

(* It holds of the empty table.                                            *)
LEMMA RawInvInit == RawInit => RawInv
<1> SUFFICES ASSUME RawInit PROVE RawInv
  OBVIOUS
<1>1. IsFiniteSet(came)
  BY FS_EmptySet DEF RawInit
<1>2. today = 1 /\ raw = {} /\ came = {} /\ excluded = FALSE
  BY DEF RawInit
<1>3. 1 \in Days
  BY DEF Days
<1>4. RawTypeOK
  BY <1>2, <1>3 DEF RawTypeOK
<1>5. OldestGoFirst /\ NewestIsNear
  BY <1>2 DEF OldestGoFirst, NewestIsNear, Timed
<1>6. QED
  BY <1>1, <1>2, <1>4, <1>5 DEF RawInv

(* Midnight: what is old stays old, and the guard is what NewestIsNear     *)
(* says of the new day.                                                    *)
LEMMA RawInvMidnight == RawInv /\ Midnight => RawInv'
<1> SUFFICES ASSUME RawInv, Midnight PROVE RawInv'
  OBVIOUS
<1> USE DEF RawInv
<1>1. today \in Nat /\ today' = today + 1 /\ today' \in Days
  BY DEF Midnight, RawTypeOK, Days
<1>2. raw' = raw /\ came' = came /\ excluded' = excluded
  BY DEF Midnight
<1>3. \A e \in came : DayOf(e) \in Nat
  BY EventsAreTimed DEF RawTypeOK, Days
<1>4. RawTypeOK'
  BY <1>1, <1>2 DEF RawTypeOK
<1>5. \A e \in came : DayOf(e) <= today'
  BY <1>1, <1>3
<1>6. OldestGoFirst'
  BY <1>1, <1>2, <1>3 DEF OldestGoFirst, Timed
<1>7. NewestIsNear'
  BY <1>1, <1>2 DEF NewestIsNear, Midnight
<1>8. QED
  BY <1>2, <1>4, <1>5, <1>6, <1>7 DEF DayOf

(* A late event is younger than any that was pruned, as MaxLate is less    *)
(* than the retention.                                                     *)
LEMMA RawInvArrive ==
  ASSUME WindowIsWide, RawInv, NEW e \in Events \cup {Untimed}, Arrive(e)
  PROVE  RawInv'
<1> USE DEF RawInv
<1>1. today \in Nat /\ today' = today /\ excluded' = excluded
  BY DEF Arrive, RawTypeOK, Days
<1>2. raw' = raw \cup {e} /\ came' = came \cup {e}
  BY DEF Arrive
<1>3. \A f \in came' : DayOf(f) \in Nat
  BY <1>2, EventsAreTimed DEF RawTypeOK, Days
<1>4. RawTypeOK'
  BY <1>1, <1>2 DEF RawTypeOK
<1>5. IsFiniteSet(came')
  BY <1>2, FS_AddElement
<1>6. \A f \in came' : DayOf(f) <= today'
  BY <1>1, <1>2, EventsAreTimed DEF Arrive
<1>7. OldestGoFirst'
  <2>1. Timed' \ raw' \subseteq Timed \ raw
    BY <1>2 DEF Timed
  <2>2. ASSUME NEW f \in Timed \ raw, e # Untimed PROVE DayOf(f) <= DayOf(e)
    <3>1. DayOf(f) + RawRetain <= today
      BY DEF OldestGoFirst
    <3>2. today <= DayOf(e) + MaxLate
      BY <2>2 DEF Arrive
    <3>3. DayOf(f) \in Nat /\ DayOf(e) \in Nat
      BY <1>2, <1>3 DEF Timed
    <3>4. QED
      BY <3>1, <3>2, <3>3, <1>1 DEF WindowIsWide
  <2>3. QED
    BY <1>1, <1>2, <2>1, <2>2 DEF OldestGoFirst
<1>8. NewestIsNear'
  BY <1>1, <1>2 DEF NewestIsNear
<1>9. QED
  BY <1>4, <1>5, <1>6, <1>7, <1>8 DEF DayOf

(* The batch ends at an event that is old, and takes all before it.        *)
LEMMA RawInvPrune == RawInv /\ PruneBatch => RawInv'
<1> SUFFICES ASSUME RawInv, PruneBatch PROVE RawInv'
  OBVIOUS
<1> USE DEF RawInv
<1>1. PICK e \in raw : Aged(e) /\ raw' = {f \in raw : Before(e, f)}
  BY DEF PruneBatch
<1>2. today' = today /\ came' = came /\ excluded' = excluded /\ today \in Nat
  BY DEF PruneBatch, RawTypeOK, Days
<1>3. \A f \in came : DayOf(f) \in Nat /\ f[2] \in Nat
  BY EventsAreTimed DEF RawTypeOK, Days, Untimed
<1>4. RawTypeOK'
  BY <1>1, <1>2 DEF RawTypeOK
<1>5. OldestGoFirst'
  <2>1. SUFFICES ASSUME NEW f \in Timed \ raw'
                 PROVE  /\ DayOf(f) + RawRetain <= today
                        /\ \A g \in raw' \ {Untimed} : DayOf(f) <= DayOf(g)
    BY <1>2 DEF OldestGoFirst, Timed
  <2>2. CASE f \notin raw
    BY <2>2, <1>1 DEF OldestGoFirst
  <2>3. CASE f \in raw
    <3>1. ~ Before(e, f) /\ f # Untimed /\ f \in came /\ e \in came
      BY <2>3, <1>1 DEF Timed, RawTypeOK
    <3>2. DayOf(f) <= DayOf(e)
      BY <3>1, <1>3 DEF Before
    <3>3. DayOf(f) \in Days
      BY <3>1, EventsAreTimed DEF RawTypeOK
    <3>4. e # Untimed
      BY <3>2, <3>3, EventsAreTimed DEF Days
    <3>5. DayOf(e) + RawRetain <= today
      BY <1>1, <3>4 DEF Aged
    <3>6. DayOf(f) + RawRetain <= today
      BY <3>1, <3>2, <3>5, <1>2, <1>3
    <3>7. ASSUME NEW g \in raw' PROVE DayOf(f) <= DayOf(g)
      <4>1. Before(e, g) /\ g \in came
        BY <1>1 DEF RawTypeOK
      <4>2. DayOf(e) <= DayOf(g)
        BY <4>1, <3>1, <1>3 DEF Before
      <4>3. QED
        BY <4>1, <4>2, <3>1, <3>2, <1>3
    <3>8. QED
      BY <3>6, <3>7
  <2>4. QED
    BY <2>2, <2>3
<1>6. NewestIsNear'
  BY <1>2 DEF NewestIsNear
<1>7. QED
  BY <1>2, <1>4, <1>5, <1>6 DEF DayOf

(* A step that leaves raw_events alone; the exclusion may come.            *)
LEMMA RawInvKeeps ==
  RawInv /\ UNCHANGED <<today, raw, came>> /\ excluded' \in BOOLEAN => RawInv'
BY DEF RawInv, RawTypeOK, OldestGoFirst, NewestIsNear, Timed, DayOf

-----------------------------------------------------------------------------
(* What a run sees: the days from the first event to the last.             *)
LEMMA AllDaysAre ==
  ASSUME RawTypeOK, DatesParse
  PROVE  /\ AllDays \subseteq Days
         /\ \A d \in AllDays : /\ Min(AllDays) \in AllDays /\ Max(AllDays) \in AllDays
                               /\ Min(AllDays) <= d /\ d <= Max(AllDays)
                               /\ \E e \in Visible : DayOf(e) = Min(AllDays)
         /\ \A e \in Visible : DayOf(e) \in AllDays /\ DayOf(e) <= Max(AllDays)
                               /\ e \in Events
<1> DEFINE D == {DayOf(e) : e \in Visible}
<1>1. Visible \subseteq Events
  BY DEF RawTypeOK, DatesParse, Visible
<1>2. D \subseteq Days
  BY <1>1, EventsAreTimed
<1>3. CASE D = {}
  BY <1>3, <1>1 DEF AllDays
<1>4. CASE D # {}
  <2> HIDE DEF D
  <2>1. D \in SUBSET Nat /\ MaxDay \in Nat /\ \A x \in D : x <= MaxDay
    BY <1>2 DEF Days
  <2>2. Min(D) \in D /\ \A x \in D : Min(D) <= x
    BY <2>1, <1>4, MinOfNat
  <2>3. Max(D) \in D /\ \A x \in D : x <= Max(D)
    BY <2>1, <1>4, MaxOfNat
  <2>4. AllDays = Min(D)..Max(D)
    BY <1>4 DEF AllDays, D
  <2>5. Min(D) \in Nat /\ Max(D) \in Nat /\ Min(D) <= Max(D) /\ Max(D) <= MaxDay
        /\ 1 <= Min(D)
    <3>1. Min(D) \in Days /\ Max(D) \in Days
      BY <2>2, <2>3, <1>2
    <3>2. Min(D) <= Max(D)
      BY <2>2, <2>3
    <3>3. QED
      BY <3>1, <3>2 DEF Days
  <2>6. AllDays \in SUBSET Nat /\ AllDays # {} /\ \A x \in AllDays : x <= MaxDay
    BY <2>4, <2>5
  <2>7. /\ Min(D) \in AllDays /\ \A x \in AllDays : Min(D) <= x
        /\ Max(D) \in AllDays /\ \A x \in AllDays : x <= Max(D)
    BY <2>4, <2>5
  <2>8. Min(AllDays) \in AllDays /\ \A x \in AllDays : Min(AllDays) <= x
    BY <2>6, MinOfNat
  <2>9. Max(AllDays) \in AllDays /\ \A x \in AllDays : x <= Max(AllDays)
    BY <2>6, <2>1, MaxOfNat
  <2>10. Min(AllDays) = Min(D)
    <3>1. Min(AllDays) <= Min(D) /\ Min(D) <= Min(AllDays)
      BY <2>7, <2>8
    <3>2. Min(AllDays) \in Nat
      BY <2>6, <2>8
    <3>3. QED
      BY <3>1, <3>2, <2>5
  <2>11. AllDays \subseteq Days
    BY <2>4, <2>5 DEF Days
  <2>12. \E e \in Visible : DayOf(e) = Min(AllDays)
    BY <2>2, <2>10 DEF D
  <2>13. \A e \in Visible : DayOf(e) \in D
    BY DEF D
  <2>14. \A e \in Visible : DayOf(e) \in AllDays
    <3> SUFFICES ASSUME NEW e \in Visible PROVE DayOf(e) \in Min(D)..Max(D)
      BY <2>4
    <3>1. DayOf(e) \in D
      BY <2>13
    <3>2. DayOf(e) \in Nat /\ Min(D) <= DayOf(e) /\ DayOf(e) <= Max(D)
      BY <3>1, <2>1, <2>2, <2>3
    <3>3. QED
      BY <3>2, <2>5
  <2>15. QED
    BY <2>8, <2>9, <2>11, <2>12, <2>14, <1>1
<1>5. QED
  BY <1>3, <1>4

(* Only days that have events about them are asked for.                    *)
LEMMA DaysToBuildAre ==
  ASSUME NEW have, NEW b \in BOOLEAN PROVE DaysToBuild(have, b) \subseteq AllDays
BY DEF DaysToBuild

(* A day that has rows and is built again in an ordinary run is recent:    *)
(* raw_events has all of it, and will until the day after.                 *)
LEMMA RebuiltIsRecent ==
  ASSUME Active, WindowIsWide, RawInv, DatesParse, NEW have,
         NEW d \in DaysToBuild(have, FALSE), d \in have
  PROVE  d + RawRetain > today + 1
<1>1. d \in AllDays /\ d + RecentDays > Max(AllDays)
  BY DEF DaysToBuild
<1>2. d \in Nat /\ d >= 1 /\ today \in Nat /\ Max(AllDays) \in Nat
  BY <1>1, AllDaysAre DEF Days, RawInv, RawTypeOK
<1>3. CASE today - 1 - MaxLate <= 0
  BY <1>2, <1>3 DEF WindowIsWide
<1>4. CASE today - 1 - MaxLate > 0
  <2>1. PICK e \in came \ Operator : DayOf(e) >= today - 1 - MaxLate
    BY <1>2, <1>4 DEF RawInv, NewestIsNear
  <2>2. e \in Timed /\ DayOf(e) \in Nat
    BY <2>1, <1>2, <1>4, EventsAreTimed DEF Timed, RawInv, RawTypeOK, Days
  <2>3. e \in raw
    BY <2>1, <2>2, <1>2 DEF RawInv, OldestGoFirst, WindowIsWide
  <2>4. DayOf(e) <= Max(AllDays)
    BY <2>1, <2>3, AllDaysAre DEF Visible, RawInv
  <2>5. QED
    BY <1>1, <1>2, <2>1, <2>2, <2>4 DEF WindowIsWide
<1>5. QED
  BY <1>2, <1>3, <1>4

(* A day of which something was pruned is the first there is, if it is     *)
(* there at all.                                                           *)
LEMMA CutIsFirst ==
  ASSUME RawInv, DatesParse, NEW d \in AllDays,
         NEW e \in Timed \ raw, DayOf(e) = d
  PROVE  d = Min(AllDays)
<1>1. d \in Days /\ Min(AllDays) \in Days /\ Min(AllDays) <= d
  BY AllDaysAre DEF RawInv
<1>2. PICK f \in Visible : DayOf(f) = Min(AllDays)
  BY AllDaysAre DEF RawInv
<1>3. f \in raw \ {Untimed}
  BY <1>2, AllDaysAre, EventsAreTimed DEF Visible, RawInv
<1>4. d <= Min(AllDays)
  BY <1>2, <1>3 DEF RawInv, OldestGoFirst
<1>5. QED
  BY <1>1, <1>4 DEF Days

(* What is not old enough to be pruned is there.                           *)
LEMMA YoungIsThere ==
  ASSUME RawInv, NEW e \in Timed, DayOf(e) + RawRetain > today
  PROVE  e \in raw
BY EventsAreTimed DEF RawInv, RawTypeOK, OldestGoFirst, Timed, Days

=============================================================================
