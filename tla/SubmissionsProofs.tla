------------------------- MODULE SubmissionsProofs -------------------------
(***************************************************************************)
(* Proofs about Submissions, for every value of its constants: however     *)
(* often midnight, a kill or a lost answer falls between the request, the  *)
(* count and the record, the daily cap is kept, nothing is uploaded twice, *)
(* and what the site claims to have contributed is so.                     *)
(***************************************************************************)
EXTENDS Submissions, Extrema

USE SubmissionsAssumption

(* An upload the service took, whose record is still to be written.        *)
InHand(svc, s) == cur = s /\ svc = Service /\ step \in {"sent", "replied"} /\ reply = "ok"

(* Each stage has its steps, and the sample in hand is one still to do.    *)
StepOfStage ==
  /\ stage = "idle" => step = "next"
  /\ stage = "intel" => step \in {"next", "asked", "answered"}
  /\ stage = "submit" => step \in {"next", "sent", "replied", "force"}
  /\ stage = "bazaar" => step # "force"
  /\ step # "next" => cur \in todo

(* The stage never has more requests left than the day has, a request that *)
(* is made has one left to pay for it, and one request at a time is not    *)
(* counted yet.                                                            *)
Uncounted(svc) == IF svc = Service /\ step \in {"asked", "sent"} THEN 1 ELSE 0

Quota ==
  /\ step \in {"asked", "sent"} => budget >= 1
  /\ stage # "idle" => used[Service] + budget <= Cap[Service]
  /\ \A svc \in Services : used[svc] <= Cap[svc]
  /\ \A svc \in Services : asked[svc] <= used[svc] + kills + Uncounted(svc)

(* What a stage still has to do was never sent, nor found to be held, but  *)
(* for the sample whose record has just been written.                      *)
NotYetSent ==
  /\ stage = "submit" =>
       \A s \in todo : \/ step = "force" /\ s = cur
                       \/ row["vt"][s] \notin {"submitted", "duplicate"}
  /\ stage = "bazaar" => \A s \in todo : row["mb"][s] \notin {"submitted", "duplicate"}

(* An upload has a record, is in hand, or its answer was lost or its       *)
(* worker killed; and a record of one, or an answer in hand, has an upload *)
(* behind it.                                                              *)
Ours(svc, s) == row[svc][s] = "submitted" \/ InHand(svc, s)

Accounted ==
  \A svc \in Services, s \in Samples :
    /\ uploads[svc][s] <= lost + kills + (IF Ours(svc, s) THEN 1 ELSE 0)
    /\ Ours(svc, s) => uploads[svc][s] > 0

SubmitInv == TypeOK /\ StepOfStage /\ Quota /\ NotYetSent /\ Accounted

(* _remaining gives no more than what is left of the day.                  *)
LEMMA RemainingFits ==
  ASSUME NEW svc \in Services, NEW perRun \in Nat,
         used[svc] \in Nat, Cap[svc] \in Nat, used[svc] <= Cap[svc]
  PROVE  /\ Remaining(svc, perRun) \in Nat
         /\ used[svc] + Remaining(svc, perRun) <= Cap[svc]
<1>1. Max({0, Cap[svc] - used[svc]}) = Cap[svc] - used[svc]
  <2>1. 0 \in Int /\ Cap[svc] - used[svc] \in Int
    OBVIOUS
  <2>2. QED
    BY <2>1, MaxOfTwo
<1>2. Cap[svc] - used[svc] \in Nat /\ perRun \in Int
  OBVIOUS
<1>3. Remaining(svc, perRun) = IF perRun <= Cap[svc] - used[svc] THEN perRun
                                                                 ELSE Cap[svc] - used[svc]
  <2>1. Remaining(svc, perRun) = Min({perRun, Cap[svc] - used[svc]})
    BY <1>1 DEF Remaining
  <2>2. Cap[svc] - used[svc] \in Int
    BY <1>2
  <2>3. QED
    BY <1>2, <2>1, <2>2, MinOfTwo
<1>4. QED
  BY <1>2, <1>3

(* The invariant holds before the first run.                               *)
LEMMA InitSubmitInv == Init => SubmitInv
<1> SUFFICES ASSUME Init PROVE SubmitInv
  OBVIOUS
<1> USE DEF Init
<1>1. TypeOK
  <2>1. 1 \in Days
    BY DEF Days
  <2>2. /\ used \in [Services -> Nat] /\ asked \in [Services -> Nat]
        /\ has \in [Services -> SUBSET Samples]
    OBVIOUS
  <2>3. uploads \in [Services -> [Samples -> Nat]]
    OBVIOUS
  <2>4. row \in [Services -> [Samples ->
                   {"none", "submitted", "duplicate", "error",
                    "missing", "size", "skipped"}]]
    OBVIOUS
  <2>5. /\ verdict \in [Samples -> {"none", "unknown", "error", "undetected", "malicious"}]
        /\ checked \in [Samples -> 0..today]
    OBVIOUS
  <2>6. /\ kills \in 0..MaxKills /\ lost \in 0..MaxLost /\ since \in 1..today /\ budget \in Nat
    OBVIOUS
  <2>7. QED
    BY <2>1, <2>2, <2>3, <2>4, <2>5, <2>6 DEF TypeOK
<1>2. StepOfStage /\ Quota /\ NotYetSent /\ Accounted
  BY DEF StepOfStage, Quota, NotYetSent, Accounted, Services, Service, Uncounted, Ours, InHand
<1>3. QED
  BY <1>1, <1>2 DEF SubmitInv
-----------------------------------------------------------------------------
(* A stage goes on to the next sample, with or without a new record.       *)
Going ==
  \/ IntelNext \/ SubmitRecord \/ SubmitForce \/ BazaarAnswered \/ BazaarRecord
  \/ \E s \in Samples : IntelFresh(s) \/ SubmitSkip(s) \/ BazaarSkip(s) \/ BazaarWait(s)

(* A stage begins, or the run ends.                                        *)
Entering == StartRun \/ StartSubmit \/ StartBazaar \/ EndRun \/ Kill

(* A request is made: a lookup, or an upload.                              *)
Asking ==
  \/ BazaarUpload
  \/ \E s \in Samples : IntelLookup(s) \/ SubmitUpload(s) \/ BazaarLookup(s)

(* The steps, by what they do.                                             *)
LEMMA StepKinds == Next => Environment \/ Going \/ Entering \/ Asking \/ Spend
  BY DEF Next, Work, Going, Entering, Asking

Rows == [Services -> [Samples -> {"none", "submitted", "duplicate", "error",
                                  "missing", "size", "skipped"}]]

(* What the types give the steps below.                                    *)
LEMMA Types ==
  ASSUME TypeOK
  PROVE  /\ today \in Nat /\ todo \subseteq Samples /\ budget \in Nat /\ kills \in Nat /\ lost \in Nat
         /\ \A svc \in Services : /\ used[svc] \in Nat /\ asked[svc] \in Nat /\ Cap[svc] \in Nat
                                  /\ has[svc] \subseteq Samples
         /\ used \in [Services -> Nat] /\ asked \in [Services -> Nat]
         /\ has \in [Services -> SUBSET Samples]
         /\ uploads \in [Services -> [Samples -> Nat]]
         /\ row \in Rows
         /\ Service \in Services
         /\ \A svc \in Services, s \in Samples : uploads[svc][s] \in Nat
         /\ step # "next" => cur \in Samples
         /\ checked \in [Samples -> 0..today]
  BY DEF TypeOK, Days, Rows, Services, Service

(* From stage to stage.                                                    *)
LEMMA GoingTypes == ASSUME SubmitInv, Going PROVE TypeOK'
<1>i. TypeOK /\ StepOfStage
  BY DEF SubmitInv
<1>1. PICK s \in Samples : Advance(s) \/ (SubmitRecord /\ step' = "force" /\ UNCHANGED <<todo, cur, reply, stage, budget, since>>)
  <2>1. step # "next" => cur \in Samples
    BY <1>i, Types
  <2>2. QED
    BY <2>1 DEF Going, IntelFresh, IntelNext, SubmitSkip, SubmitForce, BazaarSkip, BazaarWait, IntelTurn,
                BazaarAnswered, BazaarRecord, SubmitRecord
<1>2. row' \in Rows
  BY <1>i, Types DEF Going, IntelFresh, IntelNext, SubmitSkip, SubmitForce, BazaarSkip, BazaarWait,
                BazaarAnswered, BazaarRecord, SubmitRecord, Record, RecordKnown, Rows, Services
<1>3. checked' \in [Samples -> 0..today] /\ blocked' \in BOOLEAN
  <2>1. checked \in [Samples -> 0..today] /\ blocked \in BOOLEAN /\ today \in Nat
    BY <1>i, Types DEF TypeOK
  <2>2. checked' = checked \/ checked' = [checked EXCEPT ![cur] = 0]
    BY DEF Going, IntelFresh, IntelNext, SubmitSkip, SubmitForce, BazaarSkip, BazaarWait, intel,
           BazaarAnswered, BazaarRecord, SubmitRecord
  <2>3. blocked' = blocked \/ blocked' = (blocked \/ reply = "account")
    BY DEF Going, IntelFresh, IntelNext, SubmitSkip, SubmitForce, BazaarSkip, BazaarWait, intel,
           BazaarAnswered, BazaarRecord, SubmitRecord
  <2>4. checked' \in [Samples -> 0..today]
    BY <2>1, <2>2
  <2>5. blocked' \in BOOLEAN
    BY <2>1, <2>3
  <2>6. QED
    BY <2>4, <2>5
<1>4. UNCHANGED <<world, verdict, used, history>>
  BY DEF Going, IntelFresh, IntelNext, SubmitSkip, SubmitForce, BazaarSkip, BazaarWait, intel,
                BazaarAnswered, BazaarRecord, SubmitRecord
<1>5. /\ UNCHANGED <<stage, budget, since>> /\ todo' \subseteq Samples
      /\ cur' \in Samples \cup {Nobody} /\ (cur' = Nobody <=> step' = "next")
      /\ step' \in {"next", "force"} /\ reply' \in {reply, "none"}
  <2>1. CASE Advance(s)
    BY <1>i, <2>1 DEF Advance, TypeOK
  <2>2. CASE SubmitRecord /\ step' = "force" /\ UNCHANGED <<todo, cur, reply, stage, budget, since>>
    BY <1>i, <2>2 DEF SubmitRecord, TypeOK
  <2>3. QED
    BY <1>1, <2>1, <2>2
<1>6. QED
  BY <1>i, <1>2, <1>3, <1>4, <1>5 DEF TypeOK, world, history, Rows

(* What a stage has to do is a set of samples.                             *)
LEMMA CandidatesTodo ==
  /\ Captured \subseteq Samples /\ Candidates \subseteq Samples /\ Unrecorded \subseteq Samples
  BY DEF Captured, Candidates, Unrecorded

(* A stage begins with what is left of the day.                            *)
LEMMA EntersWithin ==
  ASSUME SubmitInv, Entering
  PROVE  \E st \in {"idle", "intel", "submit", "bazaar"}, S \in SUBSET Samples, n \in Nat :
           /\ Enter(st, S, n)
           /\ st = "idle" => S = {}
           /\ st = "bazaar" => used["mb"] + n <= Cap["mb"] /\ S = Unrecorded
           /\ st \in {"intel", "submit"} => used["vt"] + n <= Cap["vt"]
           /\ st = "submit" => S = Candidates
<1>i. TypeOK /\ Quota
  BY DEF SubmitInv
<1>t. /\ used["vt"] \in Nat /\ used["mb"] \in Nat /\ Cap["vt"] \in Nat /\ Cap["mb"] \in Nat
      /\ used["vt"] <= Cap["vt"] /\ used["mb"] <= Cap["mb"]
      /\ "vt" \in Services /\ "mb" \in Services
      /\ SubmitMax["vt"] \in Nat /\ SubmitMax["mb"] \in Nat
  BY <1>i, Types DEF Quota, Services
<1>1. CASE StartRun
  <2>1. /\ Remaining("vt", LookupMax) \in Nat
        /\ used["vt"] + Remaining("vt", LookupMax) <= Cap["vt"]
    BY <1>t, RemainingFits
  <2>2. Enter("intel", Captured, Remaining("vt", LookupMax))
    BY <1>1 DEF StartRun
  <2>3. QED
    BY <2>1, <2>2, CandidatesTodo
<1>2. CASE StartSubmit
  <2>1. /\ Remaining("vt", SubmitMax["vt"]) \in Nat
        /\ used["vt"] + Remaining("vt", SubmitMax["vt"]) <= Cap["vt"]
    BY <1>t, RemainingFits
  <2>2. Enter("submit", Candidates, Remaining("vt", SubmitMax["vt"]))
    BY <1>2 DEF StartSubmit
  <2>3. QED
    BY <2>1, <2>2, CandidatesTodo
<1>3. CASE StartBazaar
  <2>1. /\ Remaining("mb", SubmitMax["mb"]) \in Nat
        /\ used["mb"] + Remaining("mb", SubmitMax["mb"]) <= Cap["mb"]
    BY <1>t, RemainingFits
  <2>2. Enter("bazaar", Unrecorded, Remaining("mb", SubmitMax["mb"]))
    BY <1>3 DEF StartBazaar
  <2>3. QED
    BY <2>1, <2>2, CandidatesTodo
<1>4. CASE EndRun \/ Kill
  BY <1>4 DEF EndRun, Kill
<1>5. QED
  BY <1>1, <1>2, <1>3, <1>4 DEF Entering

(* A stage is entered.                                                     *)
LEMMA EnteringTypes == ASSUME SubmitInv, Entering PROVE TypeOK'
<1>i. TypeOK
  BY DEF SubmitInv
<1>1. PICK st \in {"idle", "intel", "submit", "bazaar"}, S \in SUBSET Samples, n \in Nat :
        Enter(st, S, n)
  BY EntersWithin
<1>2. UNCHANGED <<world, intel, used, asked, uploads, lost>>
  BY DEF Entering, StartRun, StartSubmit, StartBazaar, EndRun, Kill, history
<1>3. kills' \in 0..MaxKills
  BY <1>i DEF Entering, StartRun, StartSubmit, StartBazaar, EndRun, Kill, history, TypeOK
<1>4. row' \in Rows
  <2>1. row \in Rows
    BY <1>i, Types
  <2>2. Backfilled \in Rows
    BY <2>1 DEF Backfilled, Rows, Services
  <2>3. row' \in {row, Backfilled}
    BY DEF Entering, StartRun, StartSubmit, StartBazaar, EndRun, Kill, history
  <2>4. QED
    BY <2>1, <2>2, <2>3
<1>5. /\ stage' \in {"idle", "intel", "submit", "bazaar"} /\ todo' \subseteq Samples
      /\ step' = "next" /\ cur' = Nobody /\ reply' = "none" /\ budget' \in Nat
      /\ blocked' = FALSE /\ since' = today
  BY <1>1 DEF Enter
<1>6. since' \in 1..today
  BY <1>5, <1>i DEF TypeOK, Days
<1>7. QED
  BY <1>i, <1>2, <1>3, <1>4, <1>5, <1>6 DEF TypeOK, world, intel, Rows

(* A request is made by a stage with requests left, for a sample of its.   *)
LEMMA AskingIs ==
  ASSUME SubmitInv, Asking
  PROVE  /\ stage \in {"intel", "submit", "bazaar"} /\ step \in {"next", "answered"} /\ budget > 0
         /\ \E s \in Samples, r \in {"none", "ok", "lost", "refused", "held", "account",
                                    "known", "unknown", "error"} :
              \/ s \in todo /\ Request(Service, s, r, "asked") /\ UNCHANGED <<uploads, has, lost>>
                 /\ stage # "submit" /\ r # "ok"
              \/ s \in todo /\ Request(Service, s, r, "sent") /\ Upload(Service, s)
                 /\ stage # "intel"
         /\ UNCHANGED <<today, onHost, flagged, row, used, kills>>
<1>i. TypeOK /\ StepOfStage
  BY DEF SubmitInv
<1>1. ASSUME NEW s \in Samples, IntelLookup(s) \/ BazaarLookup(s)
      PROVE  /\ stage \in {"intel", "bazaar"} /\ step = "next" /\ budget > 0
             /\ \E r \in {"none", "known", "unknown", "error"} :
                  s \in todo /\ Request(Service, s, r, "asked")
             /\ UNCHANGED <<uploads, has, lost, today, onHost, flagged, row, used, kills>>
  BY <1>1 DEF IntelLookup, BazaarLookup, IntelTurn, BazaarTurn, Service, world
<1>2. ASSUME NEW s \in Samples, SubmitUpload(s) \/ (BazaarUpload /\ s = cur)
      PROVE  /\ stage \in {"submit", "bazaar"} /\ step \in {"next", "answered"} /\ budget > 0
             /\ s \in todo /\ Upload(Service, s)
  BY <1>2, <1>i DEF SubmitUpload, BazaarUpload, SubmitTurn, Service, StepOfStage
<1>3. ASSUME NEW s \in Samples, Upload(Service, s)
      PROVE  /\ \E r \in {"ok", "lost", "refused", "held", "account"} : Request(Service, s, r, "sent")
             /\ UNCHANGED <<today, onHost, flagged, row, used, kills>>
  BY <1>3 DEF Upload
<1>4. BazaarUpload => cur \in Samples
  BY <1>i DEF BazaarUpload, TypeOK
<1>5. CASE \E s \in Samples : IntelLookup(s) \/ BazaarLookup(s)
  BY <1>1, <1>5
<1>6. CASE \E s \in Samples : SubmitUpload(s) \/ (BazaarUpload /\ s = cur)
  <2>1. PICK s \in Samples : SubmitUpload(s) \/ (BazaarUpload /\ s = cur)
    BY <1>6
  <2>2. /\ stage \in {"submit", "bazaar"} /\ step \in {"next", "answered"} /\ budget > 0
        /\ s \in todo /\ Upload(Service, s)
    BY <1>2, <2>1
  <2>3. PICK r \in {"ok", "lost", "refused", "held", "account"} : Request(Service, s, r, "sent")
    BY <1>3, <2>2
  <2>4. UNCHANGED <<today, onHost, flagged, row, used, kills>>
    BY <1>3, <2>2
  <2>5. QED
    BY <2>2, <2>3, <2>4
<1>7. QED
  BY <1>4, <1>5, <1>6 DEF Asking

(* A service is asked and answers.                                         *)
LEMMA AskingTypes == ASSUME SubmitInv, Asking PROVE TypeOK'
<1>i. TypeOK
  BY DEF SubmitInv
<1>t. /\ Service \in Services /\ asked \in [Services -> Nat] /\ has \in [Services -> SUBSET Samples]
      /\ uploads \in [Services -> [Samples -> Nat]] /\ checked \in [Samples -> 0..today]
      /\ today \in Nat /\ lost \in 0..MaxLost /\ Nobody \notin Samples
  BY <1>i, Types DEF TypeOK
<1>1. PICK s \in Samples, r \in {"none", "ok", "lost", "refused", "held", "account",
                                 "known", "unknown", "error"}, then \in {"asked", "sent"} :
        /\ Request(Service, s, r, then)
        /\ \/ UNCHANGED <<uploads, has, lost>>
           \/ Upload(Service, s)
  BY AskingIs
<1>2. UNCHANGED <<today, onHost, flagged, row, used, kills>>
  BY AskingIs
<1>3. uploads' \in [Services -> [Samples -> Nat]] /\ has' \in [Services -> SUBSET Samples]
      /\ lost' \in 0..MaxLost /\ has["vt"] \subseteq has'["vt"]
  <2>1. CASE UNCHANGED <<uploads, has, lost>>
    BY <1>t, <2>1
  <2>2. CASE Upload(Service, s)
    <3>1. /\ uploads' = uploads \/ uploads' = [uploads EXCEPT ![Service][s] = @ + 1]
          /\ has' = has \/ has' = [has EXCEPT ![Service] = @ \cup {s}]
          /\ lost' = lost \/ (lost < MaxLost /\ lost' = lost + 1)
      BY <2>2 DEF Upload, Holds
    <3>2. uploads' \in [Services -> [Samples -> Nat]]
      <4>1. uploads[Service] \in [Samples -> Nat] /\ uploads[Service][s] \in Nat
        BY <1>t
      <4>2. [uploads[Service] EXCEPT ![s] = uploads[Service][s] + 1] \in [Samples -> Nat]
        BY <4>1
      <4>3. QED
        BY <1>t, <3>1, <4>2
    <3>3. has' \in [Services -> SUBSET Samples] /\ has["vt"] \subseteq has'["vt"]
      BY <1>t, <3>1 DEF Services
    <3>4. lost' \in 0..MaxLost
      BY <1>t, <3>1
    <3>5. QED
      BY <3>2, <3>3, <3>4
  <2>3. QED
    BY <1>1, <2>1, <2>2
<1>4. asked' \in [Services -> Nat] /\ step' \in {"asked", "sent"} /\ cur' \in Samples
      /\ reply' \in {"none", "ok", "lost", "refused", "held", "account",
                     "known", "unknown", "error"}
      /\ UNCHANGED <<stage, todo, budget, blocked, since>>
  BY <1>1, <1>t DEF Request
<1>5. /\ verdict' \in [Samples -> {"none", "unknown", "error", "undetected", "malicious"}]
      /\ checked' \in [Samples -> 0..today]
  <2>1. CASE UNCHANGED intel
    BY <1>i, <2>1 DEF TypeOK, intel
  <2>2. ASSUME NEW q \in Samples, IntelLookup(q)
        PROVE  /\ verdict' \in [Samples -> {"none", "unknown", "error", "undetected", "malicious"}]
               /\ checked' \in [Samples -> 0..today]
    BY <1>i, <1>t, <2>2 DEF TypeOK, IntelLookup, Answer
  <2>3. QED
    BY <2>1, <2>2 DEF Asking, SubmitUpload, BazaarUpload, BazaarLookup, Upload
<1>6. QED
  BY <1>i, <1>2, <1>3, <1>4, <1>5, <1>t DEF TypeOK

(* A request is counted against the quota.                                 *)
LEMMA SpendTypes == ASSUME SubmitInv, Spend PROVE TypeOK'
<1>i. TypeOK /\ Quota
  BY DEF SubmitInv
<1>1. Service \in Services /\ used \in [Services -> Nat] /\ budget \in Nat
  BY <1>i, Types
<1>2. used' \in [Services -> Nat] /\ budget' \in Nat
  BY <1>i, <1>1 DEF Spend, Quota
<1>3. /\ UNCHANGED <<world, intel, row, history, stage, todo, cur, reply, blocked, since>>
      /\ step' \in {"answered", "replied"} /\ step # "next"
  BY DEF Spend
<1>4. QED
  BY <1>i, <1>2, <1>3 DEF TypeOK, world, intel, history

(* Samples come, the day and the services change.                          *)
LEMMA EnvironmentTypes == ASSUME SubmitInv, Environment PROVE TypeOK'
<1>i. TypeOK
  BY DEF SubmitInv
<1>t. has \in [Services -> SUBSET Samples] /\ today \in Days /\ today \in Nat
  BY <1>i, Types DEF TypeOK
<1>1. CASE NextDay
  <2>1. today' \in Days /\ today' = today + 1
    BY <1>1, <1>t DEF NextDay, Days
  <2>2. used' \in [Services -> Nat] /\ asked' \in [Services -> Nat]
    BY <1>1 DEF NextDay
  <2>3. checked' \in [Samples -> 0..today'] /\ since' \in 1..today'
    BY <1>1, <1>i, <1>t, <2>1 DEF NextDay, TypeOK, intel, work
  <2>4. QED
    BY <1>1, <1>i, <2>1, <2>2, <2>3 DEF NextDay, TypeOK, intel, work
<1>2. ASSUME NEW s \in Samples, FileComes(s) \/ EnginesFlag(s) PROVE TypeOK'
  BY <1>2, <1>i DEF TypeOK, FileComes, EnginesFlag, intel, history, work
<1>3. ASSUME NEW svc \in Services, NEW s \in Samples, OthersUpload(svc, s) PROVE TypeOK'
  <2>1. has' \in [Services -> SUBSET Samples] /\ has["vt"] \subseteq has'["vt"]
    BY <1>3, <1>t DEF OthersUpload, Services
  <2>2. QED
    BY <1>3, <1>i, <2>1 DEF TypeOK, OthersUpload, intel, history, work
<1>4. QED
  BY <1>1, <1>2, <1>3 DEF Environment

(* Every step keeps the types.                                             *)
LEMMA TypesInv == ASSUME SubmitInv, [Next]_vars PROVE TypeOK'
<1>1. CASE UNCHANGED vars
  BY <1>1 DEF SubmitInv, TypeOK, vars
<1>2. QED
  BY <1>1, StepKinds, GoingTypes, EnteringTypes, AskingTypes, SpendTypes, EnvironmentTypes
-----------------------------------------------------------------------------
(* What a step that goes on to the next sample leaves alone.               *)
LEMMA GoingIs ==
  ASSUME SubmitInv, Going
  PROVE  /\ step \notin {"asked", "sent"} /\ stage # "idle"
         /\ UNCHANGED <<stage, budget, used, asked, kills, lost, uploads>>
         /\ \/ SubmitRecord /\ step' = "force" /\ UNCHANGED <<todo, cur, reply>>
            \/ \E s \in todo : Advance(s) /\ (step # "next" => s = cur)
<1>i. StepOfStage
  BY DEF SubmitInv
<1>1. QED
  BY <1>i DEF Going, IntelFresh, IntelNext, SubmitSkip, SubmitForce, BazaarSkip, BazaarWait,
              BazaarAnswered, BazaarRecord, SubmitRecord, IntelTurn, SubmitTurn, BazaarTurn,
              Advance, history, StepOfStage

(* Every step keeps the stage and its step together.                       *)
LEMMA StepsInv == ASSUME SubmitInv, [Next]_vars PROVE StepOfStage'
<1>i. StepOfStage /\ TypeOK
  BY DEF SubmitInv
<1>1. CASE Going
  BY <1>1, <1>i, GoingIs DEF StepOfStage, Advance, SubmitRecord
<1>2. CASE Entering
  BY <1>2, EntersWithin DEF Enter, StepOfStage
<1>3. CASE Asking
  BY <1>3, AskingIs DEF Request, StepOfStage
<1>4. CASE Spend
  BY <1>4, <1>i DEF Spend, StepOfStage
<1>5. CASE Environment \/ UNCHANGED vars
  BY <1>5, <1>i DEF Environment, NextDay, FileComes, EnginesFlag, OthersUpload, work, vars,
                    StepOfStage
<1>6. QED
  BY <1>1, <1>2, <1>3, <1>4, <1>5, StepKinds

(* Every step keeps the count of the requests within the quota.            *)
LEMMA QuotaInv == ASSUME SubmitInv, [Next]_vars PROVE Quota'
<1>i. StepOfStage /\ TypeOK /\ Quota
  BY DEF SubmitInv
<1>t. /\ \A svc \in Services : used[svc] \in Nat /\ asked[svc] \in Nat /\ Cap[svc] \in Nat
      /\ used \in [Services -> Nat] /\ asked \in [Services -> Nat]
      /\ budget \in Nat /\ kills \in Nat /\ Service \in Services
  BY <1>i, Types
<1>1. CASE Going
  <2>1. /\ step \notin {"asked", "sent"} /\ step' \notin {"asked", "sent"} /\ stage # "idle"
        /\ UNCHANGED <<stage, budget, used, asked, kills>>
    BY <1>1, GoingIs DEF Advance
  <2>2. QED
    BY <1>i, <2>1 DEF Quota, Uncounted, Service
<1>2. CASE Entering
  <2>1. step' = "next" /\ UNCHANGED <<used, asked>>
    BY <1>2 DEF Entering, StartRun, StartSubmit, StartBazaar, EndRun, Kill, Enter, history
  <2>2. stage' # "idle" => used'[Service'] + budget' <= Cap[Service']
    BY <1>2, <2>1, EntersWithin DEF Enter, Service
  <2>3. ASSUME NEW svc \in Services PROVE asked[svc] <= used[svc] + kills'
    <3>1. asked[svc] <= used[svc] + kills + Uncounted(svc)
      BY <1>i DEF Quota
    <3>2. (step = "next" /\ kills' = kills) \/ kills' = kills + 1
      BY <1>2, <1>i DEF Entering, StartRun, StartSubmit, StartBazaar, EndRun, Kill, history,
                        StepOfStage
    <3>3. QED
      BY <1>t, <3>1, <3>2 DEF Uncounted
  <2>4. ASSUME NEW svc \in Services PROVE asked'[svc] <= used'[svc] + kills' + Uncounted(svc)'
    <3>1. Uncounted(svc)' = 0 /\ kills' \in Nat /\ used[svc] \in Nat
      BY <1>2, <1>t, <2>1 DEF Uncounted, Entering, StartRun, StartSubmit, StartBazaar, EndRun, Kill,
                              history
    <3>2. QED
      BY <2>1, <2>3, <3>1
  <2>5. QED
    BY <1>i, <2>1, <2>2, <2>4 DEF Quota
<1>3. CASE Asking
  <2>1. /\ stage # "idle" /\ step \in {"next", "answered"} /\ budget > 0
        /\ step' \in {"asked", "sent"} /\ asked' = [asked EXCEPT ![Service] = @ + 1]
        /\ UNCHANGED <<stage, budget, used, kills>>
    BY <1>3, AskingIs DEF Request
  <2>2. Service' = Service
    BY <2>1 DEF Service
  <2>3. ASSUME NEW svc \in Services PROVE asked'[svc] <= used[svc] + kills + Uncounted(svc)'
    <3>1. asked[svc] <= used[svc] + kills + Uncounted(svc)
      BY <1>i DEF Quota
    <3>2. Uncounted(svc) = 0 /\ Uncounted(svc)' = IF svc = Service THEN 1 ELSE 0
      BY <2>1, <2>2 DEF Uncounted
    <3>3. asked'[svc] = IF svc = Service THEN asked[svc] + 1 ELSE asked[svc]
      BY <1>t, <2>1
    <3>4. QED
      BY <1>t, <3>1, <3>2, <3>3
  <2>4. QED
    BY <1>i, <1>t, <2>1, <2>2, <2>3 DEF Quota
<1>4. CASE Spend
  <2>1. /\ step \in {"asked", "sent"} /\ step' \notin {"asked", "sent"} /\ budget' = budget - 1
        /\ used' = [used EXCEPT ![Service] = @ + 1] /\ UNCHANGED <<stage, asked, kills>>
        /\ stage # "idle" /\ Service' = Service
    BY <1>4, <1>i DEF Spend, StepOfStage, history, Service
  <2>2. \A svc \in Services :
          used'[svc] = IF svc = Service THEN used[svc] + 1 ELSE used[svc]
    BY <1>t, <2>1
  <2>3. used[Service] + budget <= Cap[Service] /\ budget >= 1
    BY <1>i, <2>1 DEF Quota
  <2>4. used'[Service] + budget' <= Cap[Service] /\ used'[Service] <= Cap[Service]
    BY <1>t, <2>1, <2>2, <2>3
  <2>5. \A svc \in Services : used'[svc] <= Cap[svc]
    BY <1>i, <2>2, <2>4 DEF Quota
  <2>6. ASSUME NEW svc \in Services PROVE asked[svc] <= used'[svc] + kills
    <3>1. asked[svc] <= used[svc] + kills + (IF svc = Service THEN 1 ELSE 0)
      BY <1>i, <2>1 DEF Quota, Uncounted
    <3>2. QED
      BY <1>t, <2>2, <3>1
  <2>7. ASSUME NEW svc \in Services PROVE asked'[svc] <= used'[svc] + kills' + Uncounted(svc)'
    <3>1. Uncounted(svc)' = 0 /\ used'[svc] \in Nat
      BY <1>t, <2>1, <2>2 DEF Uncounted
    <3>2. QED
      BY <1>t, <2>1, <2>6, <3>1
  <2>8. QED
    BY <2>1, <2>4, <2>5, <2>7 DEF Quota
<1>5. CASE Environment \/ UNCHANGED vars
  <2>1. UNCHANGED <<stage, step, budget, kills>>
    BY <1>5 DEF Environment, NextDay, FileComes, EnginesFlag, OthersUpload, history, work, vars
  <2>2. \/ UNCHANGED <<used, asked>>
        \/ /\ used' = [svc \in Services |-> 0]
           /\ asked' = [svc \in Services |-> 0]
    BY <1>5 DEF Environment, NextDay, FileComes, EnginesFlag, OthersUpload, history, work, vars
  <2>3. CASE UNCHANGED <<used, asked>>
    BY <1>i, <2>1, <2>3 DEF Quota, Uncounted, Service
  <2>4. CASE /\ used' = [svc \in Services |-> 0]
             /\ asked' = [svc \in Services |-> 0]
    <3>1. \A svc \in Services : used'[svc] = 0 /\ asked'[svc] = 0
      BY <2>4
    <3>2. Service' = Service /\ (stage # "idle" => budget <= Cap[Service])
      BY <1>i, <1>t, <2>1 DEF Quota, Service
    <3>3. \A svc \in Services : Uncounted(svc)' \in {0, 1}
      BY DEF Uncounted
    <3>4. QED
      BY <1>i, <1>t, <2>1, <3>1, <3>2, <3>3 DEF Quota
  <2>5. QED
    BY <2>2, <2>3, <2>4
<1>6. QED
  BY <1>1, <1>2, <1>3, <1>4, <1>5, StepKinds

(* Which records a step changes: a backfill those that are missing, and a  *)
(* stage that goes on that of the sample in hand, which was not sent.      *)
LEMMA RecordOfOne ==
  ASSUME SubmitInv, Going, NEW svc \in Services, NEW s \in Samples, row'[svc][s] # row[svc][s]
  PROVE  /\ svc = Service /\ row[svc][s] \notin {"submitted", "duplicate"}
         /\ row'[svc][s] = "submitted" => InHand(svc, s)
         /\ \/ SubmitRecord /\ step' = "force" /\ s = cur
            \/ Advance(s)
<1>i. TypeOK /\ StepOfStage /\ NotYetSent
  BY DEF SubmitInv
<1>t. row \in Rows
  BY <1>i, Types
<1>0. \A v \in Services, q \in Samples : \A st :
        row' = [row EXCEPT ![v][q] = st] => (svc = v /\ s = q)
  BY <1>t DEF Rows
<1>1. CASE SubmitRecord
  <2>1. svc = "vt" /\ s = cur /\ "vt" \in Services
    BY <1>0, <1>1, <1>t DEF SubmitRecord, Record, Rows, Services
  <2>2. QED
    BY <1>1, <1>i, <1>t, <2>1 DEF SubmitRecord, Record, Rows, Services, Service, NotYetSent, StepOfStage, InHand
<1>2. CASE BazaarAnswered \/ BazaarRecord
  <2>1. svc = "mb" /\ s = cur /\ "mb" \in Services
    BY <1>0, <1>2, <1>t DEF BazaarAnswered, BazaarRecord, Record, RecordKnown, Rows, Services
  <2>2. QED
    BY <1>2, <1>i, <1>t, <2>1 DEF BazaarAnswered, BazaarRecord, Record, RecordKnown, Rows, Services, Service,
         NotYetSent, StepOfStage, InHand
<1>3. ASSUME NEW q \in Samples, SubmitSkip(q) PROVE s = q /\ svc = "vt"
  BY <1>0, <1>3, <1>t DEF SubmitSkip, Record, Rows, Services
<1>4. ASSUME NEW q \in Samples, BazaarSkip(q) PROVE s = q /\ svc = "mb"
  BY <1>0, <1>4, <1>t DEF BazaarSkip, Record, Rows, Services
<1>5. CASE SubmitSkip(s) /\ svc = "vt"
  BY <1>5, <1>i, <1>t DEF SubmitSkip, SubmitTurn, Record, Rows, Service, NotYetSent, Services
<1>6. CASE BazaarSkip(s) /\ svc = "mb"
  BY <1>6, <1>i, <1>t DEF BazaarSkip, BazaarTurn, Record, Rows, Service, NotYetSent, Services
<1>7. QED
  BY <1>1, <1>2, <1>3, <1>4, <1>5, <1>6
     DEF Going, IntelFresh, IntelNext, SubmitForce, BazaarWait

(* Entering a stage only adds the rows of what is known already.           *)
LEMMA BackfillOnly ==
  ASSUME SubmitInv, Entering, NEW svc \in Services, NEW s \in Samples
  PROVE  \/ row'[svc][s] = row[svc][s]
         \/ row[svc][s] = "none" /\ row'[svc][s] = "duplicate"
<1>1. row \in Rows
  BY Types DEF SubmitInv
<1>2. row' \in {row, Backfilled}
  BY DEF Entering, StartRun, StartSubmit, StartBazaar, EndRun, Kill, history
<1>3. QED
  BY <1>1, <1>2 DEF Backfilled, Rows, Services

(* A step that neither goes on nor enters a stage keeps the rows.          *)
LEMMA RowKept ==
  ASSUME SubmitInv, [Next]_vars, ~ Going, ~ Entering
  PROVE  row' = row
<1>1. CASE Asking
  BY <1>1, AskingIs
<1>2. CASE ~ Asking
  BY <1>2, StepKinds DEF Spend, Environment, NextDay, FileComes, EnginesFlag, OthersUpload, vars
<1>3. QED
  BY <1>1, <1>2

(* What is about to be uploaded has not been.                              *)
LEMMA NotYetSentInv == ASSUME SubmitInv, [Next]_vars PROVE NotYetSent'
<1>i. TypeOK /\ StepOfStage /\ NotYetSent
  BY DEF SubmitInv
<1>t. todo \subseteq Samples /\ "vt" \in Services /\ "mb" \in Services
  BY <1>i, Types DEF Services
<1>1. CASE Going
  <2>1. stage' = stage
    BY <1>1, GoingIs
  <2>2. \/ step' = "force" /\ UNCHANGED <<todo, cur>> /\ stage = "submit"
        \/ \E s \in todo : Advance(s) /\ (step # "next" => s = cur)
    BY <1>1, GoingIs DEF SubmitRecord
  <2>3. CASE step' = "force" /\ UNCHANGED <<todo, cur>> /\ stage = "submit"
    <3>1. step = "replied"
      BY <1>1, <1>i, <2>3 DEF Going, IntelFresh, IntelNext, SubmitSkip, SubmitForce, BazaarSkip, BazaarWait,
              BazaarAnswered, BazaarRecord, SubmitRecord, Advance
    <3>2. ASSUME NEW s \in todo, s # cur PROVE row'["vt"][s] = row["vt"][s]
      <4>1. ~ Advance(s)
        BY <2>3 DEF Advance
      <4>2. QED
        BY <1>1, <1>t, <3>2, <4>1, RecordOfOne
    <3>3. QED
      BY <1>i, <2>1, <2>3, <3>1, <3>2 DEF NotYetSent
  <2>4. ASSUME NEW s \in todo, Advance(s), step # "next" => s = cur PROVE NotYetSent'
    <3>1. ASSUME NEW q \in todo', NEW svc \in Services PROVE row'[svc][q] = row[svc][q] /\ q # s
      <4>1. q # s /\ q \in Samples /\ step' = "next"
        BY <1>t, <2>4 DEF Advance
      <4>2. ~ Advance(q)
        BY <2>4, <4>1, <1>t DEF Advance
      <4>3. QED
        BY <1>1, <4>1, <4>2, RecordOfOne
    <3>2. todo' \subseteq todo
      BY <2>4 DEF Advance
    <3>3. \A q \in todo' : step = "force" => q # cur
      BY <2>4, <3>1, <1>t
    <3>4. QED
      BY <1>i, <1>t, <2>1, <3>1, <3>2, <3>3 DEF NotYetSent
  <2>5. QED
    BY <2>2, <2>3, <2>4
<1>2. CASE Entering
  <2>1. PICK st \in {"idle", "intel", "submit", "bazaar"}, S \in SUBSET Samples, n \in Nat :
           /\ Enter(st, S, n)
           /\ st = "bazaar" => S = Unrecorded
           /\ st = "submit" => S = Candidates
    BY <1>2, EntersWithin
  <2>2. ASSUME stage' = "submit", NEW s \in todo' PROVE row'["vt"][s] \notin {"submitted", "duplicate"}
    <3>1. StartSubmit
      BY <1>2, <2>2 DEF Entering, StartRun, StartBazaar, EndRun, Kill, Enter
    <3>2. s \in Candidates
      BY <2>1, <2>2 DEF Enter
    <3>3. row'["vt"][s] = row["vt"][s]
      <4>1. verdict[s] = "unknown" /\ s \in Samples
        BY <3>2 DEF Candidates, Captured
      <4>2. row \in Rows
        BY <1>i, Types
      <4>3. QED
        BY <3>1, <4>1, <4>2 DEF StartSubmit, Backfilled, Rows, Services
    <3>4. QED
      BY <3>2, <3>3 DEF Candidates
  <2>3. ASSUME stage' = "bazaar", NEW s \in todo' PROVE row'["mb"][s] \notin {"submitted", "duplicate"}
    <3>1. StartBazaar
      BY <1>2, <2>3 DEF Entering, StartRun, StartSubmit, EndRun, Kill, Enter
    <3>2. s \in Unrecorded /\ row' = row
      BY <2>1, <2>3, <3>1 DEF Enter, StartBazaar
    <3>3. QED
      BY <3>2 DEF Unrecorded
  <2>4. QED
    BY <2>2, <2>3 DEF NotYetSent
<1>3. CASE ~ Going /\ ~ Entering
  <2>1. row' = row
    BY <1>3, RowKept
  <2>2. UNCHANGED <<stage, todo>> /\ (step' = "force" \/ step = "force" => UNCHANGED <<step, cur>>)
    <3>1. CASE Asking
      BY <3>1, AskingIs DEF Request
    <3>2. CASE ~ Asking
      BY <1>3, <3>2, StepKinds
         DEF Spend, Environment, NextDay, FileComes, EnginesFlag, OthersUpload, work, vars
    <3>3. QED
      BY <3>1, <3>2
  <2>3. QED
    BY <1>i, <2>1, <2>2 DEF NotYetSent
<1>4. QED
  BY <1>1, <1>2, <1>3

(* The sample in hand, whose upload was taken, has no such record yet.     *)
LEMMA InHandIsNew ==
  ASSUME SubmitInv, NEW svc \in Services, NEW s \in Samples, InHand(svc, s)
  PROVE  row[svc][s] \notin {"submitted", "duplicate"}
<1>i. StepOfStage /\ NotYetSent
  BY DEF SubmitInv
<1>1. stage \in {"submit", "bazaar"} /\ s \in todo /\ step # "force"
  BY <1>i DEF InHand, StepOfStage, SubmitInv, TypeOK
<1>2. QED
  BY <1>1, <1>i DEF InHand, NotYetSent, Service

(* Every upload is in its row, or its answer is still to come.             *)
LEMMA AccountedInv == ASSUME SubmitInv, [Next]_vars PROVE Accounted'
<1>i. TypeOK /\ StepOfStage /\ Accounted
  BY DEF SubmitInv
<1>t. /\ \A svc \in Services, s \in Samples : uploads[svc][s] \in Nat
      /\ lost \in Nat /\ kills \in Nat /\ Service \in Services /\ row \in Rows
      /\ uploads \in [Services -> [Samples -> Nat]]
  BY <1>i, Types
<1> SUFFICES ASSUME NEW svc \in Services, NEW s \in Samples
             PROVE  /\ uploads'[svc][s] <= lost' + kills' + (IF Ours(svc, s)' THEN 1 ELSE 0)
                    /\ Ours(svc, s)' => uploads'[svc][s] > 0
  BY DEF Accounted
<1>a. /\ uploads[svc][s] \in Nat
      /\ uploads[svc][s] <= lost + kills + (IF Ours(svc, s) THEN 1 ELSE 0)
      /\ Ours(svc, s) => uploads[svc][s] > 0
  BY <1>i, <1>t DEF Accounted
<1>1. CASE Going
  <2>1. UNCHANGED <<uploads, lost, kills>>
    BY <1>1, GoingIs
  <2>2. Ours(svc, s)' <=> Ours(svc, s)
    <3>1. CASE InHand(svc, s)
      <4>1. step = "replied" /\ reply = "ok" /\ cur = s /\ stage \in {"submit", "bazaar"}
        BY <1>1, <3>1, <1>i, GoingIs DEF InHand, StepOfStage, TypeOK
      <4>2. (SubmitRecord /\ stage = "submit") \/ (BazaarRecord /\ stage = "bazaar")
        BY <1>1, <4>1 DEF Going, IntelFresh, IntelNext, SubmitSkip, SubmitForce, BazaarSkip,
           BazaarWait, BazaarAnswered, BazaarRecord, SubmitRecord, IntelTurn, SubmitTurn, BazaarTurn
      <4>3. row' = [row EXCEPT ![svc][s] = "submitted"]
        BY <3>1, <4>1, <4>2 DEF SubmitRecord, BazaarRecord, Record, InHand, Service
      <4>4. row'[svc][s] = "submitted"
        BY <1>t, <4>3 DEF Rows
      <4>5. QED
        BY <3>1, <4>4 DEF Ours
    <3>2. CASE ~ InHand(svc, s)
      <4>1. row'[svc][s] = "submitted" <=> row[svc][s] = "submitted"
        BY <1>1, <3>2, RecordOfOne
      <4>2. ~ InHand(svc, s)'
        <5>1. step' \in {"next", "force"}
          BY <1>1, GoingIs DEF Advance
        <5>2. QED
          BY <5>1 DEF InHand
      <4>3. QED
        BY <3>2, <4>1, <4>2 DEF Ours
    <3>3. QED
      BY <3>1, <3>2
  <2>3. QED
    BY <1>a, <2>1, <2>2
<1>2. CASE Entering
  <2>1. UNCHANGED <<uploads, lost>> /\ step' = "next"
    BY <1>2 DEF Entering, StartRun, StartSubmit, StartBazaar, EndRun, Kill, Enter, history
  <2>2. Ours(svc, s)' <=> row[svc][s] = "submitted"
    BY <1>2, <2>1, BackfillOnly DEF Ours, InHand
  <2>3. (step = "next" /\ kills' = kills) \/ kills' = kills + 1
    BY <1>2, <1>i DEF Entering, StartRun, StartSubmit, StartBazaar, EndRun, Kill, history, StepOfStage
  <2>4. CASE step = "next" /\ kills' = kills
    <3>1. Ours(svc, s)' <=> Ours(svc, s)
      BY <2>2, <2>4 DEF Ours, InHand
    <3>2. QED
      BY <1>a, <2>1, <2>4, <3>1
  <2>5. CASE kills' = kills + 1
    <3>1. Ours(svc, s)' => Ours(svc, s)
      BY <2>2 DEF Ours
    <3>2. QED
      BY <1>a, <1>t, <2>1, <2>5, <3>1
  <2>6. QED
    BY <2>3, <2>4, <2>5
<1>3. CASE Asking
  <2>1. row' = row /\ kills' = kills /\ ~ InHand(svc, s)
    BY <1>3, AskingIs DEF InHand
  <2>2. PICK q \in Samples, r \in {"none", "ok", "lost", "refused", "held", "account",
                                    "known", "unknown", "error"} :
              \/ q \in todo /\ Request(Service, q, r, "asked") /\ UNCHANGED <<uploads, has, lost>>
                 /\ stage # "submit" /\ r # "ok"
              \/ q \in todo /\ Request(Service, q, r, "sent") /\ Upload(Service, q)
                 /\ stage # "intel"
    BY <1>3, AskingIs
  <2>3. stage' = stage /\ cur' = q /\ reply' = r /\ Service' = Service
    BY <2>2 DEF Request, Service
  <2>4. CASE UNCHANGED <<uploads, has, lost>> /\ r # "ok"
    <3>1. Ours(svc, s)' <=> Ours(svc, s)
      BY <2>1, <2>3, <2>4 DEF Ours, InHand
    <3>2. QED
      BY <1>a, <2>1, <2>4, <3>1
  <2>5. CASE Upload(Service, q) /\ Request(Service, q, r, "sent") /\ q \in todo /\ stage # "intel"
    <3>1. /\ r = "ok" => lost' = lost
          /\ r = "lost" => lost' = lost + 1
          /\ r \notin {"ok", "lost"} => lost' = lost /\ uploads' = uploads
          /\ r \in {"ok", "lost"} => uploads' = [uploads EXCEPT ![Service][q] = @ + 1]
      BY <2>5 DEF Upload, Request
    <3>2. ASSUME r \in {"ok", "lost"}
          PROVE  uploads'[svc][s] = IF svc = Service /\ s = q THEN uploads[svc][s] + 1
                                                             ELSE uploads[svc][s]
      BY <1>t, <3>1, <3>2
    <3>3. step' = "sent"
      BY <2>5 DEF Request
    <3>4. Ours(svc, s)' <=> Ours(svc, s) \/ (svc = Service /\ s = q /\ r = "ok")
      BY <2>1, <2>3, <3>3 DEF Ours, InHand
    <3>5. row[svc][s] = "submitted" => ~ (svc = Service /\ s = q)
      <4>1. stage \in {"submit", "bazaar"} /\ step # "force"
        BY <1>3, <2>5, AskingIs
      <4>2. QED
        BY <2>5, <4>1 DEF SubmitInv, NotYetSent, Service
    <3>6. Ours(svc, s) <=> row[svc][s] = "submitted"
      BY <2>1 DEF Ours
    <3>7. CASE r = "ok"
      BY <1>a, <1>t, <2>1, <3>1, <3>2, <3>4, <3>5, <3>6, <3>7
    <3>8. CASE r = "lost"
      BY <1>a, <1>t, <2>1, <3>1, <3>2, <3>4, <3>5, <3>6, <3>8
    <3>9. CASE r \notin {"ok", "lost"}
      BY <1>a, <2>1, <3>1, <3>4, <3>9
    <3>10. QED
      BY <3>7, <3>8, <3>9
  <2>6. QED
    BY <2>2, <2>4, <2>5
<1>4. CASE ~ Going /\ ~ Entering /\ ~ Asking
  <2>1. row' = row /\ UNCHANGED <<uploads, lost, kills>>
    BY <1>4, RowKept, StepKinds
       DEF Spend, Environment, NextDay, FileComes, EnginesFlag, OthersUpload, history, vars
  <2>2. UNCHANGED <<cur, reply, stage>>
        /\ (step' = step \/ (Spend /\ (step' = "answered" <=> step = "asked")))
    BY <1>4, StepKinds
       DEF Spend, Environment, NextDay, FileComes, EnginesFlag, OthersUpload, work, vars
  <2>3. InHand(svc, s)' <=> InHand(svc, s)
    BY <2>2 DEF InHand, Service, Spend
  <2>4. QED
    BY <1>a, <2>1, <2>3 DEF Ours
<1>5. QED
  BY <1>1, <1>2, <1>3, <1>4

(* Every step keeps the invariant.                                         *)
LEMMA NextSubmitInv == SubmitInv /\ [Next]_vars => SubmitInv'
  BY TypesInv, StepsInv, QuotaInv, NotYetSentInv, AccountedInv DEF SubmitInv

(* The inductive invariant of the lookups and the submissions.             *)
THEOREM SubmissionsInvariant == Spec => []SubmitInv
  BY InitSubmitInv, NextSubmitInv, PTL DEF Spec

(* The requests of a day stay within the cap, but for one for each kill:   *)
(* every request has one of the budget to pay for it, and midnight only    *)
(* ever gives the day more.                                                *)
THEOREM QuotaKept == Spec => []WithinQuota
<1>1. SubmitInv => WithinQuota
  <2> SUFFICES ASSUME SubmitInv, NEW svc \in Services PROVE asked[svc] <= Cap[svc] + kills
    BY DEF WithinQuota, SubmitInv
  <2>t. /\ used[svc] \in Nat /\ asked[svc] \in Nat /\ Cap[svc] \in Nat /\ kills \in Nat
        /\ budget \in Nat
    BY Types DEF SubmitInv
  <2>1. asked[svc] <= used[svc] + kills + Uncounted(svc) /\ used[svc] <= Cap[svc]
    BY DEF SubmitInv, Quota
  <2>2. Uncounted(svc) = 1 => used[svc] + 1 <= Cap[svc]
    <3>1. SUFFICES ASSUME svc = Service, step \in {"asked", "sent"} PROVE used[svc] + 1 <= Cap[svc]
      BY DEF Uncounted
    <3>2. stage # "idle" /\ budget >= 1
      BY <3>1 DEF SubmitInv, StepOfStage, Quota
    <3>3. used[svc] + budget <= Cap[svc]
      BY <3>1, <3>2 DEF SubmitInv, Quota
    <3>4. QED
      BY <2>t, <3>2, <3>3
  <2>3. Uncounted(svc) \in {0, 1}
    BY DEF Uncounted
  <2>4. QED
    BY <2>t, <2>1, <2>2, <2>3
<1>2. QED
  BY <1>1, SubmissionsInvariant, PTL

(* Nothing is uploaded to a service twice, but for what a lost answer or a *)
(* kill hides.                                                             *)
THEOREM NoSecondUpload == Spec => []UploadedOnce
<1>1. SubmitInv => UploadedOnce
  <2> SUFFICES ASSUME SubmitInv, NEW svc \in Services, NEW s \in Samples
               PROVE  uploads[svc][s] <= 1 + lost + kills
    BY DEF UploadedOnce
  <2>1. uploads[svc][s] \in Nat /\ lost \in Nat /\ kills \in Nat
    BY Types DEF SubmitInv
  <2>2. uploads[svc][s] <= lost + kills + (IF Ours(svc, s) THEN 1 ELSE 0)
    BY DEF SubmitInv, Accounted
  <2>3. QED
    BY <2>1, <2>2
<1>2. QED
  BY <1>1, SubmissionsInvariant, PTL

(* What is recorded as submitted was uploaded and stays recorded so, and   *)
(* what is recorded as held already was not, but for the same.             *)
THEOREM ClaimsHold == Spec => ClaimsAreTrue
<1> DEFINE A == \A svc \in Services, s \in Samples :
                  /\ row'[svc][s] = "submitted" => uploads'[svc][s] > 0
                  /\ row'[svc][s] = "duplicate" => uploads'[svc][s] <= lost' + kills'
                  /\ row[svc][s] = "submitted" => row'[svc][s] = "submitted"
<1>1. ASSUME SubmitInv, NEW svc \in Services, NEW s \in Samples
      PROVE  /\ row[svc][s] = "submitted" => uploads[svc][s] > 0
             /\ row[svc][s] = "duplicate" => uploads[svc][s] <= lost + kills
  <2>1. row[svc][s] = "duplicate" => ~ Ours(svc, s)
    BY <1>1, InHandIsNew DEF Ours
  <2>2. lost \in Nat /\ kills \in Nat
    BY <1>1, Types DEF SubmitInv
  <2>3. /\ uploads[svc][s] <= lost + kills + (IF Ours(svc, s) THEN 1 ELSE 0)
        /\ Ours(svc, s) => uploads[svc][s] > 0
    BY <1>1 DEF SubmitInv, Accounted
  <2>4. row[svc][s] = "submitted" => Ours(svc, s)
    BY DEF Ours
  <2>5. QED
    BY <2>1, <2>2, <2>3, <2>4
<1>2. SubmitInv => \A svc \in Services, s \in Samples :
                     /\ row[svc][s] = "submitted" => uploads[svc][s] > 0
                     /\ row[svc][s] = "duplicate" => uploads[svc][s] <= lost + kills
  BY <1>1
<1>3. ASSUME SubmitInv, [Next]_vars, NEW svc \in Services, NEW s \in Samples,
             row[svc][s] = "submitted"
      PROVE  row'[svc][s] = "submitted"
  <2>1. CASE Going
    BY <1>3, <2>1, RecordOfOne
  <2>2. CASE Entering
    BY <1>3, <2>2, BackfillOnly
  <2>3. QED
    BY <1>3, <2>1, <2>2, RowKept
<1>4. SubmitInv' => (\A svc \in Services, s \in Samples :
                       /\ row[svc][s] = "submitted" => uploads[svc][s] > 0
                       /\ row[svc][s] = "duplicate" => uploads[svc][s] <= lost + kills)'
  BY <1>2, PTL
<1>5. SubmitInv /\ SubmitInv' /\ [Next]_vars => [A]_vars
  BY <1>3, <1>4
<1>6. QED
  BY <1>5, SubmissionsInvariant, PTL DEF Spec, ClaimsAreTrue
=============================================================================
