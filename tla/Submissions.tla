---------------------------- MODULE Submissions ----------------------------
(***************************************************************************)
(* What the intel worker asks VirusTotal and MalwareBazaar about captured  *)
(* samples, and what it gives them: the VirusTotal part of enrich,         *)
(* submit_samples and submit_bazaar, one after the other in each run.      *)
(*                                                                         *)
(* A request is made, counted and recorded in three transactions, and the  *)
(* worker may be killed between them.  A service may refuse, may answer    *)
(* with an error, or may take an upload and its answer be lost.  Others    *)
(* use the services too.                                                   *)
(***************************************************************************)
EXTENDS Integers, FiniteSets, FiniteSetsExt

CONSTANTS Samples,
          CapturedOn,   (* the day each sample comes into payloads         *)
          GoodSize,     (* the samples inside the size bounds              *)
          MaxDay,       (* bound: the days of a behaviour                  *)
          MaxKills,     (* bound: how often the worker is killed           *)
          MaxLost,      (* bound: how many answers to uploads are lost     *)
          Cap,          (* TR_VT_DAILY_CAP and TR_MB_DAILY_CAP             *)
          LookupMax,    (* TR_VT_MAX_LOOKUPS                               *)
          SubmitMax,    (* TR_VT_SUBMIT_MAX and TR_MB_SUBMIT_MAX           *)
          IntelTTL,     (* TR_INTEL_TTL_DAYS                               *)
          ContribTTL,   (* TR_VT_CONTRIB_TTL_DAYS                          *)
          MaxAge        (* TR_MB_MAX_AGE_DAYS                              *)

Services == {"vt", "mb"}
Days == 1..MaxDay
Nobody == "nobody"

ASSUME SubmissionsAssumption ==
  /\ MaxDay \in Nat \ {0}
  /\ CapturedOn \in [Samples -> Nat]
  /\ GoodSize \subseteq Samples
  /\ MaxKills \in Nat
  /\ MaxLost \in Nat
  /\ Cap \in [Services -> Nat]
  /\ LookupMax \in Nat
  /\ SubmitMax \in [Services -> Nat]
  /\ IntelTTL \in Nat /\ ContribTTL \in Nat /\ MaxAge \in Nat
  /\ Nobody \notin Samples

VARIABLES today,
          onHost,    \* samples whose file fetch_samples.sh has brought
          has,       \* has[svc]: the samples the service holds (external)
          flagged,   \* the samples an engine detects (external)
          verdict,   \* payload_intel: VirusTotal's verdict on each sample
          checked,   \* payload_intel: the day of the verdict; 0 for NULL
          row,       \* row[svc][s]: status in payload_submissions
          used,      \* used[svc]: the quota counter of today
          asked,     \* asked[svc]: requests made today (history)
          uploads,   \* uploads[svc][s]: uploads the service took (history)
          kills,     \* how often the worker was killed (history)
          lost,      \* how many answers to uploads were lost (history)
          stage,     \* the worker: "idle", "intel", "submit", "bazaar"
          step,      \* of the sample in hand: "next", "asked", "answered",
                     \* "sent", "replied", "force"
          todo,      \* samples the stage has not reached
          cur,       \* the sample in hand
          reply,     \* the answer in hand
          budget,    \* requests the stage may still make
          blocked,   \* MalwareBazaar has refused the account
          since      \* the day the bazaar stage began

world == <<today, onHost, has, flagged>>
intel == <<verdict, checked>>
history == <<asked, uploads, kills, lost>>
work == <<stage, step, todo, cur, reply, budget, blocked, since>>
vars == <<today, onHost, has, flagged, verdict, checked, row,
          used, asked, uploads, kills, lost,
          stage, step, todo, cur, reply, budget, blocked, since>>

Init ==
  /\ today = 1
  /\ onHost = {} /\ flagged = {}
  /\ has = [svc \in Services |-> {}]
  /\ verdict = [s \in Samples |-> "none"]
  /\ checked = [s \in Samples |-> 0]
  /\ row = [svc \in Services |-> [s \in Samples |-> "none"]]
  /\ used = [svc \in Services |-> 0]
  /\ asked = [svc \in Services |-> 0]
  /\ uploads = [svc \in Services |-> [s \in Samples |-> 0]]
  /\ kills = 0 /\ lost = 0
  /\ stage = "idle" /\ step = "next" /\ todo = {} /\ cur = Nobody
  /\ reply = "none" /\ budget = 0 /\ blocked = FALSE /\ since = 1
-----------------------------------------------------------------------------
(* The key of a counter has the date in it, so it is zero after midnight.  *)
NextDay ==
  /\ today < MaxDay
  /\ today' = today + 1
  /\ used' = [svc \in Services |-> 0]
  /\ asked' = [svc \in Services |-> 0]
  /\ UNCHANGED <<onHost, has, flagged, intel, row, uploads, kills, lost, work>>

(* The fetch brings a file; others upload a sample; engines detect one.    *)
FileComes(s) ==
  /\ stage = "idle"
  /\ CapturedOn[s] <= today
  /\ onHost' = onHost \cup {s}
  /\ UNCHANGED <<today, has, flagged, intel, row, used, history, work>>

OthersUpload(svc, s) ==
  /\ s \notin has[svc]
  /\ has' = [has EXCEPT ![svc] = @ \cup {s}]
  /\ UNCHANGED <<today, onHost, flagged, intel, row, used, history, work>>

EnginesFlag(s) ==
  /\ s \in has["vt"] \ flagged
  /\ flagged' = flagged \cup {s}
  /\ UNCHANGED <<today, onHost, has, intel, row, used, history, work>>

Environment ==
  \/ NextDay
  \/ \E s \in Samples : FileComes(s) \/ EnginesFlag(s)
  \/ \E svc \in Services, s \in Samples : OthersUpload(svc, s)
-----------------------------------------------------------------------------
Captured == {s \in Samples : CapturedOn[s] <= today}
Contributed == {s \in Samples : row["vt"][s] = "submitted"}

(* Mutant: the cap of the day is taken for each run alone. *)
RemainingOfRun(svc, perRun) == Min({perRun, Cap[svc]})

(* _remaining *)
Remaining(svc, perRun) == Min({perRun, Max({0, Cap[svc] - used[svc]})})

(* _stale *)
TTL(s) ==
  LET ttl == IF verdict[s] \in {"unknown", "error"} THEN 1 ELSE IntelTTL
  IN  IF s \in Contributed THEN Min({ttl, ContribTTL}) ELSE ttl
Stale(s) == checked[s] = 0 \/ today - checked[s] >= TTL(s)

(* The stage goes to its next sample. *)
Advance(s) ==
  /\ todo' = todo \ {s}
  /\ step' = "next" /\ cur' = Nobody /\ reply' = "none"
  /\ UNCHANGED <<stage, budget, since>>

Enter(st, samples, n) ==
  /\ stage' = st /\ step' = "next" /\ cur' = Nobody /\ reply' = "none"
  /\ todo' = samples /\ budget' = n /\ blocked' = FALSE /\ since' = today

(* A request to a service: cur waits for it to be counted. *)
Request(svc, s, answer, then) ==
  /\ asked' = [asked EXCEPT ![svc] = @ + 1]
  /\ step' = then /\ cur' = s /\ reply' = answer
  /\ UNCHANGED <<stage, todo, budget, blocked, since>>

Holds(svc, s) == has' = [has EXCEPT ![svc] = @ \cup {s}]

(* An upload and what may come of it.  One that is taken and answered, one *)
(* whose answer is lost, one that is refused, and one that is held already *)
(* (the status 409 of VirusTotal, file_already_known of MalwareBazaar).    *)
Upload(svc, s) ==
  \E r \in {"ok", "lost", "refused", "held", "account"} :
    /\ r = "account" => svc = "mb"
    /\ r = "lost" => lost < MaxLost
    /\ lost' = IF r = "lost" THEN lost + 1 ELSE lost
    /\ r = "held" => s \in has[svc]
    /\ IF r \in {"ok", "lost"}
         THEN /\ Holds(svc, s)
              /\ uploads' = [uploads EXCEPT ![svc][s] = @ + 1]
         ELSE UNCHANGED <<has, uploads>>
    /\ Request(svc, s, r, "sent")
    /\ UNCHANGED <<today, onHost, flagged, intel, row, used, kills>>

(* _record_submission, INSERT OR REPLACE; _record_known, INSERT OR IGNORE. *)
Record(svc, s, status) == row' = [row EXCEPT ![svc][s] = status]
RecordKnown(svc, s) ==
  row' = [row EXCEPT ![svc][s] = IF @ = "none" THEN "duplicate" ELSE @]

(* _spend, and the step after it. *)
Service == IF stage = "bazaar" THEN "mb" ELSE "vt"

Spend ==
  /\ step \in {"asked", "sent"}
  /\ used' = [used EXCEPT ![Service] = @ + 1]
  /\ budget' = budget - 1
  /\ step' = IF step = "asked" THEN "answered" ELSE "replied"
  /\ UNCHANGED <<world, intel, row, history,
                 stage, todo, cur, reply, blocked, since>>
-----------------------------------------------------------------------------
(* main, up to enrich. *)
StartRun ==
  /\ stage = "idle"
  /\ Enter("intel", Captured, Remaining("vt", LookupMax))
  /\ UNCHANGED <<world, intel, row, used, history>>

(* enrich: own uploads come first. *)
IntelTurn(s) ==
  /\ stage = "intel" /\ step = "next"
  /\ s \in todo
  /\ todo \cap Contributed # {} => s \in Contributed
  /\ budget > 0

IntelFresh(s) ==
  /\ IntelTurn(s)
  /\ ~ Stale(s)
  /\ Advance(s)
  /\ UNCHANGED <<world, intel, row, used, history, blocked>>

(* vt_lookup: the verdict is stored before the request is counted.         *)
Answer(s) ==
  IF s \notin has["vt"] THEN "unknown"
  ELSE IF s \in flagged THEN "malicious" ELSE "undetected"

IntelLookup(s) ==
  /\ IntelTurn(s)
  /\ Stale(s)
  /\ \E v \in {Answer(s), "error"} : verdict' = [verdict EXCEPT ![s] = v]
  /\ checked' = [checked EXCEPT ![s] = today]
  /\ Request("vt", s, "none", "asked")
  /\ UNCHANGED <<world, row, used, uploads, kills, lost>>

IntelNext ==
  /\ stage = "intel" /\ step = "answered"
  /\ Advance(cur)
  /\ UNCHANGED <<world, intel, row, used, history, blocked>>

(* Mutant: INSERT OR REPLACE in the backfill. *)
BackfilledOver ==
  [row EXCEPT !["vt"] =
     [s \in Samples |-> IF verdict[s] \in {"undetected", "malicious"}
                          THEN "duplicate" ELSE row["vt"][s]]]

(* submit_samples: _backfill_vt_known, then the candidates. *)
Backfilled ==
  [row EXCEPT !["vt"] =
     [s \in Samples |->
        IF row["vt"][s] = "none" /\ verdict[s] \in {"undetected", "malicious"}
          THEN "duplicate" ELSE row["vt"][s]]]

(* Mutant: a sample already sent is a candidate until its verdict changes. *)
CandidatesSent ==
  {s \in Captured : verdict[s] = "unknown"
                    /\ row["vt"][s] \notin {"duplicate", "size"}}

Candidates ==
  {s \in Captured : verdict[s] = "unknown"
                    /\ row["vt"][s] \notin {"submitted", "duplicate", "size"}}

StartSubmit ==
  /\ stage = "intel" /\ step = "next"
  /\ todo = {} \/ budget = 0
  /\ row' = Backfilled
  /\ Enter("submit", Candidates, Remaining("vt", SubmitMax["vt"]))
  /\ UNCHANGED <<world, intel, used, history>>

SubmitTurn(s) ==
  /\ stage = "submit" /\ step = "next"
  /\ s \in todo
  /\ budget > 0

SubmitSkip(s) ==
  /\ SubmitTurn(s)
  /\ s \notin onHost \/ s \notin GoodSize
  /\ Record("vt", s, IF s \notin onHost THEN "missing" ELSE "size")
  /\ Advance(s)
  /\ UNCHANGED <<world, intel, used, history, blocked>>

SubmitUpload(s) ==
  /\ SubmitTurn(s)
  /\ s \in onHost \cap GoodSize
  /\ Upload("vt", s)

SubmitRecord ==
  /\ stage = "submit" /\ step = "replied"
  /\ Record("vt", cur, IF reply = "ok" THEN "submitted"
                       ELSE IF reply = "held" THEN "duplicate" ELSE "error")
  /\ IF reply = "ok"
       THEN /\ step' = "force"
            /\ UNCHANGED <<todo, cur, reply, stage, budget, since>>
       ELSE Advance(cur)
  /\ UNCHANGED <<world, intel, used, history, blocked>>

(* "Force a re-lookup on the next pass." *)
SubmitForce ==
  /\ stage = "submit" /\ step = "force"
  /\ checked' = [checked EXCEPT ![cur] = 0]
  /\ Advance(cur)
  /\ UNCHANGED <<world, verdict, row, used, history, blocked>>

(* submit_bazaar. *)
Unrecorded ==
  {s \in Captured : row["mb"][s] \notin {"submitted", "duplicate", "skipped"}}

StartBazaar ==
  /\ stage = "submit" /\ step = "next"
  /\ todo = {} \/ budget = 0
  /\ Enter("bazaar", Unrecorded, Remaining("mb", SubmitMax["mb"]))
  /\ UNCHANGED <<world, intel, row, used, history>>

BazaarTurn(s) ==
  /\ stage = "bazaar" /\ step = "next"
  /\ s \in todo
  /\ \A t \in todo : CapturedOn[t] <= CapturedOn[s]

TooOld(s) == since - CapturedOn[s] > MaxAge

BazaarSkip(s) ==
  /\ BazaarTurn(s)
  /\ TooOld(s) \/ (s \in onHost /\ s \notin GoodSize)
  /\ Record("mb", s, "skipped")
  /\ Advance(s)
  /\ UNCHANGED <<world, intel, used, history, blocked>>

Eligible(s) ==
  ~ TooOld(s) /\ s \in onHost \cap GoodSize /\ verdict[s] = "malicious"

(* Left for a later run: no file yet, no detection, no budget, no account. *)
BazaarWait(s) ==
  /\ BazaarTurn(s)
  /\ ~ TooOld(s) /\ (s \in onHost => s \in GoodSize)
  /\ Eligible(s) => budget <= 0 \/ blocked
  /\ Advance(s)
  /\ UNCHANGED <<world, intel, row, used, history, blocked>>

BazaarLookup(s) ==
  /\ BazaarTurn(s)
  /\ Eligible(s)
  /\ budget > 0 /\ ~ blocked
  /\ \E r \in {"error", IF s \in has["mb"] THEN "known" ELSE "unknown"} :
       Request("mb", s, r, "asked")
  /\ UNCHANGED <<world, intel, row, used, uploads, kills, lost>>

BazaarAnswered ==
  /\ stage = "bazaar" /\ step = "answered"
  /\ reply = "unknown" => budget <= 0
  /\ IF reply = "known" THEN RecordKnown("mb", cur) ELSE UNCHANGED row
  /\ Advance(cur)
  /\ UNCHANGED <<world, intel, used, history, blocked>>

BazaarUpload ==
  /\ stage = "bazaar" /\ step = "answered"
  /\ reply = "unknown" /\ budget > 0
  /\ Upload("mb", cur)

BazaarRecord ==
  /\ stage = "bazaar" /\ step = "replied"
  /\ CASE reply = "ok" -> Record("mb", cur, "submitted")
       [] reply = "held" -> RecordKnown("mb", cur)
       [] reply = "account" -> UNCHANGED row
       [] OTHER -> Record("mb", cur, "error")
  /\ blocked' = (blocked \/ reply = "account")
  /\ Advance(cur)
  /\ UNCHANGED <<world, intel, used, history>>

EndRun ==
  /\ stage = "bazaar" /\ step = "next" /\ todo = {}
  /\ Enter("idle", {}, 0)
  /\ UNCHANGED <<world, intel, row, used, history>>

(* TimeoutStartSec, or the host goes down. *)
Kill ==
  /\ stage # "idle"
  /\ kills < MaxKills
  /\ kills' = kills + 1
  /\ Enter("idle", {}, 0)
  /\ UNCHANGED <<world, intel, row, used, asked, uploads, lost>>

Work ==
  \/ StartRun \/ IntelNext \/ StartSubmit \/ SubmitRecord \/ SubmitForce
  \/ StartBazaar \/ BazaarAnswered \/ BazaarUpload \/ BazaarRecord \/ EndRun
  \/ Spend
  \/ \E s \in Samples :
       \/ IntelFresh(s) \/ IntelLookup(s)
       \/ SubmitSkip(s) \/ SubmitUpload(s)
       \/ BazaarSkip(s) \/ BazaarWait(s) \/ BazaarLookup(s)

Next == Environment \/ Work \/ Kill

Spec == Init /\ [][Next]_vars
-----------------------------------------------------------------------------
(* Every variable has its type: a run has no request left below zero, and  *)
(* has a sample in hand between any two of its steps.                      *)
TypeOK ==
  /\ today \in Days
  /\ onHost \subseteq Samples /\ flagged \subseteq has["vt"]
  /\ has \in [Services -> SUBSET Samples]
  /\ verdict \in [Samples -> {"none", "unknown", "error",
                              "undetected", "malicious"}]
  /\ checked \in [Samples -> 0..today]
  /\ row \in [Services -> [Samples ->
                 {"none", "submitted", "duplicate", "error",
                  "missing", "size", "skipped"}]]
  /\ used \in [Services -> Nat] /\ asked \in [Services -> Nat]
  /\ uploads \in [Services -> [Samples -> Nat]]
  /\ kills \in 0..MaxKills /\ lost \in 0..MaxLost
  /\ stage \in {"idle", "intel", "submit", "bazaar"}
  /\ step \in {"next", "asked", "answered", "sent", "replied", "force"}
  /\ todo \subseteq Samples
  /\ cur \in Samples \cup {Nobody}
  /\ (cur = Nobody) <=> (step = "next")
  /\ reply \in {"none", "ok", "lost", "refused", "held", "account",
                "known", "unknown", "error"}
  /\ budget \in Nat
  /\ blocked \in BOOLEAN
  /\ since \in 1..today

(* The requests of a day stay within the daily cap, lookups and uploads of *)
(* all runs together, also when midnight falls into a run.  They are       *)
(* counted after they are made, so each time the worker is killed one      *)
(* request may go uncounted (_remaining, _spend).                          *)
WithinQuota ==
  /\ TypeOK
  /\ \A svc \in Services : asked[svc] <= Cap[svc] + kills

(* No sample is uploaded to a service twice (the docstrings of             *)
(* submit_samples and submit_bazaar: nothing in the corpus already is      *)
(* re-uploaded), except that the record of an upload is missing when its   *)
(* answer was lost or the worker was killed before it was written.         *)
UploadedOnce ==
  \A svc \in Services, s \in Samples : uploads[svc][s] <= 1 + lost + kills

(* What the site counts as contributed was taken from us, and what it puts *)
(* down as held by the service already was not, whatever row is in the way *)
(* of the answer; a lost answer or a kill hides one upload each.  And a    *)
(* row that says we submitted the sample says so for ever (_record_known:  *)
(* "it can never overwrite a row saying we submitted it",                  *)
(* _record_submission, _backfill_vt_known).                                *)
ClaimsAreTrue ==
  [][\A svc \in Services, s \in Samples :
       /\ row'[svc][s] = "submitted" => uploads'[svc][s] > 0
       /\ row'[svc][s] = "duplicate" => uploads'[svc][s] <= lost' + kills'
       /\ row[svc][s] = "submitted" => row'[svc][s] = "submitted"]_vars
=============================================================================
