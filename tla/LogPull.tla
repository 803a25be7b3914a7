------------------------------ MODULE LogPull ------------------------------
(***************************************************************************)
(* pull.sh, one run after another, against the sensor's forced command     *)
(* and beside prune.py's spool step.  Every request, every rm and every    *)
(* piece of an append is a step, so rotation, sensor retention, midnight,  *)
(* a kill and the spool pruner may come between any two of them.           *)
(*                                                                         *)
(* flock keeps two runs from overlapping, so one pc is enough:             *)
(*   "idle"    no run                                                      *)
(*   "entry"   at the head of the loop over the manifest                   *)
(*   "fetch"   at the head of the loop over the chunks of file cur         *)
(*   "append"  in "cat tmp >> name", the chunk not all written             *)
(***************************************************************************)
EXTENDS SpoolMirror, FiniteSets

CONSTANTS MaxChunk,  (* MAX_CHUNK, in bytes                                *)
          MaxFiles   (* MAX_FILES, the manifest entries one run looks at   *)

ASSUME PullAssumption ==
  /\ MaxChunk \in Nat \ {0}
  /\ MaxFiles \in Nat \ {0}

VARIABLES pc,
          startDay,   \* the day "date" printed when the run began
          listed,     \* the names the run takes from the manifest
          mlive,      \* the log that was live then (history, never read)
          msize,      \* the size the manifest gave for each name
          cur,        \* the entry being worked on; -1 before the first
          have,       \* have, bytes of cur already in the spool
          chunk,      \* what is left of the chunk being appended
          failed,     \* failed, a request of this run went wrong
          heartbeat   \* the day .pulled was last touched; 0 if never

pullVars == <<pc, startDay, listed, mlive, msize, cur, have, chunk, failed, heartbeat>>
vars == <<today, size, liveDay, dated, spool, mtime, liveFrom,
          pc, startDay, listed, mlive, msize, cur, have, chunk, failed, heartbeat>>

NoChunk == [day |-> 1, from |-> 0, upto |-> 0]

(* Bugs to catch: a window one day too long, and one day too short. *)
OldestEarly == startDay - PullRetain
OldestLate == startDay - (PullRetain - 2)

(* oldest=$(date -u -d "-$((RETAIN_DAYS - 1)) days" +%F) *)
Oldest == startDay - (PullRetain - 1)
InWindow(n) == n = Live \/ n >= Oldest

(* The entries of the manifest the loop has not reached. *)
Pending == {n \in listed : n > cur}

FirstFiles(S) == {n \in S : Cardinality({m \in S : m < n}) < MaxFiles}

Init ==
  /\ MirrorInit
  /\ pc = "idle"
  /\ startDay = 1
  /\ listed = {}
  /\ mlive = 1
  /\ msize = [n \in Names |-> 0]
  /\ cur = -1
  /\ have = 0
  /\ chunk = NoChunk
  /\ failed = FALSE
  /\ heartbeat = 0

(* The shell's variables go with the process. *)
EndRun ==
  /\ pc' = "idle"
  /\ startDay' = 1
  /\ listed' = {}
  /\ mlive' = 1
  /\ msize' = [n \in Names |-> 0]
  /\ cur' = -1
  /\ have' = 0
  /\ chunk' = NoChunk
  /\ failed' = FALSE

(* The lock is taken and the manifest answered.  A manifest request that   *)
(* fails ends the run before anything changes, as a busy lock does.  The   *)
(* date is taken just after the manifest; a midnight between the two makes *)
(* no difference to the manifest, so it is as if it came before both.      *)
Start ==
  /\ pc = "idle"
  /\ pc' = "entry"
  /\ startDay' = today
  /\ listed' = FirstFiles(Listing)
  /\ mlive' = liveDay
  /\ msize' = [n \in Names |-> SizeOf(n)]
  /\ cur' = -1
  /\ failed' = FALSE
  /\ UNCHANGED <<sensorVars, spool, mtime, liveFrom, have, chunk, heartbeat>>

(* The next manifest entry, too old: continue. *)
SkipEntry(n) ==
  /\ pc = "entry"
  /\ n \in Pending /\ \A m \in Pending : n <= m
  /\ ~ InWindow(n)
  /\ cur' = n
  /\ UNCHANGED <<sensorVars, spool, mtime, liveFrom, pc, startDay, listed, mlive, msize,
                 have, chunk, failed, heartbeat>>

(* Bugs to catch: the copy is not looked at, so a file begun by an earlier *)
(* run is fetched from its start again; and the copy that outgrew the      *)
(* sensor's is forgotten but not removed.                                  *)
TakeEntryNoStat(n) ==
  /\ pc = "entry"
  /\ n \in Pending /\ \A m \in Pending : n <= m
  /\ InWindow(n)
  /\ cur' = n
  /\ pc' = "fetch"
  /\ have' = 0
  /\ UNCHANGED <<sensorVars, spool, mtime, liveFrom, startDay, listed, mlive, msize,
                 chunk, failed, heartbeat>>

TakeEntryNoRemove(n) ==
  /\ pc = "entry"
  /\ n \in Pending /\ \A m \in Pending : n <= m
  /\ InWindow(n)
  /\ cur' = n
  /\ pc' = "fetch"
  /\ have' = IF Len(spool[n]) > msize[n] THEN 0 ELSE Len(spool[n])
  /\ UNCHANGED <<sensorVars, spool, mtime, liveFrom, startDay, listed, mlive, msize,
                 chunk, failed, heartbeat>>

(* The next manifest entry: stat the copy, and start it again when the     *)
(* sensor's is shorter.                                                    *)
TakeEntry(n) ==
  /\ pc = "entry"
  /\ n \in Pending /\ \A m \in Pending : n <= m
  /\ InWindow(n)
  /\ cur' = n
  /\ pc' = "fetch"
  /\ IF Len(spool[n]) > msize[n]
       THEN /\ spool' = [spool EXCEPT ![n] = <<>>]
            /\ liveFrom' = LiveFrom(n, mlive)
            /\ have' = 0
       ELSE /\ have' = Len(spool[n])
            /\ UNCHANGED <<spool, liveFrom>>
  /\ UNCHANGED <<sensorVars, mtime, startDay, listed, mlive, msize,
                 chunk, failed, heartbeat>>

FileDone ==
  /\ pc = "fetch"
  /\ have >= msize[cur]
  /\ pc' = "entry"
  /\ have' = 0
  /\ UNCHANGED <<sensorVars, spool, mtime, liveFrom, startDay, listed, mlive, msize, cur,
                 chunk, failed, heartbeat>>

(* The sensor still has the file and the offset is not past its end: it    *)
(* sends what it has from there, up to the length asked for.               *)
Wanted == IF msize[cur] - have < MaxChunk THEN msize[cur] - have ELSE MaxChunk
Served == IF SizeOf(cur) - have < Wanted THEN SizeOf(cur) - have ELSE Wanted

FetchOk ==
  /\ pc = "fetch"
  /\ have < msize[cur]
  /\ cur \in Listing
  /\ Served > 0
  /\ chunk' = [day |-> LogOf(cur), from |-> have, upto |-> have + Served]
  /\ pc' = "append"
  /\ UNCHANGED <<sensorVars, spool, mtime, liveFrom, startDay, listed, mlive, msize, cur,
                 have, failed, heartbeat>>

(* A bug to catch: the file is left, but the run still counts as clean. *)
FetchFailUnnoticed ==
  /\ pc = "fetch"
  /\ have < msize[cur]
  /\ pc' = "entry"
  /\ have' = 0
  /\ UNCHANGED <<sensorVars, spool, mtime, liveFrom, startDay, listed, mlive, msize, cur,
                 chunk, failed, heartbeat>>

(* The request is refused, is answered with nothing, or is cut off on the  *)
(* way: the file is left for the next run.                                 *)
FetchFail ==
  /\ pc = "fetch"
  /\ have < msize[cur]
  /\ failed' = TRUE
  /\ pc' = "entry"
  /\ have' = 0
  /\ UNCHANGED <<sensorVars, spool, mtime, liveFrom, startDay, listed, mlive, msize, cur,
                 chunk, heartbeat>>

(* cat writes the chunk to the end of whatever the name holds, some bytes  *)
(* at a time; with the last of them the loop counts the chunk.             *)
AppendBytes ==
  /\ pc = "append"
  /\ \E k \in 1..(chunk.upto - chunk.from) :
       /\ spool' = [spool EXCEPT
                      ![cur] = @ \o Run(chunk.day, chunk.from, chunk.from + k)]
       /\ IF chunk.from + k = chunk.upto
            THEN pc' = "fetch" /\ have' = chunk.upto /\ chunk' = NoChunk
            ELSE UNCHANGED <<pc, have>> /\ chunk' = [chunk EXCEPT !.from = @ + k]
  /\ mtime' = Touch(cur)
  /\ liveFrom' = LiveFrom(cur, chunk.day)
  /\ UNCHANGED <<sensorVars, startDay, listed, mlive, msize, cur, failed, heartbeat>>

(* The manifest is exhausted; .pulled is touched if every request of the   *)
(* run succeeded.                                                          *)
Finish ==
  /\ pc = "entry"
  /\ Pending = {}
  /\ EndRun
  /\ heartbeat' = IF failed THEN heartbeat ELSE today
  /\ UNCHANGED <<sensorVars, spool, mtime, liveFrom>>

(* TimeoutStartSec, a reboot, or set -e on a full disk. *)
Kill ==
  /\ pc # "idle"
  /\ EndRun
  /\ UNCHANGED <<sensorVars, spool, mtime, liveFrom, heartbeat>>

(* A run lasts 90 seconds at most (TimeoutStartSec), so it sees at most    *)
(* one midnight.                                                           *)
Environment ==
  /\ SensorStep
  /\ today' # today => (pc = "idle" \/ today = startDay)
  /\ UNCHANGED pullVars

PruneSpool ==
  /\ \E S \in SUBSET Expired : RemoveCopies(S)
  /\ UNCHANGED pullVars

PullStep ==
  \/ Start
  \/ \E n \in Names : SkipEntry(n) \/ TakeEntry(n)
  \/ FileDone
  \/ FetchOk
  \/ FetchFail
  \/ AppendBytes
  \/ Finish

Next == PullStep \/ Kill \/ Environment \/ PruneSpool

Spec == Init /\ [][Next]_vars

(* The timer starts run after run, and a run that is not killed goes on.   *)
(* Requests may fail, but not the same file's for ever, and runs are not   *)
(* killed for ever: a run that ends looks like one that is killed, so it   *)
(* is steps that can only be kills that must cease.  Nothing makes a day   *)
(* pass, or the sensor write.                                              *)
Fairness ==
  /\ WF_vars(PullStep)
  /\ \A n \in Names : SF_vars(FetchOk /\ cur = n)
  /\ <>[][Kill => PullStep]_vars

FairSpec == Spec /\ Fairness
-----------------------------------------------------------------------------
TypeOK ==
  /\ SensorTypeOK
  /\ spool \in [Names -> Seq(Bytes)]
  /\ mtime \in [Days -> 0..MaxDay]
  /\ liveFrom \in Days
  /\ pc \in {"idle", "entry", "fetch", "append"}
  /\ startDay \in Days
  /\ listed \in SUBSET Names
  /\ mlive \in Days
  /\ msize \in [Names -> 0..MaxBytes]
  /\ cur \in Names \cup {-1}
  /\ have \in 0..MaxBytes
  /\ chunk \in [day : Days, from : 0..MaxBytes, upto : 0..MaxBytes]
  /\ failed \in BOOLEAN
  /\ heartbeat \in 0..MaxDay

(* Whatever was appended, cut short, retried or removed, and whenever the  *)
(* sensor rotated, a dated copy holds the first bytes of that day's log,   *)
(* in order, and nothing else.                                             *)
DatedPrefix ==
  \A d \in Days : /\ Len(spool[d]) <= size[d]
                  /\ \A i \in 1..Len(spool[d]) : spool[d][i] = <<d, i>>

(* The live copy may hold bytes of several logs, but never one at another  *)
(* place than it has in its own log, and never a later log's before an     *)
(* earlier one's.                                                          *)
LivePositions ==
  \A i \in 1..Len(spool[Live]) :
    /\ spool[Live][i][2] = i
    /\ spool[Live][i][1] <= liveDay
    /\ i > 1 => spool[Live][i - 1][1] <= spool[Live][i][1]

Complete(d) == Len(spool[d]) = size[d]

AtCleanEnd == pc = "entry" /\ Pending = {} /\ ~ failed

(* The heartbeat means what the health view takes it to mean: when a run   *)
(* ends without a failed request, every file it asked about is at least as *)
(* long as the manifest said, and the dated ones are whole.                *)
CleanRunIsComplete ==
  AtCleanEnd =>
    \A n \in listed : InWindow(n) => /\ Len(spool[n]) >= msize[n]
                                     /\ n # Live => Complete(n)

(* "A file prune has deleted is never fetched again while the sensor still *)
(* lists it" (pull.sh): the copy that was written and is gone stays gone.  *)
NeverFetchedAgain ==
  [][\A d \in Days : mtime[d] # 0 /\ spool[d] = <<>> => spool'[d] = <<>>]_vars

(* "An outage of up to a week loses nothing" (pull.sh): if the last clean  *)
(* run was at most PullRetain - 1 days ago, then the one that ends now has *)
(* the whole log of every day since that had been rotated.                 *)
OutageLosesNothing ==
  AtCleanEnd /\ heartbeat > 0 /\ startDay - heartbeat < PullRetain =>
    \A d \in heartbeat..(mlive - 1) : Complete(d)

(* The collector's copy of the live log, at the end of a clean run and     *)
(* while the sensor still has that log live, is that log's first bytes.    *)
ByteIdentical ==
  AtCleanEnd /\ mlive = liveDay =>
    \A i \in 1..Len(spool[Live]) : spool[Live][i] = <<liveDay, i>>

-----------------------------------------------------------------------------
(* Why these hold: the parts of the inductive invariant.                   *)

(* The live log is the last one, and a copy is never ahead of its log.     *)
LogOrder ==
  /\ liveDay <= today
  /\ \A d \in dated : d < liveDay
  /\ \A d \in Days : spool[d] # <<>> => d < liveDay
  /\ Len(spool[Live]) <= MaxBytes

(* A dated copy was written after its day, and in its window: it cannot    *)
(* expire while a run may still ask for it, and one that is gone is too    *)
(* old to be asked for.                                                    *)
WrittenLater ==
  \A d \in Days : /\ mtime[d] <= today
                  /\ mtime[d] # 0 => d < mtime[d] /\ mtime[d] <= d + PullRetain
                  /\ spool[d] # <<>> => mtime[d] # 0
                  /\ mtime[d] # 0 /\ spool[d] = <<>> =>
                       mtime[d] + SpoolRetain <= today

(* The run knows the present length of the dated logs it lists, and works  *)
(* on a listed file that is in its window.                                 *)
RunOrder ==
  pc # "idle" =>
    /\ startDay <= today /\ today <= startDay + 1
    /\ mlive <= liveDay
    /\ \A n \in listed : n # Live => n < mlive /\ msize[n] = size[n]
    /\ pc # "entry" => cur \in listed /\ InWindow(cur)

(* have and the chunk agree with the copy.                                 *)
ChunkFits ==
  /\ pc = "fetch" => have = Len(spool[cur])
  /\ pc = "append" =>
       /\ Len(spool[cur]) = chunk.from
       /\ chunk.from < chunk.upto
       /\ chunk.upto <= size[chunk.day]
       /\ chunk.upto <= msize[cur]
       /\ chunk.day <= liveDay
       /\ cur # Live => chunk.day = cur
       /\ cur = Live => \A i \in 1..Len(spool[Live]) :
                          spool[Live][i][1] <= chunk.day

(* The files the run has dealt with, if no request failed.                 *)
Passed(n) == n < cur \/ (n = cur /\ pc = "entry")

PassedIsCopied ==
  pc # "idle" /\ ~ failed =>
    \A n \in listed : Passed(n) /\ InWindow(n) => Len(spool[n]) >= msize[n]

(* The live copy is no longer than the log its last byte is of, so a run   *)
(* that finds it too long finds a log that has been rotated.               *)
LiveFloor ==
  /\ liveFrom <= liveDay
  /\ Len(spool[Live]) <= size[liveFrom]
  /\ pc = "append" /\ cur = Live => liveFrom <= chunk.day
  /\ pc = "entry" /\ cur = -1 => /\ liveFrom <= mlive
                                 /\ liveFrom = mlive => Len(spool[Live]) <= msize[Live]

(* A run copies dated logs that were rotated before it began, after what   *)
(* it copies of the live one.                                              *)
DatedAfterLive ==
  /\ \A d \in Days : mtime[d] # 0 => d < (IF pc = "idle" THEN liveDay ELSE mlive)
  /\ pc = "append" /\ cur = Live => mlive <= chunk.day

CopyInv ==
  /\ TypeOK
  /\ DatedPrefix
  /\ LivePositions
  /\ LogOrder
  /\ WrittenLater
  /\ RunOrder
  /\ ChunkFits
  /\ PassedIsCopied

IInv == CopyInv /\ LiveFloor /\ DatedAfterLive
-----------------------------------------------------------------------------
(* LogPull implements SpoolMirror: what the spool shows of a run, whatever *)
(* comes between its requests, is what SpoolMirror allows.  The variables  *)
(* of SpoolMirror are LogPull's own, so the refinement mapping is the      *)
(* identity.                                                               *)
ImplementsMirror == MirrorSpec

(* A rotated log is copied whole before it leaves the window, or the       *)
(* sensor drops it first.                                                  *)
RotatedLogIsCopied ==
  \A d \in Days :
    d \in dated ~> (Complete(d) \/ d \notin dated \/ today >= d + PullRetain)
=============================================================================
