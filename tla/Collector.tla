----------------------------- MODULE Collector -----------------------------
(***************************************************************************)
(* ingest.py and prune.py over the spool that SpoolMirror describes.       *)
(*                                                                         *)
(* The ingester passes over the spool every 30 seconds.  For each file it  *)
(* reads the offset row, then the size, then the lines behind the offset,  *)
(* and commits the lines and the new offset in one transaction.  The pull, *)
(* the sensor and the pruner may come between any two of these, and the    *)
(* pruner's steps are separate too.  Either process may die anywhere.      *)
(*                                                                         *)
(* A stored event is the line it was parsed from: the bytes between two    *)
(* newlines of the copy.  A line of one log, whole, is an event of that    *)
(* day; anything else a copy can hold (the end of a line, two halves of    *)
(* lines of different logs) does not parse, and is stored with no source   *)
(* and an empty timestamp.                                                 *)
(***************************************************************************)
EXTENDS SpoolMirror, SequencesExt

CONSTANTS Newline,      (* the bytes of the logs that are "\n"             *)
          Sources,      (* the addresses that connect to the sensor        *)
          SourceOf,     (* SourceOf[b]: src_ip of the line that starts     *)
                        (* with byte b                                     *)
          RawRetain,    (* TR_RETAIN_DAYS, for raw events and sources      *)
          IngestKeepsUp,(* whether the ingester ends a pass between any    *)
                        (* two midnights and any two runs of the pruner    *)
          PullKeepsUp   (* whether the pull leaves no live copy for        *)
                        (* RawRetain days, to go on with it after them     *)

LogBytes == Days \X (1..MaxBytes)

ASSUME CollectorAssumption ==
  /\ Newline \subseteq LogBytes
  /\ SourceOf \in [LogBytes -> Sources]
  /\ RawRetain \in Nat \ {0}
  /\ IngestKeepsUp \in BOOLEAN
  /\ PullKeepsUp \in BOOLEAN

VARIABLES raw,      \* raw_events: the lines stored, each once
          sources,  \* sources: count, first and last day of each address
          offset,   \* ingest_state: byte_offset of each name; 0 for no row
          ipc,      \* the ingester: "sleep", "next", "stat", "read", "commit"
          todo,     \* names the pass has not reached
          name,     \* the file being processed
          at,       \* offset, in process_file
          batch,    \* the lines read and not yet committed
          pass,     \* "none", "begun" or "done": the pass IngestKeepsUp asks for
          ppc,      \* the pruner: "idle", "sources", "spool", "look", "rows"
          gone,     \* offset rows the pruner found without a file
          late      \* midnight passed since the pruner's run began

ingestVars == <<ipc, todo, name, at, batch, pass>>
pruneVars == <<ppc, gone, late>>
dbVars == <<raw, sources, offset>>
vars == <<today, size, liveDay, dated, spool, mtime, liveFrom,
          raw, sources, offset, ipc, todo, name, at, batch, pass, ppc, gone, late>>

(* The place of the last newline of s at or before p; 0 if there is none.  *)
Ends(s, from) == {i \in (from + 1)..Len(s) : s[i] \in Newline}
EndBefore(s, from, i) ==
  LET E == {j \in Ends(s, from) : j < i} IN IF E = {} THEN from ELSE Max(E)

(* for raw in f: the whole lines behind an offset, blank ones dropped, and *)
(* the offset behind the last of them.                                     *)
LinesFrom(s, from) ==
  {SubSeq(s, EndBefore(s, from, i) + 1, i - 1) : i \in Ends(s, from)} \ {<<>>}
(* The bytes of a partial trailing line counted; and a newline twice. *)
OffsetAfterPartial(s, from) == Len(s)
OffsetAfterTwice(s, from) == EndBefore(s, from, Len(s) + 1) + 1
OffsetAfter(s, from) == EndBefore(s, from, Len(s) + 1)

(* Where the log of day d has a line to store: its first and its last byte *)
(* with a newline after and the log's start or a newline before.           *)
LineSpans(d) ==
  {span \in (1..MaxBytes) \X (1..MaxBytes) :
     /\ span[1] <= span[2]
     /\ span[1] = 1 \/ <<d, span[1] - 1>> \in Newline
     /\ \A i \in span[1]..span[2] : <<d, i>> \notin Newline
     /\ <<d, span[2] + 1>> \in Newline}

LineAt(d, span) == Run(d, span[1] - 1, span[2])

Events == UNION {{LineAt(d, span) : span \in LineSpans(d)} : d \in Days}

DayOf(line) == line[1][1]
AddressOf(line) == SourceOf[line[1]]

NoRow == [count |-> 0, first |-> 0, last |-> 0]
-----------------------------------------------------------------------------
CollectorInit ==
  /\ MirrorInit
  /\ raw = {}
  /\ sources = [ip \in Sources |-> NoRow]
  /\ offset = [n \in Names |-> 0]
  /\ ipc = "sleep" /\ todo = {} /\ name = Live /\ at = 0 /\ batch = {}
  /\ pass = "none"
  /\ ppc = "idle" /\ gone = {} /\ late = FALSE

(* The pull and the sensor.  With IngestKeepsUp neither the day nor a run  *)
(* of the pruner follows the last before a whole pass has come between: a  *)
(* pass takes its place every 30 seconds, the pruner every hour.  A run of *)
(* the pruner lasts half an hour at most (TimeoutStartSec), so it sees at  *)
(* most one midnight.  With PullKeepsUp a live copy of an earlier log is   *)
(* not continued once the events of that log are old enough to be pruned.  *)
Continues(d) ==
  PullKeepsUp /\ spool[Live] # <<>> /\ liveFrom < d => today < liveFrom + RawRetain

Pull ==
  /\ \/ \E n \in Names, d \in Days : Gain(n, d) /\ (n = Live => Continues(d))
     \/ DropLive
  /\ UNCHANGED <<dbVars, ingestVars, pruneVars>>

Sensor ==
  /\ SensorStep
  /\ IF today' = today
       THEN UNCHANGED <<pass, late>>
       ELSE /\ IngestKeepsUp => pass = "done"
            /\ ~ late
            /\ pass' = "none"
            /\ late' = (ppc # "idle")
  /\ UNCHANGED <<dbVars, ipc, todo, name, at, batch, ppc, gone>>

(* The pass takes its file names from one glob of the spool. *)
Glob ==
  /\ ipc = "sleep"
  /\ ipc' = "next"
  /\ todo' = {n \in Names : spool[n] # <<>>}
  /\ pass' = IF pass = "none" THEN "begun" ELSE pass
  /\ UNCHANGED <<mirrorVars, dbVars, name, at, batch, pruneVars>>

EndPass ==
  /\ ipc = "next"
  /\ todo = {}
  /\ ipc' = "sleep"
  /\ pass' = IF pass = "begun" THEN "done" ELSE pass
  /\ UNCHANGED <<mirrorVars, dbVars, todo, name, at, batch, pruneVars>>

(* process_file: the offset row. *)
ReadRow ==
  /\ ipc = "next"
  /\ todo # {}
  /\ name' = Min(todo)
  /\ todo' = todo \ {Min(todo)}
  /\ at' = offset[Min(todo)]
  /\ ipc' = "stat"
  /\ UNCHANGED <<mirrorVars, dbVars, batch, pass, pruneVars>>

(* process_file: the size.  A file that is not there raises OSError; one   *)
(* that is shorter than the offset is read from its start again.           *)
FileLen == Len(spool[name])
Rescan == IF FileLen < at THEN 0 ELSE at

Skip ==
  /\ ipc' = "next"
  /\ name' = Live /\ at' = 0
  /\ UNCHANGED <<mirrorVars, dbVars, todo, batch, pass, pruneVars>>

Stat ==
  /\ ipc = "stat"
  /\ FileLen # Rescan
  /\ at' = Rescan
  /\ ipc' = "read"
  /\ UNCHANGED <<mirrorVars, dbVars, todo, name, batch, pass, pruneVars>>

(* Bug to catch: a file with nothing new ends the pass, as it would if     *)
(* process_file were inlined in the loop and its return kept.              *)
StatDoneEndsPass ==
  /\ ipc = "stat"
  /\ FileLen = Rescan
  /\ ipc' = "next"
  /\ name' = Live /\ at' = 0 /\ todo' = {}
  /\ UNCHANGED <<mirrorVars, dbVars, batch, pass, pruneVars>>

StatDone ==
  /\ ipc = "stat"
  /\ FileLen = Rescan
  /\ Skip

(* process_file: open, and the lines there are when they are read.         *)
ReadSavesOffset ==
  /\ ipc = "read"
  /\ spool[name] # <<>>
  /\ batch' = LinesFrom(spool[name], at)
  /\ at' = OffsetAfter(spool[name], at)
  /\ offset' = [offset EXCEPT ![name] = OffsetAfter(spool[name], at)]
  /\ ipc' = "commit"
  /\ UNCHANGED <<mirrorVars, raw, sources, todo, name, pass, pruneVars>>

Read ==
  /\ ipc = "read"
  /\ spool[name] # <<>>
  /\ batch' = LinesFrom(spool[name], at)
  /\ at' = OffsetAfter(spool[name], at)
  /\ ipc' = "commit"
  /\ UNCHANGED <<mirrorVars, dbVars, todo, name, pass, pruneVars>>

ReadGone ==
  /\ ipc = "read"
  /\ spool[name] = <<>>
  /\ Skip

(* ingest_line for each line of the batch: a line already stored is        *)
(* ignored, and only a line that is new counts for its source.             *)
NewAll == batch
New == batch \ raw
NewFrom(ip) == {l \in New \cap Events : AddressOf(l) = ip}

Credit(row, lines) ==
  IF lines = {} THEN row
  ELSE LET days == {DayOf(l) : l \in lines}
       IN  [count |-> row.count + Cardinality(lines),
            first |-> IF row.count = 0 \/ Min(days) < row.first
                        THEN Min(days) ELSE row.first,
            last  |-> IF Max(days) > row.last THEN Max(days) ELSE row.last]

Commit ==
  /\ ipc = "commit"
  /\ raw' = raw \cup batch
  /\ sources' = [ip \in Sources |-> Credit(sources[ip], NewFrom(ip))]
  /\ offset' = [offset EXCEPT ![name] = at]
  /\ ipc' = "next"
  /\ name' = Live /\ at' = 0 /\ batch' = {}
  /\ UNCHANGED <<mirrorVars, todo, pass, pruneVars>>

(* The process dies, or SQLite raises, which nothing catches: what was not *)
(* committed is rolled back, and systemd starts the ingester again.        *)
IngestCrash ==
  /\ ipc # "sleep"
  /\ ipc' = "sleep"
  /\ todo' = {} /\ name' = Live /\ at' = 0 /\ batch' = {}
  /\ pass' = IF pass = "begun" THEN "none" ELSE pass
  /\ UNCHANGED <<mirrorVars, dbVars, pruneVars>>
-----------------------------------------------------------------------------
(* prune_by_age compares ts with now - RawRetain days.  An empty ts is     *)
(* before every time.  An event of the very day may be on either side.     *)
Aged(l) == l \notin Events \/ DayOf(l) + RawRetain <= today
SurelyAged(l) == l \notin Events \/ DayOf(l) + RawRetain < today

(* One batch of prune_by_age, committed by itself. *)
PruneStarts == ppc = "idle" /\ (IngestKeepsUp => pass = "done")
PruneEnds == ppc' = "idle" /\ gone' = {} /\ late' = FALSE /\ pass' = "none"

PruneRaw ==
  /\ PruneStarts
  /\ \E S \in SUBSET {l \in raw : Aged(l)} \ {{}} : raw' = raw \ S
  /\ UNCHANGED <<mirrorVars, sources, offset, ingestVars, pruneVars>>

PruneRawDone ==
  /\ PruneStarts
  /\ ~ \E l \in raw : SurelyAged(l)
  /\ ppc' = "sources"
  /\ UNCHANGED <<mirrorVars, dbVars, ingestVars, gone, late>>

(* prune_sources: one DELETE of the rows that are old and have no event.   *)
Stored(ip) == {l \in raw \cap Events : AddressOf(l) = ip}
DroppableByAge == {ip \in Sources : /\ sources[ip].count > 0
                                    /\ sources[ip].last + RawRetain <= today}
Droppable == {ip \in Sources : /\ sources[ip].count > 0
                               /\ sources[ip].last + RawRetain <= today
                               /\ Stored(ip) = {}}

PruneSources ==
  /\ ppc = "sources"
  /\ \E S \in SUBSET Droppable :
       /\ \A ip \in Droppable : sources[ip].last + RawRetain < today => ip \in S
       /\ sources' = [ip \in Sources |-> IF ip \in S THEN NoRow ELSE sources[ip]]
  /\ ppc' = "spool"
  /\ UNCHANGED <<mirrorVars, raw, offset, ingestVars, gone, late>>

(* prune_spool, the files.  Their rows go with the others: the transaction *)
(* ends with the rows, and a dated file that is gone stays gone.           *)
PruneSpool ==
  /\ ppc = "spool"
  /\ \E S \in SUBSET Expired : RemoveCopies(S)
  /\ ppc' = "look"
  /\ UNCHANGED <<dbVars, ingestVars, gone, late>>

(* prune_spool, the rows without a file: looked for, then deleted.         *)
PruneLook ==
  /\ ppc = "look"
  /\ gone' = {n \in Names : offset[n] > 0 /\ spool[n] = <<>>}
  /\ ppc' = "rows"
  /\ UNCHANGED <<mirrorVars, dbVars, ingestVars, late>>

PruneRows ==
  /\ ppc = "rows"
  /\ offset' = [n \in Names |-> IF n \in gone THEN 0 ELSE offset[n]]
  /\ PruneEnds
  /\ UNCHANGED <<mirrorVars, raw, sources, ipc, todo, name, at, batch>>

PruneKill ==
  /\ ppc # "idle"
  /\ PruneEnds
  /\ UNCHANGED <<mirrorVars, dbVars, ipc, todo, name, at, batch>>

Ingest ==
  Glob \/ ReadRow \/ Stat \/ StatDone \/ Read \/ ReadGone \/ Commit \/ EndPass

Prune ==
  \/ PruneRaw \/ PruneRawDone \/ PruneSources
  \/ PruneSpool \/ PruneLook \/ PruneRows \/ PruneKill

CollectorNext == Pull \/ Sensor \/ Ingest \/ IngestCrash \/ Prune

CollectorSpec == CollectorInit /\ [][CollectorNext]_vars

(* A loop that never ends and Restart=always: the ingester goes on.  It is *)
(* assumed not to fail for ever: after ten failures in ten minutes its     *)
(* unit stays down (StartLimitBurst).  A pass that ends looks like one     *)
(* that is killed, so it is steps that can only be kills that must cease.  *)
CollectorFair ==
  /\ CollectorSpec
  /\ WF_vars(Ingest)
  /\ <>[][IngestCrash => Ingest]_vars
-----------------------------------------------------------------------------
CollectorTypeOK ==
  /\ SensorTypeOK
  /\ spool \in [Names -> Seq(LogBytes)]
  /\ mtime \in [Days -> 0..MaxDay] /\ liveFrom \in Days
  /\ \A l \in raw : l \in Seq(LogBytes) \ {<<>>}
  /\ sources \in [Sources -> [count : Nat, first : 0..MaxDay, last : 0..MaxDay]]
  /\ offset \in [Names -> 0..MaxBytes]
  /\ ipc \in {"sleep", "next", "stat", "read", "commit"}
  /\ todo \subseteq Names /\ name \in Names /\ at \in 0..MaxBytes
  /\ \A l \in batch : l \in Seq(LogBytes) \ {<<>>}
  /\ pass \in {"none", "begun", "done"}
  /\ ppc \in {"idle", "sources", "spool", "look", "rows"}
  /\ gone \subseteq Names /\ late \in BOOLEAN

(* The offset of a dated file is the start of a line of its log, whatever  *)
(* the ingester or the pruner was doing when it was stopped; so no line is *)
(* ever cut in two by a resumed pass.                                      *)
OffsetOnBoundary ==
  \A d \in Days : /\ offset[d] > 0 => <<d, offset[d]>> \in Newline
                  /\ spool[d] # <<>> => offset[d] <= Len(spool[d])

(* What lies before the offset of a dated file has been stored, and is     *)
(* there until it is old enough for prune_by_age.                          *)
NothingSkipped ==
  \A d \in Days : \A span \in LineSpans(d) :
    span[2] < offset[d] => \/ LineAt(d, span) \in raw
                           \/ d + RawRetain <= today

(* The lines of all logs that come from an address. *)
Sent(ip) == {l \in Events : AddressOf(l) = ip}

(* "Re-pulls and offset resets never duplicate data" (ingest.py): an event *)
(* counts for its source once, though it is read from the live copy and    *)
(* from the dated one, from files read again, and after its raw row went.  *)
CountedOnce == \A ip \in Sources : sources[ip].count <= Cardinality(Sent(ip))

(* The sources table covers the raw one: a source with events has a row    *)
(* that counts at least these and spans their days.                        *)
SourcesCoverRaw ==
  \A ip \in Sources :
    /\ Cardinality(Stored(ip)) <= sources[ip].count
    /\ \A l \in Stored(ip) : /\ sources[ip].first <= DayOf(l)
                             /\ DayOf(l) <= sources[ip].last

(* "Removed N ingested files" (prune.py): when a copy is removed every     *)
(* whole line of it has been read.                                         *)
RemovedWasIngested ==
  [][\A d \in Days : spool[d] # <<>> /\ spool'[d] = <<>> =>
       Ends(spool[d], offset[d]) = {}]_vars

(* Every line of a dated copy is stored in the end, unless the pruner      *)
(* takes the copy or the event first.                                      *)
LineIsStored ==
  \A d \in Days : \A span \in LineSpans(d) :
    Len(spool[d]) > span[2] ~>
      \/ LineAt(d, span) \in raw
      \/ d + RawRetain <= today
      \/ spool[d] = <<>>
=============================================================================
