# A formal model of threat-radar

threat-radar turns the log of an SSH honeypot into a dashboard. A Cowrie sensor
writes one JSON log a day. The collector pulls the logs every few minutes,
ingests them into SQLite, prunes what is old, builds per-day fact tables,
looks samples up with outside services, and serves the result.

This directory models in TLA+ the path of an event, from the byte the sensor
writes to what the front page says of it, and what the site does and says
besides: lookups and uploads of samples, its health, the credentials it accepts. TLC checks the modules on small instances;
TLAPS proves the safety and action properties that the passing runs check, for
every value of the constants; liveness and one page property (`PageAgrees`, of windows
beyond the last `RECENT_DAYS` days) stay with TLC.

    tlc -workers 2 -config PullBytes.cfg LogPull      # one of the runs below
    tlapm LogPullProofs.tla                           # the proofs

## Inventory

| Part | Code | State | Operations | Hard parts |
|---|---|---|---|---|
| sensor log | Cowrie (external), `sensor/bin/prune-logs.sh` | live log, dated logs, sizes | write, rotate, remove by age, remove by size | rotates at the first write after midnight, not at midnight |
| log server | `sensor/bin/pull-logs.sh` | none | `manifest`, `chunk name offset length` | answers are as old as the moment they were taken |
| pull | `pull.sh`, `radar-pull.{timer,service}` | the spool, `.pulled` | one run: manifest, window, chunks, heartbeat | rotation and midnight in a run, short and failed chunks, kills, `MAX_FILES` |
| ingester | `ingest.py`, `radar-ingest.service` | `raw_events`, `sources`, `ingest_state` | pass, `process_file`, `ingest_line` | the file changes under it, dies before the commit, events seen twice |
| pruner | `prune.py`, `radar-prune.{timer,service}` | all of the above, the fact tables | age, storage, sources, spool, rollups, VACUUM | runs beside the others, each step a transaction of its own |
| intel worker | `bin/intel_worker.py`, `radar-intel.*` | fact tables, verdicts, submissions, quotas | stages in a fixed order, each committed | rebuilds days from raw events that age out, quotas, retries |
| enrichment | `enrich.py` | columns of `sources` | one update for each new source | none |
| exclusion | `bin/purge_excluded.sql` | `excluded_sources` | deletes an address everywhere | rebuilt days must not bring it back |
| sample fetch | `bin/fetch_samples.sh` | sample directory | fetch what is missing | partial files |
| user database | `sensor/bin/cowrie_userdb.py`, `bin/build_userdb.py`, `sensor/bin/validate_userdb.py` | a file | generate, validate, install | what is generated has to pass the gate |
| derived tables | `app/analytics/{escalation,families,spikes,credentials}.py` in the worker's run | `source_stage*`, `payload_family`, notes, tags | rebuild, annotate | they outlive what they are derived from; verdicts and rows come late |
| read side | `app/analytics/*`, `app/routers/site.py`, `app/main.py` | none | queries | a stale stage that looks fresh; windows that cannot be compared; two tables on one page |
| dashboard | `app/static` | browser | display | none of its own |
| deployment | `deploy/*`, `migrations/*` | units, schema | update, migrate, verify | none at run time |

The parts share files and one database; nothing sends a message to anything
else. The sensor's logs are shared by Cowrie, its pruner and the log server; the
spool by the pull, the ingester and the pruner; the database by the ingester,
the pruner, the worker, the enrichment and the read side. Only the pull and the
worker take a lock, against themselves. So what is hard is what happens when two
of them are in the middle of something, and what is gone when the next one
comes: every part has its own idea of what is old.

What makes each correct:

- pull: a dated copy is a prefix of its log; the heartbeat means that everything
  listed was copied; a copy that was pruned is not fetched again; an outage
  shorter than the window loses nothing; a rotated log is copied in the end.
- ingester: an offset is the start of a line; what is behind it is stored; an
  event is stored and counted once; every line is stored in the end.
- pruner: it takes nothing that is still needed, and leaves `sources` covering
  the raw events.
- worker: a fact of a day is what the raw events of the day say, as long as they
  were there; quotas are kept; a sample is submitted once.
- tables kept beyond the raw events: a rebuild never cuts what they hold to the raw
  window, the purge is final, and what is derived from them agrees with them.
- fetch: only whole samples are kept under their hash, and a run that reports
  success passed over none.
- read side: a change it reports is not one of outages or personas, a claim to have
  been first is true, and a part that stopped is seen.
- user database: the honeypot accepts what its file spells out, and can load it.

## Modules

| Module | Models | Uses |
|---|---|---|
| `SensorLogs` | the sensor's logs: clock, writing, rotation, pruning, manifest | |
| `SpoolMirror` | abstract: what the spool may hold and how it may change, whatever the pull does between two of its steps | `SensorLogs` |
| `LogPull` | `pull.sh` in detail; implements `SpoolMirror` | `SpoolMirror` |
| `LogPullProofs` | the theorems about `LogPull` | `LogPull` |
| `CollectorProofs` | the theorems about `Collector` | `Collector`, `Extrema` |
| `RawWindowProofs`, `RollupProofs` | what the raw window guarantees, and the theorems about `Rollup` | `RawWindow`, `Rollup` |
| `TablesProofs` | the theorems about the modules of `MCTables` and about the purge | `MCTables`, `RawWindowProofs` |
| `SubmissionsProofs` | the theorems about `Submissions` | `Submissions`, `Extrema` |
| `SiteProofs` | the theorems about `FetchSamples`, `Health`, `Contributions`, `Trends` and `UserDb` | the modules named |
| `Extrema` | lemmas: the least and the greatest of a set of numbers, sums over a finite set | |
| `Collector` | `ingest.py` and `prune.py` beside a pull that is only known to be a `SpoolMirror` | `SpoolMirror` |
| `RawWindow` | `raw_events` as the worker sees it, `all_days`, `days_to_build` | |
| `Rollup` | `build_facts`, the exclusion seeding and the purge | `RawWindow` |
| `WorkerRun` | a run as the per-day stages see it: plan, build, fail, purge, with events coming in between | `RawWindow` |
| `SessionFacts` | `build_sessions` | `WorkerRun` |
| `Sightings` | `build_payloads`, `record_provenance`; implements `Ledger` | `WorkerRun` |
| `Ledger` | abstract: `sample_provenance` only ever widens | |
| `Credentials` | `build_entities`, `build_credentials` | `WorkerRun` |
| `StageHistory` | `escalation.py`: `rebuild`, `rebuild_daily`, over the rows `build_sessions` leaves; the rail, its legend, the list and the map | `SessionFacts` |
| `Families` | `families.py`: `derive`, `rebuild` | |
| `Spikes` | `spikes.py`: `score_series`, `annotate` | |
| `Networks` | `asn.py`: `abuse_scores` | |
| `Submissions` | the VirusTotal part of `enrich`, `submit_samples`, `submit_bazaar`, quotas | |
| `FetchSamples` | `fetch_samples.sh` | |
| `Contributions` | `contributions.py`, and the stamps and snapshots it reads | |
| `Trends` | `exec_view.trends`, `outages.py`, `persona.py` | |
| `Health` | `exec_view.health`, `stage_freshness`, the heartbeats, `check_storage` | |
| `UserDb` | `cowrie_userdb.py`, `build_userdb.py`, `validate_userdb.py`, and Cowrie's reading of the file | |
| `MCTables` | small instances of the tables: `SessionFacts`, `Sightings`, `Credentials`, `StageHistory`, `Families`, `Spikes`, `Networks` | the modules named |
| `MCSite` | small instances of `Submissions`, `FetchSamples`, `Contributions`, `Trends`, `Health`, `UserDb` | the modules named |
| other `MC...` | the logs, events, samples and files of the runs | the module named |

### From the code to the modules

`SensorLogs`, `SpoolMirror`, `LogPull`. A byte is a pair of the day of its log
and its place there, so two positions never hold the same byte and a copy can be
compared with its log. A day's log has the name of the day once it is rotated;
the live log has the name `Live`. `LogPull` follows `pull.sh` line by line: `Start` is
the manifest and the window's first day, `SkipEntry` and `TakeEntry` the head of
the loop with its `stat` and the removal of a copy that outgrew the sensor's
file, `FetchOk` and `FetchFail` the two ends of a request, `AppendBytes` the
`cat`, some bytes at a time so that a kill falls between any two, `FileDone` and
`Finish` the end of a file and of the run. `Kill` is `TimeoutStartSec`, a reboot
or `set -e`. `Environment` is Cowrie and the sensor's pruner, `PruneSpool` the
collector's. The sensor's answers are computed from the sensor's state at the
moment of the request, not of the manifest. `startDay` and `today` differ when
midnight falls into a run.

`Collector`. `Glob`, `ReadRow`, `Stat`, `Read` and `Commit` are the reads of one
`process_file`, each at its own moment, with the pull, the pruner and the clock
between them; `Skip`, `StatDone` and `ReadGone` are its early ways out, `IngestCrash` is what
systemd's `Restart` follows. The lines of a batch and the offset behind them
become durable together in `Commit`, as the transaction does it. The pruner's
steps are its transactions in their order: `PruneRaw` (a set of aged events, as
its batches take them), `PruneSources`, `PruneSpool` (expired copies), `PruneLook` and
`PruneRows` (the list of the directory, and the deletion that follows it).

`RawWindow`, `Rollup`, `SessionFacts`. An event is a day and a place in it;
`PruneBatch` takes the oldest first, in any batches, so that a day can be left
half there. A fact table is the set of the events its rows count. `Plan` is
`days_to_build`, evaluated once; `BuildDay` is the transaction of a day. `Start`
may load the exclusion file, `Purge` is `ExecStartPost`. `Untimed` is a line
stored with an empty timestamp, on which `all_days` raises (`PlanRaises`).

`Submissions`. A request, its count in the quota and its record are three
transactions and three steps, so a kill falls between any two. A service's
holdings and detections change by themselves. The worker's stages are `intel`,
`submit` and `bazaar`, with the stage's list, the sample in hand and the budget.

`WorkerRun` is the part of `RawWindow`'s life that three stages share. `Sightings`
and `Credentials` add their tables to it, each written in the commits of the code:
the sightings of raw events, the days rebuilt, the lifetime rows derived, the
provenance merged (`Merged`), with the purge after the run. A row that aggregates is
the set of what it aggregates, so "the count dropped" is "the set lost a member".

`StageHistory` extends `SessionFacts`, so the stages are derived from the very rows
`build_sessions` deletes, replaces and moves to a session's second day, earlier in the same
run (`PlanSessions`, `BuildSessions`). `BuildPayloads` has the files that were seen,
`Rebuild`, `RebuildDay` and `Upgrade` are the commits of `escalation.py`, and `Enrich`, after
them, gives verdicts and takes them back. `RunFails` ends a run before any of these. With the
stage of a day the model keeps the rows it was made of (`counted`), as the table keeps their
number. What the page reads (`Rail`, `StageTotals`, `SourcesListed`, `MapPoints`) are operators on
the tables at any moment.

`Families`, `Spikes` and `Networks` keep the algorithm as operators (`Derived`,
`Spike`, `Depth`, `Class`, `RanksBefore`) and the changes of its inputs as actions.
The order of `payload_intel` is a sequence, since `derive` breaks ties by it: `FirstOf`
is the leading token that the first voting row with any has first, as `most_common`
keeps the order of insertion. A median is counted (`Smallest`), not sorted for.

`FetchSamples` has a step for each request and each rename; `Oversized` captures are
cut by the sensor. `Contributions` keeps our stamp, VirusTotal's date and the snapshots in one
clock; an upload call takes up to `MaxCall` ticks. `WeUpload` is what VirusTotal takes,
`WeStamp` the row that says so, and `LoseAnswer` an answer that is an error or a run that is
killed: then no row keeps `submit_samples` from uploading again later. `Trends` enters outages and
personas as the operator does, after the fact; the five measures are those of `FIELDS`, four
of them sums over days and `captured` a count from the first day to the last. `Health` has ticks, and in
each the stages that are due run in any order: `Pull`, `Ingest`, `BuildFacts` and `FinishRun` each pass on what
is there when they run, at the latest `Every` ticks after the last time (`InTurnBy`) while their
part works. So after midnight a day has no facts until the worker has run.

`UserDb` has a word for each class of fields the two parsers tell apart, lines as
sequences of words and files as sequences of lines. Cowrie's side is translated
from the docstring of `cowrie_userdb.py`, which has it line by line; the code's
side from the functions. `Build` and `FixUserDb` render, `WriteTmp` and `Rename`
install, `StartCowrie` is guarded by the gate.

### Abstractions

- Distinct positions hold distinct bytes, and a line that is spliced from two
  logs is not one of either: it is stored without a timestamp or a source.
- Time is in days. What the code compares by the second (the age of an event, of
  a file) may fall either way on the day in question.
- Each module has a bound on the days (`MaxDay`), after which only the clock
  stops; every other step goes on.
- `Collector` knows the pull by `SpoolMirror` alone. What it shows holds for any
  pull that implements it, and `LogPullProofs` proves that `pull.sh` does.

## Runs

| Run | Question | Bounds, and why they are enough |
|---|---|---|
| `pull_bytes` | Do dated copies stay prefixes and does the live copy keep every byte in its place, and does each step implement `SpoolMirror`? | two logs of up to three bytes, chunks of two: a chunk can be cut, a file can need two chunks, the new log can be longer or shorter than the copy |
| `pull_window` | Does the heartbeat mean completeness, is nothing that was pruned fetched again, and does an outage shorter than the window lose nothing? | six days, windows of three, the sensor keeps logs for longer than the collector, outages of every length up to the window |
| `pull_liveness` | Is a rotated log copied before it leaves the window? | two rotated logs, unboundedly many failures and kills |
| `pull_mirror` | Is the live copy byte-identical? **No**: see Findings | two days |
| `collect_lines` | Is an offset always the start of a line, with everything before it stored, and is every line of a dated copy stored in the end? | two logs with a line and a blank one over three days, prunes and crashes anywhere, no bound on the ingester's delay; a fair ingester that crashes any number of times |
| `collect_daily` | Is an event counted once, though its raw row is pruned while a copy remains? Do `sources` cover the raw events? | five days, two sources, raw events kept for two days and pulled for one, `IngestKeepsUp`, `PullKeepsUp` |
| `rollup_kept` | Can a rebuild take a counted event away, or bring a purged one back, and is each event counted before it ages out? | five days, raw retention four, two recent days; kills, backfills and untimed lines anywhere |
| `rollup_late` | The same for events that come late: **no** | events up to three days late |
| `session_kept` | Do the tables that outlive the raw events keep what they have, does the purge stay, and does what is derived from them agree with them? | see below |
| `session_whole` | Are sessions that cross midnight counted whole? **No** | the same |
| `submit` | Are quotas, uploads and records right, is only what is whole fetched, are claims and alarms true, and does the honeypot accept what was meant? | see below |
| `userdb_gate` | Does the gate stop every file that Cowrie could not load? **No** | files of one line with too many or too few fields |

Two runs hold several modules that share no state. A variable `component`, chosen in
the initial state, names the module that takes the steps, so the run has the sum and
not the product of their states, and each property is checked where its module moves
(`ClaimHolds` and `ComparisonIsFair` begin with the condition that their module has
moved, which saves TLC their evaluation in the steps of the others). The real parts
run one after the other in one worker, or do not touch each other's tables, so nothing
is lost. A property that a module names last is often the conjunction of parts named
before it, for example `StagesAgree` or `RankingIsSound`: a run checks the
conjunction, and a part can be put in its place to see which one fails. What each
brings:

| Run | Module | Bounds |
|---|---|---|
| `session_kept` | `SessionFacts` | seven days, raw retention six, three recent days, a day late at most; a session each day, one over a midnight, one of the operator |
| | `Sightings` | one sample transferred four times, uploaded, from a URL of the operator and from others; an empty file |
| | `Credentials` | one pair tried by two addresses on a day, one on the next, and the operator; a table that begins on day five |
| | `StageHistory` | four of the days, three of them recent, each with a session that is over by midnight: days without any run, runs that fail anywhere, the second half of a session late or in the middle of a run, three addresses, one of them the operator's and two without coordinates; a verdict that comes and goes |
| | `Families` | three vendors whose labels agree, differ or name two families |
| | `Spikes` | four days with counts of 1, 2, 5, 9, of which two still grow; one note a run |
| | `Networks` | six rows of five addresses in three networks and an unknown one; limits that cut |
| `submit` | `Submissions` | two samples, caps of two where a run wants three; a kill, a lost answer, midnight in a run |
| | `FetchSamples` | three hashes, one of them too large, a listing cut at two, a kill |
| | `Contributions` | one sample, four instants, slow calls, an upload by others, lost answers and as many more uploads of ours |
| | `Trends` | five days, periods of two, an outage of authentication of two days and one of everything, two personas and two samples, any two of these entered or seen at any time |
| | `Health` | ten ticks, five to a day, each stage once in a tick, in any order; one part that stops and may come back, limits of one and two, a window of three |
| | `UserDb` | a pair with each class of text on either side; each class of field in a line; two attempts or edits, one pair allowed |

`CHECK_DEADLOCK FALSE` is in the configurations because a behaviour ends when the
last day has come and everything is done.

What the passing runs assume beyond the code:

- `PullRetain <= SpoolRetain`: `pull.sh` and `prune.py` read one variable with
  different defaults (8 and 3). The units set both to 8. With the defaults
  `pull_window` would not hold, and the theorems have it as an assumption.
- `IngestKeepsUp` (`collect_daily` only): a pass ends between two midnights and
  between two runs of the pruner. A pass takes its place every 30 seconds, the
  pruner's every hour. Without it `RemovedWasIngested` fails: the pruner removes a
  copy by its age alone, though it logs "removed N ingested files", so an ingester
  that is down for the spool's retention loses what it has not read.
- `PullKeepsUp` (`collect_daily` only): the pull does not go on with a live copy of an
  earlier log once the events of that log are old enough to be pruned (30 days as
  deployed). Without it `CountedOnce` is false, though `ingest.py` says that re-pulls
  and offset resets never duplicate data: the live copy ends in front of a newline, so
  its last line is stored from the dated copy; the pull of the live name stands still
  until the row is pruned; then the copy is continued by a later log that has a newline
  at that very place, and the line is whole, new and counted again. TLC shows it with
  `PullKeepsUp = FALSE` and `RawRetain = 3` in `CollectDaily.cfg`. `PullRetain < RawRetain` (8 and 30) is
  asked for the same reason: a dated copy is not pulled anew when its rows may be gone.
- `Active` (`rollup_kept`, `session_kept`): others than the operator come every day.
  Without it `NothingTruncated` fails: after a silence of about the raw retention
  the last days with raw events are at the edge of the raw window, and
  `days_to_build` rebuilds them from what the age prune has left.
- `RawRetain >= RecentDays + MaxLate + 2`: the recent days are clear of the edge of
  the raw window. The real values are 30, 3 and at most 7.
- `NothingTruncated` leaves out the days `uncut`: `--backfill-all` leaves alone the
  oldest raw day as it is when the stage begins; when the pruner ends that day and
  begins the next in the middle of the backfill, the next one is rebuilt from what
  is left. A day that was already cut when the backfill began is safe.
- `EventIsCounted` speaks of behaviours in which an ordinary run succeeds every day
  (`run` is not `"missed"`).
- `FewCome`, `InTurn` and `FourDays` (`MCTables`), `OthersFew`, `FewEntries` and `OneStops` (`MCSite`) bound what
  comes, not what the code does.
- `PageAgrees` asks for every day in time (`onTime`): somebody came who was gone by
  midnight, a complete run began when all of the events of the days before had come,
  and no run failed after it that day. Without it a day can be left with stages of
  sessions that have moved away; what then still holds is `StagesAgree`, whose
  `LastDaysAgree` is about the last `RECENT_DAYS` days whatever was late or failed. Both speak of
  states after a complete run in which no exclusion has still to be purged (`Settled`).
- `LifetimeReachesDays` leaves out addresses with a session across a midnight
  (`OneDayIps`): such a row loses its first half (finding 3) and the lifetime stage with it.
- In `Health` the sensor and the page have one clock, and connections come in every tick while the
  sensor works, as the limits of `exec_view.py` assume ("the sensor sees thousands of connections a day").
- `UploadedOnce` allows one more upload for each lost answer and each kill. Such an
  upload leaves a row `error` or none, while the stored verdict `unknown` is fresh
  for a day, so the next run sends the sample again without asking.
- `CleanIsLiteral` speaks of the classes of fields of `Words`; a field of another
  class would have to be told apart by one of the two parsers.

What the modules show, besides the findings below, that a reader of the code or of its
comments may not expect:

- `submit_samples` gives known samples a row with `INSERT OR IGNORE`; a sample that has
  a row `skipped` or `error` keeps that one, although the comment of `_backfill_vt_known`
  speaks of every hash.
- A family that wins by a tie depends on which vendor was asked last.
- `asn.py` cuts to 200 networks by volume and sorts by depth afterwards
  (`ShellOutranksNoise` is about the networks that are left); the addresses without a
  number never reach depth 4.
- Between the rebuild of a day and the upgrade a page may read stage 3 for 4. A day
  keeps its 4 when the verdict is taken back, the lifetime row does not.
- Nothing rebuilds the stages of a day that has rows and is not recent. When the worker
  was away for two days, or the second half of a session comes that late, the session's row moves
  to its second day while the first day, by then too old, keeps its stage: it is deeper than
  the address's lifetime, and the legend counts a session the rail has on another day, for good.
- The docstring of `exec_view.py` has the outage days removed from both sides of a comparison. From four measures they
  are; `captured` counts samples last seen between the first and the last day that is left,
  the days of an outage in between included (`CapturedSpan`, `SampleCountsOnce`).
- When the answer to our first upload is lost, the stamp is that of a later one, and the page says
  "preceded" of a sample nobody else has uploaded (`AttributionIsRight` allows just that).
- From midnight until the first worker run of the day the banner warns while everything works. It
  does not see a pruner that has stopped, nor that authentication died until its window is over.
- A worker started by hand locks a file in the directory of the database, that of the
  unit one in `/run/threat-radar` (`intel_worker.py:59-65`), so they do not exclude each other; the models have one
  worker at a time.
- A source whose row in `sources` was pruned is in the list and not on the map.
- `comparability` says nothing when the sensor left a persona and returned to it.
- An event with a date in the future hides a sensor that has gone quiet; a worker that
  is dead for two days reads as "no events arrived".
- A sample that is too large, or cut at the limit, is fetched again in every run.
- `payload_daily` may count transfers that `payload_sightings` has not yet;
  `cred_pair_daily` keeps the counts of an address that was excluded later.
- `fingerprints._days_to_build` does not leave alone the oldest day as `days_to_build` does.

## Fairness

The temporal runs assume weak fairness of the component's own work, which its
timer or service starts again and again: `PullStep` (`radar-pull.timer`),
`Ingest` (`radar-ingest.service`, which systemd restarts), `Work` and the pruner's
removal of an untimed line (`radar-intel.timer`, `radar-prune.timer`). No progress
is asked of the sensor or the clock. `pull_liveness` asks strong fairness of each
file's success: requests fail any number of times, but the same file is not
refused at every attempt for ever. `rollup_kept` asks strong fairness of an ordinary
`Plan(FALSE)`: the runs of the timer are ordinary, and backfills by hand do not
take the place of all of them.

Kills and crashes must not go on for ever, or nothing is ever done; this is
stated as `<>[][Kill => PullStep]_vars`. A kill that does what a step of the
program does is that step: `<>[][~ Kill]_vars` would forbid the program to end a
run, and with that every property would hold of an empty set of behaviours. The
ingester's unit gives up after ten failures in ten minutes, so even this is an
assumption about operation: somebody starts it again.

## Proofs

There are 43 theorems in eight modules. Every theorem is proved for every value of the constants that satisfies the modules'
named assumptions. Where it needs more, the theorem says so:

| Theorem | States | Needs beyond the modules' assumptions |
|---|---|---|
| **`LogPullProofs`** | | |
| `Invariant`, `TypeCorrect` | `IInv`, `TypeOK` | |
| `DatedCopies`, `LiveCopy`, `CleanRun` | `DatedPrefix`, `LivePositions`, `CleanRunIsComplete` | |
| `NoRefetch` | `NeverFetchedAgain` | |
| `Outage` | `OutageLosesNothing` | `SensorKeepsWindow`, `[]ManifestFits` |
| `Refinement` | `LogPull` implements `SpoolMirror` | |
| **`CollectorProofs`** | | |
| `CollectorInvariant`, `CollectorTypes` | `CollectorInv`, `CollectorTypeOK` | |
| `OffsetsAreLineEnds`, `NoLineIsSkipped`, `SourcesAreCovered` | `OffsetOnBoundary`, `NothingSkipped`, `SourcesCoverRaw` | |
| `PassInvariant` | `PassInv` | `IngestKeepsUp` |
| `RemovedFilesWereIngested` | `RemovedWasIngested` | `IngestKeepsUp`, `SpoolRetain >= 2` |
| `EventsCountOnce` | `CountedOnce` | `IngestKeepsUp`, `PullKeepsUp`, `PullRetain < RawRetain` |
| **`RollupProofs`** | | |
| `RollupInvariant`, `CountedForEver` | `RollupInv`, `NothingTruncated` | `KeptFor` |
| `PurgedForEver` | `StaysPurged` | |
| **`TablesProofs`** | | |
| `SessionInvariant`, `RowsAreKept` | `SessionInv`, `SessionKept` | `KeptFor` |
| `SightingsInvariant`, `OriginIsOfOne`, `SightingsStay` | `SightingsInv`, `OriginIsFirst`, `SightingsKept` | |
| `ProvenanceIsLedger` | `Sightings` implements `Ledger` (`OnlyWidens`) | |
| `LifetimeIsKept` | `LifetimeIsFloor` | `KeptFor` |
| `PurgedStaysAway` | `PurgeIsFinal` | |
| `StageInvariant`, `StagesDoAgree` | `StageInv`, `StagesAgree` | `KeptFor` |
| `RankingDoesHold` | `RankingIsSound` | |
| `NotesAreKept`, `GrowingIsKept` | `NotesAreCurrent`, `GrowingStaysSpike` | |
| `FamilyIsKept` | `SameLabelsSameFamily` | |
| **`SubmissionsProofs`** | | |
| `SubmissionsInvariant` | `SubmitInv` | |
| `QuotaKept`, `NoSecondUpload`, `ClaimsHold` | `WithinQuota`, `UploadedOnce`, `ClaimsAreTrue` | |
| **`SiteProofs`** | | |
| `FetchInvariant`, `NonePassedOver`, `OnlyProvenIsStored` | `FetchInv`, `FetchedIsAll`, `StoredIsWhole` | |
| `HealthDoesHold` | `HealthIsHonest` | `LimitsFit` |
| `ClaimDoesHold` | `ClaimHolds` | `MaxCall <= Tolerance` |
| `ComparisonDoesHold` | `ComparisonIsFair` | |
| `RulesDoMatch`, `TopPairsAreAllowed` | `RulesMatchCowrie`, `AllowsTheTopPairs` | |

What these hypotheses say of the deployment:

- `SensorKeepsWindow`: the sensor's age rule, not its size cap, decides what it keeps,
  and it keeps logs for as long as the pull asks for them (7 days of `-mtime` against a
  window of 8 names). `ManifestFits`: `MAX_FILES` (64) does not cut the manifest. Where
  either fails the sensor drops what an outage left behind, and no pull can help it.
- `IngestKeepsUp`, `PullKeepsUp`, `Active`: see above. `KeptFor` is `Active` and `RawRetain >=
  RecentDays + MaxLate + 2`. Deployed: 30 against 3 + 7 + 2.
- `SpoolRetain >= 2`: with one day a copy written before midnight may go before a pass
  of the new day has begun. Deployed: 8.
- `MaxCall <= Tolerance`: an upload call ends before the time between VirusTotal's date and our
  stamp would make the upload look like somebody else's. Deployed: a timeout of 20 seconds against `FIRST_TOLERANCE_S`, 15 minutes.
- `LimitsFit`: the limits of `exec_view.py` leave each stage the time it takes. Deployed: a pull every
  2 minutes, a pass every 30 seconds and a worker run every 30 minutes against limits of 15, 60, 120
  and 180 minutes, a window of 6 hours and a day of 24.
- `TrendsAssumption`: `"stock"` is what the model calls a sensor without a persona, so no
  persona has that name. `OffersAreTexts`: what was sprayed is of the classes of `Texts`.
- `FamiliesAssumption`: a label has each token once, as `tokens` returns it.
- Of the operator's addresses, `CredentialsAssumption` says that an address is the
  operator's in all of its logins or in none, as the table of exclusions has it.

### The arguments

None of the properties is inductive. Each proof has one lemma for an action, and under
it a step for each part of the invariant that the action can disturb.

`LogPull`. `DatedPrefix` needs that the bytes in
flight are the next ones of the log (`ChunkFits`), which needs that the manifest's
size of a dated log is its final one (`RunOrder`), which needs that logs rotate in
order (`LogOrder`). `NeverFetchedAgain` needs that a copy was written no earlier
than its window allows, hence does not expire while a run may still ask for it
(`WrittenLater`, where `PullRetain <= SpoolRetain` comes in). `CleanRunIsComplete`
needs what a clean run has dealt with so far (`PassedIsCopied`). `IInv` is the
conjunction; TLC checks it in `pull_bytes`. `OutageLosesNothing` needs besides that the
sensor still has what the window covers (`SensorHas`), that the run in hand was offered all
of that (`RunListed`), and that what a clean run copied stays whole (`OutageInv`).

`Collector` knows the pull only by `SpoolMirror`, so these theorems and `Refinement` together
are about the two programs side by side. `CollectorInv` says of a dated name that its
offset, and the place the ingester holds for it, is the end of a line and not beyond
the copy, unless the copy is gone for good (`Place`), and that everything before it is stored,
in the batch, or old (`StoredTo`); of a source, that its row covers its events
(`RowsAreGood`). `process_file` holds a place over steps of the others: it stays good because a
dated copy only grows, or goes and never comes back.

`RemovedWasIngested` needs to know what a pass that began after midnight has read, file by
file (`DayIsRead`): a copy that was last written before today is still in the pass's list,
in hand, or read. `CountedOnce` is the longest proof, since a line can be read twice from
the live copy and the dated one, and from a file that is read again from its start, and
its row may be pruned in between. `LiveInv` says in which order the live copy has bytes of
logs, which of their lines a pass has behind it, and that a line stored before there
was a dated copy is still there. When the row of an
event is pruned, the event is `Settled`: its dated copy is read to the end or gone for
good, and the live copy either has no line of that log to be read any more or is read
past the start of this one.
`CountInv` then counts: a source's count is at most the number of its events that are
stored or settled, and a commit counts only events that are neither.

`Rollup`, `SessionFacts`, `Credentials` rest on two facts of the raw table: the pruner
takes the oldest first, so only the oldest day can be cut (`OldestGoFirst`), and when
somebody comes every day the newest day is near (`NewestIsNear`). With `WindowIsWide` a
day that is built again is therefore recent, and all of it is still there (`RebuiltIsThere`,
`RowIsRecent`, `DaysAreRecent`), over the one midnight a run may see; `--backfill-all` leaves
out the one day that may be cut.

`Sightings`: a row of `sample_provenance` takes its first instant and its origin from one
transfer (`IsEntry`), since the earlier of two firsts is one of them; and each `RecordProvenance` widens. `PurgeIsFinal` needs that
after a purge a table is filled only from events that are not the operator's.

`Submissions`: `SubmitInv` has what each step of a stage may count on, that a day's requests
and the budget left make at most the cap (`Quota`), that what is still to be sent was not
sent (`NotYetSent`), and an account of each upload: a record, an answer in hand, a lost
answer or a kill (`Accounted`). `FetchSamples`: the entries a run has been through and has not
brought are at most those it counted as bad (`Tallied`).

`StageHistory`: `StageInv` says that a day's stages are those of the rows it was made of
(`DayIsCounted`), that each of these sessions has a row somewhere still, one of a single day with no less in it
(`CountedAreRows`, where `RowsAreKept`'s `KeptFor` comes in), that the lifetime stages of a run are those of
its rows, and that after a complete run a verdict is in every day. It says nothing of where the rows
are now. For that `LastInv` adds what a run has done so far: once it has built a day, no session
that was counted on a recent day has its row on an earlier one (`BuiltPast`), so the rows of recent days only
move onto days the same run still has before it; and the recent days it has derived are made of the rows
that are on them now (`LastIsDerived`), which stays so, since rows change only in the next
run. The last `RECENT_DAYS` days of the page are then counts of one set of sessions. On a day that is
no longer recent a moved row leaves its stage behind, so over longer windows the page agrees only if
every day was in time, which TLC checks (`PageAgrees`).

`Families`: a vendor has one row (`OneRowEach`), because an answer takes out the earlier one.
What a rebuild reads off the sequence is then a function of the set of labels, but for ties
(`SaidVotes`: votes counted over rows and over labels are equal), and the family that is stored
is one of those that led in the labels it was derived from (`FamInv`).

`Spikes`: the baseline of a day is the days before it, so a day that grows moves no limit of its
own. `Networks`: the depth and class of a network are bounded by the rows and verdicts that the
ranking is made of, whatever they are.

`Health`: a stage whose part works ran no longer ago than `Every`, or than the part came back (`OnTime`);
what it passed on is as old as what the stage before it had (`PassedOn`), so the ages add up along the
pipeline, and the facts are at most `Delay` behind. What the page shows follows by comparing these with
the limits. `Contributions`: all snapshots have one first date, that of the earlier of two uploads, ours being the
first one VirusTotal took; as long as no answer was lost that is the one that is stamped (`ContribInv`).
So a verdict once given is not taken back.
`Trends`: a total is the number of copies of the days it counts (`TotalsAreCounts`), so one day's
change moves it by just that; a steady rate makes equal totals of equal numbers of days. The captured
samples of a side are those whose last day lies between two of its days, so moving one day of
one sample changes the count by at most one.

`UserDb`: the gate's findings and Cowrie's rules are compared word by word for any file at all
(`RulesDoMatch`). For what is generated, each line is one pair and the deny lines come
first where root is not allowed, and no pair is of root then (`IsListing`); `UserInv` says
that the live file, the temporary one and the one in hand each belong to the pairs they were made
for, so a kill between rendering and renaming leaves a file that was right.

`Extrema` has what `Min` and `Max` of a set of numbers are, from the library's theorem about
minimal elements of a well-founded relation. A sum over a finite set is the number of
copies of its elements (`SumIsCount`): of the sets for which it were not, one would be
smallest, and it is none. Sequences that are flattened line by line are found by exhibiting the
function the fold must be. No induction with an operator is needed.

### What is only model-checked

- Liveness (`EventIsCounted`, `LineIsStored`, `RotatedLogIsCopied`): fairness and
  `ENABLED` are out of the prover's reach.
- `PageAgrees`: its theorem would have to follow, over several runs, a session whose row moves while
  its first day grows too old. Its last `RECENT_DAYS` days are proved, without its
  condition `onTime`, as a part of `StagesAgree`. Every other property of a passing run is stated by a theorem.
- The findings, which are counterexamples.
- What the code does outside the hypotheses above, for example with `MaxCall > Tolerance` or
  an ingester that does not keep up: there the properties fail, as said under Runs.

## Findings

Each is a run that ends in a counterexample against a line of the repository.

1. `pull_mirror`: after an outage over midnight the new live log is appended to the
   copy of the old one, if it is at least as long. `tests/test_pull_protocol.py`
   speaks of byte-identical copies. The dated copy is right in the end.
2. `rollup_late`: the unit of the pruner says an outage of up to a week can be
   recovered. The logs are, but a day that has rows is rebuilt only while it is
   one of the `RECENT_DAYS`, so what an outage of more than three days left of its
   first day is ingested and never counted.
3. `session_whole`: a session that crosses midnight is not counted whole: when the
   second day is built its row is overwritten by the second day's half.
4. `userdb_gate`: the gate is said to refuse a file that would fail to load. A line
   with a fourth field is a warning before its password or its patterns are looked
   at, and Cowrie, which takes the third field, fails on it. The same check looks at no
   password behind a login that is a pattern, and at no pattern in a deny rule.

## Not modelled, and why

- The ssh gate and the allowlist of names of the log server, the units' hardening and
  the installation scripts: configuration without run-time state.
- `MAX_FILES` cuts the manifest by name; it is modelled, but the runs leave it at
  the number of logs, since beyond it the newest logs are not copied at all.
- VACUUM changes no row. `prune_rollups` deletes from eleven derived tables
  (`prune.py:195-200`) what is older than `ROLLUP_RETAIN_DAYS` (a year by default, a century as deployed), and with them
  what lifetime counts are derived from; `LifetimeIsFloor` is about behaviours
  before that.
- The purge's delete from `sources`: the ingester fills the row again with the next event.
- `build_tunnels` has the shape of `build_facts`, `hassh_ip_daily` that of
  `cred_ip_daily`; they would repeat `Rollup` and `Credentials` with other columns.
  `fingerprints.rebuild` does too, but for the rule named above.
- Columns, labels and text of the fact tables: queries of the sets modelled here.
- `db.TsExpr` for epoch timestamps: the schema stores ISO text.
- `--only`, `--no-network`, `--dry-run-submit`: a run with fewer stages.
- VirusTotal lookups of URLs and hosts, and URLhaus: the same cache and quota with
  no submission behind them.
- `enrich.py`: one lookup and one update for a source; its two spellings of a network
  are an input of `Networks`.
- The other pages of the read side (funnel, overview, lists of sessions, entities,
  cards, search, export): one query and its layout each, with no state and no decision
  that a later step depends on. What decides something is in `StageHistory`, `Networks`,
  `Families`, `Spikes`, `Trends`, `Health` and `Contributions`.
- Inspection of samples in `sessions.py` (entropy, packer, strings, defanged text):
  functions of bytes, which a model of classes of bytes would only restate.
- The web application and the dashboard: stateless handlers and presentation.

## Plan

Modules of one shape share a run: a new one is added to `MCTables` or `MCSite` as a
`component` rather than as a run of its own.

Done: the modules above, and a theorem for each of their safety and action properties but `PageAgrees`. Left,
in this order:

1. `prune_rollups` together with the tables it cuts: what the lifetime counts mean once the
   days they are derived from are gone.
2. `fingerprints.rebuild`, with its own rule for the oldest day.
3. The limits of the lists that cut by one order and show another (`asn.py` has it in
   `Networks`), for the pages that are not modelled.
