# Verification of DashDashGo

DashDashGo downloads reports from dashboards (Metabase) with a browser, cleans
them, and loads them into ClickHouse tables, on a schedule, on request of an
API, or from a command line. This directory holds TLA+ models of its core, the
TLC configurations that check them, and proofs checked by TLAPS.

All paths below are relative to `src/src/dashdashgo/` unless they start
otherwise. `PROJECT.json` maps every definition to the lines it stands for.

## 1. Inventory

| Component | State it keeps | Operations | Talks to |
|---|---|---|---|
| Run service, report lock (`orchestration/runner.py`) | `_active` names per server process; one flock per report, shared by all processes; a thread pool | `submit`, `run_now`, `_execute`, `shutdown` | orchestrator, run records |
| Run records and recovery (`metadata/`, `distribution/app.py`) | rows of `pipeline_runs` and `pipeline_stage_events`, newest version wins | `start`, `stage`, `succeed`, `skip`, `fail`, `latest_load`, `mark_interrupted` | ClickHouse |
| Orchestrator (`orchestration/pipeline.py`, `context.py`) | the run in progress | config, preflight, acquisition, parse, transform, quality, dedup, load, verify, rollback | all of the below |
| Acquisition (`acquisition/`) | browser, trace, files of an attempt | login, open report, filters, download, validate; evidence; retry | dashboard, storage |
| Ingestion (`ingestion/`) | none | read, transform, coerce, evaluate quality | - |
| Warehouse (`warehouse/`) | destination table, ClickHouse's insert tokens | prepare, load, verify, delete of a run | ClickHouse |
| Storage (`storage/`) | artifacts by area, report, date and run | put, writer, read, list, prune | files |
| Run views and log follower (`distribution/views.py`, `cli/runs.py`) | none | timeline, artifact list, log, `logs --follow` | run records, storage |
| Config store (`config/store.py`) | one YAML file per report, history, archive, seeding manifest, `_write_lock` | read, save, create, archive, seed | files |
| Config loader, models, policy (`config/`) | none | interpolate, override, validate, load_all | files, environment |
| Scheduler (`scheduling/`) | `_schedules`, APScheduler job store, `_sync_lock` | start, sync, fire, prune | run service, config loader, storage |
| Config API, command line (`distribution/config_api.py`, `cli/`) | none | edit, create, archive, run, retry | store, scheduler, run service |
| AI assistant (`ai/`, `distribution/ai_api.py`) | none | diagnose, draft, with fallback over models | provider, run records, storage, config loader |
| Web UI, security, formatting, warehouse reader, demo data | none that others read | rendering, queries | - |

What is hard in this system:

* **Processes without a common lock manager.** A server and command-line
  processes share only lock files, config files and ClickHouse. Threads of a
  server share more. Any of them may be killed.
* **A warehouse without transactions.** A load is a sequence of inserts, each of
  which may fail, succeed without an answer, or be retried; a rollback is a
  DELETE; readers see the newest version of each key.
* **Recovery.** A restarted server must fail the runs that died with its
  predecessor and leave alone what runs elsewhere.
* **Cached views.** The scheduler's jobs mirror files that others change.
* **Two writers of one story.** A run's record, its stage rows, its log and its
  evidence are written one after the other, some of the writes may get lost, and
  readers put them together while this happens. Retention deletes by date.
* **A provider that may say anything.** Models time out, refuse or answer
  garbage; what they suggest is applied to configs with protected settings.
* **Cleanup on every path.** An acquisition attempt can fail at any step, and
  the error decides what happens next while browser, trace and evidence are
  being dealt with.
* **Numeric and positional edges** in coercion, quality and transforms.

What makes each component correct:

* run service: at most one run of a report; a report never stays blocked; every
  accepted run gets over and is on record;
* run records: what a timeline showed as done it never takes back; an ended run
  has nothing running; the blame falls on the stage that failed; what was stored
  is looked for where it is; a follower misses nothing, and a diagnosis sees what
  the failed run left;
* recovery: marked runs are over, nothing of the server stays RUNNING, a
  terminal status is final;
* loads: once a load has ended, all of it is there or nothing; verified means
  exact; the latest successful load is what the table shows;
* acquisition: the report is what was asked for; no password in a trace; a
  rejected password is not tried again; nothing stays open; it ends;
* config store: no lost update, an edit can be rolled back, an archived report
  stays archived;
* scheduler: once quiet, the jobs are those of the files;
* algorithms: no row and no value is lost, invented or changed silently;
* configs: an override is an edit, a variable that is not allowed has no say, a
  table that cannot be made is refused before a run;
* assistant: models are asked in order, suggestions leave protected settings
  alone, a draft comes with its own problems.

## 2. Modules

    Runner          run service, flock, run record, recovery, shutdown
      RunnerProofs
    RunRecords      one run's stages, rows, artifacts, and their readers
      RunRecordsProofs
    LoadPipeline    dedup, load, verify, rollback of successive runs
      AtomicLoad      what readers are promised; LoadPipeline implements it
      LoadPipelineProofs
    Acquisition     attempts, steps, filters, evidence, cleanup, retry
      AcquisitionProofs
    ConfigStore     one config file, its editors, seeding
      ConfigStoreProofs
    Scheduler       sync of jobs with files
      SchedulerProofs
    Coercion, Quality, Transforms, Flattening, Expressions, Cron,
    ConfigPolicy, ConfigText, ReportModel, Assistant, Positions
                    pure algorithms, as operators
      Algorithms        the algorithms on given inputs, with their invariants
        IngestionProofs   of Coercion, Quality, Transforms, Positions
        AlgorithmProofs   of the others and of Algorithms
    MCRunner, MCRunRecords, MCLoadPipeline, MCAcquisition, MCConfigStore,
    MCScheduler, MCAlgorithms
                    values and inputs for TLC

The modules meet at these places: `LoadPipeline` takes from `Runner` that the
runs of a report exclude each other; a stage that `RunRecords` begins and ends is
an acquisition of `Acquisition` or a load of `LoadPipeline`, of which it keeps only
whether it ended well; `Scheduler` fires what `Runner` calls `Submit`, and its
`prune` job is `RunRecords!Prune`; a diagnosis takes its evidence in `RunRecords`,
is answered in `Assistant`, and its changes are vetted in `ConfigText`.

### Runner

One variable per piece of state: `active[s]` is `RunService._active` of server `s`,
`holder[r]` the run whose flock is held on report `r`'s lock file, `record[run]` the
newest row of the run, `toMark[s]` the rows `mark_interrupted` has read and not
rewritten yet. `pc[run]` says where a run is in `submit`/`run_now`/`_execute`.
`TakeLock` is the non-blocking `flock`, `RecordRefusal` the branch for
`ConcurrentRunError`, `LockFails` the lock file that cannot be made or opened (an
`OSError`, which `_execute` does not catch: the claim is dropped and the record stays as
it is), `Return` the `finally` that drops the claim. The run record is written by
actions that succeed or, when ClickHouse is down, leave the old row (`TryWrite`:
`RunTracker._persist` logs and goes on; `submit` on the other hand gives up). Servers
start, mark, serve, shut down (`shutdown(wait=False)` leaves worker threads running) and
are killed; the operating system drops the flocks of the dead. `silent` is the set of
runs whose row is older than `STALE_AFTER`.

What a run does between `Start` and `Finish` is the subject of `RunRecords` and
`LoadPipeline`.

### RunRecords

One run from its QUEUED record on; every row and every key carries the run's id,
so runs do not meet here. `open` is the stack of `with tracker.stage` blocks (a
stage, and inside the acquisition a step), `place`, `attempt` and `step` count
what is behind. `run` is the record in memory and `row` the newest one ClickHouse
took; `stageRow` the newest row of each stage and attempt. `Persist` is
`RunTracker._persist`: each write is taken or forgotten. `Begin`, `End` and `Fail` enter a
block and leave it normally or by an exception, with what the stage stores on the way.
`Interrupt` is a `BaseException`, which unwinds the open blocks one by one.
`InterruptBegin` and `InterruptLeave` are the same while `RunTracker.stage` writes the
row it begins or ends with, which nothing in the block protects: such rows are in `cut`.
`Skip` is for the stages after a duplicate, `Kill` and `Mark` a killed process and
`mark_interrupted`. `disk` holds names with the date partition they went to:
writers take the date of the QUEUED record (`RunContext`), readers that of the
row, which `Start` rewrites. `Prune` deletes expired partitions area by area and
may stop after any of them. `FollowFetch` and `FollowPrint` are the two halves of
the loop of `logs --follow`; `Diagnose` is given what
`Gathered` finds: the log, and the first page and the rejected rows in "failures"
(screenshots are stored in "screenshots"). `Shown` is the status `build_timeline` gives
a stage.

### LoadPipeline and AtomicLoad

The runs of one report exclude each other (`OneRunPerReport`), so they are
numbered in order. A dataset is a sequence of batches `<<key group, value>>`;
`rows[r][b]` counts the copies of batch `b` of run `r` in the table, `tokens` are
the deduplication tokens the table remembers. Readers see, for each key, the
value of the newest run that has rows for it (ReplacingMergeTree, FINAL).
Inserts are rejected, land, or land without an answer; attempts are repeated by
`call_with_retry`. `Faults` chooses which failures an instance has.
`AtomicLoad` has only the table readers see, what it was before the load under way, and
the results. While a load is under way, some of its batches may show (`Appear`); it ends
with all of its keys replaced (`Load`), or with the table as it was before (`Undo`), or a
run finds its data there (`Skip`). The refinement maps the table to `Visible`, what
`SELECT ... FINAL` shows at any moment.

### Acquisition

`pc` walks through launch, login, trace, navigate, filters (with `fallback`,
`results` and `verify`), download, validate, and out through capture, finish
(trace), close, store or decide. `error` is the exception on its way out; every
step can fail with each kind of error its code can raise. `page` is what the
URL of the dashboard shows for the configured filters, chosen by the
environment; `via` tells a widget trial from a final setting. `trace` is the set
of steps that a running trace has recorded.

### ConfigStore

Editors are request threads (sharing a `_write_lock`) or command-line processes (each
with its own). `Compare`, `Snapshot`, `WriteTmp`, `Replace` are the steps of `save`;
`LookFor` and the same writes those of `create`. `Answer` reads the file again for the
answer, under the lock in a save and after it in a creation, which may therefore be
answered with the version of another thread, or with an error. `Move` is the rename of
`archive`, which takes no lock. Seeding is `StartServer`, `SeedFile`, `RecordSeeded` or
`SeedFails`. Texts are members of a small set; whether a text validates is the choice of
that set.

### Scheduler

A sync is `Enter` (lock), `List`, one `Read` per file, `AllRead`, `ApplyJob` per
difference, `Leave`. Files may change between any two of these. `ApiChange` is a
handler that changes a file and then syncs; `OutsideChange` is anybody else.

### Coercion, Quality, Transforms, Expressions, Cron

Operators that translate the functions of the same names, each next to a
reference definition of what it should compute. Numbers are integers in units
of the last digit; integer columns have few bits; a frame is a sequence of
rows; days are counted from the epoch.
`Positions` has the selections both pandas and the assistant make: the positions
that pass a test, in order.
`Quality` takes what `Coercion` made of a frame, as the quality stage does.
`Coercion` has numbers and dates, and what becomes of a frame. A number may have more
digits than Python's decimal context, in which case `quantize` raises an error that ends
the run. `Transforms` has pivot (without aggregate, or with the first or last value),
drop_duplicates, filter_rows and the steps that name columns; a column name is its words
and its style, so that two names may become one (`Loadable`: the coercion of such a frame
fails).

Trees are flat data here, so that no definition recurs over them. An object of
`Flattening` says what stands at each of its places, `<<2, 1>>` being the first member
of the second; `_flatten_value` assigns what stands where it does not look further
(`Assigned`), under the keys on the way (`Name`). A parsed expression of `Expressions`
is the sequence of its nodes, operands before operators: `Interpret` computes their
values one after the other, with missing cells, text cells, chains of comparisons and
columns that use earlier ones. What the code would not evaluate, the rest of a chain
that has failed, has a value here that nobody reads.

### ConfigPolicy, ConfigText, ReportModel, Assistant

`ConfigText` treats a raw config as what stands at each path of keys: a mapping, or
a scalar, which is a sequence of literals and `${NAME:-default}` references (a list
counts as a scalar: no path leads into it);
`ConfigPolicy` sees only the scalars with their paths. An override walks to its last
key, making mappings where there is nothing (`Walked`), and puts its value there
(`Replaced`). `ApplyOverrides`, `Validate` (of the policy) and `Load` are the path from
file to config with the order of its refusals (denied variables, missing ones, the
models, host, name), `VetOverrides` what becomes of the changes
an assistant suggests. `ReportModel` has the checks of a destination
in `config/models.py` and `columns.py` on one side, and on the other what a warehouse has
against the table that is made of it: columns of one name, a key of nullable columns,
types it does not have (`InWarehouse`, by what `columns.py:78` says of ClickHouse), a
partition expression over other columns. In `Assistant`, `answers[m][k]` is what the k-th
call to the m-th model would give; `CompleteJson` says who is asked how often and
whose answer counts, `Drafted` how a first draft is repaired, `DiagnoseResponse`
and `DraftResponse` which status the endpoints answer.

`Algorithms` makes a specification of all this: a behaviour picks one of the
`Inputs` of one algorithm, and each invariant compares what the algorithm makes of
it with what it should. `InputsAssumption` says what inputs there can be: reports of
any rows, expressions and objects of any depth, configs of any columns, any answers of
any models. `MCAlgorithms` gives finitely many.

## 3. What the runs check

| Run | Shows | Instance |
|---|---|---|
| `runner_safe` | mutual exclusion of runs, exclusive claims, no blocked report, refusals are genuine, returned runs are recorded, only dead runs are marked, terminal statuses stay | 1 server, 3 runs from it or the command line, 2 reports, 2 workers, 1 stop, 1 outage |
| `runner_live` | every run gets over, nothing stays RUNNING, a restart leaves nothing unfinished | 2 runs of 2 reports or of one, 1 worker, 2 stops |
| `records_story` | a timeline only moves forward, ended ones are settled, blame is right, followers and diagnoses miss nothing | 4 stages (acquisition with 1 step, quality, dedup, load), 2 attempts, 3 days, retention of 1, 1 lost write |
| `records_midnight` (violated) | a run that starts after midnight keeps its log where nobody looks | the same stages, 2 days |
| `load_retry` | failed runs leave nothing, successful loads are visible, `AtomicLoad` is implemented, runs end | 3 runs over 3 overlapping datasets, 2 attempts |
| `load_faults` | a load with a missing or doubled batch never passes `verify` | 2 runs, all faults but failing queries, a window of one token |
| `load_interrupt` (violated) | an interrupted load leaves rows | 2 runs |
| `store_edits` | no lost update, a save is answered with its own version, no text is lost but the oldest of a full history, archived stays archived, requests end | 2 editors in one process or two, 3 texts, 3 operations, 2 starts, a history of 1 |
| `store_archive` (violated) | an archive in the middle of a save is undone | 2 editors |
| `schedule_sync` | jobs follow the files, whoever changes them; edits that can be decoded take effect | 2 reports, 1 handler and the timer, 2 changes |
| `algorithms_inputs` | eight invariants: the algorithms agree with their reference definitions | 705 513 inputs |
| `acquire_attempts` | the report is what was asked for; no password in a trace; no second rejection; nothing left open; it ends | 3 attempts, all modes, all errors at all steps |

Type correctness is in no configuration: it is proved. Each property of a passing run
has a mutant: a small change of one mapped definition, kept next to it and marked
`Mutant`, under which TLC finds the property violated.

### Why the bounds are enough

* Mutual exclusion and claims are about two runs and one report; a third run and
  a second report let a claim on one be confused with a claim on the other, a
  second worker lets two runs of a server execute at once, one stop and one
  outage reach every failure branch. The theorems hold without these bounds. For
  liveness, runs of two reports share one worker, so that one waits for it while the
  other ends in each of the ways a run can.
* In `LoadPipeline` the X, Y, X pattern needs three runs and two datasets, the
  overlapping dataset makes keys survive from an older run, two attempts make
  one retry. A window of one token makes the first token of a load be forgotten
  before its retry.
* An acquisition's attempts are alike: three give a first, a middle and a last.
* Two editors, one base text and one other are what a lost update needs; three
  operations let an archive or creation come between. A third text and a history of
  one let a snapshot drop a text that is nowhere else.
* In `RunRecords` the four stages are those with behaviour of their own: one
  with steps and attempts, one that leaves evidence when it ends and when it
  fails, the one after which stages are skipped, and the last. Two attempts
  repeat a stage once. Three days let retention expire what the first one stored,
  and a midnight pass between queueing and starting. One lost write makes each
  pair of rows disagree once.
* The algorithms are checked on frames of up to three rows (two duplicates and
  another row), numbers around every limit of columns of up to three digits and
  four bits, days around the limits of both date types, objects of up to three
  levels, one more than `max_depth`, with paths that join to one name, day-of-week fields of one or two items, expressions of up to
  three operands with and without missing cells, configs with a reference of each
  kind and up to two changes, destinations of up to two columns in all wrappers and
  with a partition expression over any of them, three models asked twice, and drafts
  with one repair.

### Fairness

* `Runner`: weak fairness of each run's thread and each server's own steps. A
  stopped server is started again, which `src/docker-compose.yml:134`
  (`restart: unless-stopped`) provides. Nothing makes anybody ask for a run.
* `RunRecords` has no liveness property and states none.
* `LoadPipeline`, `Acquisition`: the run's thread goes on. Every wait of the
  browser and every query has a timeout, which is a step here.
* `ConfigStore`: request threads go on. Strong fairness is not needed: a lock
  holder never waits, and a behaviour has finitely many operations, so nobody is
  overtaken for ever.
* `Scheduler`: strong fairness of sync steps, as threads compete for
  `_sync_lock` again and again; the periodic job fires (weak fairness).

`CHECK_DEADLOCK FALSE` is set where behaviours end: all runs asked for, all
requests answered, one acquisition over.

## 4. What is proved

`RunnerProofs` proves of `Runner`, for any numbers of servers, runs, reports,
workers, stops and outages:

* `TypeCorrect`: `Spec => []TypeOK`;
* `InductiveInvariant`: `Spec => []IInv`;
* `MutualExclusion`: at most one run of a report is inside the orchestrator;
* `ExclusiveClaims`: a claim belongs to exactly one live run;
* `NoBlockedReport`: a server process holds no claim without a live run;
* `RefusalIsGenuine`: a server's run finds the lock busy only if a run of
  another process has it;

and, for one server process (`OneServer`, see section 6):

* `RecordsWhatReturned`: what a run returned is on record, if no write was lost;
* `MarksOnlyTheDead`: a recovery marks only runs that execute nowhere;
* `TerminalStays`: a terminal status is never overwritten.

Mutual exclusion alone is not inductive: nothing in it says that the run inside
is the one the lock table names. `LockTable` does (a run is inside exactly if it
holds the flock of its report). `NoReportStaysBlocked` needs to know that a run
that has not begun holds no claim (`NoEarlyClaims`). `IInv` is the conjunction of
`TypeOK`, `LockTable`, `ClaimsAreExclusive`, `NoEarlyClaims` and
`NoReportStaysBlocked`; each has a lemma with one step per action. The other three
need `RecordInv`: what each row is at each place of its run (`RecordOf`), and that
what a server has read and will mark was dead when it started and stays so.
The only assumption is `RunnerAssumption`: the markers `Cli` and `NoRun` are no
members of the sets they mark, and the bounds are naturals. TLC evaluates it.

`AcquisitionProofs` proves of `Acquisition`, for any number of attempts and any
set of filter and trace modes:

* `AcquisitionTypeCorrect` and `AcquisitionInvariant`: `Spec => []TypeOK`, `[]IInv`;
* `ReturnsWhatWasAsked`: a report that is returned came from a page that showed
  the configured filters, in the attempt that returned;
* `AvoidsLockout`: credentials are rejected at most once;
* `TracesKeepSecrets`: no stored trace covers a login;
* `ClosesEverything`: between attempts and at the end no browser or trace is open.

None of the four properties is inductive. The return of a report knows nothing
of the filters, so `Progress` carries from place to place what is known of page
and file (past the checks without an error: filters as wanted, file good; before
the end: nothing in raw storage). `TraceScope` says where a trace may run at all,
`BrowserScope` the same of the browser, and `Rejected` that a rejected login is
on its way out with an error that is not retryable, even if the failing storage
of the trace replaced it. Even `TypeOK` needs `Progress`: that an acquisition
that gives up has an error to report. The only assumption is
`AcquisitionAssumption`.

`RunRecordsProofs` proves of `RunRecords`, for any stages and steps, any numbers of
attempts, days and lost writes, and any retention:

* `TypeCorrect`;
* `Followed` (`FollowersSeeTheStory`) and `Diagnosed` (`DiagnosesSeeTheEvidence`).

`TypeOK` needs `Inside`: that the stack and the counters stay within the lists. The two
properties are inductive only with `Dates` (the date of the row moves once, before the
first stage), `Ends` (a row that says the run is over is written when nothing is left to
store but the last line and the summary), `Logged`, `Held` and `Found` (what is on disk
was stored once, and what was stored is there until retention may take it) and `Readers`
(what a reader knows once it has read the row stays true while it reads the files).
`LiveStep` and `DoneStep` state what a step before and after the end does, once for all
actions. The assumption is `RecordsAssumption`: stages and steps are lists of different
names, none in both and none empty, and an acquisition comes before the deduplication,
as in `pipeline.py`.

Its second part proves, on top of that and under the same assumption:

* `MovesForward` (`TimelineMovesForward`), whatever writes of rows get lost;
* `Settles` (`EndedTimelinesAreSettled`) and `BlamesRight` (`BlameIsRight`), which
  are about histories in which no write was lost (`lost = 0`).

What the timeline shows depends on the run's row and on every stage row at once, so
none of them is inductive. `Story` is the invariant. `Ahead`: the open blocks are
the stage in turn and its step, nothing is recorded of stages, steps and attempts
that have not come up, and no end of the open ones, so that the row of an ended block
is never rewritten. `Running`: only open blocks have a RUNNING row, and those whose end
an interrupt cut off (`cut`). `Headed`: the stages before the one the run names
succeeded, those after it were not tried. `Saved`: the row ClickHouse has is the record
in memory. `Fell`: a run that fell by itself is in a stage whose row says FAILED. The
last four hold while no write was lost, `Ahead` always.

`LoadPipelineProofs` proves, for any number of runs, batches and attempts, any
datasets and any token window:

* `TypeCorrect`, for any faults;
* `VerificationIsExact` (`VerifiedLoadsAreExact`), for any faults: the code compares
  one total (`rows_for_run`), which a missing batch and a doubled one together would
  satisfy. They never meet, because a load that reaches the verification has put every
  batch at least once. This is `PutInv`: a batch behind the load is in the table
  (`Complete`), and a token that is remembered has its batch there (`Known`), which
  also covers a repeated insert that ClickHouse drops. `Found`, the total, counts the
  pairs of a batch and a copy, so that it is exact only if each batch has one copy;
* `LeavesNothing` (`FailedRunsLeaveNothing`) under `RolledBack`: no kill, no interrupt,
  no failing DELETE and no late insert. Lost answers, rejected inserts, failing
  queries, lost records and merges are allowed. The invariant is `OnlyLoads`: only the
  run that is loading and runs that succeeded have rows. `load_interrupt` shows why
  interrupts are excluded;
* `OkMeansVisible` (`OkRunsAreVisible`) and `LoadsAreAtomic` (`IsAtomic`, the refinement
  of `AtomicLoad`) under `Undisturbed`: `RolledBack`, no background merge and no lost
  record. A merge may delete what a later rollback would have to bring back, and after
  a lost SUCCESS record `latest_load` compares with an older load (section 6). The
  remaining faults are those of `load_retry`. `AtomicInv` adds to `PutInv` and
  `OnlyLoads` that the runs recorded as loaded are those that succeeded, and that all
  their batches are in the table (`Recorded`). A load begins with `Proceed`,
  `Promise!Start`; an insert makes one batch show (`Promise!Appear`) or, repeated, is a
  stutter; `Verify` is `Promise!Load`, the rollback `Promise!Undo`. During a load readers
  see its batches that have landed and elsewhere what they saw before (`LoadIsSeen`),
  between loads what the committed runs have put there (`SeeSettled`).

`ConfigStoreProofs` proves `TypeCorrect`, `LosesNoUpdate`, `StoresWhatWasSaved`,
`DestroysNothing` and `SeedsOnce`, for any editors, processes, texts and history.
The last four are about the editors of one process, which is part of the
properties themselves, as the code has no lock between processes. `StoresWhatWasSaved`
is about saves, not creations, `DestroysNothing` excepts the oldest version of a full
history, and `SeedsOnce` servers whose seeding an `OSError` ended. `WriterInv` is the
core: between its check and its rename the holder's version is the file, or an
archiving moved it away; between its rename and its answer its text is the file, or the
newest in the archive. `HistoryInv` adds that the version about to be replaced
is the newest of the history, `SeededInv` that a serving server has its manifest.

`SchedulerProofs` proves `TypeCorrect` and `Scheduled` (`AnsweredMeansScheduled`),
for any reports, schedules and handlers. The argument is `FreshInv`: some thread
will still list the files, or one has read them since they last changed, or all are
idle and the jobs are right; it needs `LockInv` (one sync at a time) and `JobsInv`
(outside the applying of changes jobs and `_schedules` agree).

`AlgorithmProofs` proves of the specification `Algorithms`, for inputs of any number
and size within `InputsAssumption`, the eight invariants that TLC checks on `MCAlgorithms`:

* `CellsAreConverted` (`AllCellsAreConverted`): decimals of any precision and scale,
  integers of any width, all days; a decimal ends the run exactly if the decimal context
  has no room for it (`TooBig`);
* `RowsAreAccountedFor` (`AllRowsAreAccountedFor`): reports of any length, columns, rules
  and limits;
* `TransformsLoseNothing` (`NoTransformLosesAnything`): pivots that pick a value,
  cleaning steps and new names over frames of any length;
* `ResultsAreCertain` (`AllResultsAreCertain`): any computed columns over any row, of
  which a missing operand makes every one without a chain unknown, and objects of any
  depth and width with any `max_depth`, which lose an atom only at or below a place whose
  name a later place takes (`ReplacedLater`);
* `ConfigsMeanWhatTheySay` (`AllConfigsMeanWhatTheySay`): any raw configs, overrides and
  lists of suggested changes;
* `SchedulesAreStandard` (`AllSchedulesAreStandard`): day-of-week fields of any items
  (but for the exceptions of section 6);
* `ConfigsAreVetted` (`AllConfigsAreVetted`): any variables, allow-list, hosts and
  scalars, and destinations of any columns, of whose tables ClickHouse may refuse only a
  LowCardinality of a LowCardinality or of a Decimal (`Unsupported`) and a partition by
  columns they lack;
* `AssistantAnswersAreSound` (`AllAnswersAreSound`): any number of models, confidences
  and notes.

Each is a property of one input, so that the invariant of the specification is only
`Given`: an input that was picked is one of `Inputs` (`InputsAreGiven`), of which the
assumption says what it is like. The rest is about the operators, one theorem for each
algorithm. Those of ingestion are in `IngestionProofs`:

* The library's theorems on induction take an operator. `Induction` is the same for a
  set of numbers, from the least number outside of it, and `Recursion` says that a
  recursive function on the numbers exists and obeys its equation. From the two come
  the facts about powers (`powers` of ten and two) and about
  positions that the theorems below use. No theorem takes them as a hypothesis.
* A selection keeps what passes the test, in the order it had, and nothing else
  (`InOrderFacts`). Filters, drop_duplicates, the clean rows of the quality stage and
  the merged notes of a draft are selections (`RowsAreAccounted`, `CulpritsAreNamed`,
  `CleaningStepsCommute`, `DraftsSpeakForThemselves`). Cleaning commutes because a
  row that is dropped as a duplicate has the same cells, in the columns that count, as
  one that stays, and a filter over those columns sees no difference.
* A cell is converted exactly if its column can hold it (`ConvertFacts`), so that errors
  and unclean rows are the same (`RowFacts`).
* `PivotLosesNothing`: the cell of an index and a metric is the first or the last of the
  values the rows have for both (`AggregatedFacts`, `CellFacts`), without an aggregate that
  of the one row that has both.
* `RenamesStayApart`, `NormalNamesStayApart`: names that are accepted are as many as
  there were. `RenamedColumnsKeepCells`: if they are not, a column that can still be
  loaded is the only one of its name, and has its cells.

The others are in `AlgorithmProofs`: `OnlyTheAllowedMatter` (the secrets of the server have
no say in what any config becomes or why it is refused), `AcceptedTablesHold` (with
`AcceptedTypes`: which wrappers `parse_column_type` lets through around what),
`ModelsAreAskedInOrder`, `DiagnosesFitTheirRun`, `SchedulesAreCron`, and three that
follow a loop of the code. What its recursive function returns is what a sequence of
steps leads to (`WalkSteps`, `OverrideSteps`, `InterpretSteps`, `ComputeSteps`,
`NameSteps`), and `Induction` goes along it:

* `OverridesEditTheFile`: up to each key, the walk has left all that was there, and
  mappings on its way, or has met a scalar (`WalkFacts`); so the scalars afterwards are
  those not under the path and those of the value (`ReplacedFacts`).
* `SuggestionsLeaveProtectedAlone`: along the list of changes, the scalars under each
  protected path stay what they are in the file (`ChangesKeepProtected`). This needs
  `ProtectedAssumption`, that a protected path has one key or two, as those of
  `_PROTECTED_PATHS` do: a change names two keys or more, so what it replaces is under a
  protected path only if the change is. A protected path of three keys could be replaced
  with the section above it, and `vet_overrides` would not notice.
* `KnownIsCertain`: call a value sure if it is neither null nor an error. A node made sure
  by some operands is made the same by any that agree where those are sure (`NodesAgree`;
  for a chain of comparisons `ChainsAgree`: it ends at the same place), hence so is the
  expression (`ExpressionsAgree`), and the row after each column (`DerivedAlike`).
* `NullsSpread`: the values stay where they were put (`ValuesStay`); the last node that
  is not sure is the whole expression, because any other is an operand of a later node,
  which would not be sure either (`NodesSpread`).
* `FlatteningLosesNothing`: on the way to an atom there is a first place that is not
  expanded, which is assigned (`AtomsAreAssigned`), and the name of the atom is that
  place's with the rest (`NamesJoin`). Of the places of one name the last in the order of
  the walk has the cell (`PlacesInOrder`, `LastPlace`), so that an atom of that place is
  kept and one of another was replaced.

`CoercionAssumption` says that an empty cell is no number and no text.

Only model-checked is liveness (`RunsGetOver`, `NothingStaysRunning`, `RunsEnd`,
`RequestsEnd`, `DecodableEditsTakeEffect`, `AcquisitionEnds`), which is out of the
prover's reach under fairness.

## 5. Disagreements between code and text

* `load_interrupt`: only a `DashDashGoError` rolls a load back
  (`orchestration/pipeline.py:203`).
* `store_archive`: `archive` does not take `_write_lock` (`config/store.py:213`).
* `records_midnight`: artifacts are stored under the date of the QUEUED record
  (`orchestration/context.py:26`), readers look under `started_at`, which `start`
  rewrites (`metadata/tracker.py:64`, `distribution/views.py:133`, `:156`).

The following were met while modelling and have no run of their own. The first ones are
in the models: where the property named says less than the text quoted, it says for
exactly which cases.

* A screenshot is stored in "screenshots" (`acquisition/service.py:174`), a diagnosis
  looks for pictures in "failures" (`ai/assistant.py:248-251`), so that none is ever sent,
  and of the pages of several attempts the first in the listing is (`:252`), not that of
  the attempt the run failed at. `src/README.md:1020-1022` has "the visible text of the
  failed page and the failure screenshot" sent. `DiagnosesSeeTheEvidence` promises the
  page of the first attempt and no screenshot.
* A stage's first row is written before the `try` of `RunTracker.stage` and its last one
  outside of it (`metadata/tracker.py:102-107`, `:128-141`); an interrupt there leaves the
  stage RUNNING in a run that is FAILED, against `tracker.py:3-4`.
  `EndedTimelinesAreSettled` excepts such stages and no others.
* All but the newest 50 versions are deleted (`config/store.py:249-250`), although "any
  edit can be inspected or rolled back" (`:8-9`). `NothingIsDestroyed` excepts the oldest
  version of a full history and no other text.
* `quantize` raises `InvalidOperation`, which is not the `ValueError` that
  `coerce_frame` catches (`ingestion/coercion.py:97`, `:218`), so that one number with
  too many digits ends the run, against `:4-5`. `CellsAreConverted` says which numbers do.
* `5 < 3 < null` is False, although "any null operand gives null"
  (`ingestion/transforms.py:505`). `ResultsAreCertain` demands null of expressions without
  chains, and of chains that the result does not hang on the null.
* Two paths of an object that join to one name overwrite each other
  (`ingestion/transforms.py:330`), although a clash with another column is refused
  (`:353-354`). `ResultsAreCertain` says that only such atoms are lost.
* `LowCardinality` twice or around a `Decimal` is accepted (`columns.py:76-80`), although
  "unsupported types fail before any work starts" (`:7`), and so is a partition by columns
  the table lacks. `ConfigsAreVetted` says that nothing else is.
* `load_report_config` lets a `UnicodeDecodeError` through
  (`config/loader.py:177`), and it ends every sync; `DecodableEditsTakeEffect`
  excepts such files.
* `mark_interrupted` leaves the stage row of a killed run RUNNING
  (`metadata/repository.py:285`); `EndedTimelinesAreSettled` excepts killed runs.
* `logs --follow` may stop before the closing line of the run, as it reads the
  record first (`cli/runs.py:209`); `FollowersSeeTheStory` is about the lines
  before the end was recorded.
* `latest_load` does not look at the destination table, so that a report whose
  `table` setting changed is SKIPPED although the new table is empty
  (`orchestration/pipeline.py:166-186`).
* An empty sample is answered 502 unless its file name has the word "sample", a
  provider's message with that word 422 (`distribution/ai_api.py:99-100`).
* An override or a suggested value that is no YAML raises an error that is no
  `ConfigurationError` (`config/loader.py:113`); a suggested one ends the whole
  diagnosis, as does a confidence of NaN (`ai/assistant.py:286`).
* A failing repair round loses the first draft (`ai/assistant.py`).
* `rename_columns` to the name of a column that exists makes two columns of one
  name (`ingestion/transforms.py:170-174`), and the run fails when they are coerced,
  with an error that does not name the step.
* `Nullable(LowCardinality(X))` is refused where `columns.py:78` says "handle both
  orders".
* A run whose lock file cannot be opened (`orchestration/runner.py:43-44`) keeps its
  QUEUED record until the server starts again: `_execute` catches only
  `ConcurrentRunError` (`:106`). `NothingStaysRunning` says so.
* A created report may be answered with another thread's version, or with 404 if it is
  archived at once, as the answer is read without the lock (`config/store.py:207`).
* `src/README.md:579` lists `//` among the operators of `compute`; `_BINARY`
  (`ingestion/transforms.py:443-450`) has none.
* The sums and means of a pivot go through `pd.to_numeric`, that is through 64-bit
  floats and integers (`ingestion/transforms.py:404`), also for `Decimal` columns.

## 6. Limits of the program that the runs assume away

These are behaviours of the code that the models show when the corresponding
bound or fault is enabled, and that the passing runs leave out:

* Recovery marks every unfinished run of *any* server. One server instance at a
  time is assumed; a second one, or worker threads that drain after shutdown,
  would have live runs marked FAILED.
* If ClickHouse is down when a server starts, nobody marks the interrupted runs
  until the next start (`distribution/app.py:45`); `runner_live` has no outage.
* Outages lose status rows: `ReturnedRunsAreRecorded`, `EndedTimelinesAreSettled`
  and `BlameIsRight` are about behaviours without one, and a load whose SUCCESS row is
  lost is not the latest load.
* `FollowersSeeTheStory` and `DiagnosesSeeTheEvidence` are
  about runs that start on the day they were queued (`SameDay`), and hold until
  retention may delete the day's partition (`Fresh`).
* An insert that outlives its client can commit after the rollback; `load_retry`
  is without that fault, `load_faults` with it.
* After a background merge, a rollback cannot bring back the older rows, and the
  next identical download is SKIPPED.
* A command-line process and a server do not share `_write_lock`:
  `NoLostUpdate` is about editors of one process.
* The history of the model is as long as `MaxHistory`; `NothingIsDestroyed` excepts the
  version that a snapshot drops from a full one.
* If seeding stops half-way, the manifest does not know what was copied:
  `ArchivedIsNotReseeded` is about behaviours where it does not.
* `*/n` and `0-7` in the day-of-week field mean something else to APScheduler
  than to cron; `SchedulesAreStandard` excepts these two.
* A trace that cannot be stored replaces the error of the attempt by a
  `StorageError`, which is not retried (`acquisition/service.py:108`).
* `fill_value` of a pivot replaces nulls of the data too; `flatten` drops cells
  that are no objects. `PivotIsLossless` and `FlattenKeepsAtoms` say so.

Assumptions about the environment: all processes have the same `STORAGE_ROOT` on
a file system where `flock` works; a rename is atomic; `browser.close()` does not
raise; a batch is one group of keys.

## 7. Not modelled

* Readers of CSV and Excel files, the text cleaning transforms, the parsing of
  numbers, booleans and dates, and the dataset fingerprint: they are what pandas,
  regular expressions and a hash make of characters, and a model of them would be
  a copy. What the pipeline does with their results is modelled.
* DateTime columns: their limits are ClickHouse's, the changes of the clocks those of
  the zone database, and the code checks neither.
* The aggregates of a pivot that calculate (sum, mean, min, max): they are arithmetic of
  pandas on floats.
* The validators of source, export and quality rules: each compares fields of one
  section, and a restatement of them would show nothing.
* The drift check of `prepare`: it compares a table with the one `ReportModel`
  describes, by names and type strings that ClickHouse normalises.
* Patterns and limits of single config values, and the list of blocked browser
  flags: each is one comparison with a constant.
* Prompts and column profiles of the assistant: texts for a model.
* Web UI, security and API: stateless request checks and rendering. The run
  endpoints call `RunService`, the config endpoints the store and the scheduler,
  which are modelled.
* Log formats and redaction, formatting of numbers, the listings of the command
  line, the warehouse reader: output and queries.
* `src/demo/metabase_seed.py`: a script that fills a demo dashboard once.

## 8. Plan

Done: the run service, run records, loads, acquisition, config store and
scheduler with their proofs; ingestion, schedules, configs and the assistant as
algorithms; storage and its readers with the records they belong to.

What is left, most important first:

1. The drift check of `prepare`, once what ClickHouse reports of a table is
   described by a module of its own.
2. Two reports in one destination table, to give `latest_load`'s missing table
   name a run.
