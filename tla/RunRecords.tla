----------------------------- MODULE RunRecords -----------------------------
(***************************************************************************)
(* What a run leaves behind and who reads it: the rows RunTracker writes   *)
(* while PipelineOrchestrator walks through its stages                     *)
(* (metadata/tracker.py, orchestration/pipeline.py), the artifacts kept    *)
(* under the run's date (storage/, orchestration/context.py), retention    *)
(* (LocalStorage.prune), and the readers: the timeline and artifact lists  *)
(* of distribution/views.py, `dashdashgo logs --follow` (cli/runs.py) and  *)
(* the AI diagnosis (ai/assistant.py).                                     *)
(*                                                                         *)
(* Every key carries the run's id, so one run is enough.  What a stage     *)
(* computes is the subject of Acquisition and LoadPipeline; here it ends   *)
(* well or badly.  Days are counted from the one the run was queued on.    *)
(***************************************************************************)
EXTENDS Naturals, Sequences, FiniteSets

CONSTANTS
    Stages,       \* the pipeline's stages, in order
    Steps,        \* the steps of one acquisition attempt, in order
    MaxAttempts,  \* retry.attempts
    Retention,    \* STORAGE_RETENTION_DAYS
    MaxDay,       \* bound: days in a behaviour
    MaxLosses     \* bound: metadata writes ClickHouse does not take

StageNames == {Stages[i] : i \in 1..Len(Stages)}
StepNames  == {Steps[i] : i \in 1..Len(Steps)}

ASSUME RecordsAssumption ==
    /\ Stages \in Seq(STRING) /\ Steps \in Seq(STRING)
    /\ StageNames \cap StepNames = {}
    /\ \A i, j \in 1..Len(Stages) : Stages[i] = Stages[j] => i = j
    /\ \A i, j \in 1..Len(Steps) : Steps[i] = Steps[j] => i = j
    /\ \A i, j \in 1..Len(Stages) : Stages[i] = "acquisition" /\ Stages[j] = "dedup" => i < j
    /\ "" \notin StageNames
    /\ MaxAttempts \in Nat \ {0}
    /\ Retention \in Nat \ {0}
    /\ MaxDay \in Nat
    /\ MaxLosses \in Nat

VARIABLES
    day,        \* today
    pc,         \* how far PipelineOrchestrator.run got
    open,       \* the `with tracker.stage` blocks being executed, innermost first
    place,      \* stages behind us
    attempt,    \* number of the acquisition attempt
    step,       \* its steps behind us
    run,        \* RunTracker.run
    row,        \* the newest row of the run in pipeline_runs
    stageRow,   \* its newest rows in pipeline_stage_events
    lost,       \* metadata writes that were not taken
    cut,        \* stages and steps whose own row an interrupt kept from being ended
    disk,       \* stored files and the date partition each is in
    made,       \* every file the run or its diagnosis ever stored
    lines,      \* lines written to the run log
    told,       \* lines written before the end of the run was recorded
    follower,   \* a `dashdashgo logs --follow`
    evidence    \* what the diagnosis was given: {} before it, then one set

control == <<open, place, attempt, step>>
records == <<run, row, stageRow, lost, cut>>
files   == <<disk, made, lines, told>>
readers == <<follower, evidence>>
vars    == <<day, pc, control, records, files, readers>>

(***************************************************************************)
(* Types.                                                                  *)
(***************************************************************************)
Days      == 0..MaxDay
QueuedOn  == 0       \* the date RunContext takes from the queued record
Terminal  == {"SUCCESS", "SKIPPED", "FAILED"}
Statuses  == Terminal \cup {"QUEUED", "RUNNING"}
Ended     == {"SUCCESS", "FAILED", "SKIPPED"}
Keys      == (StageNames \cup StepNames) \X (1..MaxAttempts)
Records   == [status : Statuses, started : Days, stage : StageNames \cup {""},
              error : StageNames \cup {"", "pipeline", "queued"}]

(* Stored files, each with the number of its attempt (1 if it has none), and the area  *)
(* (first component of the key) they go to.  One step at most fails in an attempt.     *)
(* The Parquet copy is left out: like run.json, it is stored if it can be.             *)
Names     == {"run.log", "page.html", "page.png", "rejected_rows.csv", "report", "run.json",
              "ai_diagnosis.json"}
Files     == Names \X (1..MaxAttempts)
Area(name) ==
    CASE name = "report" -> "raw"
      [] name \in {"page.html", "rejected_rows.csv"} -> "failures"
      [] name = "page.png" -> "screenshots"
      [] OTHER -> "logs"
AREAS == <<"raw", "processed", "failures", "screenshots", "logs">>

(* Where a run can be:
     queued       its QUEUED record is saved
     opened       its log file is open, tracker.start is next
     working      in or between its stages
     failing      a step failed, the acquisition stage around it is next
     skipping     a duplicate: the remaining stages get SKIPPED rows
     ending       a stage failed, tracker.fail is next
     interrupted  Ctrl-C: a KeyboardInterrupt unwinds the open stages
     closing      the end is recorded, the last log line is next
     summary      the log is closed, run.json is next
     over         PipelineOrchestrator.run returned
     raised       it raised the KeyboardInterrupt
     killed                                                                *)
Pcs == {"queued", "opened", "working", "failing", "skipping", "ending",
        "interrupted", "closing", "summary", "over", "raised", "killed"}

TypeOK ==
    /\ day \in Days
    /\ pc \in Pcs
    /\ open \in Seq(Keys)
    /\ place \in 0..Len(Stages)
    /\ attempt \in 1..MaxAttempts
    /\ step \in 0..Len(Steps)
    /\ run \in Records /\ row \in Records
    /\ stageRow \in [Keys -> Ended \cup {"RUNNING", "none"}]
    /\ lost \in 0..MaxLosses
    /\ cut \in SUBSET Keys
    /\ disk \in SUBSET (Files \X Days)
    /\ made \in SUBSET Files
    /\ lines \in Nat /\ told \in Nat
    /\ follower \in [at : {"fetch", "print", "over"}, ended : BOOLEAN,
                     date : Days, seen : Nat]
    /\ evidence \in SUBSET (SUBSET Files)

FirstLook    == [at |-> "fetch", ended |-> FALSE, date |-> 0, seen |-> 0]
QueuedRecord == [status |-> "QUEUED", started |-> QueuedOn, stage |-> "", error |-> ""]

Init ==
    /\ day = 0 /\ pc = "queued"
    /\ open = <<>> /\ place = 0 /\ attempt = 1 /\ step = 0
    /\ run = QueuedRecord /\ row = QueuedRecord
    /\ stageRow = [key \in Keys |-> "none"]
    /\ lost = 0 /\ cut = {}
    /\ disk = {} /\ made = {} /\ lines = 0 /\ told = 0
    /\ follower = FirstLook
    /\ evidence = {}

-----------------------------------------------------------------------------
(***************************************************************************)
(* Shared pieces.                                                          *)
(***************************************************************************)
(* RunTracker.update and save_stage through _persist: each of the writes   *)
(* is taken, or logged and forgotten.                                      *)
Persist(writes, new, newStages) ==
    \E taken \in SUBSET writes :
        /\ lost + Cardinality(writes \ taken) <= MaxLosses
        /\ lost' = lost + Cardinality(writes \ taken)
        /\ run' = new
        /\ row' = IF "run" \in taken THEN new ELSE row
        /\ stageRow' = IF "stage" \in taken THEN newStages ELSE stageRow

SaveRun(new)           == Persist({"run"}, new, stageRow)
SaveStage(key, status) == Persist({"stage"}, run, [stageRow EXCEPT ![key] = status])
SaveBoth(new, key, status) ==
    Persist({"run", "stage"}, new, [stageRow EXCEPT ![key] = status])

(* RunArtifacts.key, put_bytes and put_file: written under the date of the run. *)
Store(written, date) ==
    /\ disk' = disk \cup (written \X {date})
    /\ made' = made \cup written

Stored(file, date) == <<file, date>> \in disk

(* Files there is one of. *)
Log        == <<"run.log", 1>>
Report     == <<"report", 1>>
Rejected   == <<"rejected_rows.csv", 1>>
RunJson    == <<"run.json", 1>>
Diagnosis  == <<"ai_diagnosis.json", 1>>
Page(n)       == <<"page.html", n>>
Screenshot(n) == <<"page.png", n>>

InStep        == Len(open) = 2
InAcquisition == Len(open) = 1 /\ open[1][1] = "acquisition"

CanBegin ==
    /\ pc = "working"
    /\ IF InAcquisition THEN step < Len(Steps) ELSE open = <<>> /\ place < Len(Stages)

(* Mutant: the rows of a later attempt replace those of the first. *)
NextKeyFirst ==
    <<IF InAcquisition THEN Steps[step + 1] ELSE Stages[place + 1], 1>>

NextKey ==
    IF InAcquisition THEN <<Steps[step + 1], attempt>>
    ELSE <<Stages[place + 1], IF Stages[place + 1] = "acquisition" THEN attempt ELSE 1>>

-----------------------------------------------------------------------------
(***************************************************************************)
(* The run.                                                                *)
(***************************************************************************)
(* RunTracker._finish and fail: a failure is blamed on the stage the run was in. *)
Outcome(status) ==
    [run EXCEPT !.status = status,
                !.error = IF status # "FAILED" THEN ""
                          ELSE IF run.stage = "" THEN "pipeline"
                          ELSE run.stage]

(* The log file is opened in the run's date partition of the logs area. *)
OpenLog ==
    /\ pc = "queued"
    /\ pc' = "opened"
    /\ Store({Log}, QueuedOn)
    /\ UNCHANGED <<day, control, records, lines, told, readers>>

(* Its directory or the scratch directory cannot be made: the run ends, no stage is blamed. *)
OpenFails ==
    /\ pc = "queued"
    /\ pc' = "over"
    /\ SaveRun(Outcome("FAILED"))
    /\ UNCHANGED <<day, cut, control, files, readers>>

(* tracker.start: started_at becomes now. *)
Start ==
    /\ pc = "opened"
    /\ pc' = "working"
    /\ SaveRun([run EXCEPT !.status = "RUNNING", !.started = day])
    /\ lines' = lines + 1
    /\ UNCHANGED <<day, cut, control, disk, made, told, readers>>

(* Mutant: a step moves the headline stage. *)
EnterHeadline == SaveBoth([run EXCEPT !.stage = NextKey[1]], NextKey, "RUNNING")

(* What RunTracker.stage saves on the way in: steps of an acquisition do not move the  *)
(* headline stage.                                                                     *)
Enter ==
    IF open = <<>>
    THEN SaveBoth([run EXCEPT !.stage = Stages[place + 1]], NextKey, "RUNNING")
    ELSE SaveStage(NextKey, "RUNNING")

(* RunTracker.stage entered. *)
Begin ==
    /\ CanBegin
    /\ open' = <<NextKey>> \o open
    /\ Enter
    /\ UNCHANGED <<day, pc, cut, place, attempt, step, files, readers>>

(* Ctrl-C on the way in: the stage is not entered, so nobody ends the row it may have  *)
(* by then.                                                                            *)
InterruptBegin ==
    /\ CanBegin
    /\ pc' = "interrupted"
    /\ \/ open = <<>> /\ SaveRun([run EXCEPT !.stage = Stages[place + 1]]) /\ cut' = cut
       \/ Enter /\ cut' = cut \cup {NextKey}
    /\ UNCHANGED <<day, control, files, readers>>

(* What a stage that ends well leaves: the download always (storing it is part of the  *)
(* stage), rejected rows under quarantine.                                             *)
Products(name) ==
    CASE name = "acquisition" -> {{Report}}
      [] name = "quality" -> SUBSET {Rejected}
      [] OTHER -> {{}}

(* RunTracker.stage left normally. *)
End ==
    /\ pc = "working"
    /\ open # <<>>
    /\ InAcquisition => step = Len(Steps)
    /\ open' = Tail(open)
    /\ IF InStep THEN step' = step + 1 /\ place' = place
                 ELSE place' = place + 1 /\ step' = step
    /\ IF open[1][1] \in {"acquisition", "parse", "quality"}   \* tracker.update follows
       THEN SaveBoth(run, open[1], "SUCCESS")
       ELSE SaveStage(open[1], "SUCCESS")
    /\ \E written \in Products(open[1][1]) : Store(written, QueuedOn)
    /\ lines' = lines + 1
    /\ UNCHANGED <<day, pc, cut, attempt, told, readers>>

(* What a stage that fails leaves: AcquisitionService._capture_failure (each piece on  *)
(* its own, if it can), and the rows the quality gate refused.                         *)
FailureEvidence(name) ==
    IF name \in StepNames \ {"browser"} THEN SUBSET {Page(attempt), Screenshot(attempt)}
    ELSE IF name = "quality" THEN SUBSET {Rejected}
    ELSE {{}}

(* After a failure: the stage around a failed step fails too, a failed acquisition is  *)
(* tried again while attempts are left, an interrupt goes all the way.                 *)
AfterFailure ==
    IF pc = "interrupted" THEN {"interrupted"}
    ELSE IF InStep THEN {"failing"}
    ELSE IF InAcquisition /\ attempt < MaxAttempts THEN {"working", "ending"}
    ELSE {"ending"}

(* RunTracker.stage left by an exception. *)
Fail ==
    /\ pc \in {"working", "failing", "interrupted"}
    /\ open # <<>>
    /\ open' = Tail(open)
    /\ pc' \in AfterFailure
    /\ IF pc' = "working" THEN attempt' = attempt + 1 /\ step' = 0
                          ELSE UNCHANGED <<attempt, step>>
    /\ SaveStage(open[1], "FAILED")
    /\ \E written \in IF pc = "interrupted" THEN {{}} ELSE FailureEvidence(open[1][1]) :
           Store(written, QueuedOn)
    /\ lines' = lines + 1
    /\ UNCHANGED <<day, cut, place, told, readers>>

(* What a stage has stored when its last row is due. *)
Leavings(name) ==
    IF pc = "interrupted" THEN {{}}
    ELSE FailureEvidence(name) \cup
         (IF pc = "failing" \/ (InAcquisition /\ step < Len(Steps)) THEN {} ELSE Products(name))

(* Ctrl-C while the last row of a stage is saved, completion or failure: it is not     *)
(* tried again.                                                                        *)
InterruptLeave ==
    /\ pc \in {"working", "failing", "interrupted"}
    /\ open # <<>>
    /\ open' = Tail(open)
    /\ pc' = "interrupted"
    /\ cut' = cut \cup {open[1]}
    /\ \E written \in Leavings(open[1][1]) : Store(written, QueuedOn)
    /\ UNCHANGED <<day, place, attempt, step, run, row, stageRow, lost, lines, told, readers>>

(* Ctrl-C (a command-line run) inside a stage or between two; once the run's end is    *)
(* saved nothing is left to record.                                                    *)
Interrupt ==
    /\ pc \in {"queued", "opened", "working", "failing", "skipping", "ending",
               "closing", "summary"}
    /\ pc' = IF pc \in {"closing", "summary"} THEN "raised" ELSE "interrupted"
    /\ UNCHANGED <<day, control, records, files, readers>>

(* The data is a duplicate: skipped_stage for each of the stages that are left. *)
Skip ==
    /\ open = <<>>
    /\ \/ pc = "working" /\ place > 0 /\ Stages[place] = "dedup"
       \/ pc = "skipping"
    /\ place < Len(Stages)
    /\ pc' = "skipping"
    /\ place' = place + 1
    /\ SaveStage(<<Stages[place + 1], 1>>, "SKIPPED")
    /\ UNCHANGED <<day, cut, open, attempt, step, files, readers>>

(* Mutant: the run ends before its stages do. *)
FinishEarly(status) ==
    /\ \/ pc \in {"failing", "ending", "interrupted"} /\ status = "FAILED"
       \/ pc = "working" /\ place = Len(Stages) /\ status = "SUCCESS"
       \/ pc = "skipping" /\ place = Len(Stages) /\ status = "SKIPPED"
    /\ SaveRun(Outcome(status))
    /\ pc' = "closing"
    /\ told' = lines
    /\ UNCHANGED <<day, cut, control, disk, made, lines, readers>>

(* tracker.succeed, skip or fail; it is not tried again if Ctrl-C comes in between. *)
Finish(status) ==
    /\ open = <<>>
    /\ \/ pc = "working" /\ place = Len(Stages) /\ status = "SUCCESS"
       \/ pc = "skipping" /\ place = Len(Stages) /\ status = "SKIPPED"
       \/ pc \in {"ending", "interrupted"} /\ status = "FAILED"
    /\ SaveRun(Outcome(status))
    /\ pc' \in IF pc = "interrupted" THEN {"raised"} ELSE {"closing", "raised"}
    /\ told' = lines
    /\ UNCHANGED <<day, cut, control, disk, made, lines, readers>>

(* The closing line (SUCCESS, SKIPPED, FAILED at ...), then the log is closed. *)
LastLine ==
    /\ pc = "closing"
    /\ pc' = "summary"
    /\ lines' = lines + 1
    /\ UNCHANGED <<day, control, records, disk, made, told, readers>>

(* _write_summary, if it can. *)
Summary ==
    /\ pc = "summary"
    /\ pc' = "over"
    /\ \E written \in SUBSET {RunJson} : Store(written, QueuedOn)
    /\ UNCHANGED <<day, control, records, lines, told, readers>>

Kill ==
    /\ pc \notin {"over", "raised", "killed"}
    /\ pc' = "killed"
    /\ told' = IF pc \in {"closing", "summary"} THEN told ELSE lines
    /\ UNCHANGED <<day, control, records, disk, made, lines, readers>>

(* mark_interrupted of a restarted server, for a run that is gone; no stage row is     *)
(* touched.                                                                            *)
Mark ==
    /\ pc \in {"over", "raised", "killed"}
    /\ row.status \notin Terminal
    /\ row' = [row EXCEPT !.status = "FAILED",
                          !.error = IF row.stage = "" THEN "queued" ELSE row.stage]
    /\ UNCHANGED <<day, pc, control, run, stageRow, lost, cut, files, readers>>

-----------------------------------------------------------------------------
(***************************************************************************)
(* Retention.                                                              *)
(***************************************************************************)
Tomorrow ==
    /\ day < MaxDay
    /\ day' = day + 1
    /\ UNCHANGED <<pc, control, records, files, readers>>

(* The cutoff: a partition's date is more than Retention days ago. *)
Expired(date) == date + Retention < day

(* SchedulerService.prune and `dashdashgo prune`: LocalStorage.prune removes the expired *)
(* date partitions area by area; a directory that cannot be removed ends it early.       *)
Prune(reached) ==
    /\ \E object \in disk : Expired(object[2]) /\ Area(object[1][1]) \in reached
    /\ disk' = {object \in disk : ~(Expired(object[2]) /\ Area(object[1][1]) \in reached)}
    /\ UNCHANGED <<day, pc, control, records, made, lines, told, readers>>

-----------------------------------------------------------------------------
(***************************************************************************)
(* Readers.  They look under the date of the row they read.                *)
(***************************************************************************)
(* Mutant: only RUNNING counts as unfinished. *)
FollowFetchRunning ==
    /\ follower.at = "fetch"
    /\ follower' = [at |-> "print", ended |-> row.status # "RUNNING", date |-> row.started,
                    seen |-> 0]
    /\ UNCHANGED <<day, pc, control, records, files, evidence>>

(* cmd_logs: the record first, *)
FollowFetch ==
    /\ follower.at = "fetch"
    /\ follower' = [at |-> "print", ended |-> row.status \in Terminal, date |-> row.started,
                    seen |-> 0]
    /\ UNCHANGED <<day, pc, control, records, files, evidence>>

(* then the log, again and again until the record read before it was a finished one.   *)
(* What it has printed by then is all it prints.                                       *)
FollowPrint ==
    /\ follower.at = "print"
    /\ follower' =
           IF ~follower.ended THEN FirstLook
           ELSE [follower EXCEPT !.at = "over",
                                 !.seen = IF Stored(Log, follower.date)
                                          THEN lines ELSE 0]
    /\ UNCHANGED <<day, pc, control, records, files, evidence>>

(* The attempt the listing of a directory shows first: names are sorted as text, and   *)
(* "attempt10_..." comes before "attempt1_...".                                        *)
FirstListed(attempts) ==
    IF 10 \in attempts THEN 10 ELSE CHOOSE n \in attempts : \A m \in attempts : n <= m

(* AIAssistant._evidence: the log, and of each kind of file the first one that "failures" *)
(* has.                                                                                 *)
Gathered(date) ==
    {file \in Files :
        /\ Stored(file, date)
        /\ \/ file = Log
           \/ /\ file[1] \in {"page.png", "page.html", "rejected_rows.csv"}
              /\ Area(file[1]) = "failures"
              /\ file[2] = FirstListed({n \in 1..MaxAttempts : Stored(<<file[1], n>>, date)})}

(* Mutant: a run can be diagnosed before it has failed. *)
DiagnoseAny ==
    /\ row.status \in Terminal \cup {"RUNNING"}
    /\ evidence = {}
    /\ evidence' = {Gathered(row.started)}
    /\ \E written \in SUBSET {Diagnosis} : Store(written, row.started)
    /\ UNCHANGED <<day, pc, control, records, lines, told, follower>>

(* AIAssistant.diagnose, answered by the model; storing the answer is best effort. *)
Diagnose ==
    /\ row.status = "FAILED"
    /\ evidence = {}
    /\ evidence' = {Gathered(row.started)}
    /\ \E written \in SUBSET {Diagnosis} : Store(written, row.started)
    /\ UNCHANGED <<day, pc, control, records, lines, told, follower>>

-----------------------------------------------------------------------------
Work == \/ OpenLog \/ OpenFails \/ Start \/ Begin \/ End \/ Fail \/ Skip
        \/ Interrupt \/ InterruptBegin \/ InterruptLeave
        \/ \E status \in Terminal : Finish(status)
        \/ LastLine \/ Summary \/ Kill \/ Mark

Next ==
    \/ Work
    \/ Tomorrow
    \/ \E n \in 1..Len(AREAS) : Prune({AREAS[i] : i \in 1..n})
    \/ FollowFetch \/ FollowPrint \/ Diagnose

Spec == Init /\ [][Next]_vars

-----------------------------------------------------------------------------
(***************************************************************************)
(* What the readers show.                                                  *)
(***************************************************************************)
(* build_timeline: a stage or step that has no row is pending, or skipped once the     *)
(* run has ended.                                                                      *)
Shown(key) ==
    IF stageRow[key] # "none" THEN stageRow[key]
    ELSE IF row.status \in Terminal THEN "SKIPPED" ELSE "PENDING"

(* The record of a stage the timeline's headline shows: that of its latest attempt.    *)
Latest(name) ==
    LET tried == {n \in 1..MaxAttempts : stageRow[<<name, n>>] # "none"}
    IN  IF tried = {} THEN 1 ELSE CHOOSE n \in tried : \A m \in tried : m <= n

Headline(i) == Shown(<<Stages[i], Latest(Stages[i])>>)

(***************************************************************************)
(* Properties.                                                             *)
(***************************************************************************)
Fresh  == day <= QueuedOn + Retention
SameDay == row.started = QueuedOn

(* "A run started inside the stack ... writes to the app's volume, and the UI shows     *)
(* everything" (README.md:861-863).  A run that waits past midnight keeps its log where *)
(* nobody looks.                                                                        *)
LogsAreFound == Fresh /\ Log \in made => Stored(Log, row.started)

(* A `logs --follow` that returned showed every line written before the run's end was  *)
(* recorded (the closing line comes after it and may be missed).                       *)
FollowersSeeTheStory ==
    follower.at = "over" /\ SameDay /\ Fresh
        => row.status \in Terminal /\ follower.seen >= told

(* A diagnosis is given the log, the refused rows and the page of the first attempt    *)
(* that left one, all of it as the run that is over stored it, never what one that was *)
(* still going had stored by then.  No screenshot is ever among it, nor the page of a  *)
(* later attempt, where README.md:1020-1022 says that "the visible text of the failed  *)
(* page and the failure screenshot" are sent.                                           *)
PagesMade == {n \in 1..MaxAttempts : Page(n) \in made}

DiagnosesSeeTheEvidence ==
    SameDay /\ Fresh => \A given \in evidence :
        given = (made \cap {Log, Rejected})
                    \cup (IF PagesMade = {} THEN {} ELSE {Page(FirstListed(PagesMade))})

(* The live timeline only moves forward: what it shows as done, failed or skipped it   *)
(* never takes back, whatever writes were lost, and nothing running is pending again.  *)
TimelineMovesForward ==
    [][\A key \in Keys :
           /\ Shown(key) \in Ended => Shown(key)' = Shown(key)
           /\ Shown(key) = "RUNNING" => Shown(key)' # "PENDING"]_vars

(* Once a run is recorded as over, its timeline has nothing running or pending, if its *)
(* process got to its end and all its writes were taken, except the stages whose last  *)
(* row an interrupt cut off: they stay RUNNING, where tracker.py:3-4 says that a stage *)
(* is written again "when it ends".                                                    *)
EndedTimelinesAreSettled ==
    row.status \in Terminal /\ lost = 0 /\ pc # "killed"
        => \A key \in Keys : Shown(key) \in Ended \/ key \in cut

(* The stage a failed run names is where it stopped: the timeline shows every earlier  *)
(* stage as done, every later one as skipped, and the stage itself as failed, unless   *)
(* the run was killed or interrupted.                                                  *)
BlameIsRight ==
    row.status = "FAILED" /\ lost = 0 =>
        \/ /\ row.error \in {"pipeline", "queued"}
           /\ \A i \in 1..Len(Stages) : Headline(i) = "SKIPPED"
        \/ \E i \in 1..Len(Stages) :
               /\ row.error = Stages[i]
               /\ \A j \in 1..(i - 1) : Headline(j) = "SUCCESS"
               /\ \A j \in (i + 1)..Len(Stages) : Headline(j) = "SKIPPED"
               /\ Headline(i) = "FAILED" \/ pc \in {"raised", "killed"}
=============================================================================
