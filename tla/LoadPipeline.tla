---------------------------- MODULE LoadPipeline ----------------------------
(***************************************************************************)
(* The runs of one report against its destination table: the dedup, load,  *)
(* verify and rollback steps of PipelineOrchestrator._execute              *)
(* (orchestration/pipeline.py), WarehouseLoader (warehouse/loader.py),     *)
(* call_with_retry (utils/retry.py), the run record (metadata/tracker.py,  *)
(* ClickHouseRunRepository.latest_load), and what ClickHouse does with an  *)
(* insert, a retried insert, a DELETE and a background merge.              *)
(*                                                                         *)
(* Runs of one report exclude each other (Runner!OneRunPerReport), so they *)
(* are numbered in the order they start, which is also the order of their  *)
(* _ingested_at versions.                                                  *)
(***************************************************************************)
EXTENDS Naturals, Sequences, FiniteSets

CONSTANTS
    Keys,         \* groups of natural keys; a batch has the rows of one group
    NoRow,        \* readers see no row for a key
    Datasets,     \* what can be downloaded: sequences of <<key group, value>>
    MaxBatches,   \* bound: batches of a dataset
    MaxRuns,      \* bound: runs of the report
    MaxAttempts,  \* RetryConfig.max_attempts
    Window,       \* non_replicated_deduplication_window (DEDUP_WINDOW)
    Faults        \* which failures the environment produces in this instance

AllFaults ==
    {"rejected",   \* an insert fails on the server (LoadError)
     "timeout",    \* an insert lands, its answer is lost (WarehouseConnectionError)
     "late",       \* an insert whose client gave up may still commit later
     "query",      \* latest_load or the verification query fails
     "delete",     \* the rollback's DELETE fails
     "metadata",   \* writes of the run record fail
     "abort",      \* Ctrl-C, or an exception that is no DashDashGoError
     "crash",      \* the process is killed
     "merge"}      \* a background merge drops superseded rows

Runs     == 1..MaxRuns
BatchNos == 1..MaxBatches

ASSUME LoadPipelineAssumption ==
    /\ MaxRuns \in Nat /\ MaxBatches \in Nat
    /\ MaxAttempts \in Nat \ {0} /\ Window \in Nat \ {0}
    /\ Faults \subseteq AllFaults
    /\ \A d \in Datasets :
          /\ d \in Seq(Keys \X {d[b][2] : b \in DOMAIN d})
          /\ Len(d) <= MaxBatches
          \* quality.evaluate refuses a dataset with two rows of one natural key
          /\ \A b1, b2 \in DOMAIN d : d[b1][1] = d[b2][1] => b1 = b2

VARIABLES
    run,      \* the newest run
    pc,       \* where it is in _execute, or "idle"
    attempt,  \* call_with_retry: attempt number of the load
    batch,    \* loader.load: number of the next batch
    data,     \* data[r]: the prepared dataset of run r
    outcome,  \* outcome[r]: status of r's RunResult, "killed", or "none"
    record,   \* record[r]: newest status of r in pipeline_runs, or "none"
    rows,     \* rows[r][b]: copies of batch b of run r in the table
    tokens,   \* the newest deduplication tokens the table remembers
    pending   \* inserts <<r, b, attempt>> the server still works on

vars == <<run, pc, attempt, batch, data, outcome, record, rows, tokens, pending>>

NoRows   == [b \in BatchNos |-> 0]
Statuses == {"SUCCESS", "SKIPPED", "FAILED"}

TypeOK ==
    /\ run \in 0..MaxRuns
    /\ pc \in {"idle", "preparing", "deciding", "loading", "verifying",
               "verified", "rollback", "failing"}
    /\ attempt \in 0..MaxAttempts
    /\ batch \in 1..(MaxBatches + 1)
    /\ data \in [Runs -> Datasets \cup {<<>>}]
    /\ outcome \in [Runs -> Statuses \cup {"none", "killed"}]
    /\ record \in [Runs -> Statuses \cup {"none", "RUNNING"}]
    /\ rows \in [Runs -> [BatchNos -> Nat]]
    /\ tokens \in Seq(Runs \X BatchNos) /\ Len(tokens) <= Window
    /\ pending \subseteq Runs \X BatchNos \X (1..MaxAttempts)

Init ==
    /\ run = 0
    /\ pc = "idle"
    /\ attempt = 0
    /\ batch = 1
    /\ data = [r \in Runs |-> <<>>]
    /\ outcome = [r \in Runs |-> "none"]
    /\ record = [r \in Runs |-> "none"]
    /\ rows = [r \in Runs |-> NoRows]
    /\ tokens = <<>>
    /\ pending = {}

-----------------------------------------------------------------------------
(***************************************************************************)
(* The table.                                                              *)
(***************************************************************************)
KeyOf(r, b)   == data[r][b][1]
ValueOf(r, b) == data[r][b][2]
Present(r, b) == b \in DOMAIN data[r] /\ rows[r][b] > 0

Having(S, k)  == {r \in S : \E b \in BatchNos : Present(r, b) /\ KeyOf(r, b) = k}

(* What a FINAL read that looks only at rows of the runs in S shows for k: *)
(* the version of the newest run.                                          *)
Shown(S, k) ==
    LET newest == CHOOSE r \in Having(S, k) : \A r2 \in Having(S, k) : r2 <= r
    IN  IF Having(S, k) = {} THEN NoRow
        ELSE ValueOf(newest, CHOOSE b \in BatchNos :
                                Present(newest, b) /\ KeyOf(newest, b) = k)

Visible(k) == Shown(Runs, k)

Remember(token) ==
    tokens' = Append(IF Len(tokens) < Window THEN tokens ELSE Tail(tokens), token)

(* The server executes the insert of a batch: a block whose token it       *)
(* remembers is dropped.                                                   *)
Land(r, b) ==
    IF \E i \in DOMAIN tokens : tokens[i] = <<r, b>>
    THEN UNCHANGED <<rows, tokens>>
    ELSE /\ rows' = [rows EXCEPT ![r][b] = @ + 1]
         /\ Remember(<<r, b>>)

(***************************************************************************)
(* The run record.                                                         *)
(***************************************************************************)
(* RunTracker._persist: a metadata write that fails is logged, not raised. *)
TryWrite(r, status) ==
    \/ record' = [record EXCEPT ![r] = status]
    \/ "metadata" \in Faults /\ UNCHANGED record

(* Mutant: any earlier load with this data counts, not the latest only. *)
IsDuplicateOfAny == \E r \in Runs : record[r] = "SUCCESS" /\ data[r] = data[run]

Loads        == {r \in Runs : record[r] = "SUCCESS"}
LatestLoad   == CHOOSE r \in Loads : \A r2 \in Loads : r2 <= r
IsDuplicate  == Loads # {} /\ data[LatestLoad] = data[run]

Goto(label) == pc' = label

End(status) ==
    /\ outcome' = [outcome EXCEPT ![run] = status]
    /\ TryWrite(run, status)
    /\ Goto("idle")

table == <<rows, tokens, pending>>
retry == <<attempt, batch>>

-----------------------------------------------------------------------------
(***************************************************************************)
(* One run.                                                                *)
(***************************************************************************)
Begin ==
    /\ pc = "idle"
    /\ run < MaxRuns
    /\ run' = run + 1
    /\ TryWrite(run + 1, "RUNNING")
    /\ Goto("preparing")
    /\ UNCHANGED <<retry, data, outcome, table>>

(* preflight, acquisition, parse, transform and quality give a dataset.    *)
Prepare(d) ==
    /\ pc = "preparing"
    /\ data' = [data EXCEPT ![run] = d]
    /\ Goto("deciding")
    /\ UNCHANGED <<run, retry, outcome, record, table>>

(* One of those stages, or latest_load, fails: nothing was inserted yet.   *)
FailBeforeLoad ==
    /\ \/ pc = "preparing"
       \/ pc = "deciding" /\ "query" \in Faults
    /\ End("FAILED")
    /\ UNCHANGED <<run, retry, data, table>>

Skip ==
    /\ pc = "deciding"
    /\ IsDuplicate
    /\ End("SKIPPED")
    /\ UNCHANGED <<run, retry, data, table>>

(* New data, or a duplicate in a run with --force. *)
Proceed(force) ==
    /\ pc = "deciding"
    /\ IsDuplicate => force
    /\ attempt' = 1
    /\ batch' = 1
    /\ Goto("loading")
    /\ UNCHANGED <<run, data, outcome, record, table>>

InsertBatch ==
    /\ pc = "loading"
    /\ batch <= Len(data[run])
    /\ Land(run, batch)
    /\ batch' = batch + 1
    /\ UNCHANGED <<run, pc, attempt, data, outcome, record, pending>>

AllInserted ==
    /\ pc = "loading"
    /\ batch > Len(data[run])
    /\ Goto("verifying")
    /\ UNCHANGED <<run, retry, data, outcome, record, table>>

(* Mutant: attempts are not counted. *)
NextAttemptForever ==
    IF attempt < MaxAttempts
    THEN /\ batch' = 1
         /\ UNCHANGED <<pc, attempt>>
    ELSE /\ Goto("rollback")
         /\ UNCHANGED retry

(* A retryable error: load starts over with batch 0, or gives up. *)
NextAttempt ==
    IF attempt < MaxAttempts
    THEN /\ attempt' = attempt + 1
         /\ batch' = 1
         /\ UNCHANGED pc
    ELSE /\ Goto("rollback")
         /\ UNCHANGED retry

InsertFails ==
    /\ pc = "loading"
    /\ batch <= Len(data[run])
    /\ \/ /\ "rejected" \in Faults
          /\ UNCHANGED table
       \/ /\ "timeout" \in Faults
          /\ Land(run, batch)
          /\ UNCHANGED pending
       \/ /\ "late" \in Faults
          /\ pending' = pending \cup {<<run, batch, attempt>>}
          /\ UNCHANGED <<rows, tokens>>
    /\ NextAttempt
    /\ UNCHANGED <<run, data, outcome, record>>

(* loader.verify counts the rows that carry the run's _run_id.             *)
Found == Cardinality(UNION {{b} \X (1..rows[run][b]) : b \in BatchNos})

(* Mutant: only missing rows are noticed. *)
VerifyAtLeast ==
    /\ pc = "verifying"
    /\ Found >= Len(data[run])
    /\ Goto("verified")
    /\ UNCHANGED <<run, retry, data, outcome, record, table>>

Verify ==
    /\ pc = "verifying"
    /\ Found = Len(data[run])
    /\ Goto("verified")
    /\ UNCHANGED <<run, retry, data, outcome, record, table>>

(* Mutant: only the load is inside the try whose except rolls back. *)
VerifyFailsUnprotected ==
    /\ pc = "verifying"
    /\ Found # Len(data[run]) \/ "query" \in Faults
    /\ Goto("failing")
    /\ UNCHANGED <<run, retry, data, outcome, record, table>>

VerifyFails ==
    /\ pc = "verifying"
    /\ Found # Len(data[run]) \/ "query" \in Faults
    /\ Goto("rollback")
    /\ UNCHANGED <<run, retry, data, outcome, record, table>>

(* Mutant: the DELETE has no WHERE. *)
RollbackEverything ==
    /\ pc = "rollback"
    /\ rows' = [r \in Runs |-> NoRows]
    /\ Goto("failing")
    /\ UNCHANGED <<run, retry, data, outcome, record, tokens, pending>>

(* DELETE ... WHERE _run_id: an error is logged and otherwise ignored.     *)
Rollback ==
    /\ pc = "rollback"
    /\ \/ rows' = [rows EXCEPT ![run] = NoRows]
       \/ "delete" \in Faults /\ UNCHANGED rows
    /\ Goto("failing")
    /\ UNCHANGED <<run, retry, data, outcome, record, tokens, pending>>

Fail ==
    /\ pc = "failing"
    /\ End("FAILED")
    /\ UNCHANGED <<run, retry, data, table>>

Succeed ==
    /\ pc = "verified"
    /\ End("SUCCESS")
    /\ UNCHANGED <<run, retry, data, table>>

(* An interrupt or an unexpected exception: the run ends FAILED, but only  *)
(* a DashDashGoError rolls back.                                           *)
Abort ==
    /\ "abort" \in Faults
    /\ pc # "idle"
    /\ End("FAILED")
    /\ UNCHANGED <<run, retry, data, table>>

Crash ==
    /\ "crash" \in Faults
    /\ pc # "idle"
    /\ outcome' = [outcome EXCEPT ![run] = "killed"]
    /\ Goto("idle")
    /\ UNCHANGED <<run, retry, data, record, table>>

-----------------------------------------------------------------------------
(***************************************************************************)
(* ClickHouse on its own.                                                  *)
(***************************************************************************)
(* An insert whose client gave up commits, or is dropped. *)
LateInsert(p) ==
    /\ p \in pending
    /\ pending' = pending \ {p}
    /\ Land(p[1], p[2]) \/ UNCHANGED <<rows, tokens>>
    /\ UNCHANGED <<run, pc, retry, data, outcome, record>>

(* ReplacingMergeTree: a merge keeps the newest of the rows of a key that  *)
(* it happens to see.                                                      *)
Merge ==
    /\ "merge" \in Faults
    /\ \E r1, r2 \in Runs, b1, b2 \in BatchNos :
          /\ Present(r1, b1) /\ Present(r2, b2)
          /\ KeyOf(r1, b1) = KeyOf(r2, b2)
          /\ \/ r1 < r2
             \/ r1 = r2 /\ rows[r1][b1] > 1
          /\ rows' = [rows EXCEPT ![r1][b1] = @ - 1]
    /\ UNCHANGED <<run, pc, retry, data, outcome, record, tokens, pending>>

-----------------------------------------------------------------------------
Step ==
    \/ \E d \in Datasets : Prepare(d)
    \/ \E force \in BOOLEAN : Proceed(force)
    \/ Skip \/ FailBeforeLoad
    \/ InsertBatch \/ AllInserted \/ InsertFails
    \/ Verify \/ VerifyFails
    \/ Rollback \/ Fail \/ Succeed

Next ==
    \/ Begin \/ Step \/ Abort \/ Crash \/ Merge
    \/ \E p \in pending : LateInsert(p)

Spec == Init /\ [][Next]_vars

(* The thread of a run goes on: every call it makes returns or times out.  *)
FairSpec == Spec /\ WF_vars(Step)

-----------------------------------------------------------------------------
(***************************************************************************)
(* Properties.                                                             *)
(***************************************************************************)
(* "Verification then counts rows by _run_id, so a partial or doubled load *)
(* is caught" (README.md:895-896): although only the total is compared, a  *)
(* run passes with each of its batches in the table exactly once, whatever *)
(* was retried, dropped by its token, inserted late or forgotten.          *)
VerifiedLoadsAreExact ==
    [][pc = "verifying" /\ pc' = "verified"
       => \A b \in BatchNos : rows[run][b] = IF b <= Len(data[run]) THEN 1 ELSE 0]_vars

(* The runs whose load was verified and that were not failed afterwards.   *)
Committed ==
    {r \in Runs : outcome[r] = "SUCCESS"}
        \cup {r \in Runs : r = run /\ pc = "verified"}

(* "a failed run leaves no partial state" (loader.py:124): between runs    *)
(* readers see, for every key, the value of the last successful load.      *)
FailedRunsLeaveNothing ==
    pc = "idle" => \A k \in Keys : Visible(k) = Shown(Committed, k)

(* A run that ends ok (pipeline.py:37-39), loaded or skipped as duplicate, *)
(* has its data where readers see it.                                      *)
OkRunsAreVisible ==
    [][\A r \in Runs :
           outcome[r] = "none" /\ outcome'[r] \in {"SUCCESS", "SKIPPED"}
           => \A b \in DOMAIN data[r] : Visible(KeyOf(r, b)) = ValueOf(r, b)]_vars

(* What FINAL reads of the table show while runs load, retry, verify and   *)
(* roll back (pipeline.py:187-207) is AtomicLoad: batches may show before  *)
(* the load is verified, but it ends entirely or as if it had not begun.   *)
Promise == INSTANCE AtomicLoad WITH
    table   <- [k \in Keys |-> Visible(k)],
    before  <- [k \in Keys |-> Shown(Committed, k)],
    loading <- IF pc \in {"loading", "verifying", "rollback"} THEN data[run] ELSE <<>>,
    result  <- [r \in Runs |-> IF r \in Committed THEN "SUCCESS" ELSE outcome[r]]

IsAtomic == Promise!Spec

(* A run that began ends, however its inserts fail and are retried.        *)
RunsEnd == \A r \in Runs : run = r ~> outcome[r] # "none"

=============================================================================
