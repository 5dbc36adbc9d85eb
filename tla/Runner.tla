------------------------------- MODULE Runner -------------------------------
(***************************************************************************)
(* Starting, executing and ending runs: RunService and ReportLock          *)
(* (orchestration/runner.py), the frame of PipelineOrchestrator.run        *)
(* (orchestration/pipeline.py), the run record kept by RunTracker          *)
(* (metadata/tracker.py), the recovery of interrupted runs at server start *)
(* (distribution/app.py, metadata/repository.py) and the shutdown of the   *)
(* server.  What a run does between its start and its end is module        *)
(* LoadPipeline's subject; here it ends with any terminal status.          *)
(*                                                                         *)
(* Processes are server instances and command-line runs.  They share the   *)
(* file locks and the metadata table; _active is private to a server.      *)
(***************************************************************************)
EXTENDS Naturals, FiniteSets

CONSTANTS
    Reports,      \* report names
    Servers,      \* server process instances (`dashdashgo serve`)
    Runs,         \* run identifiers
    Cli,          \* the home of a run made by `dashdashgo run` / `retry`
    NoRun,        \* nobody holds the lock
    MaxWorkers,   \* MAX_CONCURRENT_RUNS
    MaxStops,     \* bound: kills and shutdowns in a behaviour
    MaxOutages    \* bound: times ClickHouse becomes unreachable

ASSUME RunnerAssumption ==
    /\ Cli \notin Servers
    /\ NoRun \notin Runs
    /\ MaxWorkers \in Nat \ {0}
    /\ MaxStops \in Nat
    /\ MaxOutages \in Nat

VARIABLES
    rep,        \* rep[run]: the report run is about (fixed: run ids are never reused)
    home,       \* home[run]: the process that asks for run, a server or Cli (fixed)
    pc,         \* pc[run]: how far submit / run_now / _execute got
    outcome,    \* outcome[run]: terminal status of the RunResult in memory, or "none"
    active,     \* active[s]: RunService._active of server s
    holder,     \* holder[r]: the run whose flock on r's lock file is held
    record,     \* record[run]: newest status of run in pipeline_runs, or "none"
    silent,     \* runs whose newest record is older than STALE_AFTER
    server,     \* server[s]: life cycle of server instance s
    toMark,     \* toMark[s]: rows mark_interrupted has read and not yet rewritten
    warehouse,  \* "up" or "down": can ClickHouse be reached?
    stops,      \* kills and shutdowns so far
    outages     \* outages so far

vars == <<rep, home, pc, outcome, active, holder, record, silent, server,
          toMark, warehouse, stops, outages>>

(***************************************************************************)
(* Types.                                                                  *)
(***************************************************************************)
Terminal   == {"SUCCESS", "SKIPPED", "FAILED"}
Unfinished == {"QUEUED", "RUNNING"}
Statuses   == Terminal \cup Unfinished

(* Where a run can be:
     idle       nobody asked for it yet
     claimed    submit holds the claim in _active, save_run(QUEUED) is next
     saved      QUEUED is recorded; executor.submit (server) or _execute is next
     queued     waits in the executor
     running    holds the flock, orchestrator.run was entered
     started    tracker.start was called: the stages run
     ended      the tracker reported a terminal status, the flock is still held
     refused    the flock was busy, the FAILED record is not yet written
     lockless   the lock file could not be opened, the `finally` is next
     released   no flock held, the `finally` of _execute is next
     done       _execute returned
     rejected   submit raised
     raised     _execute raised
     cancelled  its future was cancelled by shutdown
     killed     its process died                                           *)
InLock    == {"running", "started", "ended"}
Executing == InLock \cup {"refused", "lockless", "released"}
Live      == Executing \cup {"claimed", "saved", "queued"}
Over      == {"done", "rejected", "raised", "cancelled", "killed"}
Pcs       == Live \cup Over \cup {"idle"}

TypeOK ==
    /\ rep \in [Runs -> Reports]
    /\ home \in [Runs -> Servers \cup {Cli}]
    /\ pc \in [Runs -> Pcs]
    /\ outcome \in [Runs -> Terminal \cup {"none"}]
    /\ active \in [Servers -> SUBSET Reports]
    /\ holder \in [Reports -> Runs \cup {NoRun}]
    /\ record \in [Runs -> Statuses \cup {"none"}]
    /\ silent \in SUBSET Runs
    /\ server \in [Servers -> {"down", "starting", "marking", "serving", "draining"}]
    /\ toMark \in [Servers -> SUBSET Runs]
    /\ warehouse \in {"up", "down"}
    /\ stops \in 0..MaxStops
    /\ outages \in 0..MaxOutages

Init ==
    /\ rep \in [Runs -> Reports]
    /\ home \in [Runs -> Servers \cup {Cli}]
    /\ pc = [run \in Runs |-> "idle"]
    /\ outcome = [run \in Runs |-> "none"]
    /\ active = [s \in Servers |-> {}]
    /\ holder = [r \in Reports |-> NoRun]
    /\ record = [run \in Runs |-> "none"]
    /\ silent = {}
    /\ server = [s \in Servers |-> "down"]
    /\ toMark = [s \in Servers |-> {}]
    /\ warehouse = "up"
    /\ stops = 0
    /\ outages = 0

-----------------------------------------------------------------------------
(***************************************************************************)
(* Shared pieces.                                                          *)
(***************************************************************************)
Goto(run, label) == pc' = [pc EXCEPT ![run] = label]

(* save_run: the newest row of a run replaces its older ones. *)
Write(run, status) ==
    /\ record' = [record EXCEPT ![run] = status]
    /\ silent' = silent \ {run}

(* RunTracker._persist: a failed metadata write is logged and forgotten. *)
TryWrite(run, status) ==
    \/ /\ warehouse = "up"
       /\ Write(run, status)
    \/ /\ warehouse = "down"
       /\ UNCHANGED <<record, silent>>

(* Mutant: the busy lock is not noticed. *)
LockFreeAlways(run) == TRUE

(* ReportLock.hold: a non-blocking flock on the report's lock file. *)
LockFree(run) == holder[rep[run]] = NoRun
Lock(run)     == holder' = [holder EXCEPT ![rep[run]] = run]
Unlock(run)   == holder' = [holder EXCEPT ![rep[run]] = NoRun]

(* The claims of a server.  A command-line process has a private, empty    *)
(* _active, so its discard changes nothing.                                *)
Claim(run) == active' = [active EXCEPT ![home[run]] = @ \cup {rep[run]}]
Discard(run) ==
    active' = IF home[run] = Cli THEN active
              ELSE [active EXCEPT ![home[run]] = @ \ {rep[run]}]

(* Mutant: a worker is not given back when its run returns. *)
FreeWorkerKept(s) ==
    Cardinality({run \in Runs : home[run] = s /\ pc[run] \in Executing \cup {"done"}})
        < MaxWorkers

FreeWorker(s) ==
    Cardinality({run \in Runs : home[run] = s /\ pc[run] \in Executing}) < MaxWorkers

frozen  == <<rep, home>>
process == <<server, toMark, stops>>
outside == <<warehouse, outages>>

-----------------------------------------------------------------------------
(***************************************************************************)
(* RunService.submit, in a request or scheduler thread of a server.        *)
(***************************************************************************)
(* Mutant: submit does not look whether the report is claimed. *)
SubmitUnchecked(run) ==
    /\ pc[run] = "idle"
    /\ home[run] # Cli
    /\ server[home[run]] = "serving"
    /\ Claim(run)
    /\ Goto(run, "claimed")
    /\ UNCHANGED <<frozen, outcome, holder, record, silent, process, outside>>

Submit(run) ==
    /\ pc[run] = "idle"
    /\ home[run] # Cli
    /\ server[home[run]] = "serving"
    /\ rep[run] \notin active[home[run]]
    /\ Claim(run)
    /\ Goto(run, "claimed")
    /\ UNCHANGED <<frozen, outcome, holder, record, silent, process, outside>>

SaveQueued(run) ==
    /\ pc[run] = "claimed"
    /\ warehouse = "up"
    /\ Write(run, "QUEUED")
    /\ Goto(run, "saved")
    /\ UNCHANGED <<frozen, outcome, active, holder, process, outside>>

(* Mutant: a claim is not given up when queueing fails. *)
SaveQueuedFailsClaimed(run) ==
    /\ pc[run] = "claimed"
    /\ warehouse = "down"
    /\ Goto(run, "rejected")
    /\ UNCHANGED <<frozen, outcome, active, holder, record, silent, process, outside>>

SaveQueuedFails(run) ==
    /\ pc[run] = "claimed"
    /\ warehouse = "down"
    /\ Discard(run)
    /\ Goto(run, "rejected")
    /\ UNCHANGED <<frozen, outcome, holder, record, silent, process, outside>>

Enqueue(run) ==
    /\ pc[run] = "saved"
    /\ home[run] # Cli
    /\ server[home[run]] = "serving"
    /\ Goto(run, "queued")
    /\ UNCHANGED <<frozen, outcome, active, holder, record, silent, process, outside>>

(* After shutdown the executor refuses new work (RuntimeError). *)
EnqueueFails(run) ==
    /\ pc[run] = "saved"
    /\ home[run] # Cli
    /\ server[home[run]] = "draining"
    /\ Discard(run)
    /\ Goto(run, "rejected")
    /\ UNCHANGED <<frozen, outcome, holder, record, silent, process, outside>>

(***************************************************************************)
(* RunService.run_now, in a command-line process.                          *)
(***************************************************************************)
RunNow(run) ==
    /\ pc[run] = "idle"
    /\ home[run] = Cli
    /\ warehouse = "up"
    /\ Write(run, "QUEUED")
    /\ Goto(run, "saved")
    /\ UNCHANGED <<frozen, outcome, active, holder, process, outside>>

(***************************************************************************)
(* RunService._execute, in a worker thread or in the command-line process. *)
(***************************************************************************)
CanExecute(run) ==
    \/ pc[run] = "queued" /\ FreeWorker(home[run])
    \/ pc[run] = "saved" /\ home[run] = Cli

TakeLock(run) ==
    /\ CanExecute(run)
    /\ LockFree(run)
    /\ Lock(run)
    /\ Goto(run, "running")
    /\ UNCHANGED <<frozen, outcome, active, record, silent, process, outside>>

LockBusy(run) ==
    /\ CanExecute(run)
    /\ ~LockFree(run)
    /\ Goto(run, "refused")
    /\ UNCHANGED <<frozen, outcome, active, holder, record, silent, process, outside>>

(* The lock file cannot be opened (mkdir, open or flock raise OSError): nobody catches  *)
(* that, and the record stays as it is.                                                *)
LockFails(run) ==
    /\ CanExecute(run)
    /\ Goto(run, "lockless")
    /\ UNCHANGED <<frozen, outcome, active, holder, record, silent, process, outside>>

(* Mutant: the refusal is returned and not recorded. *)
RecordRefusalUnsaved(run) ==
    /\ pc[run] = "refused"
    /\ outcome' = [outcome EXCEPT ![run] = "FAILED"]
    /\ Goto(run, "released")
    /\ UNCHANGED <<frozen, active, holder, record, silent, process, outside>>

RecordRefusal(run) ==
    /\ pc[run] = "refused"
    /\ TryWrite(run, "FAILED")
    /\ outcome' = [outcome EXCEPT ![run] = "FAILED"]
    /\ Goto(run, "released")
    /\ UNCHANGED <<frozen, active, holder, process, outside>>

(* Mutant: only the normal way out gives the claim up. *)
ReturnClaimed(run) ==
    /\ pc[run] \in {"released", "lockless"}
    /\ IF pc[run] = "released" THEN Discard(run) ELSE UNCHANGED active
    /\ Goto(run, IF pc[run] = "released" THEN "done" ELSE "raised")
    /\ UNCHANGED <<frozen, outcome, holder, record, silent, process, outside>>

Return(run) ==
    /\ pc[run] \in {"released", "lockless"}
    /\ Discard(run)
    /\ Goto(run, IF pc[run] = "released" THEN "done" ELSE "raised")
    /\ UNCHANGED <<frozen, outcome, holder, record, silent, process, outside>>

(***************************************************************************)
(* PipelineOrchestrator.run, reduced to what it tells the tracker.         *)
(***************************************************************************)
Start(run) ==
    /\ pc[run] = "running"
    /\ TryWrite(run, "RUNNING")
    /\ Goto(run, "started")
    /\ UNCHANGED <<frozen, outcome, active, holder, process, outside>>

(* Mutant: an update may come after the end. *)
ProgressLate(run) ==
    /\ pc[run] \in {"started", "ended"}
    /\ warehouse = "up"
    /\ Write(run, "RUNNING")
    /\ UNCHANGED <<frozen, pc, outcome, active, holder, process, outside>>

(* Every update of a running run saves its whole record again. *)
Progress(run) ==
    /\ pc[run] = "started"
    /\ warehouse = "up"
    /\ Write(run, "RUNNING")
    /\ UNCHANGED <<frozen, pc, outcome, active, holder, process, outside>>

(* A run whose setup fails never starts, but ends FAILED all the same. *)
Finish(run, status) ==
    /\ \/ pc[run] = "started"
       \/ pc[run] = "running" /\ status = "FAILED"
    /\ TryWrite(run, status)
    /\ outcome' = [outcome EXCEPT ![run] = status]
    /\ Goto(run, "ended")
    /\ UNCHANGED <<frozen, active, holder, process, outside>>

Release(run) ==
    /\ pc[run] = "ended"
    /\ Unlock(run)
    /\ Goto(run, "released")
    /\ UNCHANGED <<frozen, outcome, active, record, silent, process, outside>>

-----------------------------------------------------------------------------
(***************************************************************************)
(* The server's life: lifespan of distribution/app.py and                  *)
(* ClickHouseRunRepository.mark_interrupted.                               *)
(***************************************************************************)
StartServer(s) ==
    /\ server[s] = "down"
    /\ server' = [server EXCEPT ![s] = "starting"]
    /\ UNCHANGED <<frozen, pc, outcome, active, holder, record, silent, toMark,
                   stops, outside>>

(* Mutant: command-line runs are taken for the server's own. *)
InterruptedAnyTrigger(run) == record[run] \in Unfinished

(* Mutant: queued runs are forgotten. *)
InterruptedRunning(run) ==
    /\ record[run] = "RUNNING"
    /\ home[run] # Cli \/ run \in silent

(* Rows a restarted server takes for interrupted. *)
Interrupted(run) ==
    /\ record[run] \in Unfinished
    /\ home[run] # Cli \/ run \in silent

MarkRead(s) ==
    /\ server[s] = "starting"
    /\ warehouse = "up"
    /\ toMark' = [toMark EXCEPT ![s] = {run \in Runs : Interrupted(run)}]
    /\ server' = [server EXCEPT ![s] = "marking"]
    /\ UNCHANGED <<frozen, pc, outcome, active, holder, record, silent, stops, outside>>

MarkWrite(s, run) ==
    /\ server[s] = "marking"
    /\ run \in toMark[s]
    /\ warehouse = "up"
    /\ Write(run, "FAILED")
    /\ toMark' = [toMark EXCEPT ![s] = @ \ {run}]
    /\ UNCHANGED <<frozen, pc, outcome, active, holder, server, stops, outside>>

MarkDone(s) ==
    /\ server[s] = "marking"
    /\ toMark[s] = {}
    /\ server' = [server EXCEPT ![s] = "serving"]
    /\ UNCHANGED <<frozen, pc, outcome, active, holder, record, silent, toMark,
                   stops, outside>>

(* ClickHouse does not answer: the API starts degraded, nothing is (further) marked. *)
StartDegraded(s) ==
    /\ server[s] \in {"starting", "marking"}
    /\ warehouse = "down"
    /\ server' = [server EXCEPT ![s] = "serving"]
    /\ toMark' = [toMark EXCEPT ![s] = {}]
    /\ UNCHANGED <<frozen, pc, outcome, active, holder, record, silent, stops, outside>>

(* run_service.shutdown(wait=False): queued futures are cancelled, running *)
(* ones continue; the interpreter exits when its worker threads have ended. *)
Shutdown(s) ==
    /\ server[s] = "serving"
    /\ stops < MaxStops
    /\ stops' = stops + 1
    /\ server' = [server EXCEPT ![s] = "draining"]
    /\ pc' = [run \in Runs |-> IF home[run] = s /\ pc[run] = "queued"
                               THEN "cancelled" ELSE pc[run]]
    /\ UNCHANGED <<frozen, outcome, active, holder, record, silent, toMark, outside>>

Exit(s) ==
    /\ server[s] = "draining"
    /\ \A run \in Runs : home[run] = s => pc[run] \notin Live
    /\ server' = [server EXCEPT ![s] = "down"]
    /\ active' = [active EXCEPT ![s] = {}]
    /\ UNCHANGED <<frozen, pc, outcome, holder, record, silent, toMark, stops, outside>>

(* SIGKILL: the runs in dead stop where they are; the OS drops their flocks. *)
Kill(dead) ==
    /\ stops < MaxStops
    /\ stops' = stops + 1
    /\ pc' = [run \in Runs |-> IF run \in dead /\ pc[run] \in Live
                               THEN "killed" ELSE pc[run]]
    /\ holder' = [r \in Reports |-> IF holder[r] \in dead THEN NoRun ELSE holder[r]]
    /\ UNCHANGED <<frozen, outcome, record, silent, outside>>

KillServer(s) ==
    /\ server[s] # "down"
    /\ Kill({run \in Runs : home[run] = s})
    /\ server' = [server EXCEPT ![s] = "down"]
    /\ active' = [active EXCEPT ![s] = {}]
    /\ toMark' = [toMark EXCEPT ![s] = {}]

KillCli(run) ==
    /\ home[run] = Cli
    /\ pc[run] \in Live
    /\ Kill({run})
    /\ UNCHANGED <<active, server, toMark>>

-----------------------------------------------------------------------------
(***************************************************************************)
(* The environment.                                                        *)
(***************************************************************************)
WarehouseDown ==
    /\ warehouse = "up"
    /\ outages < MaxOutages
    /\ warehouse' = "down"
    /\ outages' = outages + 1
    /\ UNCHANGED <<frozen, pc, outcome, active, holder, record, silent, process>>

WarehouseUp ==
    /\ warehouse = "down"
    /\ warehouse' = "up"
    /\ UNCHANGED <<frozen, pc, outcome, active, holder, record, silent, process, outages>>

(* Six hours pass without a newer record.  Every stage of a run is bounded *)
(* by timeouts and attempts and updates the record, so this happens only   *)
(* to a run that is over; only the age of command-line runs is ever looked *)
(* at.                                                                     *)
GoSilent(run) ==
    /\ home[run] = Cli
    /\ record[run] \in Unfinished
    /\ pc[run] \in Over
    /\ run \notin silent
    /\ silent' = silent \cup {run}
    /\ UNCHANGED <<frozen, pc, outcome, active, holder, record, process, outside>>

-----------------------------------------------------------------------------
RunStep(run) ==
    \/ SaveQueued(run) \/ SaveQueuedFails(run) \/ Enqueue(run) \/ EnqueueFails(run)
    \/ TakeLock(run) \/ LockBusy(run) \/ LockFails(run) \/ RecordRefusal(run) \/ Return(run)
    \/ Start(run) \/ Release(run)
    \/ \E status \in Terminal : Finish(run, status)

ServerStep(s) ==
    \/ StartServer(s) \/ MarkRead(s) \/ MarkDone(s) \/ StartDegraded(s) \/ Exit(s)
    \/ \E run \in Runs : MarkWrite(s, run)

Environment ==
    \/ \E run \in Runs : Submit(run) \/ RunNow(run) \/ KillCli(run) \/ GoSilent(run)
    \/ \E s \in Servers : Shutdown(s) \/ KillServer(s)
    \/ WarehouseDown \/ WarehouseUp

Next ==
    \/ \E run \in Runs : RunStep(run) \/ Progress(run)
    \/ \E s \in Servers : ServerStep(s)
    \/ Environment

Spec == Init /\ [][Next]_vars

(* A thread that can continue does; a stopped server is started again      *)
(* (docker-compose: restart: unless-stopped); an outage ends.              *)
Fairness ==
    /\ \A run \in Runs : WF_vars(RunStep(run))
    /\ \A s \in Servers : WF_vars(ServerStep(s))
    /\ WF_vars(WarehouseUp)

FairSpec == Spec /\ Fairness

-----------------------------------------------------------------------------
(***************************************************************************)
(* Safety.                                                                 *)
(***************************************************************************)
(* ReportLock keeps two runs of one report from being inside the           *)
(* orchestrator together, whatever processes they belong to and whichever  *)
(* of those die (runner.py:30-36).                                         *)
OneRunPerReport ==
    \A run1, run2 \in Runs :
        /\ pc[run1] \in InLock /\ pc[run2] \in InLock
        /\ rep[run1] = rep[run2]
        => run1 = run2

(* Within a server the set _active is a faithful count of one: every run   *)
(* between its claim and its discard has its report claimed, and no second *)
(* such run of the report exists, so no discard ever drops another run's   *)
(* claim (runner.py:123-125, 162-174).                                     *)
ClaimsAreExclusive ==
    \A run1 \in Runs :
        home[run1] # Cli /\ pc[run1] \in Live =>
            /\ rep[run1] \in active[home[run1]]
            /\ \A run2 \in Runs :
                    /\ home[run2] = home[run1] /\ rep[run2] = rep[run1]
                    /\ pc[run2] \in Live
                    => run2 = run1

(* A serving process never keeps a report blocked as "already queued or    *)
(* running" without such a run, however submit or _execute ended           *)
(* (runner.py:171-174).                                                    *)
NoReportStaysBlocked ==
    \A s \in Servers :
        server[s] = "serving" =>
            \A r \in active[s] :
                \E run \in Runs : home[run] = s /\ rep[run] = r /\ pc[run] \in Live

(* A run that a server accepted is refused the flock only because another  *)
(* process is running the report: _execute gives the flock back before it  *)
(* gives up the claim (runner.py:104, 123-125).                            *)
RefusedByAnotherProcess ==
    [][\A run \in Runs :
           /\ home[run] # Cli
           /\ pc[run] # "refused" /\ pc'[run] = "refused"
           => \E other \in Runs :
                  /\ rep[other] = rep[run] /\ pc[other] \in InLock
                  /\ home[other] # home[run]]_vars

(* "Fail QUEUED/RUNNING runs that were executing inside the (restarted)    *)
(* server" (repository.py:72): a run that mark_interrupted fails, without  *)
(* having ended by itself, is not executing anywhere.                      *)
MarkedRunsAreOver ==
    [][\A run \in Runs :
           /\ record[run] \in Unfinished /\ record'[run] = "FAILED"
           /\ outcome'[run] = "none"
           => pc[run] \in Over]_vars

(* Once a terminal status is on record it stays: nothing still in flight   *)
(* overwrites it (retry_run and cmd_retry rely on it, api.py:263).         *)
TerminalIsFinal ==
    [][\A run \in Runs : record[run] \in Terminal => record'[run] = record[run]]_vars

(* Metadata and RunResult agree, unless a write was lost in an outage: a   *)
(* run that returned to its caller is on record with the status it         *)
(* returned, whatever restarts and recoveries happened around it.          *)
ReturnedRunsAreRecorded ==
    outages = 0 => \A run \in Runs : pc[run] = "done" => record[run] = outcome[run]

(***************************************************************************)
(* Liveness.                                                               *)
(***************************************************************************)
(* Every run that is under way gets out of the way: it returns, is turned  *)
(* down, is cancelled or dies; no run waits forever for a worker or a lock.*)
RunsGetOver == \A run \in Runs : pc[run] \in Live ~> pc[run] \in Over

(* "when the server restarts, runs it was executing are marked FAILED      *)
(* (interrupted) so nothing stays RUNNING forever" (README.md:726-727).    *)
(* A run on record as RUNNING gets a terminal record that stays, and so    *)
(* does a QUEUED one, unless its lock file could not be opened: it stays   *)
(* QUEUED until the next restart, and every restart leaves no unfinished   *)
(* record of the server behind.                                            *)
NothingStaysRunning ==
    \A run \in Runs, s \in Servers :
        /\ home[run] = s /\ record[run] = "RUNNING" ~> [](record[run] \in Terminal)
        /\ home[run] = s /\ record[run] = "QUEUED"
               ~> pc[run] = "raised" \/ [](record[run] \in Terminal)
        /\ home[run] = s /\ record[run] \in Unfinished /\ server[s] = "starting"
               ~> [](record[run] \in Terminal)

=============================================================================
