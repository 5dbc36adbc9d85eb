------------------------------ MODULE Scheduler ------------------------------
(***************************************************************************)
(* Keeping the scheduler's jobs in step with the report config files:      *)
(* ReportScheduler.sync (scheduling/scheduler.py), which reads them with   *)
(* ReportRegistry.load_all (config/loader.py), and its callers: server     *)
(* start, the five-minute job, and the API handlers that create, save and  *)
(* archive a config (distribution/config_api.py).  A file is what          *)
(* load_report_config makes of it; files also change behind the server's   *)
(* back, by the command line or a text editor.                             *)
(***************************************************************************)
EXTENDS Naturals, FiniteSets

CONSTANTS
    Reports,
    Crons,        \* schedules: cron expression and timezone
    Handlers,     \* request threads
    Timer,        \* the thread of the sync-schedules job
    NoJob,        \* no schedule
    Nobody,       \* the lock is free
    Outsiders,    \* what others than the API may write: sets of file contents
    MaxWrites     \* bound: file changes in a behaviour

(* What a report's file holds: a schedule; a valid config without an       *)
(* active schedule; a config that does not validate; bytes that are not    *)
(* UTF-8; or there is no file.                                             *)
Contents == Crons \cup {"unscheduled", "invalid", "undecodable", "absent"}
Threads  == Handlers \cup {Timer}

ASSUME SchedulerAssumption ==
    /\ Timer \notin Handlers /\ Nobody \notin Threads
    /\ Crons \cap {NoJob, "unscheduled", "invalid", "undecodable", "absent"} = {}
    /\ Outsiders \subseteq SUBSET Contents
    /\ MaxWrites \in Nat

VARIABLES
    file,       \* file[r]: content of r's config file
    jobs,       \* jobs[r]: the schedule of r's job in the job store, or NoJob
    schedules,  \* schedules[r]: ReportScheduler._schedules, NoJob for no entry
    lock,       \* the thread inside _sync_lock
    pc,         \* pc[t]: where thread t is
    toRead,     \* toRead[t]: reports load_all has listed and not yet read
    wanted,     \* wanted[t]: the schedules read by t's _sync
    serving,    \* has start() returned?
    outside,    \* what others than the API write in this behaviour (fixed)
    writes      \* file changes so far

vars == <<file, jobs, schedules, lock, pc, toRead, wanted, serving,
          outside, writes>>

None == [r \in Reports |-> NoJob]

TypeOK ==
    /\ file \in [Reports -> Contents]
    /\ jobs \in [Reports -> Crons \cup {NoJob}]
    /\ schedules \in [Reports -> Crons \cup {NoJob}]
    /\ lock \in Threads \cup {Nobody}
    /\ pc \in [Threads -> {"idle", "waiting", "listing", "reading", "applying"}]
    /\ toRead \in [Threads -> SUBSET Reports]
    /\ wanted \in [Threads -> [Reports -> Crons \cup {NoJob}]]
    /\ serving \in BOOLEAN
    /\ outside \in Outsiders
    /\ writes \in 0..MaxWrites

(* start() syncs in the starting thread, here Timer, before anything else. *)
Init ==
    /\ file \in [Reports -> Contents \ {"undecodable"}]
    /\ jobs = None
    /\ schedules = None
    /\ lock = Nobody
    /\ pc = [t \in Threads |-> IF t = Timer THEN "waiting" ELSE "idle"]
    /\ toRead = [t \in Threads |-> {}]
    /\ wanted = [t \in Threads |-> None]
    /\ serving = FALSE
    /\ outside \in Outsiders
    /\ writes = 0

-----------------------------------------------------------------------------
Goto(t, label) == pc' = [pc EXCEPT ![t] = label]

Change(r, c) ==
    /\ writes < MaxWrites
    /\ writes' = writes + 1
    /\ file' = [file EXCEPT ![r] = c]

(* create, save or archive through the API; _resync is the next thing the  *)
(* handler does.  The store accepts only texts that validate.              *)
ApiChange(t, r, c) ==
    /\ serving
    /\ pc[t] = "idle"
    /\ c \in Crons \cup {"unscheduled", "absent"}
    /\ Change(r, c)
    /\ Goto(t, "waiting")
    /\ UNCHANGED <<jobs, schedules, lock, toRead, wanted, serving, outside>>

(* The command line, another server or a text editor changes the file.     *)
OutsideChange(r, c) ==
    /\ c \in outside
    /\ Change(r, c)
    /\ UNCHANGED <<jobs, schedules, lock, pc, toRead, wanted, serving, outside>>

(* Five minutes have passed since the last sync of the job. *)
TimerFires ==
    /\ pc[Timer] = "idle"
    /\ Goto(Timer, "waiting")
    /\ UNCHANGED <<file, jobs, schedules, lock, toRead, wanted, serving, outside, writes>>

(***************************************************************************)
(* sync.                                                                   *)
(***************************************************************************)
(* Mutant: sync takes no lock. *)
EnterUnlocked(t) ==
    /\ pc[t] = "waiting"
    /\ lock' = t
    /\ Goto(t, "listing")
    /\ UNCHANGED <<file, jobs, schedules, toRead, wanted, serving, outside, writes>>

Enter(t) ==
    /\ pc[t] = "waiting"
    /\ lock = Nobody
    /\ lock' = t
    /\ Goto(t, "listing")
    /\ UNCHANGED <<file, jobs, schedules, toRead, wanted, serving, outside, writes>>

List(t) ==
    /\ pc[t] = "listing"
    /\ toRead' = [toRead EXCEPT ![t] = {r \in Reports : file[r] # "absent"}]
    /\ wanted' = [wanted EXCEPT ![t] = None]
    /\ Goto(t, "reading")
    /\ UNCHANGED <<file, jobs, schedules, lock, serving, outside, writes>>

(* An invalid config, or one that has gone since it was listed, is logged. *)
Read(t, r) ==
    /\ pc[t] = "reading"
    /\ r \in toRead[t]
    /\ file[r] # "undecodable"
    /\ toRead' = [toRead EXCEPT ![t] = @ \ {r}]
    /\ wanted' = [wanted EXCEPT ![t][r] = IF file[r] \in Crons THEN file[r] ELSE NoJob]
    /\ UNCHANGED <<file, jobs, schedules, lock, pc, serving, outside, writes>>

(* load_report_config catches OSError; a UnicodeDecodeError ends the sync, *)
(* and the start of the server too, which is then started again.           *)
ReadRaises(t, r) ==
    /\ pc[t] = "reading"
    /\ r \in toRead[t]
    /\ file[r] = "undecodable"
    /\ lock' = Nobody
    /\ Goto(t, IF serving THEN "idle" ELSE "waiting")
    /\ UNCHANGED <<file, jobs, schedules, toRead, wanted, serving, outside, writes>>

AllRead(t) ==
    /\ pc[t] = "reading"
    /\ toRead[t] = {}
    /\ Goto(t, "applying")
    /\ UNCHANGED <<file, jobs, schedules, lock, toRead, wanted, serving, outside, writes>>

(* Mutant: jobs are added and changed, never removed. *)
DiffersAdded(t) ==
    {r \in Reports : wanted[t][r] # NoJob /\ jobs[r] # wanted[t][r]}

(* remove_job, then add_job with replace_existing; unchanged schedules     *)
(* keep their job.                                                         *)
Differs(t) == {r \in Reports : wanted[t][r] # schedules[r] /\ jobs[r] # wanted[t][r]}

ApplyJob(t, r) ==
    /\ pc[t] = "applying"
    /\ r \in Differs(t)
    /\ jobs' = [jobs EXCEPT ![r] = wanted[t][r]]
    /\ UNCHANGED <<file, schedules, lock, pc, toRead, wanted, serving, outside, writes>>

Leave(t) ==
    /\ pc[t] = "applying"
    /\ Differs(t) = {}
    /\ schedules' = wanted[t]
    /\ lock' = Nobody
    /\ serving' = TRUE
    /\ Goto(t, "idle")
    /\ UNCHANGED <<file, jobs, toRead, wanted, outside, writes>>

-----------------------------------------------------------------------------
SyncStep(t) ==
    \/ Enter(t) \/ List(t) \/ AllRead(t) \/ Leave(t)
    \/ \E r \in Reports : Read(t, r) \/ ReadRaises(t, r) \/ ApplyJob(t, r)

Next ==
    \/ \E t \in Threads : SyncStep(t)
    \/ TimerFires
    \/ \E r \in Reports, c \in Contents :
          OutsideChange(r, c) \/ \E t \in Handlers : ApiChange(t, r, c)

Spec == Init /\ [][Next]_vars

(* Threads go on; the sync job fires every SYNC_INTERVAL_MINUTES.          *)
FairSpec ==
    /\ Spec
    /\ \A t \in Threads : SF_vars(SyncStep(t))
    /\ WF_vars(TimerFires)

-----------------------------------------------------------------------------
(***************************************************************************)
(* Properties.                                                             *)
(***************************************************************************)
ScheduleOf(c) == IF c \in Crons THEN c ELSE NoJob

(* When every API request has been answered and no sync is under way, the  *)
(* jobs are those of the files, if only the API changed them: a sync that  *)
(* read the files before a save never undoes the save's own (the reason    *)
(* for _sync_lock, scheduler.py:48).                                       *)
AnsweredMeansScheduled ==
    serving /\ outside = {} /\ (\A t \in Threads : pc[t] = "idle")
        => \A r \in Reports : jobs[r] = ScheduleOf(file[r])

(* "Schedules are re-read from the config files periodically, so editing a *)
(* cron expression takes effect without a restart" (scheduler.py:5-6).     *)
EditsTakeEffect ==
    \A r \in Reports, c \in Crons \cup {"unscheduled", "absent"} :
        <>[](file[r] = c) => <>[](jobs[r] = ScheduleOf(c))

(* The same, if every file can be decoded.                                 *)
DecodableEditsTakeEffect == "undecodable" \notin outside => EditsTakeEffect

=============================================================================
