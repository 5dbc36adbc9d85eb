--------------------------- MODULE SchedulerProofs ---------------------------
(***************************************************************************)
(* Proofs about Scheduler: type correctness, and that when every request   *)
(* has been answered the jobs are those of the config files.               *)
(***************************************************************************)
EXTENDS Scheduler, TLAPS

Inside == {"listing", "reading", "applying"}

(* A sync holds the lock from listing the files to keeping the schedules.  *)
LockInv == \A t \in Threads : pc[t] \in Inside <=> lock = t

(* Outside the applying of changes jobs and _schedules agree; during it    *)
(* each job is still the remembered one or already the wanted one.         *)
JobsInv ==
    \A r \in Reports :
        \/ jobs[r] = schedules[r]
        \/ \E t \in Threads : pc[t] = "applying" /\ jobs[r] = wanted[t][r]

(* Read from the files, or still to be read. *)
UpToDate(t) ==
    \A r \in Reports :
        \/ pc[t] = "reading" /\ r \in toRead[t]
        \/ wanted[t][r] = ScheduleOf(file[r])

(* If only the API writes, some thread will still list the files, or one   *)
(* has read them since they last changed, or all are idle and the jobs are *)
(* right.                                                                  *)
FreshInv ==
    outside = {} =>
        /\ \A r \in Reports : file[r] # "undecodable"
        /\ \/ \E t \in Threads : pc[t] \in {"waiting", "listing"}
           \/ \E t \in Threads : pc[t] \in {"reading", "applying"} /\ UpToDate(t)
           \/ /\ \A t \in Threads : pc[t] = "idle"
              /\ \A r \in Reports : jobs[r] = ScheduleOf(file[r])

Inv == TypeOK /\ LockInv /\ JobsInv /\ FreshInv

-----------------------------------------------------------------------------
(* Nothing is scheduled, no thread is in a sync, and the starting thread   *)
(* is about to begin one.                                                  *)
LEMMA InitInv == Init => Inv
<1> SUFFICES ASSUME Init PROVE Inv
  OBVIOUS
<1> USE SchedulerAssumption DEF Init
<1>1. TypeOK
  <2>1. pc \in [Threads -> {"idle", "waiting", "listing", "reading", "applying"}]
    OBVIOUS
  <2>2. None \in [Reports -> Crons \cup {NoJob}]
    BY DEF None
  <2>3. file \in [Reports -> Contents]
    OBVIOUS
  <2>4. /\ toRead \in [Threads -> SUBSET Reports]
        /\ wanted \in [Threads -> [Reports -> Crons \cup {NoJob}]]
    BY <2>2
  <2>5. writes \in 0..MaxWrites
    OBVIOUS
  <2>6. QED
    BY <2>1, <2>2, <2>3, <2>4, <2>5 DEF TypeOK
<1>2. LockInv
  BY DEF LockInv, Inside, Threads
<1>3. JobsInv
  BY DEF JobsInv
<1>4. FreshInv
  BY DEF FreshInv, Threads
<1>5. QED
  BY <1>1, <1>2, <1>3, <1>4 DEF Inv

(* Every step keeps the types. *)
LEMMA TypeStep == TypeOK /\ [Next]_vars => TypeOK'
<1> SUFFICES ASSUME TypeOK, [Next]_vars PROVE TypeOK'
  OBVIOUS
<1> USE SchedulerAssumption DEF TypeOK, Goto
<1>1. CASE UNCHANGED vars
  BY <1>1 DEF vars
<1>2. ASSUME NEW t \in Threads, SyncStep(t) PROVE TypeOK'
  <2>1. CASE Enter(t)
    BY <2>1 DEF Enter
  <2>2. CASE List(t)
    BY <2>2 DEF List, None
  <2>3. CASE AllRead(t)
    BY <2>3 DEF AllRead
  <2>4. CASE Leave(t)
    BY <2>4 DEF Leave
  <2>5. ASSUME NEW r \in Reports, Read(t, r) PROVE TypeOK'
    <3>1. wanted' \in [Threads -> [Reports -> Crons \cup {NoJob}]]
      BY <2>5 DEF Read
    <3>2. toRead' \in [Threads -> SUBSET Reports]
      BY <2>5 DEF Read
    <3>3. QED
      BY <2>5, <3>1, <3>2 DEF Read
  <2>6. ASSUME NEW r \in Reports, ReadRaises(t, r) PROVE TypeOK'
    BY <2>6 DEF ReadRaises
  <2>7. ASSUME NEW r \in Reports, ApplyJob(t, r) PROVE TypeOK'
    BY <2>7 DEF ApplyJob
  <2>8. QED
    BY <1>2, <2>1, <2>2, <2>3, <2>4, <2>5, <2>6, <2>7 DEF SyncStep
<1>3. CASE TimerFires
  BY <1>3 DEF TimerFires, Threads
<1>4. ASSUME NEW r \in Reports, NEW c \in Contents, OutsideChange(r, c) PROVE TypeOK'
  BY <1>4 DEF OutsideChange, Change
<1>5. ASSUME NEW r \in Reports, NEW c \in Contents, NEW t \in Handlers,
             ApiChange(t, r, c)
      PROVE  TypeOK'
  BY <1>5 DEF ApiChange, Change, Threads
<1>6. QED
  BY <1>1, <1>2, <1>3, <1>4, <1>5 DEF Next

(* A thread enters when nobody is inside, and frees the lock it holds.     *)
LEMMA LockStep == TypeOK /\ LockInv /\ [Next]_vars => LockInv'
<1> SUFFICES ASSUME TypeOK, LockInv, [Next]_vars PROVE LockInv'
  OBVIOUS
<1> USE SchedulerAssumption DEF TypeOK, LockInv, Inside, Goto
<1>1. CASE UNCHANGED vars
  BY <1>1 DEF vars
<1>2. ASSUME NEW t \in Threads, SyncStep(t) PROVE LockInv'
  BY <1>2 DEF SyncStep, Enter, List, AllRead, Leave, Read, ReadRaises, ApplyJob
<1>3. CASE TimerFires
  BY <1>3 DEF TimerFires, Threads
<1>4. ASSUME NEW r \in Reports, NEW c \in Contents, OutsideChange(r, c) PROVE LockInv'
  BY <1>4 DEF OutsideChange
<1>5. ASSUME NEW r \in Reports, NEW c \in Contents, NEW t \in Handlers,
             ApiChange(t, r, c)
      PROVE  LockInv'
  BY <1>5 DEF ApiChange, Threads
<1>6. QED
  BY <1>1, <1>2, <1>3, <1>4, <1>5 DEF Next

(* Only the thread that applies changes touches a job, and it keeps what   *)
(* it applied.                                                             *)
LEMMA JobsStep == TypeOK /\ LockInv /\ JobsInv /\ [Next]_vars => JobsInv'
<1> SUFFICES ASSUME TypeOK, LockInv, JobsInv, [Next]_vars PROVE JobsInv'
  OBVIOUS
<1> USE SchedulerAssumption DEF TypeOK, LockInv, JobsInv, Inside, Goto
<1>1. CASE UNCHANGED vars
  BY <1>1 DEF vars
<1>2. ASSUME NEW t \in Threads, SyncStep(t) PROVE JobsInv'
  <2>1. CASE Enter(t) \/ AllRead(t)
    BY <2>1 DEF Enter, AllRead
  <2>2. CASE List(t)
    BY <2>2 DEF List
  <2>3. CASE Leave(t)
    BY <2>3 DEF Leave, Differs
  <2>4. ASSUME NEW r \in Reports, Read(t, r) PROVE JobsInv'
    BY <2>4 DEF Read
  <2>5. ASSUME NEW r \in Reports, ReadRaises(t, r) PROVE JobsInv'
    BY <2>5 DEF ReadRaises
  <2>6. ASSUME NEW r \in Reports, ApplyJob(t, r) PROVE JobsInv'
    BY <2>6 DEF ApplyJob
  <2>7. QED
    BY <1>2, <2>1, <2>2, <2>3, <2>4, <2>5, <2>6 DEF SyncStep
<1>3. CASE TimerFires
  BY <1>3 DEF TimerFires, Threads
<1>4. ASSUME NEW r \in Reports, NEW c \in Contents, OutsideChange(r, c) PROVE JobsInv'
  BY <1>4 DEF OutsideChange
<1>5. ASSUME NEW r \in Reports, NEW c \in Contents, NEW t \in Handlers,
             ApiChange(t, r, c)
      PROVE  JobsInv'
  BY <1>5 DEF ApiChange, Threads
<1>6. QED
  BY <1>1, <1>2, <1>3, <1>4, <1>5 DEF Next

(* A change makes its thread wait for a sync of its own; a sync under way  *)
(* has listed the files before, or will see the change.                    *)
LEMMA FreshStep == Inv /\ [Next]_vars => FreshInv'
<1> SUFFICES ASSUME Inv, [Next]_vars, outside = {} PROVE FreshInv'
  BY DEF Inv, TypeOK, FreshInv, Next, vars, SyncStep, Enter, List, AllRead, Leave,
         Read, ReadRaises, ApplyJob, TimerFires, OutsideChange, ApiChange
<1> USE SchedulerAssumption DEF Inv, TypeOK, FreshInv, Goto
<1>1. CASE UNCHANGED vars
  BY <1>1 DEF vars, UpToDate
<1>2. ASSUME NEW t \in Threads, SyncStep(t) PROVE FreshInv'
  <2>1. CASE Enter(t)
    BY <2>1 DEF Enter
  <2>2. CASE List(t)
    <3>1. UpToDate(t)'
      BY <2>2 DEF List, UpToDate, None, ScheduleOf
    <3>2. QED
      BY <2>2, <3>1 DEF List
  <2>3. CASE AllRead(t)
    BY <2>3 DEF AllRead, UpToDate, LockInv, Inside
  <2>4. CASE Leave(t)
    <3>1. \A r \in Reports : jobs[r] = wanted[t][r]
      BY <2>4 DEF Leave, Differs, JobsInv, LockInv, Inside
    <3>2. \A u \in Threads \ {t} : pc[u] \notin {"listing", "reading", "applying"}
      BY <2>4 DEF Leave, LockInv, Inside
    <3>3. CASE \E u \in Threads : pc[u] \in {"waiting", "listing"}
      BY <2>4, <3>3 DEF Leave
    <3>4. CASE \E u \in Threads : pc[u] \in {"reading", "applying"} /\ UpToDate(u)
      BY <2>4, <3>1, <3>2, <3>4 DEF Leave, UpToDate
    <3>5. QED
      BY <2>4, <3>3, <3>4 DEF Leave
  <2>5. ASSUME NEW r \in Reports, Read(t, r) PROVE FreshInv'
    <3>1. CASE \E u \in Threads : pc[u] \in {"waiting", "listing"}
      BY <2>5, <3>1 DEF Read
    <3>2. CASE \E u \in Threads : pc[u] \in {"reading", "applying"} /\ UpToDate(u)
      <4>1. UpToDate(t)
        BY <2>5, <3>2 DEF Read, LockInv, Inside
      <4>2. UpToDate(t)'
        BY <2>5, <4>1 DEF Read, UpToDate, ScheduleOf
      <4>3. QED
        BY <2>5, <4>2 DEF Read
    <3>3. QED
      BY <2>5, <3>1, <3>2 DEF Read
  <2>6. ASSUME NEW r \in Reports, ReadRaises(t, r) PROVE FreshInv'
    BY <2>6 DEF ReadRaises
  <2>7. ASSUME NEW r \in Reports, ApplyJob(t, r) PROVE FreshInv'
    <3>1. \A u \in Threads : UpToDate(u) => UpToDate(u)'
      BY <2>7 DEF ApplyJob, UpToDate
    <3>2. QED
      BY <2>7, <3>1 DEF ApplyJob
  <2>8. QED
    BY <1>2, <2>1, <2>2, <2>3, <2>4, <2>5, <2>6, <2>7 DEF SyncStep
<1>3. CASE TimerFires
  BY <1>3 DEF TimerFires, Threads
<1>4. ASSUME NEW r \in Reports, NEW c \in Contents, OutsideChange(r, c) PROVE FreshInv'
  BY <1>4 DEF OutsideChange
<1>5. ASSUME NEW r \in Reports, NEW c \in Contents, NEW t \in Handlers,
             ApiChange(t, r, c)
      PROVE  FreshInv'
  BY <1>5 DEF ApiChange, Change, Threads
<1>6. QED
  BY <1>1, <1>2, <1>3, <1>4, <1>5 DEF Next

-----------------------------------------------------------------------------
(* Types, jobs and sync passes agree in every reachable state (scheduler/service.py). *)
LEMMA Invariant == Spec => []Inv
<1>1. Inv /\ [Next]_vars => Inv'
  BY TypeStep, LockStep, JobsStep, FreshStep DEF Inv
<1>2. QED
  BY InitInv, <1>1, PTL DEF Spec

(* The scheduler's state always has its types, and the lock is held only   *)
(* by the thread inside a sync.                                            *)
THEOREM TypeCorrect == Spec => []TypeOK
<1>1. Inv => TypeOK
  BY DEF Inv
<1>2. QED
  BY Invariant, <1>1, PTL

(* When every API request has been answered and no sync is under way, the  *)
(* jobs are those of the files.                                            *)
THEOREM Scheduled == Spec => []AnsweredMeansScheduled
<1>1. Inv => AnsweredMeansScheduled
  BY DEF Inv, FreshInv, AnsweredMeansScheduled
<1>2. QED
  BY Invariant, <1>1, PTL

=============================================================================
