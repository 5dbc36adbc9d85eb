---------------------------- MODULE RunnerProofs ----------------------------
(***************************************************************************)
(* Theorems about Runner for every set of reports, servers and runs and    *)
(* every value of the bounds.  The argument is one inductive invariant:    *)
(* the lock table says exactly which runs are inside the orchestrator, and *)
(* the claims of a server cover exactly its live runs.                     *)
(***************************************************************************)
EXTENDS Runner, TLAPS

(* The flock of a report's file is held by the run inside the orchestrator.*)
LockTable ==
    \A r \in Reports, run \in Runs :
        holder[r] = run <=> rep[run] = r /\ pc[run] \in InLock

(* A server that does not serve yet has no claims. *)
NoEarlyClaims ==
    \A s \in Servers :
        server[s] \in {"down", "starting", "marking"} => active[s] = {}

IInv ==
    /\ TypeOK
    /\ LockTable
    /\ ClaimsAreExclusive
    /\ NoEarlyClaims
    /\ NoReportStaysBlocked

-----------------------------------------------------------------------------
(* The initial states are well typed. *)
LEMMA InitTypeOK == Init => TypeOK
BY RunnerAssumption DEF Init, TypeOK, Pcs, Live, Executing, InLock, Over

(* Every step keeps every variable within its type. *)
LEMMA StepTypeOK == TypeOK /\ [Next]_vars => TypeOK'
<1> SUFFICES ASSUME TypeOK, [Next]_vars PROVE TypeOK'
    OBVIOUS
<1> USE RunnerAssumption DEF TypeOK, Pcs, Live, Executing, InLock, Over, Terminal,
        Unfinished, Statuses, Goto, Write, TryWrite, frozen, process, outside
<1>1. ASSUME NEW run \in Runs, RunStep(run) PROVE TypeOK'
    <2>1. CASE SaveQueued(run) BY <2>1 DEF SaveQueued
    <2>2. CASE SaveQueuedFails(run) BY <2>2 DEF SaveQueuedFails, Discard
    <2>3. CASE Enqueue(run) BY <2>3 DEF Enqueue
    <2>4. CASE EnqueueFails(run) BY <2>4 DEF EnqueueFails, Discard
    <2>5. CASE TakeLock(run) BY <2>5 DEF TakeLock, Lock
    <2>6. CASE LockBusy(run) BY <2>6 DEF LockBusy
    <2>12. CASE LockFails(run) BY <2>12 DEF LockFails
    <2>7. CASE RecordRefusal(run) BY <2>7 DEF RecordRefusal
    <2>8. CASE Return(run) BY <2>8 DEF Return, Discard
    <2>9. CASE Start(run) BY <2>9 DEF Start
    <2>10. CASE Release(run) BY <2>10 DEF Release, Unlock
    <2>11. CASE \E status \in Terminal : Finish(run, status) BY <2>11 DEF Finish
    <2> QED BY <1>1, <2>1, <2>2, <2>3, <2>4, <2>5, <2>6, <2>7, <2>8, <2>9, <2>10, <2>11,
            <2>12 DEF RunStep
<1>2. ASSUME NEW run \in Runs, Progress(run) PROVE TypeOK'
    BY <1>2 DEF Progress
<1>3. ASSUME NEW s \in Servers, ServerStep(s) PROVE TypeOK'
    <2>1. CASE StartServer(s) BY <2>1 DEF StartServer
    <2>2. CASE MarkRead(s) BY <2>2 DEF MarkRead
    <2>3. CASE MarkDone(s) BY <2>3 DEF MarkDone
    <2>4. CASE StartDegraded(s) BY <2>4 DEF StartDegraded
    <2>5. CASE Exit(s) BY <2>5 DEF Exit
    <2>6. CASE \E run \in Runs : MarkWrite(s, run) BY <2>6 DEF MarkWrite
    <2> QED BY <1>3, <2>1, <2>2, <2>3, <2>4, <2>5, <2>6 DEF ServerStep
<1>4. ASSUME Environment PROVE TypeOK'
    <2>1. CASE \E run \in Runs : Submit(run) BY <2>1 DEF Submit, Claim
    <2>2. CASE \E run \in Runs : RunNow(run) BY <2>2 DEF RunNow
    <2>3. CASE \E run \in Runs : KillCli(run) BY <2>3 DEF KillCli, Kill
    <2>4. CASE \E run \in Runs : GoSilent(run) BY <2>4 DEF GoSilent
    <2>5. CASE \E s \in Servers : Shutdown(s) BY <2>5 DEF Shutdown
    <2>6. CASE \E s \in Servers : KillServer(s) BY <2>6 DEF KillServer, Kill
    <2>7. CASE WarehouseDown BY <2>7 DEF WarehouseDown
    <2>8. CASE WarehouseUp BY <2>8 DEF WarehouseUp
    <2> QED BY <1>4, <2>1, <2>2, <2>3, <2>4, <2>5, <2>6, <2>7, <2>8 DEF Environment
<1>5. CASE UNCHANGED vars
    BY <1>5 DEF vars
<1> QED BY <1>1, <1>2, <1>3, <1>4, <1>5 DEF Next

(* Type correctness of the run service, for every instance. *)
THEOREM TypeCorrect == Spec => []TypeOK
BY InitTypeOK, StepTypeOK, PTL DEF Spec

(* A step moves a run into or out of the orchestrator exactly when it takes
   or drops the flock; a kill drops the flocks of the runs it stops. *)
LEMMA StepLockTable == TypeOK /\ LockTable /\ [Next]_vars => LockTable'
<1> SUFFICES ASSUME TypeOK, LockTable, [Next]_vars PROVE LockTable'
    OBVIOUS
<1> USE RunnerAssumption DEF TypeOK, Live, Executing, InLock, Over, Goto, Write, TryWrite, frozen,
        process, outside, LockTable
<1>1. ASSUME NEW run \in Runs, RunStep(run) PROVE LockTable'
    <2>1. CASE SaveQueued(run) BY <2>1 DEF SaveQueued
    <2>2. CASE SaveQueuedFails(run) BY <2>2 DEF SaveQueuedFails
    <2>3. CASE Enqueue(run) BY <2>3 DEF Enqueue
    <2>4. CASE EnqueueFails(run) BY <2>4 DEF EnqueueFails
    <2>5. CASE TakeLock(run) BY <2>5 DEF TakeLock, Lock, LockFree, CanExecute
    <2>6. CASE LockBusy(run) BY <2>6 DEF LockBusy, CanExecute
    <2>12. CASE LockFails(run) BY <2>12 DEF LockFails, CanExecute
    <2>7. CASE RecordRefusal(run) BY <2>7 DEF RecordRefusal
    <2>8. CASE Return(run) BY <2>8 DEF Return
    <2>9. CASE Start(run) BY <2>9 DEF Start
    <2>10. CASE Release(run) BY <2>10 DEF Release, Unlock
    <2>11. CASE \E status \in Terminal : Finish(run, status) BY <2>11 DEF Finish
    <2> QED BY <1>1, <2>1, <2>2, <2>3, <2>4, <2>5, <2>6, <2>7, <2>8, <2>9, <2>10, <2>11,
            <2>12 DEF RunStep
<1>2. ASSUME NEW run \in Runs, Progress(run) PROVE LockTable'
    BY <1>2 DEF Progress
<1>3. ASSUME NEW s \in Servers, ServerStep(s) PROVE LockTable'
    <2>1. CASE StartServer(s) BY <2>1 DEF StartServer
    <2>2. CASE MarkRead(s) BY <2>2 DEF MarkRead
    <2>3. CASE MarkDone(s) BY <2>3 DEF MarkDone
    <2>4. CASE StartDegraded(s) BY <2>4 DEF StartDegraded
    <2>5. CASE Exit(s) BY <2>5 DEF Exit
    <2>6. CASE \E run \in Runs : MarkWrite(s, run) BY <2>6 DEF MarkWrite
    <2> QED BY <1>3, <2>1, <2>2, <2>3, <2>4, <2>5, <2>6 DEF ServerStep
<1>4. ASSUME Environment PROVE LockTable'
    <2>1. CASE \E run \in Runs : Submit(run) BY <2>1 DEF Submit, Claim
    <2>2. CASE \E run \in Runs : RunNow(run) BY <2>2 DEF RunNow
    <2>3. CASE \E run \in Runs : KillCli(run) BY <2>3 DEF KillCli, Kill
    <2>4. CASE \E run \in Runs : GoSilent(run) BY <2>4 DEF GoSilent
    <2>5. CASE \E s \in Servers : Shutdown(s) BY <2>5 DEF Shutdown
    <2>6. CASE \E s \in Servers : KillServer(s) BY <2>6 DEF KillServer, Kill
    <2>7. CASE WarehouseDown BY <2>7 DEF WarehouseDown
    <2>8. CASE WarehouseUp BY <2>8 DEF WarehouseUp
    <2> QED BY <1>4, <2>1, <2>2, <2>3, <2>4, <2>5, <2>6, <2>7, <2>8 DEF Environment
<1>5. CASE UNCHANGED vars
    BY <1>5 DEF vars
<1> QED BY <1>1, <1>2, <1>3, <1>4, <1>5 DEF Next

(* A run becomes live by a claim nobody else holds, or in a process of its
   own, and stops being live together with the discard of its claim. *)
LEMMA StepClaims == TypeOK /\ ClaimsAreExclusive /\ [Next]_vars => ClaimsAreExclusive'
<1> SUFFICES ASSUME TypeOK, ClaimsAreExclusive, [Next]_vars PROVE ClaimsAreExclusive'
    OBVIOUS
<1> USE RunnerAssumption DEF TypeOK, Live, Executing, InLock, Over, Goto, Write, TryWrite, frozen,
        process, outside, ClaimsAreExclusive
<1>1. ASSUME NEW run \in Runs, RunStep(run) PROVE ClaimsAreExclusive'
    <2>1. CASE SaveQueued(run) BY <2>1 DEF SaveQueued
    <2>2. CASE SaveQueuedFails(run) BY <2>2 DEF SaveQueuedFails, Discard
    <2>3. CASE Enqueue(run) BY <2>3 DEF Enqueue
    <2>4. CASE EnqueueFails(run) BY <2>4 DEF EnqueueFails, Discard
    <2>5. CASE TakeLock(run) BY <2>5 DEF TakeLock, CanExecute
    <2>6. CASE LockBusy(run) BY <2>6 DEF LockBusy, CanExecute
    <2>12. CASE LockFails(run) BY <2>12 DEF LockFails, CanExecute
    <2>7. CASE RecordRefusal(run) BY <2>7 DEF RecordRefusal
    <2>8. CASE Return(run) BY <2>8 DEF Return, Discard
    <2>9. CASE Start(run) BY <2>9 DEF Start
    <2>10. CASE Release(run) BY <2>10 DEF Release
    <2>11. CASE \E status \in Terminal : Finish(run, status) BY <2>11 DEF Finish
    <2> QED BY <1>1, <2>1, <2>2, <2>3, <2>4, <2>5, <2>6, <2>7, <2>8, <2>9, <2>10, <2>11,
            <2>12 DEF RunStep
<1>2. ASSUME NEW run \in Runs, Progress(run) PROVE ClaimsAreExclusive'
    BY <1>2 DEF Progress
<1>3. ASSUME NEW s \in Servers, ServerStep(s) PROVE ClaimsAreExclusive'
    <2>1. CASE StartServer(s) BY <2>1 DEF StartServer
    <2>2. CASE MarkRead(s) BY <2>2 DEF MarkRead
    <2>3. CASE MarkDone(s) BY <2>3 DEF MarkDone
    <2>4. CASE StartDegraded(s) BY <2>4 DEF StartDegraded
    <2>5. CASE Exit(s) BY <2>5 DEF Exit
    <2>6. CASE \E run \in Runs : MarkWrite(s, run) BY <2>6 DEF MarkWrite
    <2> QED BY <1>3, <2>1, <2>2, <2>3, <2>4, <2>5, <2>6 DEF ServerStep
<1>4. ASSUME Environment PROVE ClaimsAreExclusive'
    <2>1. CASE \E run \in Runs : Submit(run) BY <2>1 DEF Submit, Claim
    <2>2. CASE \E run \in Runs : RunNow(run) BY <2>2 DEF RunNow
    <2>3. CASE \E run \in Runs : KillCli(run) BY <2>3 DEF KillCli, Kill
    <2>4. CASE \E run \in Runs : GoSilent(run) BY <2>4 DEF GoSilent
    <2>5. CASE \E s \in Servers : Shutdown(s) BY <2>5 DEF Shutdown
    <2>6. CASE \E s \in Servers : KillServer(s) BY <2>6 DEF KillServer, Kill
    <2>7. CASE WarehouseDown BY <2>7 DEF WarehouseDown
    <2>8. CASE WarehouseUp BY <2>8 DEF WarehouseUp
    <2> QED BY <1>4, <2>1, <2>2, <2>3, <2>4, <2>5, <2>6, <2>7, <2>8 DEF Environment
<1>5. CASE UNCHANGED vars
    BY <1>5 DEF vars
<1> QED BY <1>1, <1>2, <1>3, <1>4, <1>5 DEF Next

(* Only a serving process makes claims, and they die with the process. *)
LEMMA StepNoEarlyClaims == TypeOK /\ NoEarlyClaims /\ [Next]_vars => NoEarlyClaims'
<1> SUFFICES ASSUME TypeOK, NoEarlyClaims, [Next]_vars PROVE NoEarlyClaims'
    OBVIOUS
<1> USE RunnerAssumption DEF TypeOK, Live, Executing, InLock, Over, Goto, Write, TryWrite, frozen,
        process, outside, NoEarlyClaims
<1>1. ASSUME NEW run \in Runs, RunStep(run) PROVE NoEarlyClaims'
    <2>1. CASE SaveQueued(run) BY <2>1 DEF SaveQueued
    <2>2. CASE SaveQueuedFails(run) BY <2>2 DEF SaveQueuedFails, Discard
    <2>3. CASE Enqueue(run) BY <2>3 DEF Enqueue
    <2>4. CASE EnqueueFails(run) BY <2>4 DEF EnqueueFails, Discard
    <2>5. CASE TakeLock(run) BY <2>5 DEF TakeLock
    <2>6. CASE LockBusy(run) BY <2>6 DEF LockBusy
    <2>12. CASE LockFails(run) BY <2>12 DEF LockFails
    <2>7. CASE RecordRefusal(run) BY <2>7 DEF RecordRefusal
    <2>8. CASE Return(run) BY <2>8 DEF Return, Discard
    <2>9. CASE Start(run) BY <2>9 DEF Start
    <2>10. CASE Release(run) BY <2>10 DEF Release
    <2>11. CASE \E status \in Terminal : Finish(run, status) BY <2>11 DEF Finish
    <2> QED BY <1>1, <2>1, <2>2, <2>3, <2>4, <2>5, <2>6, <2>7, <2>8, <2>9, <2>10, <2>11,
            <2>12 DEF RunStep
<1>2. ASSUME NEW run \in Runs, Progress(run) PROVE NoEarlyClaims'
    BY <1>2 DEF Progress
<1>3. ASSUME NEW s \in Servers, ServerStep(s) PROVE NoEarlyClaims'
    <2>1. CASE StartServer(s) BY <2>1 DEF StartServer
    <2>2. CASE MarkRead(s) BY <2>2 DEF MarkRead
    <2>3. CASE MarkDone(s) BY <2>3 DEF MarkDone
    <2>4. CASE StartDegraded(s) BY <2>4 DEF StartDegraded
    <2>5. CASE Exit(s) BY <2>5 DEF Exit
    <2>6. CASE \E run \in Runs : MarkWrite(s, run) BY <2>6 DEF MarkWrite
    <2> QED BY <1>3, <2>1, <2>2, <2>3, <2>4, <2>5, <2>6 DEF ServerStep
<1>4. ASSUME Environment PROVE NoEarlyClaims'
    <2>1. CASE \E run \in Runs : Submit(run) BY <2>1 DEF Submit, Claim
    <2>2. CASE \E run \in Runs : RunNow(run) BY <2>2 DEF RunNow
    <2>3. CASE \E run \in Runs : KillCli(run) BY <2>3 DEF KillCli, Kill
    <2>4. CASE \E run \in Runs : GoSilent(run) BY <2>4 DEF GoSilent
    <2>5. CASE \E s \in Servers : Shutdown(s) BY <2>5 DEF Shutdown
    <2>6. CASE \E s \in Servers : KillServer(s) BY <2>6 DEF KillServer, Kill
    <2>7. CASE WarehouseDown BY <2>7 DEF WarehouseDown
    <2>8. CASE WarehouseUp BY <2>8 DEF WarehouseUp
    <2> QED BY <1>4, <2>1, <2>2, <2>3, <2>4, <2>5, <2>6, <2>7, <2>8 DEF Environment
<1>5. CASE UNCHANGED vars
    BY <1>5 DEF vars
<1> QED BY <1>1, <1>2, <1>3, <1>4, <1>5 DEF Next

(* While the server serves, every claim keeps the live run that made it. *)
LEMMA StepNoReportStaysBlocked == TypeOK /\ NoEarlyClaims /\ NoReportStaysBlocked /\ [Next]_vars => NoReportStaysBlocked'
<1> SUFFICES ASSUME TypeOK, NoEarlyClaims, NoReportStaysBlocked, [Next]_vars PROVE NoReportStaysBlocked'
    OBVIOUS
<1> USE RunnerAssumption DEF TypeOK, Live, Executing, InLock, Over, Goto, Write, TryWrite, frozen,
        process, outside, NoReportStaysBlocked, NoEarlyClaims
<1>1. ASSUME NEW run \in Runs, RunStep(run) PROVE NoReportStaysBlocked'
    <2>1. CASE SaveQueued(run) BY <2>1 DEF SaveQueued
    <2>2. CASE SaveQueuedFails(run) BY <2>2 DEF SaveQueuedFails, Discard
    <2>3. CASE Enqueue(run) BY <2>3 DEF Enqueue
    <2>4. CASE EnqueueFails(run) BY <2>4 DEF EnqueueFails, Discard
    <2>5. CASE TakeLock(run) BY <2>5 DEF TakeLock, CanExecute
    <2>6. CASE LockBusy(run) BY <2>6 DEF LockBusy, CanExecute
    <2>12. CASE LockFails(run) BY <2>12 DEF LockFails, CanExecute
    <2>7. CASE RecordRefusal(run) BY <2>7 DEF RecordRefusal
    <2>8. CASE Return(run) BY <2>8 DEF Return, Discard
    <2>9. CASE Start(run) BY <2>9 DEF Start
    <2>10. CASE Release(run) BY <2>10 DEF Release
    <2>11. CASE \E status \in Terminal : Finish(run, status) BY <2>11 DEF Finish
    <2> QED BY <1>1, <2>1, <2>2, <2>3, <2>4, <2>5, <2>6, <2>7, <2>8, <2>9, <2>10, <2>11,
            <2>12 DEF RunStep
<1>2. ASSUME NEW run \in Runs, Progress(run) PROVE NoReportStaysBlocked'
    BY <1>2 DEF Progress
<1>3. ASSUME NEW s \in Servers, ServerStep(s) PROVE NoReportStaysBlocked'
    <2>1. CASE StartServer(s) BY <2>1 DEF StartServer
    <2>2. CASE MarkRead(s) BY <2>2 DEF MarkRead
    <2>3. CASE MarkDone(s) BY <2>3 DEF MarkDone
    <2>4. CASE StartDegraded(s) BY <2>4 DEF StartDegraded
    <2>5. CASE Exit(s) BY <2>5 DEF Exit
    <2>6. CASE \E run \in Runs : MarkWrite(s, run) BY <2>6 DEF MarkWrite
    <2> QED BY <1>3, <2>1, <2>2, <2>3, <2>4, <2>5, <2>6 DEF ServerStep
<1>4. ASSUME Environment PROVE NoReportStaysBlocked'
    <2>1. CASE \E run \in Runs : Submit(run) BY <2>1 DEF Submit, Claim
    <2>2. CASE \E run \in Runs : RunNow(run) BY <2>2 DEF RunNow
    <2>3. CASE \E run \in Runs : KillCli(run) BY <2>3 DEF KillCli, Kill
    <2>4. CASE \E run \in Runs : GoSilent(run) BY <2>4 DEF GoSilent
    <2>5. CASE \E s \in Servers : Shutdown(s) BY <2>5 DEF Shutdown
    <2>6. CASE \E s \in Servers : KillServer(s) BY <2>6 DEF KillServer, Kill
    <2>7. CASE WarehouseDown BY <2>7 DEF WarehouseDown
    <2>8. CASE WarehouseUp BY <2>8 DEF WarehouseUp
    <2> QED BY <1>4, <2>1, <2>2, <2>3, <2>4, <2>5, <2>6, <2>7, <2>8 DEF Environment
<1>5. CASE UNCHANGED vars
    BY <1>5 DEF vars
<1> QED BY <1>1, <1>2, <1>3, <1>4, <1>5 DEF Next

(* The inductive invariant of the run service. *)
THEOREM InductiveInvariant == Spec => []IInv
<1>1. Init => IInv
    BY InitTypeOK, RunnerAssumption
    DEF Init, IInv, LockTable, ClaimsAreExclusive, NoEarlyClaims, NoReportStaysBlocked,
        InLock, Live, Executing
<1>2. IInv /\ [Next]_vars => IInv'
    BY StepTypeOK, StepLockTable, StepClaims, StepNoEarlyClaims, StepNoReportStaysBlocked
    DEF IInv
<1> QED BY <1>1, <1>2, PTL DEF Spec

(* Mutual exclusion: at no time are two runs of one report inside the
   orchestrator, for any number of servers, command-line runs and kills. *)
THEOREM MutualExclusion == Spec => []OneRunPerReport
<1>1. IInv => OneRunPerReport
    BY DEF IInv, TypeOK, LockTable, OneRunPerReport
<1> QED BY <1>1, InductiveInvariant, PTL

(* The claims of every server are exact: one live run per claimed report. *)
THEOREM ExclusiveClaims == Spec => []ClaimsAreExclusive
BY InductiveInvariant, PTL DEF IInv

(* No serving process blocks a report without a live run behind the claim. *)
THEOREM NoBlockedReport == Spec => []NoReportStaysBlocked
BY InductiveInvariant, PTL DEF IInv

(* A run a server accepted only ever loses the flock to another process. *)
THEOREM RefusalIsGenuine == Spec => RefusedByAnotherProcess
<1> DEFINE Genuine(run) ==
        /\ home[run] # Cli
        /\ pc[run] # "refused" /\ pc'[run] = "refused"
        => \E other \in Runs :
               /\ rep[other] = rep[run] /\ pc[other] \in InLock
               /\ home[other] # home[run]
<1>1. IInv /\ [Next]_vars => [\A run \in Runs : Genuine(run)]_vars
    <2> SUFFICES ASSUME IInv, Next, NEW run \in Runs,
                        home[run] # Cli, pc[run] # "refused", pc'[run] = "refused"
                 PROVE  \E other \in Runs :
                            /\ rep[other] = rep[run] /\ pc[other] \in InLock
                            /\ home[other] # home[run]
        OBVIOUS
    <2>1. LockBusy(run)
        <3> USE DEF IInv, TypeOK, Goto, frozen, process, outside
        <3>1. ASSUME NEW r \in Runs, RunStep(r) PROVE LockBusy(run)
            <4>1. CASE LockBusy(r) BY <4>1 DEF LockBusy
            <4>2. CASE SaveQueued(r) \/ SaveQueuedFails(r) \/ Enqueue(r) \/ EnqueueFails(r)
                BY <4>2 DEF SaveQueued, SaveQueuedFails, Enqueue, EnqueueFails
            <4>3. CASE TakeLock(r) \/ LockFails(r) \/ RecordRefusal(r) \/ Return(r)
                BY <4>3 DEF TakeLock, LockFails, RecordRefusal, Return
            <4>4. CASE Start(r) \/ Release(r) \/ \E status \in Terminal : Finish(r, status)
                BY <4>4 DEF Start, Release, Finish
            <4> QED BY <3>1, <4>1, <4>2, <4>3, <4>4 DEF RunStep
        <3>2. ASSUME NEW r \in Runs, Progress(r) PROVE LockBusy(run)
            BY <3>2 DEF Progress
        <3>3. ASSUME NEW s \in Servers, ServerStep(s) PROVE LockBusy(run)
            BY <3>3 DEF ServerStep, StartServer, MarkRead, MarkDone, StartDegraded, Exit, MarkWrite
        <3>4. ASSUME Environment PROVE LockBusy(run)
            BY <3>4 DEF Environment, Submit, RunNow, KillCli, Kill, GoSilent, Shutdown,
                        KillServer, WarehouseDown, WarehouseUp
        <3> QED BY <3>1, <3>2, <3>3, <3>4 DEF Next
    <2>2. PICK other \in Runs : holder[rep[run]] = other
        BY <2>1 DEF LockBusy, LockFree, IInv, TypeOK
    <2>3. rep[other] = rep[run] /\ pc[other] \in InLock
        BY <2>2 DEF IInv, TypeOK, LockTable
    <2>4. other # run /\ pc[run] \in Live
        BY <2>1, <2>3 DEF LockBusy, CanExecute, InLock, Live
    <2>5. home[other] # home[run]
        BY <2>3, <2>4 DEF IInv, ClaimsAreExclusive, Live, Executing
    <2> QED BY <2>3, <2>5
<1> QED BY <1>1, InductiveInvariant, PTL DEF Spec, RefusedByAnotherProcess

-----------------------------------------------------------------------------
(***************************************************************************)
(* The records, where one server owns the metadata: a second one would     *)
(* take the runs of the first for interrupted.                             *)
(***************************************************************************)
OneServer == \A s1, s2 \in Servers : s1 = s2

Ending == {"ended", "released", "done"}

(* What the record of a run can be, where the run is.                      *)
RecordOf(run) ==
    /\ pc[run] \in {"idle", "claimed"} => record[run] = "none"
    /\ pc[run] \in Live \ Ending => record[run] \notin Terminal
    /\ pc[run] \in Ending => outcome[run] \in Terminal
    /\ outages = 0 /\ pc[run] \in Ending => record[run] = outcome[run]

(* Who is taken for interrupted is over and has not ended on record.       *)
Markable(run) == pc[run] \in Over /\ record[run] \in Unfinished

RecordInv ==
    /\ outages = 0 => warehouse = "up"
    /\ \A run \in Runs : RecordOf(run)
    /\ \A run \in silent : pc[run] \in Over
    /\ \A run \in Runs :
          home[run] # Cli /\ server[home[run]] \in {"down", "starting", "marking"}
          => pc[run] \in Over \cup {"idle"}
    /\ \A s \in Servers : \A run \in toMark[s] : server[s] = "marking" /\ Markable(run)

(* Every step keeps record and state of a run together. *)
LEMMA StepRecords ==
    ASSUME OneServer, TypeOK, RecordInv, [Next]_vars
    PROVE  RecordInv'
<1> USE RunnerAssumption DEF OneServer, TypeOK, RecordInv, RecordOf, Markable, Ending,
        Pcs, Live, Executing, InLock, Over, Terminal, Unfinished, Statuses, Goto, Write,
        TryWrite, frozen, process, outside
<1>1. CASE UNCHANGED vars BY <1>1 DEF vars
<1>2. ASSUME NEW r \in Runs, RunStep(r) PROVE RecordInv'
    <2>1. CASE SaveQueued(r) BY <2>1 DEF SaveQueued
    <2>2. CASE SaveQueuedFails(r) BY <2>2 DEF SaveQueuedFails
    <2>3. CASE Enqueue(r) BY <2>3 DEF Enqueue
    <2>4. CASE EnqueueFails(r) BY <2>4 DEF EnqueueFails
    <2>5. CASE TakeLock(r) BY <2>5 DEF TakeLock, CanExecute
    <2>6. CASE LockBusy(r) BY <2>6 DEF LockBusy, CanExecute
    <2>12. CASE LockFails(r) BY <2>12 DEF LockFails, CanExecute
    <2>7. CASE RecordRefusal(r) BY <2>7 DEF RecordRefusal
    <2>8. CASE Return(r) BY <2>8 DEF Return
    <2>9. CASE Start(r) BY <2>9 DEF Start
    <2>10. CASE Release(r) BY <2>10 DEF Release
    <2>11. ASSUME NEW status \in Terminal, Finish(r, status) PROVE RecordInv'
        BY <2>11 DEF Finish
    <2> QED BY <1>2, <2>1, <2>2, <2>3, <2>4, <2>5, <2>6, <2>7, <2>8, <2>9, <2>10, <2>11,
            <2>12 DEF RunStep
<1>3. ASSUME NEW r \in Runs, Progress(r) PROVE RecordInv'
    BY <1>3 DEF Progress
<1>4. ASSUME NEW s \in Servers, ServerStep(s) PROVE RecordInv'
    <2>1. CASE StartServer(s) BY <2>1 DEF StartServer
    <2>2. CASE MarkRead(s) BY <2>2 DEF MarkRead, Interrupted
    <2>3. CASE MarkDone(s) BY <2>3 DEF MarkDone
    <2>4. CASE StartDegraded(s) BY <2>4 DEF StartDegraded
    <2>5. CASE Exit(s) BY <2>5 DEF Exit
    <2>6. ASSUME NEW r \in Runs, MarkWrite(s, r) PROVE RecordInv'
        BY <2>6 DEF MarkWrite
    <2> QED BY <1>4, <2>1, <2>2, <2>3, <2>4, <2>5, <2>6 DEF ServerStep
<1>5. ASSUME NEW r \in Runs, Submit(r) \/ RunNow(r) PROVE RecordInv'
    BY <1>5 DEF Submit, RunNow
<1>6. ASSUME NEW r \in Runs, KillCli(r) PROVE RecordInv'
    BY <1>6 DEF KillCli, Kill
<1>7. ASSUME NEW r \in Runs, GoSilent(r) PROVE RecordInv'
    BY <1>7 DEF GoSilent
<1>8. ASSUME NEW s \in Servers, Shutdown(s) PROVE RecordInv'
    BY <1>8 DEF Shutdown
<1>9. ASSUME NEW s \in Servers, KillServer(s) PROVE RecordInv'
    BY <1>9 DEF KillServer, Kill
<1>10. CASE WarehouseDown \/ WarehouseUp
    BY <1>10 DEF WarehouseDown, WarehouseUp
<1> QED BY <1>1, <1>2, <1>3, <1>4, <1>5, <1>6, <1>7, <1>8, <1>9, <1>10
        DEF Next, Environment

(* With one server process, the type invariant and the facts about records and *)
(* the report lock hold in every reachable state (service.py, pipeline.py). *)
LEMMA RecordInvariant == ASSUME OneServer PROVE Spec => [](TypeOK /\ RecordInv)
<1>1. Init => RecordInv
    BY RunnerAssumption DEF Init, RecordInv, RecordOf, Ending, Live, Executing, InLock,
       Over, Terminal
<1>2. TypeOK /\ RecordInv /\ [Next]_vars => (TypeOK /\ RecordInv)'
    BY StepTypeOK, StepRecords
<1> QED BY InitTypeOK, <1>1, <1>2, PTL DEF Spec

(* A run that returned is on record with the status it returned, if no     *)
(* write was lost in an outage.                                            *)
THEOREM RecordsWhatReturned == ASSUME OneServer PROVE Spec => []ReturnedRunsAreRecorded
<1>1. TypeOK /\ RecordInv => ReturnedRunsAreRecorded
    BY DEF RecordInv, RecordOf, Ending, ReturnedRunsAreRecorded
<1> QED BY <1>1, RecordInvariant, PTL

(* Which steps write records, and of which runs. *)
LEMMA Writers ==
    ASSUME TypeOK, RecordInv, [Next]_vars, NEW run \in Runs, record'[run] # record[run]
    PROVE  \/ pc[run] \in {"idle"} \cup (Live \ Ending)
              /\ (record'[run] \in Terminal => outcome'[run] = record'[run])
           \/ \E s \in Servers : MarkWrite(s, run)
<1> USE DEF TypeOK, Write, TryWrite, Goto, Live, Executing, InLock, Ending, Terminal,
        frozen, process, outside
<1>1. ~ UNCHANGED vars BY DEF vars
<1>2. ASSUME NEW r \in Runs, RunStep(r)
      PROVE  pc[run] \in Live \ Ending /\ (record'[run] \in Terminal => outcome'[run] = record'[run])
    <2>1. CASE SaveQueued(r) \/ SaveQueuedFails(r) \/ Enqueue(r) \/ EnqueueFails(r)
        BY <2>1 DEF SaveQueued, SaveQueuedFails, Enqueue, EnqueueFails
    <2>2. CASE TakeLock(r) \/ LockBusy(r) \/ LockFails(r) \/ RecordRefusal(r) \/ Return(r)
        BY <2>2 DEF TakeLock, LockBusy, LockFails, RecordRefusal, Return
    <2>3. CASE Start(r) \/ Release(r)
        BY <2>3 DEF Start, Release
    <2>4. ASSUME NEW status \in Terminal, Finish(r, status)
          PROVE  pc[run] \in Live \ Ending /\ outcome'[run] = record'[run]
        BY <2>4 DEF Finish
    <2> QED BY <1>2, <2>1, <2>2, <2>3, <2>4 DEF RunStep
<1>3. ASSUME NEW r \in Runs, Progress(r)
      PROVE  pc[run] \in Live \ Ending /\ record'[run] \notin Terminal
    BY <1>3 DEF Progress
<1>4. ASSUME NEW s \in Servers, ServerStep(s) PROVE MarkWrite(s, run)
    BY <1>4 DEF ServerStep, StartServer, MarkRead, MarkDone, StartDegraded, Exit, MarkWrite
<1>5. ASSUME Environment PROVE pc[run] = "idle" /\ record'[run] \notin Terminal
    BY <1>5 DEF Environment, Submit, RunNow, KillCli, Kill, GoSilent, Shutdown, KillServer,
                WarehouseDown, WarehouseUp
<1> QED BY <1>1, <1>2, <1>3, <1>4, <1>5 DEF Next

(* A recovery fails only runs that execute nowhere any more. *)
THEOREM MarksOnlyTheDead == ASSUME OneServer PROVE Spec => MarkedRunsAreOver
<1>1. TypeOK /\ RecordInv /\ [Next]_vars =>
        [\A run \in Runs :
            /\ record[run] \in Unfinished /\ record'[run] = "FAILED"
            /\ outcome'[run] = "none"
            => pc[run] \in Over]_vars
    BY Writers DEF RecordInv, Markable, MarkWrite, Unfinished, Terminal, TypeOK
<1> QED BY <1>1, RecordInvariant, PTL DEF Spec, MarkedRunsAreOver

(* A terminal status is never overwritten. *)
THEOREM TerminalStays == ASSUME OneServer PROVE Spec => TerminalIsFinal
<1>1. TypeOK /\ RecordInv /\ [Next]_vars =>
        [\A run \in Runs : record[run] \in Terminal => record'[run] = record[run]]_vars
    BY Writers DEF RecordInv, RecordOf, Markable, MarkWrite, Unfinished, Terminal, TypeOK
<1> QED BY <1>1, RecordInvariant, PTL DEF Spec, TerminalIsFinal

=============================================================================
