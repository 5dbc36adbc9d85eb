-------------------------- MODULE RunRecordsProofs --------------------------
(***************************************************************************)
(* Proofs about RunRecords, for every list of stages and steps, every      *)
(* number of attempts, retention and number of lost writes.                *)
(***************************************************************************)
EXTENDS RunRecords, FiniteSetTheorems, WellFoundedInduction, SequenceTheorems, TLAPS

(* The control variables stay inside the lists of stages and steps. *)
Inside ==
    /\ Len(open) <= 2
    /\ open # <<>> => place < Len(Stages)
    /\ InStep => step < Len(Steps)

(* The stages and steps of Story are names of the model. *)
LEMMA NamesOK ==
    /\ \A i \in 1..Len(Stages) : Stages[i] \in StageNames
    /\ \A i \in 1..Len(Steps) : Steps[i] \in StepNames
    /\ Len(Stages) \in Nat /\ Len(Steps) \in Nat
    /\ MaxAttempts \in Nat \ {0} /\ MaxDay \in Nat /\ MaxLosses \in Nat /\ Retention \in Nat
  <1>1. Stages \in Seq(STRING) /\ Steps \in Seq(STRING)
    BY RecordsAssumption
  <1>2. Len(Stages) \in Nat /\ Len(Steps) \in Nat
    BY <1>1
  <1>3. /\ \A i \in 1..Len(Stages) : Stages[i] \in StageNames
        /\ \A i \in 1..Len(Steps) : Steps[i] \in StepNames
    BY DEF StageNames, StepNames
  <1>4. MaxAttempts \in Nat \ {0} /\ MaxDay \in Nat /\ MaxLosses \in Nat /\ Retention \in Nat
    BY RecordsAssumption
  <1> QED BY <1>2, <1>3, <1>4

StageRows == [Keys -> Ended \cup {"RUNNING", "none"}]
RecordsOK ==
    /\ run \in Records /\ row \in Records
    /\ stageRow \in StageRows
    /\ lost \in 0..MaxLosses

(* What RunTracker._persist does to the records. *)
LEMMA PersistFacts ==
    ASSUME TypeOK, NEW writes \in SUBSET {"run", "stage"}, NEW new \in Records,
           NEW newStages \in StageRows, Persist(writes, new, newStages)
    PROVE  /\ RecordsOK'
           /\ run' = new
           /\ row' \in {row, new}
           /\ stageRow' \in {stageRow, newStages}
  <1>1. PICK taken \in SUBSET writes :
            /\ lost + Cardinality(writes \ taken) <= MaxLosses
            /\ lost' = lost + Cardinality(writes \ taken)
            /\ run' = new
            /\ row' = IF "run" \in taken THEN new ELSE row
            /\ stageRow' = IF "stage" \in taken THEN newStages ELSE stageRow
    BY DEF Persist
  <1>2. IsFiniteSet({"run", "stage"})
    <2>1. IsFiniteSet({"run"}) BY FS_Singleton
    <2>2. {"run", "stage"} = {"run"} \cup {"stage"} OBVIOUS
    <2> QED BY <2>1, <2>2, FS_AddElement
  <1>3. Cardinality(writes \ taken) \in Nat
    BY <1>2, FS_Subset, FS_CardinalityType
  <1>4. lost' \in 0..MaxLosses
    BY <1>1, <1>3, NamesOK DEF TypeOK
  <1> QED BY <1>1, <1>4 DEF RecordsOK, TypeOK, StageRows

(* A stack of at most two blocks, after the inner one is left. *)
LEMMA TailOK ==
    ASSUME NEW S, NEW s \in Seq(S), s # <<>>, Len(s) <= 2
    PROVE  Tail(s) \in Seq(S) /\ Len(Tail(s)) \in 0..1 /\ (Tail(s) # <<>> => Len(s) = 2)
  <1>1. Len(s) \in Nat /\ Len(s) # 0
    BY EmptySeq
  <1>2. Tail(s) \in Seq(S) /\ Len(Tail(s)) = Len(s) - 1
    BY HeadTailProperties
  <1>3. Tail(s) # <<>> => Len(Tail(s)) # 0
    BY <1>2, EmptySeq
  <1> QED BY <1>1, <1>2, <1>3

(* The three ways the tracker saves something. *)
LEMMA SaveRunFacts ==
    ASSUME TypeOK, NEW new \in Records, SaveRun(new)
    PROVE  RecordsOK' /\ run' = new /\ row' \in {row, new} /\ stageRow' = stageRow
  <1>1. stageRow \in StageRows BY DEF TypeOK, StageRows
  <1> QED BY <1>1, PersistFacts DEF SaveRun

(* What saving a stage row changes: one key of rows, and nothing above it. *)
LEMMA SaveStageFacts ==
    ASSUME TypeOK, NEW key, NEW status \in Ended \cup {"RUNNING"}, SaveStage(key, status)
    PROVE  RecordsOK' /\ run' = run /\ row' = row
           /\ stageRow' \in {stageRow, [stageRow EXCEPT ![key] = status]}
  <1>1. [stageRow EXCEPT ![key] = status] \in StageRows /\ run \in Records
    BY DEF TypeOK, StageRows
  <1>2. row' = row
    BY DEF SaveStage, Persist
  <1> QED BY <1>1, <1>2, PersistFacts DEF SaveStage

(* What saving a stage's row and then its run's row changes. *)
LEMMA SaveBothFacts ==
    ASSUME TypeOK, NEW new \in Records, NEW key, NEW status \in Ended \cup {"RUNNING"},
           SaveBoth(new, key, status)
    PROVE  RecordsOK' /\ run' = new /\ row' \in {row, new}
           /\ stageRow' \in {stageRow, [stageRow EXCEPT ![key] = status]}
  <1>1. [stageRow EXCEPT ![key] = status] \in StageRows
    BY DEF TypeOK, StageRows
  <1> QED BY <1>1, PersistFacts DEF SaveBoth

(* Closing a stage or the run keeps the outcome inside its type. *)
LEMMA OutcomeOK ==
    ASSUME TypeOK, NEW status \in Terminal
    PROVE  Outcome(status) \in Records /\ Outcome(status).started = run.started
           /\ Outcome(status).status = status
  BY DEF TypeOK, Records, Outcome, Statuses, Terminal

(* Where an object goes does not matter to its type. *)
LEMMA StoreOK ==
    ASSUME TypeOK, NEW written \in SUBSET Files, NEW date \in Days, Store(written, date)
    PROVE  disk' \in SUBSET (Files \X Days) /\ made' \in SUBSET Files
  BY DEF TypeOK, Store

(* The files a run or its diagnosis stores, by name and attempt. *)
LEMMA FilesOK ==
    ASSUME TypeOK
    PROVE  /\ {Log, Report, Rejected, RunJson, Diagnosis} \in SUBSET Files
           /\ \A n \in 1..MaxAttempts : Page(n) \in Files /\ Screenshot(n) \in Files
           /\ \A name : Products(name) \subseteq SUBSET {Report, Rejected}
           /\ \A name : FailureEvidence(name)
                            \subseteq SUBSET {Page(attempt), Screenshot(attempt), Rejected}
           /\ \A name : Leavings(name)
                            \subseteq SUBSET {Report, Page(attempt), Screenshot(attempt), Rejected}
           /\ Page(attempt) \in Files /\ Screenshot(attempt) \in Files
  <1>1. 1 \in 1..MaxAttempts /\ attempt \in 1..MaxAttempts
    BY NamesOK DEF TypeOK
  <1>2. /\ {Log, Report, Rejected, RunJson, Diagnosis} \in SUBSET Files
        /\ \A n \in 1..MaxAttempts : Page(n) \in Files /\ Screenshot(n) \in Files
    BY <1>1 DEF Files, Names, Log, Report, Rejected, RunJson, Diagnosis, Page, Screenshot
  <1>3. \A name : Products(name) \subseteq SUBSET {Report, Rejected}
    BY DEF Products
  <1>4. \A name : FailureEvidence(name)
                     \subseteq SUBSET {Page(attempt), Screenshot(attempt), Rejected}
    BY DEF FailureEvidence
  <1>5. \A name : Leavings(name)
                     \subseteq SUBSET {Report, Page(attempt), Screenshot(attempt), Rejected}
    BY <1>3, <1>4 DEF Leavings
  <1> QED BY <1>1, <1>2, <1>3, <1>4, <1>5

(* The next stage row's key is a key while there is one left to begin. *)
LEMMA KeysOK == ASSUME TypeOK, Inside, CanBegin PROVE NextKey \in Keys
  <1>1. CASE InAcquisition
    <2>1. step + 1 \in 1..Len(Steps) BY <1>1, NamesOK DEF CanBegin, TypeOK
    <2> QED BY <1>1, <2>1, NamesOK DEF NextKey, Keys, TypeOK
  <1>2. CASE ~InAcquisition
    <2>1. place + 1 \in 1..Len(Stages) BY <1>2, NamesOK DEF CanBegin, TypeOK
    <2> QED BY <1>2, <2>1, NamesOK DEF NextKey, Keys, TypeOK
  <1> QED BY <1>1, <1>2

(* The run may name the stage that is next. *)
LEMMA NextStageOK ==
    ASSUME TypeOK, CanBegin, open = <<>>
    PROVE  /\ Stages[place + 1] \in StageNames
           /\ [run EXCEPT !.stage = Stages[place + 1]] \in Records
           /\ [run EXCEPT !.stage = Stages[place + 1]].started = run.started
           /\ [run EXCEPT !.stage = Stages[place + 1]].status = run.status
  <1>1. ~InAcquisition
    BY DEF InAcquisition
  <1>2. place + 1 \in 1..Len(Stages)
    BY <1>1, NamesOK DEF CanBegin, TypeOK
  <1>3. Stages[place + 1] \in StageNames
    BY <1>2, NamesOK
  <1> QED BY <1>3 DEF TypeOK, Records

(* Whichever row it is, what is saved on the way in is well typed. *)
LEMMA EnterFacts ==
    ASSUME TypeOK, CanBegin, Enter
    PROVE  RecordsOK' /\ run'.started = run.started /\ run'.status = run.status
           /\ row' \in {row, run'}
  <1>1. CASE open = <<>>
    BY <1>1, NextStageOK, SaveBothFacts DEF Enter
  <1>2. CASE open # <<>>
    BY <1>2, SaveStageFacts DEF Enter
  <1> QED BY <1>1, <1>2

-----------------------------------------------------------------------------
(* The initial state is well typed and inside its bounds. *)
LEMMA InitOK == Init => TypeOK /\ Inside
  <1> SUFFICES ASSUME Init PROVE TypeOK /\ Inside
    OBVIOUS
  <1>1. QueuedRecord \in Records /\ 0 \in Days
    BY NamesOK DEF QueuedRecord, Records, Statuses, Terminal, QueuedOn, Days
  <1>2. open \in Seq(Keys) /\ Len(open) = 0
    BY DEF Init
  <1>3. stageRow \in [Keys -> Ended \cup {"RUNNING", "none"}]
    BY DEF Init
  <1>4. TypeOK
    BY <1>1, <1>2, <1>3, NamesOK DEF Init, TypeOK, Pcs, FirstLook
  <1> QED BY <1>2, <1>4 DEF Init, Inside, InStep

(* Every step keeps every variable in its type and the control inside the lists. *)
LEMMA StepOK == TypeOK /\ Inside /\ [Next]_vars => (TypeOK /\ Inside)'
<1> SUFFICES ASSUME TypeOK, Inside, [Next]_vars PROVE (TypeOK /\ Inside)'
    OBVIOUS
<1> USE NamesOK DEF control, records, files, readers
<1>a. QueuedOn \in Days /\ run.started \in Days /\ row.started \in Days
    <2>1. run \in Records /\ row \in Records BY DEF TypeOK
    <2>2. QueuedOn \in Days BY DEF QueuedOn, Days
    <2> QED BY <2>1, <2>2 DEF Records
<1>b. ASSUME RecordsOK', UNCHANGED <<day, cut, control, evidence, follower>>, pc' \in Pcs,
             disk' \in SUBSET (Files \X Days), made' \in SUBSET Files,
             lines' \in Nat, told' \in Nat
      PROVE  (TypeOK /\ Inside)'
    BY <1>b DEF TypeOK, Inside, InStep, RecordsOK, StageRows
<1>c. ASSUME UNCHANGED <<day, readers, told>>, pc' \in Pcs, open # <<>>, open' = Tail(open),
             step' \in 0..Len(Steps), place' \in 0..Len(Stages), attempt' \in 1..MaxAttempts,
             InStep => place' = place
      PROVE  /\ open' \in Seq(Keys) /\ Inside'
    <2>1. open \in Seq(Keys) /\ Len(open) <= 2 BY DEF TypeOK, Inside
    <2>2. open' \in Seq(Keys) /\ Len(open') \in 0..1 /\ (open' # <<>> => Len(open) = 2)
        BY <1>c, <2>1, TailOK
    <2>3. place < Len(Stages) BY <1>c DEF Inside
    <2>4. ~InStep' BY <2>2 DEF InStep
    <2>5. open' # <<>> => place' < Len(Stages) BY <1>c, <2>2, <2>3 DEF InStep
    <2>6. Len(open') <= 2 BY <2>2
    <2> QED BY <2>2, <2>4, <2>5, <2>6 DEF Inside
<1>d. RecordsOK BY DEF TypeOK, RecordsOK, StageRows
<1>1. CASE OpenLog
    <2>1. {Log} \in SUBSET Files BY FilesOK
    <2> QED BY <1>1, <1>a, <1>b, <1>d, <2>1, StoreOK DEF OpenLog, TypeOK, RecordsOK, StageRows, Pcs
<1>2. CASE OpenFails
    <2>1. Outcome("FAILED") \in Records BY OutcomeOK DEF Terminal
    <2> QED BY <1>2, <1>b, <2>1, SaveRunFacts DEF OpenFails, TypeOK, Pcs
<1>3. CASE Start
    <2>1. [run EXCEPT !.status = "RUNNING", !.started = day] \in Records
        BY DEF TypeOK, Records, Statuses
    <2>2. RecordsOK'
        BY <1>3, <2>1, SaveRunFacts DEF Start
    <2>3. lines' \in Nat /\ UNCHANGED <<day, cut, control, disk, made, told, readers>>
          /\ pc' \in Pcs
        BY <1>3 DEF Start, TypeOK, Pcs
    <2> QED BY <1>b, <2>2, <2>3 DEF TypeOK
<1>4. CASE Begin
    <2>1. NextKey \in Keys BY <1>4, KeysOK DEF Begin
    <2>2. open' \in Seq(Keys) /\ Len(open') = Len(open) + 1
        BY <1>4, <2>1 DEF Begin, TypeOK
    <2>3. Inside'
        <3>1. CASE open = <<>>
            BY <1>4, <2>2, <3>1 DEF Begin, CanBegin, Inside, InStep, InAcquisition
        <3>2. CASE open # <<>>
            BY <1>4, <2>2, <3>2 DEF Begin, CanBegin, Inside, InStep, InAcquisition
        <3> QED BY <3>1, <3>2
    <2>4. RecordsOK'
        BY <1>4, EnterFacts DEF Begin
    <2> QED BY <1>4, <2>2, <2>3, <2>4 DEF Begin, TypeOK, RecordsOK, StageRows
<1>5. CASE End
    <2>1. \A written \in Products(open[1][1]) : written \in SUBSET Files
        BY FilesOK
    <2>2. disk' \in SUBSET (Files \X Days) /\ made' \in SUBSET Files
        BY <1>5, <1>a, <2>1, StoreOK DEF End
    <2>3. RecordsOK'
        BY <1>5, SaveBothFacts, SaveStageFacts DEF End, TypeOK, Ended
    <2>4. step' \in 0..Len(Steps) /\ place' \in 0..Len(Stages) /\ (InStep => place' = place)
        BY <1>5 DEF End, Inside, TypeOK
    <2>5. open' \in Seq(Keys) /\ Inside'
        BY <1>5, <1>c, <2>4 DEF End, TypeOK
    <2> QED BY <1>5, <2>2, <2>3, <2>4, <2>5 DEF End, TypeOK, RecordsOK, StageRows
<1>6. CASE Fail
    <2>1. \A written \in IF pc = "interrupted" THEN {{}} ELSE FailureEvidence(open[1][1]) :
              written \in SUBSET Files
        BY FilesOK
    <2>2. disk' \in SUBSET (Files \X Days) /\ made' \in SUBSET Files
        BY <1>6, <1>a, <2>1, StoreOK DEF Fail
    <2>3. RecordsOK'
        BY <1>6, SaveStageFacts DEF Fail, Ended
    <2>4. /\ pc' \in Pcs /\ attempt' \in 1..MaxAttempts
          /\ step' \in 0..Len(Steps) /\ place' = place
        BY <1>6 DEF Fail, AfterFailure, TypeOK, Pcs
    <2>5. open' \in Seq(Keys) /\ Inside'
        BY <1>6, <1>c, <2>4 DEF Fail, TypeOK
    <2> QED BY <1>6, <2>2, <2>3, <2>4, <2>5 DEF Fail, TypeOK, RecordsOK, StageRows
<1>7. CASE Interrupt
    BY <1>7, <1>b, <1>d DEF Interrupt, TypeOK, Pcs, RecordsOK, StageRows
<1>8. CASE Skip
    <2>1. RecordsOK'
        BY <1>8, SaveStageFacts DEF Skip, Ended
    <2>2. place' \in 0..Len(Stages)
        BY <1>8 DEF Skip, TypeOK
    <2>3. Inside'
        BY <1>8 DEF Skip, TypeOK, Inside, InStep
    <2>4. pc' \in Pcs
        BY <1>8 DEF Skip, Pcs
    <2> QED BY <1>8, <2>1, <2>2, <2>3, <2>4 DEF Skip, TypeOK, RecordsOK, StageRows
<1>9. ASSUME NEW status \in Terminal, Finish(status) PROVE (TypeOK /\ Inside)'
    <2>1. RecordsOK'
        BY <1>9, OutcomeOK, SaveRunFacts DEF Finish
    <2> QED BY <1>9, <1>b, <2>1 DEF Finish, TypeOK, Pcs
<1>10. CASE LastLine
    BY <1>10, <1>b, <1>d DEF LastLine, TypeOK, Pcs, RecordsOK, StageRows
<1>11. CASE Summary
    <2>1. \A written \in SUBSET {RunJson} : written \in SUBSET Files BY FilesOK
    <2>2. disk' \in SUBSET (Files \X Days) /\ made' \in SUBSET Files
        BY <1>11, <1>a, <2>1, StoreOK DEF Summary
    <2> QED BY <1>11, <1>b, <1>d, <2>2 DEF Summary, TypeOK, Pcs, RecordsOK, StageRows
<1>12. CASE Kill
    BY <1>12, <1>b, <1>d DEF Kill, TypeOK, Pcs, RecordsOK, StageRows
<1>13. CASE Mark
    <2>1. row' \in Records
        BY <1>13 DEF Mark, TypeOK, Records, Statuses, Terminal
    <2> QED BY <1>13, <2>1 DEF Mark, TypeOK, Inside, InStep
<1>14. CASE Tomorrow
    BY <1>14 DEF Tomorrow, TypeOK, Inside, InStep, Days
<1>15. ASSUME NEW reached, Prune(reached) PROVE (TypeOK /\ Inside)'
    BY <1>15 DEF Prune, TypeOK, Inside, InStep
<1>16. CASE FollowFetch
    BY <1>16, <1>a DEF FollowFetch, TypeOK, Inside, InStep
<1>17. CASE FollowPrint
    <2>1. follower' \in [at : {"fetch", "print", "over"}, ended : BOOLEAN, date : Days,
                          seen : Nat]
        BY <1>17, <1>a DEF FollowPrint, FirstLook, TypeOK, QueuedOn
    <2> QED BY <1>17, <2>1 DEF FollowPrint, TypeOK, Inside, InStep
<1>18. CASE Diagnose
    <2>1. PICK written \in SUBSET {Diagnosis} : Store(written, row.started)
        BY <1>18 DEF Diagnose
    <2>a. written \in SUBSET Files
        BY FilesOK
    <2>2. disk' \in SUBSET (Files \X Days) /\ made' \in SUBSET Files
        BY <1>a, <2>1, <2>a, StoreOK
    <2>3. evidence' \in SUBSET (SUBSET Files)
        BY <1>18 DEF Diagnose, Gathered
    <2>4. UNCHANGED <<day, pc, control, records, lines, told, follower>>
        BY <1>18 DEF Diagnose
    <2>5. TypeOK'
        BY <2>2, <2>3, <2>4 DEF TypeOK
    <2> QED BY <2>4, <2>5 DEF Inside, InStep
<1>19. CASE InterruptBegin
    <2>1. NextKey \in Keys BY <1>19, KeysOK DEF InterruptBegin
    <2>2. RecordsOK' /\ cut' \in SUBSET Keys
        <3>1. CASE open = <<>> /\ SaveRun([run EXCEPT !.stage = Stages[place + 1]]) /\ cut' = cut
            <4>1. [run EXCEPT !.stage = Stages[place + 1]] \in Records
                BY <1>19, <3>1, NextStageOK DEF InterruptBegin
            <4> QED BY <3>1, <4>1, SaveRunFacts DEF TypeOK
        <3>2. CASE Enter /\ cut' = cut \cup {NextKey}
            BY <1>19, <2>1, <3>2, EnterFacts DEF InterruptBegin, TypeOK
        <3> QED BY <1>19, <3>1, <3>2 DEF InterruptBegin
    <2> QED BY <1>19, <2>2 DEF InterruptBegin, TypeOK, Inside, InStep, RecordsOK, StageRows, Pcs
<1>20. CASE InterruptLeave
    <2>1. \A written \in Leavings(open[1][1]) : written \in SUBSET Files
        BY FilesOK
    <2>2. disk' \in SUBSET (Files \X Days) /\ made' \in SUBSET Files
        BY <1>20, <1>a, <2>1, StoreOK DEF InterruptLeave
    <2>3. open' \in Seq(Keys) /\ Inside'
        BY <1>20, <1>c DEF InterruptLeave, TypeOK, Pcs
    <2>4. cut' \in SUBSET Keys
        <3>1. open \in Seq(Keys) /\ Len(open) \in Nat /\ Len(open) # 0
            BY <1>20, EmptySeq DEF InterruptLeave, TypeOK
        <3>2. open[1] \in Keys BY <3>1
        <3> QED BY <1>20, <3>2 DEF InterruptLeave, TypeOK
    <2> QED BY <1>20, <2>2, <2>3, <2>4 DEF InterruptLeave, TypeOK, Pcs
<1>21. CASE UNCHANGED vars
    BY <1>21 DEF vars, TypeOK, Inside, InStep
<1> QED
    BY <1>1, <1>2, <1>3, <1>4, <1>5, <1>6, <1>7, <1>8, <1>9, <1>10, <1>11, <1>12, <1>13,
       <1>14, <1>15, <1>16, <1>17, <1>18, <1>19, <1>20, <1>21 DEF Next, Work

(* Type correctness of the run's records, whatever the stages and the bounds. *)
THEOREM TypeCorrect == Spec => []TypeOK
BY InitOK, StepOK, PTL DEF Spec

-----------------------------------------------------------------------------
(* Once a run's end is known it works on nothing but its last line and its summary. *)
Done == {"closing", "summary", "over", "raised", "killed"}

(* The date of the row only moves away from the queued one, and only before the stages. *)
Dates ==
    /\ pc \in {"queued", "opened"} => run.started = QueuedOn
    /\ row.started \in {QueuedOn, run.started}

Ends ==
    /\ run.status \in Terminal => pc \in Done
    /\ row.status \in Terminal => pc \in Done

Logged ==
    /\ told <= lines
    /\ \/ Log \in made
       \/ lines = 0 /\ open = <<>> /\ pc \in {"queued", "interrupted", "over", "raised", "killed"}

(* What is on the disk was stored once; there is one file of refused rows. *)
Held ==
    /\ \A file \in Files, date \in Days : Stored(file, date) => file \in made
    /\ \A file \in made : file[1] = "rejected_rows.csv" => file = Rejected

(* What was stored is found under the date of the row until retention takes it, unless *)
(* the run was started on another day than it was queued.                              *)
Found == Fresh /\ SameDay => \A file \in made : Stored(file, QueuedOn)

(* What a reader relies on after it has read the row. *)
Readers ==
    /\ follower.at = "print" /\ follower.ended
           => row.status \in Terminal /\ follower.date = row.started
    /\ follower.at = "over" => row.status \in Terminal
    /\ evidence # {} => row.status = "FAILED"

Promises == FollowersSeeTheStory /\ DiagnosesSeeTheEvidence

IInv == TypeOK /\ Inside /\ Dates /\ Ends /\ Logged /\ Held /\ Found /\ Readers /\ Promises

(* What a run has to store for a diagnosis to be given. *)
Telling == {Log, Rejected} \cup {Page(n) : n \in 1..MaxAttempts}

(* The files have different names. *)
LEMMA OtherFiles ==
    /\ {RunJson, Diagnosis, Report} \cap Telling = {}
    /\ \A n \in 1..MaxAttempts : Screenshot(n) \notin Telling
  BY DEF Telling, Log, Report, Rejected, RunJson, Diagnosis, Page, Screenshot

(* Storing something else leaves what a diagnosis should be given. *)
LEMMA SameEvidence ==
    ASSUME made' = made \/ (\E written : made' = made \cup written /\ written \cap Telling = {})
    PROVE  /\ made' \cap {Log, Rejected} = made \cap {Log, Rejected}
           /\ PagesMade' = PagesMade
  BY DEF PagesMade, Telling

(* The initial state satisfies the inductive invariant. *)
LEMMA InitInv == Init => IInv
<1> SUFFICES ASSUME Init PROVE IInv
    OBVIOUS
<1>1. TypeOK /\ Inside BY InitOK
<1>2. row.status = "QUEUED" /\ run.status = "QUEUED" /\ run.started = QueuedOn
      /\ row.started = QueuedOn
    BY DEF Init, QueuedRecord
<1>3. Dates /\ Ends /\ Logged
    BY <1>2 DEF Init, Dates, Ends, Logged, Terminal
<1>4. Readers /\ Promises
    BY DEF Init, Readers, Promises, FollowersSeeTheStory, DiagnosesSeeTheEvidence, FirstLook
<1>5. Held /\ Found
    BY DEF Init, Held, Found, Stored
<1> QED BY <1>1, <1>3, <1>4, <1>5 DEF IInv

(* Storing files on the run's date keeps Held and Found. *)
LEMMA StoreKeeps ==
    ASSUME TypeOK, Held, NEW written \in SUBSET Files,
           \A file \in written : file[1] = "rejected_rows.csv" => file = Rejected,
           disk' = disk \cup (written \X {QueuedOn}), made' = made \cup written, day' = day,
           SameDay' => SameDay, Found
    PROVE  Held' /\ Found'
<1>1. Held'
    <2>1. ASSUME NEW file \in Files, NEW date \in Days, Stored(file, date)'
          PROVE  file \in made'
        <3>1. <<file, date>> \in disk \/ file \in written
            BY <2>1 DEF Stored
        <3> QED BY <3>1, <2>1 DEF Held, Stored
    <2> QED BY <2>1 DEF Held
<1>2. Found'
    BY DEF Found, Fresh, Stored
<1> QED BY <1>1, <1>2

(* A step of a run that is not yet over: nobody has seen its end, so all there is to   *)
(* keep is where its artifacts are.                                                    *)
LEMMA LiveStep ==
    ASSUME IInv, (TypeOK /\ Inside)', pc \notin Done,
           UNCHANGED <<day, readers>>,
           row' \in {row, run'},
           run'.started = run.started \/ (pc = "opened" /\ pc' = "working"),
           pc' \in {"queued", "opened"} => pc \in {"queued", "opened"},
           run'.status \in Terminal => pc' \in Done,
           NEW written \in SUBSET Files,
           \A file \in written : file[1] = "rejected_rows.csv" => file = Rejected,
           disk' = disk \cup (written \X {QueuedOn}), made' = made \cup written,
           told' <= lines',
           \/ Log \in made'
           \/ lines' = 0 /\ open' = <<>>
              /\ pc' \in {"queued", "interrupted", "over", "raised", "killed"}
    PROVE  IInv'
<1> USE DEF readers
<1>1. row.status \notin Terminal /\ run.status \notin Terminal
    BY DEF IInv, Ends
<1>2. Dates'
    <2>1. CASE run'.started = run.started
        BY <2>1 DEF IInv, Dates
    <2>2. CASE pc = "opened" /\ pc' = "working"
        BY <2>2 DEF IInv, Dates
    <2> QED BY <2>1, <2>2
<1>3. Ends'
    BY <1>1 DEF Ends
<1>4. Logged'
    BY DEF Logged
<1>5. /\ ~(follower.at = "print" /\ follower.ended) /\ follower.at # "over" /\ evidence = {}
      /\ follower' = follower /\ evidence' = evidence
    BY <1>1 DEF IInv, Readers, Terminal
<1>6. Readers'
    BY <1>5 DEF Readers
<1>7. SameDay' => SameDay
    <2>1. CASE pc = "opened"
        BY <2>1 DEF IInv, Dates, SameDay
    <2>2. CASE pc # "opened"
        BY <2>2 DEF IInv, Dates, SameDay, QueuedOn
    <2> QED BY <2>1, <2>2
<1>8. FollowersSeeTheStory' /\ DiagnosesSeeTheEvidence'
    BY <1>5 DEF FollowersSeeTheStory, DiagnosesSeeTheEvidence
<1>9. Held' /\ Found'
    BY <1>7, StoreKeeps DEF IInv
<1> QED BY <1>2, <1>3, <1>4, <1>6, <1>8, <1>9 DEF IInv, Promises

(* Nothing more is logged. *)
Over == pc \in {"over", "raised", "killed"}

(* Finish and the steps around it, once the end is known. *)
LEMMA DoneStep ==
    ASSUME IInv, (TypeOK /\ Inside)', pc \in Done, pc' \in Done,
           UNCHANGED <<day, readers, run>>,
           row' = row \/ (row.status \notin Terminal /\ row'.started = row.started),
           NEW written \in SUBSET {RunJson},
           disk' = disk \cup (written \X {QueuedOn}), made' = made \cup written,
           told' = told, open' = open, Over => Over',
           lines' = lines \/ (lines' = lines + 1 /\ ~Over)
    PROVE  IInv'
<1> USE DEF readers
<1>1. Dates' /\ Ends'
    BY DEF IInv, Dates, Ends, Done
<1>2. Logged'
    <2>1. told \in Nat /\ lines \in Nat /\ told <= lines
        BY DEF IInv, Logged, TypeOK
    <2>2. told' <= lines'
        BY <2>1
    <2>3. CASE Over
        BY <2>2, <2>3 DEF IInv, Logged, Over
    <2>4. CASE ~Over
        BY <2>2, <2>4 DEF IInv, Logged, Done, Over
    <2> QED BY <2>3, <2>4
<1>3. Readers'
    BY DEF IInv, Readers, Terminal
<1>a. written \in SUBSET Files /\ written \cap Telling = {}
      /\ \A file \in written : file[1] = "rejected_rows.csv" => file = Rejected
    BY FilesOK, OtherFiles DEF IInv, RunJson
<1>b. SameDay' <=> SameDay
    BY DEF SameDay
<1>4. Held' /\ Found'
    BY <1>a, <1>b, StoreKeeps DEF IInv
<1>5. FollowersSeeTheStory'
    BY DEF IInv, Promises, FollowersSeeTheStory, Readers, SameDay, Fresh, QueuedOn
<1>6. DiagnosesSeeTheEvidence'
    <2>1. made' \cap {Log, Rejected} = made \cap {Log, Rejected} /\ PagesMade' = PagesMade
        BY <1>a, SameEvidence
    <2> QED BY <1>b, <2>1 DEF IInv, Promises, DiagnosesSeeTheEvidence, Fresh
<1> QED BY <1>1, <1>2, <1>3, <1>4, <1>5, <1>6 DEF IInv, Promises

(* A set of numbers up to n has a least one. *)
LEMMA Least ==
    ASSUME NEW n \in Nat, NEW S \in SUBSET (1..n), S # {}
    PROVE  \E m \in S : \A q \in S : m <= q
<1> DEFINE UpTo(m) == 1..m
           Order   == StrictSubsetOrdering(1..n)
           Family  == {UpTo(m) : m \in S}
<1>1. IsWellFoundedOn(Order, SUBSET (1..n))
  <2>1. 1 \in Int /\ n \in Int
    OBVIOUS
  <2>2. FiniteSubsetsOf(1..n) = SUBSET (1..n)
    BY <2>1, FS_Interval, FS_FiniteSubsetsOfFinite
  <2>3. QED
    BY <2>2, FS_StrictSubsetOrderingWellFounded
<1>2. Family \subseteq SUBSET (1..n) /\ Family # {}
  <2>1. ASSUME NEW m \in S PROVE UpTo(m) \in SUBSET (1..n)
    OBVIOUS
  <2>2. QED
    BY <2>1
<1>3. PICK x \in Family : \A y \in Family : <<y, x>> \notin Order
  <2> HIDE DEF Family, Order
  <2>1. QED
    BY <1>1, <1>2, WFMin
<1>4. PICK m \in S : x = UpTo(m)
  OBVIOUS
<1>5. ASSUME NEW q \in S, ~(m <= q) PROVE FALSE
  <2>1. UpTo(q) \in Family /\ m \in 1..n /\ q \in 1..n
    OBVIOUS
  <2>2. UpTo(q) \subseteq UpTo(m) /\ m \in UpTo(m) /\ m \notin UpTo(q)
    BY <1>5, <2>1
  <2>3. <<UpTo(q), UpTo(m)>> \in Order
    BY <2>1, <2>2 DEF StrictSubsetOrdering
  <2>4. QED
    BY <1>3, <1>4, <2>1, <2>3
<1>6. QED
  BY <1>5

(* The directory shows the pages of some attempt first. *)
LEMMA FirstListedOK ==
    ASSUME NEW S \in SUBSET (1..MaxAttempts), S # {}
    PROVE  FirstListed(S) \in S
<1>1. PICK m \in S : \A q \in S : m <= q
    BY Least, NamesOK
<1> QED BY <1>1 DEF FirstListed

(* What the diagnosis gathers while everything is found is all it can tell from. *)
LEMMA GatheredFacts ==
    ASSUME TypeOK, Held, Found, SameDay, Fresh
    PROVE  Gathered(QueuedOn) =
               (made \cap {Log, Rejected})
                   \cup (IF PagesMade = {} THEN {} ELSE {Page(FirstListed(PagesMade))})
<1>1. QueuedOn \in Days /\ made \in SUBSET Files
    BY NamesOK DEF QueuedOn, Days, TypeOK
<1>2. \A file \in Files : Stored(file, QueuedOn) <=> file \in made
    BY <1>1 DEF Held, Found
<1> DEFINE Kept(name) == {n \in 1..MaxAttempts : Stored(<<name, n>>, QueuedOn)}
<1>3. Kept("page.html") = PagesMade
    <2>1. \A n \in 1..MaxAttempts : <<"page.html", n>> \in Files
        BY DEF Files, Names
    <2> QED BY <1>2, <2>1 DEF PagesMade, Page
<1>4. \A file \in Files : file \in Gathered(QueuedOn) <=>
          \/ file = Log /\ file \in made
          \/ file[1] = "page.html" /\ file \in made /\ file[2] = FirstListed(PagesMade)
          \/ file[1] = "rejected_rows.csv" /\ file \in made /\ file[2] = FirstListed(Kept("rejected_rows.csv"))
    BY <1>2, <1>3 DEF Gathered, Area
<1>5. Rejected \in made => FirstListed(Kept("rejected_rows.csv")) = 1
    <2>1. Kept("rejected_rows.csv") \subseteq {1}
        <3> SUFFICES ASSUME NEW n \in 1..MaxAttempts, Stored(<<"rejected_rows.csv", n>>, QueuedOn)
                     PROVE  n = 1
            OBVIOUS
        <3>1. <<"rejected_rows.csv", n>> \in Files
            BY DEF Files, Names
        <3>2. <<"rejected_rows.csv", n>> = Rejected
            BY <1>2, <3>1 DEF Held
        <3> QED BY <3>2 DEF Rejected
    <2>2. Rejected \in made => 1 \in Kept("rejected_rows.csv")
        BY <1>1, <1>2, NamesOK DEF Rejected
    <2>3. Kept("rejected_rows.csv") \in SUBSET (1..MaxAttempts)
        OBVIOUS
    <2> HIDE DEF Kept
    <2> QED BY <2>1, <2>2, <2>3, FirstListedOK
<1>6. \A file \in Files : file[1] = "rejected_rows.csv" /\ file \in made => file = Rejected
    BY DEF Held
<1>7. PagesMade \in SUBSET (1..MaxAttempts)
    BY DEF PagesMade
<1>8. \A file \in Files : file[1] = "page.html" /\ file \in made =>
          file[2] \in PagesMade /\ file = Page(file[2])
    BY DEF Files, PagesMade, Page
<1>9. PagesMade # {} => /\ Page(FirstListed(PagesMade)) \in made
                        /\ Page(FirstListed(PagesMade))[1] = "page.html"
                        /\ Page(FirstListed(PagesMade))[2] = FirstListed(PagesMade)
    BY <1>7, FirstListedOK DEF PagesMade, Page
<1>10. Gathered(QueuedOn) \in SUBSET Files
    BY DEF Gathered
<1>11. Rejected[1] = "rejected_rows.csv" /\ Rejected[2] = 1
    BY DEF Rejected
<1> HIDE DEF Kept
<1>12. \A file \in Files : file \in Gathered(QueuedOn) <=>
           \/ file = Log /\ file \in made
           \/ file = Rejected /\ file \in made
           \/ PagesMade # {} /\ file = Page(FirstListed(PagesMade))
    <2> SUFFICES ASSUME NEW file \in Files
                 PROVE  file \in Gathered(QueuedOn) <=>
                            \/ file = Log /\ file \in made
                            \/ file = Rejected /\ file \in made
                            \/ PagesMade # {} /\ file = Page(FirstListed(PagesMade))
        OBVIOUS
    <2>1. (file[1] = "rejected_rows.csv" /\ file \in made
               /\ file[2] = FirstListed(Kept("rejected_rows.csv")))
          <=> file = Rejected /\ file \in made
        BY <1>5, <1>6, <1>11
    <2>2. (file[1] = "page.html" /\ file \in made /\ file[2] = FirstListed(PagesMade))
          <=> PagesMade # {} /\ file = Page(FirstListed(PagesMade))
        BY <1>8, <1>9
    <2> QED BY <1>4, <2>1, <2>2
<1> QED BY <1>1, <1>9, <1>10, <1>12

(* Every step of the tracker keeps the inductive invariant. *)
LEMMA StepInv == IInv /\ [Next]_vars => IInv'
<1> SUFFICES ASSUME IInv, [Next]_vars PROVE IInv'
    OBVIOUS
<1>a. TypeOK /\ Inside /\ (TypeOK /\ Inside)'
    BY StepOK DEF IInv
<1>b. Logged /\ told \in Nat /\ lines \in Nat /\ told <= lines
    BY <1>a DEF IInv, Logged, TypeOK
<1>c. disk = disk \cup ({} \X {QueuedOn}) /\ made = made \cup {}
    OBVIOUS
<1>d. ASSUME pc \notin Done PROVE run.status \notin Terminal /\ run \in Records
    BY <1>a, <1>d DEF IInv, Ends, TypeOK
<1>e. pc \notin {"queued", "interrupted", "over", "raised", "killed"} \/ open # <<>> => Log \in made
    BY <1>b DEF Logged
<1>g. /\ {} \in SUBSET Files /\ {Log} \in SUBSET Files /\ {} \in SUBSET {RunJson}
      /\ Log[1] # "rejected_rows.csv"
    BY <1>a, FilesOK DEF Log
<1>h. ASSUME NEW written, written \subseteq {Report, Page(attempt), Screenshot(attempt), Rejected}
      PROVE  /\ written \in SUBSET Files
             /\ \A file \in written : file[1] = "rejected_rows.csv" => file = Rejected
    <2>1. Report[1] # "rejected_rows.csv" /\ Page(attempt)[1] # "rejected_rows.csv"
          /\ Screenshot(attempt)[1] # "rejected_rows.csv"
        BY DEF Report, Page, Screenshot
    <2> QED BY <1>a, <1>h, <2>1, FilesOK
<1>f. told <= lines + 1 /\ lines <= lines /\ lines + 1 > lines
    BY <1>b
<1> USE DEF control, records, files, readers, Store
<1>1. CASE OpenLog
    BY <1>1, <1>a, <1>b, <1>d, <1>g, LiveStep DEF OpenLog, Done
<1>2. CASE OpenFails
    <2>1. run' = Outcome("FAILED") /\ row' \in {row, run'} /\ run'.started = run.started
        BY <1>2, <1>a, OutcomeOK, SaveRunFacts DEF OpenFails, Terminal
    <2> QED BY <1>2, <2>1, <1>a, <1>b, <1>c, <1>g, LiveStep DEF OpenFails, Done, Logged
<1>3. CASE Start
    <2>1. [run EXCEPT !.status = "RUNNING", !.started = day] \in Records
        BY <1>a DEF TypeOK, Records, Statuses
    <2>2. row' \in {row, run'} /\ run'.status = "RUNNING"
        BY <1>3, <1>a, <2>1, SaveRunFacts DEF Start, Records
    <2>3. Log \in made' /\ told' <= lines' /\ run'.status \notin Terminal
        BY <1>3, <1>e, <1>f, <2>2 DEF Start, Terminal
    <2> QED BY <1>3, <2>2, <2>3, <1>a, <1>c, <1>g, LiveStep DEF Start, Done
<1>4. CASE Begin
    <2>1. row' \in {row, run'} /\ run'.started = run.started /\ run'.status = run.status
        BY <1>4, <1>a, EnterFacts DEF Begin
    <2>2. Log \in made /\ pc \notin Done
        BY <1>4, <1>e DEF Begin, CanBegin, Done
    <2> QED BY <1>4, <2>1, <2>2, <1>a, <1>b, <1>c, <1>d, <1>g, LiveStep DEF Begin, CanBegin
<1>5. CASE End
    <2>1. row' \in {row, run'} /\ run' = run
        BY <1>5, <1>a, SaveBothFacts, SaveStageFacts DEF End, TypeOK, Ended
    <2>2. Log \in made' /\ told' <= lines'
        BY <1>5, <1>e, <1>f DEF End
    <2>3. PICK written \in Products(open[1][1]) : Store(written, QueuedOn)
        BY <1>5 DEF End
    <2>4. /\ written \in SUBSET Files
          /\ \A file \in written : file[1] = "rejected_rows.csv" => file = Rejected
        BY <1>a, <1>h, <2>3, FilesOK
    <2>5. UNCHANGED <<day, readers>> /\ pc = "working" /\ pc' = "working"
        BY <1>5 DEF End
    <2> QED BY <2>1, <2>2, <2>3, <2>4, <2>5, <1>a, <1>d, LiveStep DEF Done
<1>6. CASE Fail
    <2>1. row' = row /\ run' = run
        BY <1>6, <1>a, SaveStageFacts DEF Fail, Ended
    <2>2. pc' \notin {"queued", "opened"}
        BY <1>6 DEF Fail, AfterFailure
    <2>3. Log \in made' /\ told' <= lines'
        BY <1>6, <1>e, <1>f DEF Fail
    <2>4. PICK written \in IF pc = "interrupted" THEN {{}} ELSE FailureEvidence(open[1][1]) :
              Store(written, QueuedOn)
        BY <1>6 DEF Fail
    <2>5. /\ written \in SUBSET Files
          /\ \A file \in written : file[1] = "rejected_rows.csv" => file = Rejected
        BY <1>a, <1>h, <2>4, FilesOK
    <2>6. UNCHANGED <<day, readers>> /\ pc \notin Done
        BY <1>6 DEF Fail, Done
    <2> QED BY <2>1, <2>2, <2>3, <2>4, <2>5, <2>6, <1>a, <1>d, LiveStep
<1>7. CASE Interrupt
    <2>1. CASE pc \in {"closing", "summary"}
        BY <1>7, <2>1, <1>a, <1>b, <1>c, <1>g, DoneStep DEF Interrupt, Done, Over
    <2>2. CASE pc \notin {"closing", "summary"}
        BY <1>7, <2>2, <1>a, <1>b, <1>c, <1>d, <1>g, LiveStep DEF Interrupt, Done, Logged
    <2> QED BY <2>1, <2>2
<1>8. CASE Skip
    <2>1. row' = row /\ run' = run
        BY <1>8, <1>a, SaveStageFacts DEF Skip, Ended
    <2> QED BY <1>8, <2>1, <1>a, <1>b, <1>c, <1>d, <1>e, <1>g, LiveStep DEF Skip, Done
<1>9. ASSUME NEW status \in Terminal, Finish(status) PROVE IInv'
    <2>1. row' \in {row, run'} /\ run'.started = run.started
        BY <1>9, <1>a, OutcomeOK, SaveRunFacts DEF Finish
    <2>2. told' <= lines'
        BY <1>9, <1>f DEF Finish
    <2>3. pc \notin Done /\ pc' \in Done /\ pc' \notin {"queued", "opened"}
        BY <1>9 DEF Finish, Done
    <2>4. \/ Log \in made'
          \/ lines' = 0 /\ open' = <<>> /\ pc' = "raised"
        BY <1>9, <1>b DEF Finish, Logged
    <2> QED BY <1>9, <2>1, <2>2, <2>3, <2>4, <1>a, <1>c, <1>g, LiveStep DEF Finish
<1>10. CASE LastLine
    BY <1>10, <1>a, <1>b, <1>c, <1>g, DoneStep DEF LastLine, Done, Over
<1>11. CASE Summary
    BY <1>11, <1>a, <1>b, DoneStep DEF Summary, Done, Over
<1>12. CASE Kill
    <2>1. CASE pc \in Done
        BY <1>12, <2>1, <1>a, <1>b, <1>c, <1>g, DoneStep DEF Kill, Done, Over
    <2>2. CASE pc \notin Done
        <3>1. Log \in made \/ (lines = 0 /\ open = <<>>)
            BY <1>b DEF Logged
        <3> QED BY <1>12, <2>2, <3>1, <1>a, <1>b, <1>c, <1>d, <1>f, <1>g, LiveStep DEF Kill, Done
    <2> QED BY <2>1, <2>2
<1>13. CASE Mark
    <2>1. row'.started = row.started
        BY <1>13, <1>a DEF Mark, TypeOK, Records
    <2> QED BY <1>13, <2>1, <1>a, <1>b, <1>c, <1>g, DoneStep DEF Mark, Done, Over
<1>14. CASE Tomorrow
    <2>1. Fresh' => Fresh
        BY <1>14, <1>a, NamesOK DEF Tomorrow, Fresh, TypeOK, Days, QueuedOn
    <2> QED BY <1>14, <2>1, <1>a DEF Tomorrow, IInv, Dates, Ends, Logged, Readers, Promises, Held,
            Found, FollowersSeeTheStory, DiagnosesSeeTheEvidence, PagesMade, SameDay, Stored
<1>15. ASSUME NEW reached, Prune(reached) PROVE IInv'
    <2>1. Fresh => \A file : <<file, QueuedOn>> \in disk => <<file, QueuedOn>> \in disk'
        BY <1>15, <1>a, NamesOK DEF Prune, Fresh, Expired, QueuedOn, TypeOK, Days
    <2>2. Held' /\ Found'
        BY <1>15, <2>1 DEF Prune, IInv, Held, Found, SameDay, Fresh, Stored
    <2> QED BY <1>15, <2>2, <1>a DEF Prune, IInv, Dates, Ends, Logged, Readers, Promises,
            FollowersSeeTheStory, DiagnosesSeeTheEvidence, PagesMade, SameDay, Fresh
<1>16. CASE FollowFetch
    BY <1>16, <1>a DEF FollowFetch, IInv, Dates, Ends, Logged, Readers, Promises, Held, Found,
       FollowersSeeTheStory, DiagnosesSeeTheEvidence, PagesMade, SameDay, Fresh, Stored
<1>17. CASE FollowPrint
    <2>1. Readers'
        BY <1>17, <1>a DEF FollowPrint, FirstLook, IInv, Readers, TypeOK
    <2>2. FollowersSeeTheStory'
        <3> SUFFICES ASSUME follower'.at = "over", SameDay, Fresh
                     PROVE  row.status \in Terminal /\ follower'.seen >= told
            BY <1>17 DEF FollowPrint, FollowersSeeTheStory, SameDay, Fresh
        <3>1. follower.ended /\ row.status \in Terminal /\ follower.date = row.started
            BY <1>17 DEF FollowPrint, FirstLook, IInv, Readers
        <3>2. follower'.seen = IF Stored(Log, row.started) THEN lines ELSE 0
            BY <1>17, <1>a, <3>1 DEF FollowPrint, TypeOK
        <3>3. Log \in made => Stored(Log, row.started)
            BY DEF IInv, Found, SameDay
        <3>4. Log \notin made => told <= 0
            BY <1>b DEF Logged
        <3> QED BY <1>b, <3>1, <3>2, <3>3, <3>4
    <2> QED BY <1>17, <2>1, <2>2, <1>a DEF FollowPrint, IInv, Dates, Ends, Logged, Promises, Held,
            Found, DiagnosesSeeTheEvidence, PagesMade, SameDay, Fresh, Stored
<1>18. CASE Diagnose
    <2>1. PICK written \in SUBSET {Diagnosis} :
              disk' = disk \cup (written \X {row.started}) /\ made' = made \cup written
        BY <1>18 DEF Diagnose
    <2>2. Held' /\ Found'
        <3>1. row.started \in Days /\ written \in SUBSET Files /\ Diagnosis[1] # "rejected_rows.csv"
            BY <1>a, FilesOK DEF TypeOK, Records, Diagnosis
        <3>2. Held'
            BY <2>1, <3>1 DEF IInv, Held, Stored
        <3>3. Found'
            BY <1>18, <2>1 DEF Diagnose, IInv, Found, SameDay, Fresh, Stored
        <3> QED BY <3>2, <3>3
    <2>3. DiagnosesSeeTheEvidence'
        <3>1. made' \cap {Log, Rejected} = made \cap {Log, Rejected} /\ PagesMade' = PagesMade
            BY <2>1, SameEvidence, OtherFiles
        <3>2. evidence' = {Gathered(row.started)} /\ SameDay' = SameDay /\ Fresh' = Fresh
            BY <1>18 DEF Diagnose, SameDay, Fresh
        <3>3. SameDay /\ Fresh => Gathered(row.started) =
                  (made \cap {Log, Rejected})
                      \cup (IF PagesMade = {} THEN {} ELSE {Page(FirstListed(PagesMade))})
            BY <1>a, GatheredFacts DEF IInv, SameDay
        <3> QED BY <3>1, <3>2, <3>3 DEF DiagnosesSeeTheEvidence
    <2>4. Logged'
        BY <1>18, <2>1, <1>b DEF Diagnose, Logged
    <2> QED BY <1>18, <2>2, <2>3, <2>4, <1>a DEF Diagnose, IInv, Dates, Ends, Readers, Promises,
            FollowersSeeTheStory, SameDay, Fresh
<1>19. CASE InterruptBegin
    <2>1. row' \in {row, run'} /\ run'.started = run.started /\ run'.status = run.status
        <3>1. CASE open = <<>> /\ SaveRun([run EXCEPT !.stage = Stages[place + 1]])
            BY <1>19, <1>a, <3>1, NextStageOK, SaveRunFacts DEF InterruptBegin
        <3>2. CASE Enter
            BY <1>19, <1>a, <3>2, EnterFacts DEF InterruptBegin
        <3> QED BY <1>19, <3>1, <3>2 DEF InterruptBegin
    <2>2. Log \in made /\ pc \notin Done
        BY <1>19, <1>e DEF InterruptBegin, CanBegin, Done
    <2> QED BY <1>19, <2>1, <2>2, <1>a, <1>b, <1>c, <1>d, <1>g, LiveStep DEF InterruptBegin
<1>20. CASE InterruptLeave
    <2>1. PICK written \in Leavings(open[1][1]) : Store(written, QueuedOn)
        BY <1>20 DEF InterruptLeave
    <2>2. /\ written \in SUBSET Files
          /\ \A file \in written : file[1] = "rejected_rows.csv" => file = Rejected
        BY <1>a, <1>h, <2>1, FilesOK
    <2>3. Log \in made' /\ pc \notin Done
        BY <1>20, <1>e DEF InterruptLeave, Done
    <2>4. UNCHANGED <<day, readers, run, row, lines, told>> /\ pc' = "interrupted"
        BY <1>20 DEF InterruptLeave
    <2> QED BY <2>1, <2>2, <2>3, <2>4, <1>a, <1>b, <1>d, LiveStep
<1>21. CASE UNCHANGED vars
    <2>1. (Dates /\ Ends /\ Logged /\ Readers)'
        BY <1>21 DEF vars, IInv, Dates, Ends, Logged, Readers
    <2>2. (Held /\ Found)'
        BY <1>21 DEF vars, IInv, Held, Found, SameDay, Fresh, Stored
    <2>3. Promises'
        BY <1>21 DEF vars, IInv, Promises, FollowersSeeTheStory, DiagnosesSeeTheEvidence, PagesMade,
                     SameDay, Fresh
    <2> QED BY <1>a, <2>1, <2>2, <2>3 DEF IInv
<1> QED
    BY <1>1, <1>2, <1>3, <1>4, <1>5, <1>6, <1>7, <1>8, <1>9, <1>10, <1>11, <1>12, <1>13,
       <1>14, <1>15, <1>16, <1>17, <1>18, <1>19, <1>20, <1>21 DEF Next, Work

(* The inductive invariant holds in every reachable state of a run's record *)
(* (tracker.py, repository.py). *)
LEMMA Invariant == Spec => []IInv
BY InitInv, StepInv, PTL DEF Spec

(* A follower that returned showed every line written before the end was recorded.     *)
THEOREM Followed == Spec => []FollowersSeeTheStory
BY Invariant, PTL DEF IInv, Promises

(* A diagnosis was given the log, the refused rows and the first page the failed run   *)
(* left, all of them as they were when it ended.                                       *)
THEOREM Diagnosed == Spec => []DiagnosesSeeTheEvidence
BY Invariant, PTL DEF IInv, Promises

-----------------------------------------------------------------------------
(***************************************************************************)
(* What the timeline of a run shows: the stage rows.                       *)
(***************************************************************************)
(* The attempt a stage is at, and the keys of the stage and the step in turn. *)
Number(name) == IF name = "acquisition" THEN attempt ELSE 1
StageKey == <<Stages[place + 1], Number(Stages[place + 1])>>
StepKey  == <<Steps[step + 1], attempt>>

(* Another stage or step may begin, and no block is open. *)
Going == {"queued", "opened", "working", "skipping"}
Idle  == {"queued", "opened", "skipping", "ending", "closing", "summary", "over", "raised"}

(* The blocks that are open are the stage in turn and its step in turn. *)
Walk ==
    /\ Len(open) = 1 => open = <<StageKey>>
    /\ InStep => open = <<StepKey, StageKey>> /\ Stages[place + 1] = "acquisition"
    /\ pc \in Idle => open = <<>>
    /\ pc \in {"queued", "opened"} => place = 0
    /\ pc = "skipping" => \E d \in 1..place : Stages[d] = "dedup"

(* Nothing is recorded of what the run has not come to, whatever was lost, ... *)
StagesAhead ==
    \A i \in 1..Len(Stages), n \in 1..MaxAttempts :
        \/ i > place + 1
        \/ n > Number(Stages[i])
        \/ i = place + 1 /\ n = Number(Stages[i]) /\ open = <<>> /\ pc \in Going
        => stageRow[<<Stages[i], n>>] = "none"

StepsAhead ==
    \A j \in 1..Len(Steps), n \in 1..MaxAttempts :
        \/ n > attempt
        \/ n = attempt /\ j > step + 1
        \/ n = attempt /\ j = step + 1 /\ ~InStep /\ pc \in Going
        => stageRow[<<Steps[j], n>>] = "none"

(* ... and no end of the blocks it is in. *)
OpenRows ==
    /\ open # <<>> => stageRow[StageKey] \in {"none", "RUNNING"}
    /\ InStep => stageRow[StepKey] \in {"none", "RUNNING"}

Ahead == Walk /\ StagesAhead /\ StepsAhead /\ OpenRows

(* If all writes were taken, only open blocks, and those whose end was cut off, are    *)
(* shown as running,                                                                   *)
Running ==
    lost = 0 => \A key \in Keys :
        stageRow[key] = "RUNNING" => \/ open # <<>> /\ key = StageKey
                                     \/ InStep /\ key = StepKey
                                     \/ key \in cut

(* the stages before the one the run names succeeded in the attempt they are at, and   *)
(* those after it were not tried,                                                      *)
Won(i) == stageRow[<<Stages[i], Number(Stages[i])>>] = "SUCCESS"

Untried(i) ==
    \A n \in 1..MaxAttempts :
        \/ stageRow[<<Stages[i], n>>] = "none"
        \/ n = 1 /\ stageRow[<<Stages[i], n>>] = "SKIPPED"

Named(i) ==
    /\ run.stage = Stages[i] /\ i <= place + 1
    /\ open # <<>> => i = place + 1
    /\ i = place + 1 /\ open = <<>> /\ pc \in Going => Stages[i] = "acquisition"
    /\ \A j \in 1..(i - 1) : Won(j)
    /\ \A j \in (i + 1)..Len(Stages) : Untried(j)

Unnamed ==
    /\ run.stage = "" /\ place = 0 /\ open = <<>>
    /\ \A i \in 1..Len(Stages), n \in 1..MaxAttempts : stageRow[<<Stages[i], n>>] = "none"

Headed ==
    lost = 0 => /\ pc = "working" => \A j \in 1..place : Won(j)
                /\ Unnamed \/ \E i \in 1..Len(Stages) : Named(i)

(* the saved row is the tracker's, unless a restarted server marked that of a killed   *)
(* run,                                                                                *)
Saved ==
    /\ run.status = "FAILED" => run.error = IF run.stage = "" THEN "pipeline" ELSE run.stage
    /\ lost = 0 =>
          \/ row = run
          \/ /\ pc = "killed" /\ row.status = "FAILED"
             /\ row.stage = run.stage
             /\ row.error = IF run.stage = "" THEN "queued" ELSE run.stage

(* and a run that fell by itself is in a stage that failed. *)
Fallen == place < Len(Stages) /\ run.stage = Stages[place + 1] /\ stageRow[StageKey] = "FAILED"

Fell ==
    /\ pc \in {"queued", "opened"} => run.stage = ""
    /\ pc \in {"closing", "summary", "over", "raised"} => run.status \in Terminal
    /\ lost = 0 /\ (\/ pc = "ending"
                    \/ pc \in {"closing", "summary", "over"} /\ run.status = "FAILED")
           => run.stage = "" \/ Fallen

Story == Ahead /\ Running /\ Headed /\ Saved /\ Fell

-----------------------------------------------------------------------------
(* Different stages and steps have different keys, and every key is one of Keys. *)
LEMMA OneKey ==
    ASSUME NEW i \in 1..Len(Stages), NEW m, NEW n
    PROVE  /\ \A j \in 1..Len(Stages) : <<Stages[i], m>> = <<Stages[j], n>> => i = j /\ m = n
           /\ \A j \in 1..Len(Steps) : <<Stages[i], m>> # <<Steps[j], n>>
           /\ m \in 1..MaxAttempts => <<Stages[i], m>> \in Keys
BY RecordsAssumption, NamesOK DEF Keys

(* The same of the steps of an acquisition. *)
LEMMA OneStep ==
    ASSUME NEW i \in 1..Len(Steps), NEW m, NEW n
    PROVE  /\ \A j \in 1..Len(Steps) : <<Steps[i], m>> = <<Steps[j], n>> => i = j /\ m = n
           /\ m \in 1..MaxAttempts => <<Steps[i], m>> \in Keys
BY RecordsAssumption, NamesOK DEF Keys

(* The row of one key is written, if the write is taken. *)
Written(key, status) ==
    /\ key \in Keys
    /\ \A k \in Keys : k # key => stageRow'[k] = stageRow[k]
    /\ stageRow'[key] \in {stageRow[key], status}
    /\ lost' = 0 => lost = 0 /\ stageRow'[key] = status

(* A lost write is counted: if none is lost after a save, none was lost before, and    *)
(* this one was taken.                                                                 *)
LEMMA TakenFacts ==
    ASSUME TypeOK, NEW writes \in SUBSET {"run", "stage"}, NEW new, NEW newStages,
           Persist(writes, new, newStages), lost' = 0
    PROVE  /\ lost = 0
           /\ "run" \in writes => row' = new
           /\ "stage" \in writes => stageRow' = newStages
<1>1. PICK taken \in SUBSET writes :
          /\ lost' = lost + Cardinality(writes \ taken)
          /\ row' = IF "run" \in taken THEN new ELSE row
          /\ stageRow' = IF "stage" \in taken THEN newStages ELSE stageRow
    BY DEF Persist
<1>2. IsFiniteSet(writes \ taken)
    <2>1. IsFiniteSet({"run"}) BY FS_Singleton
    <2>2. {"run", "stage"} = {"run"} \cup {"stage"} OBVIOUS
    <2>3. IsFiniteSet({"run", "stage"}) BY <2>1, <2>2, FS_AddElement
    <2> QED BY <2>3, FS_Subset
<1>3. Cardinality(writes \ taken) \in Nat /\ lost \in Nat
    BY <1>2, FS_CardinalityType, NamesOK DEF TypeOK
<1>4. lost = 0 /\ Cardinality(writes \ taken) = 0
    BY <1>1, <1>3
<1>5. writes \ taken = {}
    BY <1>2, <1>4, FS_EmptySet
<1> QED BY <1>1, <1>4, <1>5

(* Saving the row of a stage writes that row, with or without the run's. *)
LEMMA SaveStageWrites ==
    ASSUME TypeOK, NEW key \in Keys, NEW status, SaveStage(key, status)
    PROVE  Written(key, status) /\ run' = run /\ row' = row
<1>1. stageRow' \in {stageRow, [stageRow EXCEPT ![key] = status]} /\ run' = run /\ row' = row
    BY DEF SaveStage, Persist
<1>2. lost' = 0 => lost = 0 /\ stageRow' = [stageRow EXCEPT ![key] = status]
    BY TakenFacts DEF SaveStage
<1>3. stageRow \in [Keys -> Ended \cup {"RUNNING", "none"}]
    BY DEF TypeOK
<1> QED BY <1>1, <1>2, <1>3 DEF Written

(* Saving both writes the stage's row, and the run's unless that is lost. *)
LEMMA SaveBothWrites ==
    ASSUME TypeOK, NEW new, NEW key \in Keys, NEW status, SaveBoth(new, key, status)
    PROVE  Written(key, status) /\ run' = new /\ (lost' = 0 => row' = new)
<1>1. stageRow' \in {stageRow, [stageRow EXCEPT ![key] = status]} /\ run' = new
    BY DEF SaveBoth, Persist
<1>2. lost' = 0 => lost = 0 /\ row' = new /\ stageRow' = [stageRow EXCEPT ![key] = status]
    BY TakenFacts DEF SaveBoth
<1>3. stageRow \in [Keys -> Ended \cup {"RUNNING", "none"}]
    BY DEF TypeOK
<1> QED BY <1>1, <1>2, <1>3 DEF Written

(* Saving the run's row leaves the stages' rows. *)
LEMMA SaveRunWrites ==
    ASSUME TypeOK, NEW new, SaveRun(new)
    PROVE  stageRow' = stageRow /\ run' = new /\ (lost' = 0 => lost = 0 /\ row' = new)
<1>1. stageRow' = stageRow /\ run' = new
    BY DEF SaveRun, Persist
<1>2. lost' = 0 => lost = 0 /\ row' = new
    BY TakenFacts DEF SaveRun
<1> QED BY <1>1, <1>2

(* The numbers of attempts and the keys in turn are in range. *)
LEMMA InTurn ==
    ASSUME TypeOK
    PROVE  /\ \A name : Number(name) \in 1..MaxAttempts
           /\ attempt \in 1..MaxAttempts
           /\ place \in 0..Len(Stages) /\ step \in 0..Len(Steps)
           /\ place \in Nat /\ step \in Nat
           /\ place < Len(Stages) => place + 1 \in 1..Len(Stages) /\ StageKey \in Keys
           /\ step < Len(Steps) => step + 1 \in 1..Len(Steps) /\ StepKey \in Keys
<1>1. /\ \A name : Number(name) \in 1..MaxAttempts
      /\ attempt \in 1..MaxAttempts
      /\ place \in 0..Len(Stages) /\ step \in 0..Len(Steps)
      /\ place \in Nat /\ step \in Nat
    BY NamesOK DEF TypeOK, Number
<1>2. place < Len(Stages) => place + 1 \in 1..Len(Stages)
    BY <1>1, NamesOK
<1>3. step < Len(Steps) => step + 1 \in 1..Len(Steps)
    BY <1>1, NamesOK
<1> QED BY <1>1, <1>2, <1>3, NamesOK DEF StageKey, StepKey, Keys

(* One and two open blocks. *)
LEMMA Blocks ==
    ASSUME NEW a, NEW b
    PROVE  /\ <<a>> \o <<b>> = <<a, b>>
           /\ Tail(<<a, b>>) = <<b>> /\ Tail(<<b>>) = <<>>
           /\ Len(<<a, b>>) = 2 /\ Len(<<b>>) = 1
           /\ <<a, b>> # <<>> /\ <<b>> # <<>>
<1>1. <<a>> \o <<b>> = <<a, b>>
    <2>1. <<a>> \in Seq({a, b}) /\ <<b>> \in Seq({a, b}) /\ <<a, b>> \in Seq({a, b})
        OBVIOUS
    <2>2. Len(<<a>>) = 1 /\ Len(<<b>>) = 1 /\ Len(<<a, b>>) = 2
        OBVIOUS
    <2>3. /\ <<a>> \o <<b>> \in Seq({a, b}) /\ Len(<<a>> \o <<b>>) = 2
          /\ (<<a>> \o <<b>>)[1] = a /\ (<<a>> \o <<b>>)[2] = b
        BY <2>1, <2>2, ConcatProperties
    <2>4. \A i \in 1..Len(<<a>> \o <<b>>) : (<<a>> \o <<b>>)[i] = <<a, b>>[i]
        <3>1. \A i \in 1..2 : i = 1 \/ i = 2 OBVIOUS
        <3>2. <<a, b>>[1] = a /\ <<a, b>>[2] = b OBVIOUS
        <3> QED BY <2>3, <3>1, <3>2
    <2>5. Len(<<a>> \o <<b>>) = Len(<<a, b>>)
        BY <2>2, <2>3
    <2> QED BY <2>1, <2>3, <2>4, <2>5, SeqEqual
<1>2. Len(<<a, b>>) = 2 /\ Len(<<b>>) = 1
    OBVIOUS
<1>3. <<a, b>> # <<>> /\ <<b>> # <<>>
    OBVIOUS
<1>4. Tail(<<b>>) = <<>>
    OBVIOUS
<1>5. Tail(<<a, b>>) = <<b>>
    OBVIOUS
<1> QED BY <1>1, <1>2, <1>3, <1>4, <1>5

(* What is saved on the way in: the row of the stage or the step in turn, of which     *)
(* nothing is recorded yet.                                                            *)
LEMMA EnterWrites ==
    ASSUME TypeOK, Inside, Ahead, CanBegin, Enter
    PROVE  \/ /\ open = <<>> /\ place < Len(Stages) /\ NextKey = StageKey
              /\ Written(StageKey, "RUNNING") /\ stageRow[StageKey] = "none"
              /\ run' = [run EXCEPT !.stage = Stages[place + 1]]
              /\ lost' = 0 => row' = run'
           \/ /\ open = <<StageKey>> /\ step < Len(Steps) /\ NextKey = StepKey
              /\ Stages[place + 1] = "acquisition" /\ place < Len(Stages)
              /\ Written(StepKey, "RUNNING") /\ stageRow[StepKey] = "none"
              /\ run' = run /\ row' = row
<1>1. pc = "working"
    BY DEF CanBegin
<1>2. CASE InAcquisition
    <2>1. open = <<StageKey>> /\ Len(open) = 1
        BY <1>2 DEF InAcquisition, Ahead, Walk
    <2>2. Stages[place + 1] = "acquisition" /\ open # <<>> /\ ~InStep
        BY <1>2, <2>1 DEF InAcquisition, StageKey, InStep
    <2>3. step < Len(Steps) /\ NextKey = StepKey /\ place < Len(Stages)
        BY <1>2, <2>2 DEF CanBegin, NextKey, StepKey, Inside
    <2>4. StepKey \in Keys /\ step + 1 \in 1..Len(Steps) /\ attempt \in 1..MaxAttempts
        BY <2>3, InTurn
    <2>5. Written(StepKey, "RUNNING") /\ run' = run /\ row' = row
        BY <2>2, <2>3, <2>4, SaveStageWrites DEF Enter
    <2>6. stageRow[StepKey] = "none"
        BY <1>1, <2>2, <2>4 DEF Ahead, StepsAhead, StepKey, Going
    <2> QED BY <2>1, <2>2, <2>3, <2>5, <2>6
<1>3. CASE ~InAcquisition
    <2>1. open = <<>> /\ place < Len(Stages) /\ NextKey = StageKey
        BY <1>3 DEF CanBegin, NextKey, StageKey, Number
    <2>2. StageKey \in Keys /\ place + 1 \in 1..Len(Stages)
          /\ Number(Stages[place + 1]) \in 1..MaxAttempts
        BY <2>1, InTurn
    <2>3. Written(StageKey, "RUNNING") /\ run' = [run EXCEPT !.stage = Stages[place + 1]]
          /\ (lost' = 0 => row' = run')
        BY <2>1, <2>2, SaveBothWrites DEF Enter
    <2>4. stageRow[StageKey] = "none"
        BY <1>1, <2>1, <2>2 DEF Ahead, StagesAhead, StageKey, Going
    <2> QED BY <2>1, <2>3, <2>4
<1> QED BY <1>2, <1>3

(* What Begin does: the stage or the step in turn, of which nothing is recorded yet,   *)
(* becomes the innermost open block.                                                   *)
LEMMA BeginFacts ==
    ASSUME TypeOK, Inside, Ahead, Begin
    PROVE  /\ pc = "working" /\ pc' = pc
           /\ UNCHANGED <<place, attempt, step, cut>>
           /\ \/ /\ open = <<>> /\ open' = <<StageKey>> /\ place < Len(Stages)
                 /\ Written(StageKey, "RUNNING") /\ stageRow[StageKey] = "none"
                 /\ run' = [run EXCEPT !.stage = Stages[place + 1]]
                 /\ lost' = 0 => row' = run'
              \/ /\ open = <<StageKey>> /\ open' = <<StepKey, StageKey>> /\ step < Len(Steps)
                 /\ Stages[place + 1] = "acquisition" /\ place < Len(Stages)
                 /\ Written(StepKey, "RUNNING") /\ stageRow[StepKey] = "none"
                 /\ run' = run /\ row' = row
<1>1. pc = "working" /\ pc' = pc /\ UNCHANGED <<place, attempt, step, cut>> /\ CanBegin /\ Enter
      /\ open' = <<NextKey>> \o open
    BY DEF Begin, CanBegin
<1>2. CASE open = <<>> /\ NextKey = StageKey
    <2>1. open' = <<StageKey>>
        BY <1>1, <1>2
    <2>2. open # <<StageKey>>
        BY <1>2, Blocks
    <2> QED BY <1>1, <1>2, <2>1, <2>2, EnterWrites
<1>3. CASE open = <<StageKey>> /\ NextKey = StepKey
    <2>1. open' = <<StepKey>> \o <<StageKey>>
        BY <1>1, <1>3
    <2>2. open' = <<StepKey, StageKey>> /\ open # <<>>
        BY <1>3, <2>1, Blocks
    <2> QED BY <1>1, <1>3, <2>2, EnterWrites
<1> QED BY <1>1, <1>2, <1>3, EnterWrites

(* What Ctrl-C on the way in leaves: nothing is opened; the run may be moved to the    *)
(* stage in turn, or the row of the stage or step be written that nobody will end.     *)
LEMMA InterruptBeginFacts ==
    ASSUME TypeOK, Inside, Ahead, InterruptBegin
    PROVE  /\ pc = "working" /\ pc' = "interrupted"
           /\ UNCHANGED <<open, place, attempt, step>>
           /\ \/ /\ open = <<>> /\ place < Len(Stages) /\ stageRow' = stageRow /\ cut' = cut
                 /\ run' = [run EXCEPT !.stage = Stages[place + 1]]
                 /\ lost' = 0 => lost = 0 /\ row' = run'
              \/ /\ open = <<>> /\ place < Len(Stages) /\ cut' = cut \cup {StageKey}
                 /\ Written(StageKey, "RUNNING") /\ stageRow[StageKey] = "none"
                 /\ run' = [run EXCEPT !.stage = Stages[place + 1]]
                 /\ lost' = 0 => row' = run'
              \/ /\ open = <<StageKey>> /\ step < Len(Steps) /\ cut' = cut \cup {StepKey}
                 /\ Stages[place + 1] = "acquisition" /\ place < Len(Stages)
                 /\ Written(StepKey, "RUNNING") /\ stageRow[StepKey] = "none"
                 /\ run' = run /\ row' = row
<1>1. /\ pc = "working" /\ pc' = "interrupted" /\ CanBegin
      /\ UNCHANGED <<open, place, attempt, step>>
      /\ \/ open = <<>> /\ SaveRun([run EXCEPT !.stage = Stages[place + 1]]) /\ cut' = cut
         \/ Enter /\ cut' = cut \cup {NextKey}
    BY DEF InterruptBegin, CanBegin, control
<1>2. CASE open = <<>> /\ SaveRun([run EXCEPT !.stage = Stages[place + 1]]) /\ cut' = cut
    <2>1. ~InAcquisition
        BY <1>2 DEF InAcquisition
    <2>2. place < Len(Stages)
        BY <1>1, <2>1 DEF CanBegin
    <2>3. /\ stageRow' = stageRow /\ run' = [run EXCEPT !.stage = Stages[place + 1]]
          /\ lost' = 0 => lost = 0 /\ row' = run'
        BY <1>2, SaveRunWrites
    <2> QED BY <1>1, <1>2, <2>2, <2>3
<1>3. CASE Enter /\ cut' = cut \cup {NextKey}
    BY <1>1, <1>3, EnterWrites
<1> QED BY <1>1, <1>2, <1>3

(* What the stack of open blocks can be. *)
LEMMA OpenFacts ==
    ASSUME TypeOK, Inside, Ahead
    PROVE  \/ open = <<>> /\ ~InStep /\ ~InAcquisition
           \/ /\ open = <<StageKey>> /\ open # <<>> /\ ~InStep /\ place < Len(Stages)
              /\ InAcquisition <=> Stages[place + 1] = "acquisition"
              /\ open[1] = StageKey /\ Tail(open) = <<>>
           \/ /\ open = <<StepKey, StageKey>> /\ open # <<>> /\ InStep /\ ~InAcquisition
              /\ place < Len(Stages) /\ step < Len(Steps)
              /\ Stages[place + 1] = "acquisition"
              /\ open[1] = StepKey /\ Tail(open) = <<StageKey>>
<1>1. open \in Seq(Keys) /\ Len(open) \in 0..2
    <2>1. open \in Seq(Keys) BY DEF TypeOK
    <2>2. Len(open) <= 2 BY DEF Inside
    <2>3. Len(open) \in Nat BY <2>1, LenProperties
    <2>4. \A n \in Nat : n <= 2 => n \in 0..2 OBVIOUS
    <2> QED BY <2>1, <2>2, <2>3, <2>4
<1>2. CASE Len(open) = 0
    BY <1>1, <1>2, EmptySeq DEF InStep, InAcquisition
<1>3. CASE Len(open) = 1
    <2>1. open = <<StageKey>> BY <1>3 DEF Ahead, Walk
    <2>2. open[1] = StageKey /\ Tail(open) = <<>> /\ open # <<>>
        BY <2>1, Blocks
    <2> QED BY <1>3, <2>1, <2>2 DEF InStep, InAcquisition, Inside, StageKey
<1>4. CASE Len(open) = 2
    <2>1. open = <<StepKey, StageKey>> /\ Stages[place + 1] = "acquisition"
        BY <1>4 DEF Ahead, Walk, InStep
    <2>2. open[1] = StepKey /\ Tail(open) = <<StageKey>> /\ open # <<>>
        BY <2>1, Blocks
    <2> QED BY <1>4, <2>1, <2>2 DEF InStep, InAcquisition, Inside
<1> QED BY <1>1, <1>2, <1>3, <1>4

(* What End does: the innermost block's row becomes a success and the walk goes on.    *)
LEMMA EndFacts ==
    ASSUME TypeOK, Inside, Ahead, End
    PROVE  /\ pc = "working" /\ pc' = pc /\ run' = run /\ attempt' = attempt /\ cut' = cut
           /\ \/ /\ open = <<StageKey>> /\ open' = <<>> /\ place < Len(Stages)
                 /\ place' = place + 1 /\ step' = step
                 /\ Stages[place + 1] = "acquisition" => step = Len(Steps)
                 /\ Written(StageKey, "SUCCESS")
                 /\ row' = row \/ row' = run'
                 /\ lost' = 0 => row' \in {row, run'}
              \/ /\ open = <<StepKey, StageKey>> /\ open' = <<StageKey>> /\ step < Len(Steps)
                 /\ place < Len(Stages) /\ Stages[place + 1] = "acquisition"
                 /\ place' = place /\ step' = step + 1
                 /\ Written(StepKey, "SUCCESS")
                 /\ row' = row \/ row' = run'
<1>1. /\ pc = "working" /\ pc' = pc /\ attempt' = attempt /\ cut' = cut
      /\ open # <<>> /\ open' = Tail(open)
    BY DEF End
<1>2. ASSUME open[1] \in Keys
      PROVE  Written(open[1], "SUCCESS") /\ run' = run /\ row' \in {row, run'}
    <2>1. CASE open[1][1] \in {"acquisition", "parse", "quality"}
        <3>1. SaveBoth(run, open[1], "SUCCESS") BY <2>1 DEF End
        <3>2. row' \in {row, run} /\ run' = run BY <3>1 DEF SaveBoth, Persist
        <3> QED BY <1>2, <3>1, <3>2, SaveBothWrites
    <2>2. CASE open[1][1] \notin {"acquisition", "parse", "quality"}
        BY <1>2, <2>2, SaveStageWrites DEF End
    <2> QED BY <2>1, <2>2
<1>3. CASE open = <<StageKey>>
    <2>1. /\ ~InStep /\ open[1] = StageKey /\ open' = <<>> /\ place < Len(Stages)
          /\ InAcquisition <=> Stages[place + 1] = "acquisition"
        BY <1>1, <1>3, OpenFacts, Blocks DEF InStep
    <2>2. place' = place + 1 /\ step' = step /\ (InAcquisition => step = Len(Steps))
        BY <2>1 DEF End
    <2>3. StageKey \in Keys BY <2>1, InTurn
    <2> QED BY <1>1, <1>2, <1>3, <2>1, <2>2, <2>3
<1>4. CASE open = <<StepKey, StageKey>>
    <2>1. /\ InStep /\ open[1] = StepKey /\ open' = <<StageKey>> /\ place < Len(Stages)
          /\ step < Len(Steps) /\ Stages[place + 1] = "acquisition"
        BY <1>1, <1>4, OpenFacts, Blocks DEF InStep
    <2>2. step' = step + 1 /\ place' = place
        BY <2>1 DEF End
    <2>3. StepKey \in Keys BY <2>1, InTurn
    <2> QED BY <1>1, <1>2, <1>4, <2>1, <2>2, <2>3
<1> QED BY <1>1, <1>3, <1>4, OpenFacts

(* What Fail does: the innermost block's row becomes a failure; then the acquisition   *)
(* is tried again, or the run unwinds.                                                 *)
LEMMA FailFacts ==
    ASSUME TypeOK, Inside, Ahead, Fail
    PROVE  /\ pc \in {"working", "failing", "interrupted"} /\ run' = run /\ row' = row
           /\ place' = place /\ cut' = cut
           /\ \/ /\ open = <<StageKey>> /\ open' = <<>> /\ place < Len(Stages)
                 /\ Written(StageKey, "FAILED")
                 /\ \/ /\ pc' \in {"ending", "interrupted"}
                       /\ attempt' = attempt /\ step' = step
                    \/ /\ pc' = "working" /\ Stages[place + 1] = "acquisition"
                       /\ attempt' = attempt + 1 /\ step' = 0 /\ attempt < MaxAttempts
              \/ /\ open = <<StepKey, StageKey>> /\ open' = <<StageKey>> /\ step < Len(Steps)
                 /\ place < Len(Stages) /\ Stages[place + 1] = "acquisition"
                 /\ Written(StepKey, "FAILED")
                 /\ pc' \in {"failing", "interrupted"}
                 /\ attempt' = attempt /\ step' = step
<1>1. pc \in {"working", "failing", "interrupted"} /\ place' = place /\ open # <<>>
      /\ cut' = cut /\ open' = Tail(open) /\ pc' \in AfterFailure
      /\ (IF pc' = "working" THEN attempt' = attempt + 1 /\ step' = 0
                             ELSE UNCHANGED <<attempt, step>>)
      /\ SaveStage(open[1], "FAILED")
    BY DEF Fail
<1>3. CASE open = <<StageKey>>
    <2>1. /\ ~InStep /\ open[1] = StageKey /\ open' = <<>> /\ place < Len(Stages)
          /\ InAcquisition <=> Stages[place + 1] = "acquisition"
        BY <1>1, <1>3, OpenFacts, Blocks DEF InStep
    <2>2. StageKey \in Keys BY <2>1, InTurn
    <2>3. Written(StageKey, "FAILED") /\ run' = run /\ row' = row
        BY <1>1, <2>1, <2>2, SaveStageWrites
    <2>4. \/ pc' \in {"ending", "interrupted"}
          \/ pc' = "working" /\ InAcquisition /\ attempt < MaxAttempts
        BY <1>1, <2>1 DEF AfterFailure
    <2> QED BY <1>1, <1>3, <2>1, <2>3, <2>4
<1>4. CASE open = <<StepKey, StageKey>>
    <2>1. /\ InStep /\ open[1] = StepKey /\ open' = <<StageKey>> /\ place < Len(Stages)
          /\ step < Len(Steps) /\ Stages[place + 1] = "acquisition"
        BY <1>1, <1>4, OpenFacts, Blocks DEF InStep
    <2>2. StepKey \in Keys BY <2>1, InTurn
    <2>3. Written(StepKey, "FAILED") /\ run' = run /\ row' = row
        BY <1>1, <2>1, <2>2, SaveStageWrites
    <2>4. pc' \in {"failing", "interrupted"}
        BY <1>1, <2>1 DEF AfterFailure
    <2> QED BY <1>1, <1>4, <2>1, <2>3, <2>4
<1> QED BY <1>1, <1>3, <1>4, OpenFacts

(* What Ctrl-C on the way out leaves: the block is left and its row stays as it is.    *)
LEMMA InterruptLeaveFacts ==
    ASSUME TypeOK, Inside, Ahead, InterruptLeave
    PROVE  /\ pc \in {"working", "failing", "interrupted"} /\ pc' = "interrupted"
           /\ UNCHANGED <<place, attempt, step, run, row, stageRow, lost>>
           /\ \/ /\ open = <<StageKey>> /\ open' = <<>> /\ place < Len(Stages)
                 /\ cut' = cut \cup {StageKey}
              \/ /\ open = <<StepKey, StageKey>> /\ open' = <<StageKey>> /\ step < Len(Steps)
                 /\ place < Len(Stages) /\ Stages[place + 1] = "acquisition"
                 /\ cut' = cut \cup {StepKey}
<1>1. /\ pc \in {"working", "failing", "interrupted"} /\ pc' = "interrupted"
      /\ open # <<>> /\ open' = Tail(open) /\ cut' = cut \cup {open[1]}
      /\ UNCHANGED <<place, attempt, step, run, row, stageRow, lost>>
    BY DEF InterruptLeave
<1> QED BY <1>1, OpenFacts

(* What Skip does: the stage in turn, of which nothing is recorded, gets its row; the  *)
(* stage that found the duplicate is behind, and so is the acquisition.                *)
LEMMA SkipFacts ==
    ASSUME TypeOK, Inside, Ahead, Skip
    PROVE  /\ pc \in {"working", "skipping"} /\ pc' = "skipping"
           /\ open = <<>> /\ UNCHANGED <<open, attempt, step, run, row, cut>>
           /\ place < Len(Stages) /\ place' = place + 1
           /\ \E d \in 1..place : Stages[d] = "dedup"
           /\ Stages[place + 1] # "acquisition"
           /\ Written(StageKey, "SKIPPED") /\ stageRow[StageKey] = "none"
<1>1. /\ pc \in {"working", "skipping"} /\ pc' = "skipping"
      /\ open = <<>> /\ UNCHANGED <<open, attempt, step, cut>>
      /\ place < Len(Stages) /\ place' = place + 1
      /\ SaveStage(<<Stages[place + 1], 1>>, "SKIPPED")
    BY DEF Skip
<1>2. \E d \in 1..place : Stages[d] = "dedup"
    <2>1. CASE pc = "working"
        BY <2>1, InTurn DEF Skip
    <2>2. CASE pc = "skipping"
        BY <2>2 DEF Ahead, Walk
    <2> QED BY <1>1, <2>1, <2>2
<1>3. Stages[place + 1] # "acquisition"
    <2>1. PICK d \in 1..place : Stages[d] = "dedup"
        BY <1>2
    <2>2. d \in 1..Len(Stages) /\ place + 1 \in 1..Len(Stages) /\ ~(place + 1 < d)
        BY <1>1, InTurn, NamesOK
    <2> QED BY <2>1, <2>2, RecordsAssumption
<1>4. StageKey = <<Stages[place + 1], 1>> /\ StageKey \in Keys
    BY <1>1, <1>3, InTurn DEF StageKey, Number
<1>5. Written(StageKey, "SKIPPED") /\ run' = run /\ row' = row
    BY <1>1, <1>4, SaveStageWrites
<1>6. stageRow[StageKey] = "none"
    <2>1. place + 1 \in 1..Len(Stages) /\ Number(Stages[place + 1]) \in 1..MaxAttempts
        BY <1>1, InTurn
    <2> QED BY <1>1, <2>1 DEF Ahead, StagesAhead, StageKey, Going
<1> QED BY <1>1, <1>2, <1>3, <1>5, <1>6
-----------------------------------------------------------------------------
(* Writing the row of the stage in turn leaves every other row. *)
LEMMA OtherThanStage ==
    ASSUME TypeOK, place < Len(Stages), NEW status, Written(StageKey, status)
    PROVE  /\ \A i \in 1..Len(Stages), n \in 1..MaxAttempts :
                  i # place + 1 \/ n # Number(Stages[i])
                  => stageRow'[<<Stages[i], n>>] = stageRow[<<Stages[i], n>>]
           /\ \A j \in 1..Len(Steps), n \in 1..MaxAttempts :
                  stageRow'[<<Steps[j], n>>] = stageRow[<<Steps[j], n>>]
<1>1. place + 1 \in 1..Len(Stages)
    BY InTurn
<1>2. ASSUME NEW i \in 1..Len(Stages), NEW n \in 1..MaxAttempts,
             i # place + 1 \/ n # Number(Stages[i])
      PROVE  stageRow'[<<Stages[i], n>>] = stageRow[<<Stages[i], n>>]
    <2>1. <<Stages[i], n>> \in Keys
        BY OneKey
    <2>2. <<Stages[i], n>> # StageKey
        BY <1>1, <1>2, OneKey DEF StageKey
    <2> QED BY <2>1, <2>2 DEF Written
<1>3. ASSUME NEW j \in 1..Len(Steps), NEW n \in 1..MaxAttempts
      PROVE  stageRow'[<<Steps[j], n>>] = stageRow[<<Steps[j], n>>]
    <2>1. <<Steps[j], n>> \in Keys
        BY OneStep
    <2>2. <<Steps[j], n>> # StageKey
        BY <1>1, OneKey DEF StageKey
    <2> QED BY <2>1, <2>2 DEF Written
<1> QED BY <1>2, <1>3

(* The same of the step in turn. *)
LEMMA OtherThanStep ==
    ASSUME TypeOK, step < Len(Steps), NEW status, Written(StepKey, status)
    PROVE  /\ \A i \in 1..Len(Stages), n \in 1..MaxAttempts :
                  stageRow'[<<Stages[i], n>>] = stageRow[<<Stages[i], n>>]
           /\ \A j \in 1..Len(Steps), n \in 1..MaxAttempts :
                  j # step + 1 \/ n # attempt
                  => stageRow'[<<Steps[j], n>>] = stageRow[<<Steps[j], n>>]
<1>1. step + 1 \in 1..Len(Steps)
    BY InTurn
<1>2. ASSUME NEW i \in 1..Len(Stages), NEW n \in 1..MaxAttempts
      PROVE  stageRow'[<<Stages[i], n>>] = stageRow[<<Stages[i], n>>]
    <2>1. <<Stages[i], n>> \in Keys
        BY OneKey
    <2>2. <<Stages[i], n>> # StepKey
        BY <1>1, OneKey DEF StepKey
    <2> QED BY <2>1, <2>2 DEF Written
<1>3. ASSUME NEW j \in 1..Len(Steps), NEW n \in 1..MaxAttempts, j # step + 1 \/ n # attempt
      PROVE  stageRow'[<<Steps[j], n>>] = stageRow[<<Steps[j], n>>]
    <2>1. <<Steps[j], n>> \in Keys
        BY OneStep
    <2>2. <<Steps[j], n>> # StepKey
        BY <1>1, <1>3, OneStep DEF StepKey
    <2> QED BY <2>1, <2>2 DEF Written
<1> QED BY <1>2, <1>3

(* The key of the stage in turn is no key of a step. *)
LEMMA StageIsNoStep ==
    ASSUME TypeOK, place < Len(Stages), step < Len(Steps)
    PROVE  StageKey # StepKey
<1>1. place + 1 \in 1..Len(Stages) /\ step + 1 \in 1..Len(Steps)
    BY InTurn
<1> QED BY <1>1, OneKey DEF StageKey, StepKey

(* Begin opens a block of which nothing was recorded: at most "running" is now.        *)
LEMMA BeginAhead == TypeOK /\ Inside /\ Ahead /\ Begin => Ahead'
<1> SUFFICES ASSUME TypeOK, Inside, Ahead, Begin PROVE Ahead'
    OBVIOUS
<1>1. /\ pc = "working" /\ pc' = pc
      /\ UNCHANGED <<place, attempt, step>>
    BY BeginFacts
<1>2. StageKey' = StageKey /\ StepKey' = StepKey /\ \A name : Number(name)' = Number(name)
    BY <1>1 DEF StageKey, StepKey, Number
<1>3. CASE open = <<>> /\ open' = <<StageKey>>
    <2>1. place < Len(Stages) /\ Written(StageKey, "RUNNING") /\ stageRow[StageKey] = "none"
        BY <1>3, BeginFacts, Blocks
    <2>2. Len(open') = 1 /\ open' # <<>> /\ ~InStep /\ ~InStep'
        BY <1>3, Blocks DEF InStep
    <2>3. Walk'
        BY <1>1, <1>2, <1>3, <2>2 DEF Walk, Idle
    <2>4. OpenRows'
        BY <1>2, <2>1, <2>2 DEF OpenRows, Written
    <2>5. StepsAhead'
        BY <1>1, <2>1, <2>2, OtherThanStage DEF StepsAhead, Ahead
    <2>6. StagesAhead'
        <3> SUFFICES ASSUME NEW i \in 1..Len(Stages), NEW n \in 1..MaxAttempts,
                            i > place + 1 \/ n > Number(Stages[i])
                     PROVE  stageRow'[<<Stages[i], n>>] = "none"
            BY <1>1, <1>2, <2>2 DEF StagesAhead
        <3>1. i # place + 1 \/ n # Number(Stages[i])
            BY InTurn, NamesOK
        <3> QED BY <2>1, <3>1, OtherThanStage DEF StagesAhead, Ahead
    <2> QED BY <2>3, <2>4, <2>5, <2>6 DEF Ahead
<1>4. CASE open = <<StageKey>> /\ open' = <<StepKey, StageKey>>
    <2>1. /\ step < Len(Steps) /\ place < Len(Stages) /\ Stages[place + 1] = "acquisition"
          /\ Written(StepKey, "RUNNING") /\ stageRow[StepKey] = "none"
        BY <1>4, BeginFacts, Blocks
    <2>2. Len(open') = 2 /\ open' # <<>> /\ open # <<>> /\ ~InStep /\ InStep'
        BY <1>4, Blocks DEF InStep
    <2>3. Walk'
        BY <1>1, <1>2, <1>4, <2>1, <2>2 DEF Walk, Idle
    <2>4. OpenRows'
        <3>1. stageRow'[StageKey] = stageRow[StageKey]
            BY <2>1, StageIsNoStep, InTurn DEF Written
        <3> QED BY <1>2, <2>1, <2>2, <3>1 DEF OpenRows, Written, Ahead
    <2>5. StagesAhead'
        BY <1>1, <1>2, <2>1, <2>2, OtherThanStep DEF StagesAhead, Ahead
    <2>6. StepsAhead'
        <3> SUFFICES ASSUME NEW j \in 1..Len(Steps), NEW n \in 1..MaxAttempts,
                            n > attempt \/ (n = attempt /\ j > step + 1)
                     PROVE  stageRow'[<<Steps[j], n>>] = "none"
            BY <1>1, <2>2 DEF StepsAhead
        <3>1. j # step + 1 \/ n # attempt
            BY InTurn, NamesOK
        <3> QED BY <2>1, <3>1, OtherThanStep DEF StepsAhead, Ahead
    <2> QED BY <2>3, <2>4, <2>5, <2>6 DEF Ahead
<1> QED BY <1>3, <1>4, BeginFacts
(* End moves on to the next stage or step, of which nothing was recorded. *)
LEMMA EndAhead == TypeOK /\ Inside /\ Ahead /\ End => Ahead'
<1> SUFFICES ASSUME TypeOK, Inside, Ahead, End PROVE Ahead'
    OBVIOUS
<1>1. pc = "working" /\ pc' = pc /\ attempt' = attempt
    BY EndFacts
<1>2. \A name : Number(name)' = Number(name)
    BY <1>1 DEF Number
<1>3. CASE open = <<StageKey>> /\ open' = <<>>
    <2>1. /\ place < Len(Stages) /\ place' = place + 1 /\ step' = step
          /\ Written(StageKey, "SUCCESS")
        BY <1>3, EndFacts, Blocks
    <2>2. Len(open') = 0 /\ ~InStep /\ ~InStep'
        BY <1>3, Blocks DEF InStep
    <2>3. Walk'
        BY <1>1, <1>3, <2>2 DEF Walk, Idle
    <2>4. OpenRows'
        BY <1>3, <2>2 DEF OpenRows
    <2>5. StepsAhead'
        BY <1>1, <2>1, <2>2, OtherThanStage DEF StepsAhead, Ahead
    <2>6. StagesAhead'
        <3> SUFFICES ASSUME NEW i \in 1..Len(Stages), NEW n \in 1..MaxAttempts,
                            i > place + 1 \/ n > Number(Stages[i])
                     PROVE  stageRow'[<<Stages[i], n>>] = "none"
            BY <1>2, <2>1, InTurn DEF StagesAhead
        <3>1. i # place + 1 \/ n # Number(Stages[i])
            BY InTurn, NamesOK
        <3> QED BY <2>1, <3>1, OtherThanStage DEF StagesAhead, Ahead
    <2> QED BY <2>3, <2>4, <2>5, <2>6 DEF Ahead
<1>4. CASE open = <<StepKey, StageKey>> /\ open' = <<StageKey>>
    <2>1. /\ step < Len(Steps) /\ place < Len(Stages) /\ Stages[place + 1] = "acquisition"
          /\ place' = place /\ step' = step + 1
          /\ Written(StepKey, "SUCCESS")
        BY <1>4, EndFacts, Blocks
    <2>2. Len(open') = 1 /\ open' # <<>> /\ open # <<>> /\ InStep /\ ~InStep'
        BY <1>4, Blocks DEF InStep
    <2>3. StageKey' = StageKey
        BY <1>2, <2>1 DEF StageKey
    <2>4. Walk'
        BY <1>1, <1>4, <2>2, <2>3 DEF Walk, Idle
    <2>5. OpenRows'
        <3>1. stageRow'[StageKey] = stageRow[StageKey]
            BY <2>1, StageIsNoStep, InTurn DEF Written
        <3> QED BY <2>2, <2>3, <3>1 DEF OpenRows, Ahead
    <2>6. StagesAhead'
        BY <1>1, <1>2, <2>1, <2>2, OtherThanStep DEF StagesAhead, Ahead
    <2>7. StepsAhead'
        <3> SUFFICES ASSUME NEW j \in 1..Len(Steps), NEW n \in 1..MaxAttempts,
                            n > attempt \/ (n = attempt /\ j > step + 1)
                     PROVE  stageRow'[<<Steps[j], n>>] = "none"
            BY <1>1, <2>1, InTurn DEF StepsAhead
        <3>1. j # step + 1 \/ n # attempt
            BY InTurn, NamesOK
        <3> QED BY <2>1, <3>1, OtherThanStep DEF StepsAhead, Ahead
    <2> QED BY <2>4, <2>5, <2>6, <2>7 DEF Ahead
<1> QED BY <1>3, <1>4, EndFacts

(* Fail unwinds, or starts the acquisition again under a number nothing was recorded   *)
(* under.                                                                              *)
LEMMA FailAhead == TypeOK /\ Inside /\ Ahead /\ Fail => Ahead'
<1> SUFFICES ASSUME TypeOK, Inside, Ahead, Fail PROVE Ahead'
    OBVIOUS
<1>1. place' = place
    BY FailFacts
<1>2. CASE open = <<StageKey>> /\ open' = <<>>
    <2>1. /\ place < Len(Stages) /\ Written(StageKey, "FAILED")
          /\ \/ /\ pc' \in {"ending", "interrupted"}
                /\ attempt' = attempt /\ step' = step
             \/ /\ pc' = "working" /\ Stages[place + 1] = "acquisition"
                /\ attempt' = attempt + 1 /\ step' = 0 /\ attempt < MaxAttempts
        BY <1>2, FailFacts, Blocks
    <2>2. Len(open') = 0 /\ ~InStep /\ ~InStep'
        BY <1>2, Blocks DEF InStep
    <2>3. Walk'
        BY <1>2, <2>1, <2>2 DEF Walk, Idle
    <2>4. OpenRows'
        BY <1>2, <2>2 DEF OpenRows
    <2>5. \A n \in 1..MaxAttempts : n > attempt' => n > attempt
        BY <2>1, InTurn, NamesOK
    <2>6. StepsAhead'
        <3>1. CASE pc' = "working"
            <4> SUFFICES ASSUME NEW j \in 1..Len(Steps), NEW n \in 1..MaxAttempts, n > attempt
                         PROVE  stageRow'[<<Steps[j], n>>] = "none"
                BY <2>1, <3>1, InTurn DEF StepsAhead
            <4> QED BY <2>1, OtherThanStage DEF StepsAhead, Ahead
        <3>2. CASE pc' # "working"
            BY <2>1, <2>2, <3>2, OtherThanStage DEF StepsAhead, Ahead, Going
        <3> QED BY <3>1, <3>2
    <2>7. StagesAhead'
        <3> SUFFICES ASSUME NEW i \in 1..Len(Stages), NEW n \in 1..MaxAttempts,
                            i > place + 1 \/ n > Number(Stages[i])
                     PROVE  stageRow'[<<Stages[i], n>>] = "none"
            <4>1. CASE pc' = "working"
                BY <1>1, <2>1, <4>1, InTurn DEF StagesAhead, Number
            <4>2. CASE pc' # "working"
                BY <1>1, <2>1, <4>2 DEF StagesAhead, Number, Going
            <4> QED BY <4>1, <4>2
        <3>1. i # place + 1 \/ n # Number(Stages[i])
            BY InTurn, NamesOK
        <3> QED BY <2>1, <3>1, OtherThanStage DEF StagesAhead, Ahead
    <2> QED BY <2>3, <2>4, <2>6, <2>7 DEF Ahead
<1>3. CASE open = <<StepKey, StageKey>> /\ open' = <<StageKey>>
    <2>1. /\ step < Len(Steps) /\ place < Len(Stages) /\ Stages[place + 1] = "acquisition"
          /\ attempt' = attempt /\ step' = step
          /\ Written(StepKey, "FAILED") /\ pc' \in {"failing", "interrupted"}
        BY <1>3, FailFacts, Blocks
    <2>2. Len(open') = 1 /\ open' # <<>> /\ open # <<>> /\ InStep /\ ~InStep'
        BY <1>3, Blocks DEF InStep
    <2>3. StageKey' = StageKey /\ \A name : Number(name)' = Number(name)
        BY <1>1, <2>1 DEF StageKey, Number
    <2>4. Walk'
        BY <1>3, <2>1, <2>2, <2>3 DEF Walk, Idle
    <2>5. OpenRows'
        <3>1. stageRow'[StageKey] = stageRow[StageKey]
            BY <2>1, StageIsNoStep, InTurn DEF Written
        <3> QED BY <2>2, <2>3, <3>1 DEF OpenRows, Ahead
    <2>6. StagesAhead'
        BY <1>1, <2>1, <2>2, <2>3, OtherThanStep DEF StagesAhead, Ahead, Going
    <2>7. StepsAhead'
        <3> SUFFICES ASSUME NEW j \in 1..Len(Steps), NEW n \in 1..MaxAttempts,
                            n > attempt \/ (n = attempt /\ j > step + 1)
                     PROVE  stageRow'[<<Steps[j], n>>] = "none"
            BY <2>1 DEF StepsAhead, Going
        <3>1. j # step + 1 \/ n # attempt
            BY InTurn, NamesOK
        <3> QED BY <2>1, <3>1, OtherThanStep DEF StepsAhead, Ahead
    <2> QED BY <2>4, <2>5, <2>6, <2>7 DEF Ahead
<1> QED BY <1>2, <1>3, FailFacts

(* Skip writes one row and goes on to the next stage. *)
LEMMA SkipAhead == TypeOK /\ Inside /\ Ahead /\ Skip => Ahead'
<1> SUFFICES ASSUME TypeOK, Inside, Ahead, Skip PROVE Ahead'
    OBVIOUS
<1>1. /\ pc \in Going /\ pc' = "skipping" /\ open = <<>> /\ UNCHANGED <<open, attempt, step>>
      /\ place < Len(Stages) /\ place' = place + 1
      /\ \E d \in 1..place : Stages[d] = "dedup"
      /\ Written(StageKey, "SKIPPED")
    BY SkipFacts DEF Going
<1>2. \A name : Number(name)' = Number(name)
    BY <1>1 DEF Number
<1>3. ~InStep /\ ~InStep' /\ Len(open') # 1
    BY <1>1 DEF InStep
<1>4. Walk'
    <2>1. \E d \in 1..place' : Stages[d] = "dedup"
        BY <1>1, InTurn
    <2> QED BY <1>1, <1>3, <2>1 DEF Walk
<1>5. OpenRows'
    BY <1>1, <1>3 DEF OpenRows
<1>6. StepsAhead'
    BY <1>1, <1>3, OtherThanStage DEF StepsAhead, Ahead
<1>7. StagesAhead'
    <2> SUFFICES ASSUME NEW i \in 1..Len(Stages), NEW n \in 1..MaxAttempts,
                        i > place + 1 \/ n > Number(Stages[i])
                 PROVE  stageRow'[<<Stages[i], n>>] = "none"
        BY <1>1, <1>2, InTurn DEF StagesAhead
    <2>1. i # place + 1 \/ n # Number(Stages[i])
        BY InTurn, NamesOK
    <2> QED BY <1>1, <2>1, OtherThanStage DEF StagesAhead, Ahead
<1> QED BY <1>4, <1>5, <1>6, <1>7 DEF Ahead
(* Ctrl-C on the way in opens nothing, and no stage goes on from there.                *)
LEMMA InterruptBeginAhead == TypeOK /\ Inside /\ Ahead /\ InterruptBegin => Ahead'
<1> SUFFICES ASSUME TypeOK, Inside, Ahead, InterruptBegin PROVE Ahead'
    OBVIOUS
<1>1. /\ pc = "working" /\ pc' = "interrupted" /\ UNCHANGED <<open, place, attempt, step>>
    BY InterruptBeginFacts
<1>2. /\ StageKey' = StageKey /\ StepKey' = StepKey /\ InStep' = InStep
      /\ \A name : Number(name)' = Number(name)
    BY <1>1 DEF StageKey, StepKey, InStep, Number
<1>3. Walk'
    BY <1>1, <1>2 DEF Walk, Ahead, Idle
<1>4. CASE stageRow' = stageRow
    BY <1>1, <1>2, <1>3, <1>4 DEF Ahead, StagesAhead, StepsAhead, OpenRows, Going
<1>5. CASE open = <<>> /\ place < Len(Stages) /\ Written(StageKey, "RUNNING")
    <2>1. ~InStep
        BY <1>5 DEF InStep
    <2>2. OpenRows'
        BY <1>1, <1>2, <1>5, <2>1 DEF OpenRows
    <2>3. StepsAhead'
        BY <1>1, <1>5, <2>1, OtherThanStage DEF StepsAhead, Ahead, Going
    <2>4. StagesAhead'
        <3> SUFFICES ASSUME NEW i \in 1..Len(Stages), NEW n \in 1..MaxAttempts,
                            i > place + 1 \/ n > Number(Stages[i])
                     PROVE  stageRow'[<<Stages[i], n>>] = "none"
            BY <1>1, <1>2 DEF StagesAhead, Going
        <3>1. i # place + 1 \/ n # Number(Stages[i])
            BY InTurn, NamesOK
        <3> QED BY <1>5, <3>1, OtherThanStage DEF StagesAhead, Ahead
    <2> QED BY <1>3, <2>2, <2>3, <2>4 DEF Ahead
<1>6. CASE open = <<StageKey>> /\ step < Len(Steps) /\ place < Len(Stages)
           /\ Written(StepKey, "RUNNING")
    <2>1. ~InStep /\ open # <<>>
        BY <1>6, Blocks DEF InStep
    <2>2. OpenRows'
        <3>1. stageRow'[StageKey] = stageRow[StageKey]
            BY <1>6, StageIsNoStep, InTurn DEF Written
        <3> QED BY <1>1, <1>2, <2>1, <3>1 DEF OpenRows, Ahead
    <2>3. StagesAhead'
        BY <1>1, <1>2, <1>6, OtherThanStep DEF StagesAhead, Ahead, Going
    <2>4. StepsAhead'
        <3> SUFFICES ASSUME NEW j \in 1..Len(Steps), NEW n \in 1..MaxAttempts,
                            n > attempt \/ (n = attempt /\ j > step + 1)
                     PROVE  stageRow'[<<Steps[j], n>>] = "none"
            BY <1>1 DEF StepsAhead, Going
        <3>1. j # step + 1 \/ n # attempt
            BY InTurn, NamesOK
        <3> QED BY <1>6, <3>1, OtherThanStep DEF StepsAhead, Ahead
    <2> QED BY <1>3, <2>2, <2>3, <2>4 DEF Ahead
<1> QED BY <1>4, <1>5, <1>6, InterruptBeginFacts

(* Nor does it on the way out. *)
LEMMA InterruptLeaveAhead == TypeOK /\ Inside /\ Ahead /\ InterruptLeave => Ahead'
<1> SUFFICES ASSUME TypeOK, Inside, Ahead, InterruptLeave PROVE Ahead'
    OBVIOUS
<1>1. /\ pc' = "interrupted" /\ UNCHANGED <<place, attempt, step, stageRow>>
    BY InterruptLeaveFacts
<1>2. /\ StageKey' = StageKey /\ StepKey' = StepKey
      /\ \A name : Number(name)' = Number(name)
    BY <1>1 DEF StageKey, StepKey, Number
<1>3. StagesAhead' /\ StepsAhead'
    BY <1>1, <1>2 DEF StagesAhead, StepsAhead, Ahead, Going
<1>4. CASE open = <<StageKey>> /\ open' = <<>>
    <2>1. Len(open') = 0 /\ ~InStep'
        BY <1>4 DEF InStep
    <2> QED BY <1>1, <1>3, <1>4, <2>1 DEF Ahead, Walk, OpenRows, Idle
<1>5. CASE open = <<StepKey, StageKey>> /\ open' = <<StageKey>>
    <2>1. Len(open') = 1 /\ ~InStep' /\ open # <<>> /\ open' # <<>>
        BY <1>5, Blocks DEF InStep
    <2>2. Walk'
        BY <1>1, <1>2, <1>5, <2>1 DEF Walk, Idle
    <2>3. OpenRows'
        BY <1>1, <1>2, <2>1 DEF OpenRows, Ahead
    <2> QED BY <1>3, <2>2, <2>3 DEF Ahead
<1> QED BY <1>4, <1>5, InterruptLeaveFacts
-----------------------------------------------------------------------------
(* Every other step leaves the walk and the rows of the stages as they are. *)
Quiet ==
    /\ UNCHANGED <<open, place, attempt, step, stageRow, cut>>
    /\ run'.stage = run.stage
    /\ pc' \in Going => pc \in Going
    /\ pc' \in Idle => open = <<>>
    /\ pc' \in {"queued", "opened"} => pc \in {"queued", "opened"}
    /\ pc' = "skipping" => pc = "skipping"
    /\ pc' = "working" => pc \in {"opened", "working"}
    /\ lost' = 0 => lost = 0
    /\ row.status \in Terminal => row'.status \in Terminal
    /\ Saved' /\ Fell'

(* What tracker.fail, succeed and skip leave of the record. *)
LEMMA OutcomeBlames ==
    ASSUME run \in Records, NEW status \in Terminal, run' = Outcome(status)
    PROVE  /\ run'.stage = run.stage /\ run'.status = status
           /\ run'.status = "FAILED"
                  => run'.error = IF run.stage = "" THEN "pipeline" ELSE run.stage
BY DEF Outcome, Records

(* What is said of a run that fell stays so while it is in that stage.                 *)
LEMMA StaysFallen ==
    ASSUME UNCHANGED <<place, attempt, stageRow>>, run'.stage = run.stage
    PROVE  Fallen' = Fallen
BY DEF Fallen, StageKey, Number

(* Every step begins, ends, fails or skips a stage or a step of it, is interrupted     *)
(* there, or is quiet.                                                                 *)
LEMMA EveryStep ==
    ASSUME IInv, IInv', Walk, Saved, Fell, [Next]_vars
    PROVE  Begin \/ End \/ Fail \/ Skip \/ InterruptBegin \/ InterruptLeave \/ Quiet
<1>a. TypeOK /\ run \in Records /\ row \in Records
    BY DEF IInv, TypeOK
<1>b. pc \notin Done => run.status \notin Terminal /\ row.status \notin Terminal
    BY DEF IInv, Ends
<1>c. ASSUME UNCHANGED <<control, records>>, pc' = pc
      PROVE  Quiet
    <2>1. Saved'
        BY <1>c DEF Saved, records
    <2>2. Fell'
        BY <1>c, StaysFallen DEF Fell, records, control
    <2> QED BY <1>c, <2>1, <2>2 DEF Quiet, control, records, Walk
<1>d. ASSUME UNCHANGED <<open, place, attempt, step, stageRow, cut>>, pc' \notin Going,
             pc \notin Done, pc' \in Idle => open = <<>>, lost' = 0 => lost = 0,
             run'.stage = run.stage, Saved', Fell'
      PROVE  Quiet
    BY <1>b, <1>d DEF Quiet, Going
<1>e. ASSUME UNCHANGED <<place, attempt, stageRow>>, run'.stage = run.stage, lost' = 0 => lost = 0,
             pc' \in {"queued", "opened"} => pc \in {"queued", "opened"},
             pc' \in {"closing", "summary", "over", "raised"} => run'.status \in Terminal,
             pc' = "ending" \/ (pc' \in {"closing", "summary", "over"} /\ run'.status = "FAILED")
             => \/ pc \in {"queued", "ending"}
                \/ pc \in {"closing", "summary", "over"} /\ run.status = "FAILED"
      PROVE  Fell'
    BY <1>e, StaysFallen DEF Fell
<1> USE DEF control, records
<1>1. CASE OpenLog
    BY <1>1, <1>b, <1>e DEF OpenLog, Quiet, Going, Idle, Walk, Saved, Done
<1>2. CASE OpenFails
    <2>1. stageRow' = stageRow /\ run' = Outcome("FAILED") /\ (lost' = 0 => lost = 0 /\ row' = run')
        BY <1>2, <1>a, SaveRunWrites DEF OpenFails
    <2>2. run'.stage = run.stage /\ run'.status \in Terminal
          /\ (run'.status = "FAILED"
                  => run'.error = IF run.stage = "" THEN "pipeline" ELSE run.stage)
        BY <1>a, <2>1, OutcomeBlames DEF Terminal
    <2>3. Saved'
        BY <2>1, <2>2 DEF Saved
    <2>4. Fell'
        BY <1>2, <1>e, <2>1, <2>2 DEF OpenFails
    <2> QED BY <1>2, <1>d, <2>1, <2>2, <2>3, <2>4 DEF OpenFails, Going, Idle, Walk, Done
<1>3. CASE Start
    <2>1. /\ stageRow' = stageRow /\ run' = [run EXCEPT !.status = "RUNNING", !.started = day]
          /\ lost' = 0 => lost = 0 /\ row' = run'
        BY <1>3, <1>a, SaveRunWrites DEF Start
    <2>2. run'.stage = run.stage /\ run'.status = "RUNNING"
        BY <1>a, <2>1 DEF Records
    <2>3. Saved' /\ Fell'
        BY <1>3, <2>1, <2>2 DEF Saved, Start, Fell
    <2> QED BY <1>3, <1>b, <2>1, <2>2, <2>3 DEF Start, Quiet, Going, Idle, Done
<1>4. CASE Interrupt
    <2>1. Saved'
        BY <1>4 DEF Interrupt, Saved
    <2>2. CASE pc \in {"closing", "summary"}
        <3>1. run.status \in Terminal
            BY <2>2 DEF Fell
        <3>2. Fell'
            BY <1>4, <1>e, <2>2, <3>1 DEF Interrupt
        <3> QED BY <1>4, <2>1, <2>2, <3>2 DEF Interrupt, Quiet, Going, Idle, Walk
    <2>3. CASE pc \notin {"closing", "summary"}
        <3>1. Fell'
            BY <1>4, <1>e, <2>3 DEF Interrupt
        <3> QED BY <1>4, <1>d, <2>1, <2>3, <3>1 DEF Interrupt, Going, Idle, Done
    <2> QED BY <2>2, <2>3
<1>5. ASSUME NEW status \in Terminal, Finish(status) PROVE Quiet
    <2>1. stageRow' = stageRow /\ run' = Outcome(status) /\ (lost' = 0 => lost = 0 /\ row' = run')
        BY <1>5, <1>a, SaveRunWrites DEF Finish
    <2>2. run'.stage = run.stage /\ run'.status = status
          /\ (run'.status = "FAILED"
                  => run'.error = IF run.stage = "" THEN "pipeline" ELSE run.stage)
        BY <1>a, <2>1, OutcomeBlames
    <2>3. Saved'
        BY <2>1, <2>2 DEF Saved
    <2>4. Fell'
        BY <1>5, <1>e, <2>1, <2>2 DEF Finish
    <2> QED BY <1>5, <1>d, <2>1, <2>2, <2>3, <2>4 DEF Finish, Going, Idle, Walk, Done
<1>6. CASE LastLine
    <2>1. Saved' /\ run.status \in Terminal
        BY <1>6 DEF LastLine, Saved, Fell
    <2>2. Fell'
        BY <1>6, <1>e, <2>1 DEF LastLine
    <2> QED BY <1>6, <2>1, <2>2 DEF LastLine, Quiet, Going, Idle, Walk
<1>7. CASE Summary
    <2>1. Saved' /\ run.status \in Terminal
        BY <1>7 DEF Summary, Saved, Fell
    <2>2. Fell'
        BY <1>7, <1>e, <2>1 DEF Summary
    <2> QED BY <1>7, <2>1, <2>2 DEF Summary, Quiet, Going, Idle, Walk
<1>8. CASE Kill
    <2>1. Saved'
        BY <1>8 DEF Kill, Saved
    <2>2. Fell'
        BY <1>8, <1>e DEF Kill
    <2> QED BY <1>8, <2>1, <2>2 DEF Kill, Quiet, Going, Idle, Walk
<1>9. CASE Mark
    <2>1. /\ pc \in {"over", "raised", "killed"} /\ row.status \notin Terminal
          /\ row' = [row EXCEPT !.status = "FAILED",
                                !.error = IF row.stage = "" THEN "queued" ELSE row.stage]
          /\ UNCHANGED <<pc, control, run, stageRow, lost, cut>>
        BY <1>9 DEF Mark
    <2>2. row'.status = "FAILED" /\ row'.stage = row.stage
          /\ row'.error = IF row.stage = "" THEN "queued" ELSE row.stage
        BY <1>a, <2>1 DEF Records
    <2>3. lost = 0 => row = run /\ pc = "killed"
        BY <2>1 DEF Saved, Terminal, Fell
    <2>4. Saved'
        BY <2>1, <2>2, <2>3 DEF Saved
    <2>5. Fell'
        BY <2>1, StaysFallen DEF Fell
    <2> QED BY <2>1, <2>2, <2>4, <2>5 DEF Quiet, Walk, Terminal
<1>10. CASE Tomorrow
    BY <1>10, <1>c DEF Tomorrow
<1>11. ASSUME NEW reached, Prune(reached) PROVE Quiet
    BY <1>11, <1>c DEF Prune
<1>12. CASE FollowFetch
    BY <1>12, <1>c DEF FollowFetch
<1>13. CASE FollowPrint
    BY <1>13, <1>c DEF FollowPrint
<1>14. CASE Diagnose
    BY <1>14, <1>c DEF Diagnose
<1>15. CASE UNCHANGED vars
    BY <1>15, <1>c DEF vars
<1> QED BY <1>1, <1>2, <1>3, <1>4, <1>5, <1>6, <1>7, <1>8, <1>9, <1>10, <1>11, <1>12, <1>13,
           <1>14, <1>15 DEF Next, Work

(* A quiet step keeps everything there is to say of the rows. *)
LEMMA QuietStory == TypeOK /\ Story /\ Quiet => Story'
<1> SUFFICES ASSUME TypeOK, Story, Quiet PROVE Story'
    OBVIOUS
<1>1. /\ UNCHANGED <<open, place, attempt, step, stageRow, cut>>
      /\ run'.stage = run.stage /\ (lost' = 0 => lost = 0) /\ Saved' /\ Fell'
    BY DEF Quiet
<1>2. /\ StageKey' = StageKey /\ StepKey' = StepKey /\ InStep' = InStep
      /\ \A name : Number(name)' = Number(name)
    BY <1>1 DEF StageKey, StepKey, InStep, Number
<1>3. Walk'
    BY <1>1, <1>2 DEF Quiet, Walk, Story, Ahead
<1>4. StagesAhead'
    BY <1>1, <1>2 DEF Quiet, StagesAhead, Story, Ahead
<1>5. StepsAhead'
    BY <1>1, <1>2 DEF Quiet, StepsAhead, Story, Ahead
<1>6. OpenRows'
    BY <1>1, <1>2 DEF OpenRows, Story, Ahead
<1>7. Running'
    BY <1>1, <1>2 DEF Running, Story
<1>8. Headed'
    <2> SUFFICES ASSUME lost = 0, lost' = 0
                 PROVE  /\ pc' = "working" => \A j \in 1..place : Won(j)'
                        /\ Unnamed' \/ \E i \in 1..Len(Stages) : Named(i)'
        BY <1>1 DEF Headed
    <2>1. \A i : Won(i)' = Won(i) /\ Untried(i)' = Untried(i)
        BY <1>1, <1>2 DEF Won, Untried
    <2>2. pc' = "working" => \A j \in 1..place : Won(j)'
        <3>1. CASE pc = "working"
            BY <2>1, <3>1 DEF Headed, Story
        <3>2. CASE pc = "opened"
            BY <3>2 DEF Walk, Story, Ahead
        <3> QED BY <3>1, <3>2 DEF Quiet
    <2>3. Unnamed => Unnamed'
        BY <1>1 DEF Unnamed
    <2>4. \A i : Named(i) => Named(i)'
        BY <1>1, <2>1 DEF Quiet, Named
    <2> QED BY <2>2, <2>3, <2>4 DEF Headed, Story
<1> QED BY <1>1, <1>3, <1>4, <1>5, <1>6, <1>7, <1>8 DEF Story, Ahead
(* Writing the row of the stage in turn leaves what is said of the others. *)
LEMMA OtherStages ==
    ASSUME TypeOK, NEW status, place < Len(Stages), Written(StageKey, status)
    PROVE  \A i \in 1..Len(Stages) :
               i # place + 1
               => /\ Untried(i) => Untried(i)'
                  /\ Won(i) /\ Number(Stages[i])' = Number(Stages[i]) => Won(i)'
<1> SUFFICES ASSUME NEW i \in 1..Len(Stages), i # place + 1
             PROVE  /\ Untried(i) => Untried(i)'
                    /\ Won(i) /\ Number(Stages[i])' = Number(Stages[i]) => Won(i)'
    OBVIOUS
<1>1. \A n \in 1..MaxAttempts : stageRow'[<<Stages[i], n>>] = stageRow[<<Stages[i], n>>]
    BY OtherThanStage
<1>2. Number(Stages[i]) \in 1..MaxAttempts
    BY InTurn
<1>3. Untried(i) => Untried(i)'
    BY <1>1 DEF Untried
<1>4. Won(i) /\ Number(Stages[i])' = Number(Stages[i]) => Won(i)'
    BY <1>1, <1>2 DEF Won
<1> QED BY <1>3, <1>4

(* A step of the acquisition begins, ends or fails: no stage has another row, and the  *)
(* stage the run names is the one it is in.                                            *)
LEMMA StepHeaded ==
    ASSUME TypeOK, Headed, lost = 0, lost' = 0, NEW status, step < Len(Steps),
           Written(StepKey, status), UNCHANGED <<place, attempt, run>>,
           open # <<>>, open' # <<>>, pc' = "working" => pc = "working"
    PROVE  Headed'
<1>1. \A i \in 1..Len(Stages) : (Won(i) => Won(i)') /\ (Untried(i) => Untried(i)')
    <2> SUFFICES ASSUME NEW i \in 1..Len(Stages)
                 PROVE  (Won(i) => Won(i)') /\ (Untried(i) => Untried(i)')
        OBVIOUS
    <2>1. \A n \in 1..MaxAttempts : stageRow'[<<Stages[i], n>>] = stageRow[<<Stages[i], n>>]
        BY OtherThanStep
    <2>2. Number(Stages[i])' = Number(Stages[i])
        BY DEF Number
    <2> QED BY <2>1, <2>2, InTurn DEF Won, Untried
<1>2. pc' = "working" => \A j \in 1..place : Won(j)'
    BY <1>1, InTurn, NamesOK DEF Headed
<1>3. PICK i \in 1..Len(Stages) : Named(i)
    BY DEF Headed, Unnamed
<1>4. Named(i)'
    <2>1. \A j \in 1..(i - 1) : Won(j)'
        BY <1>1, <1>3, NamesOK DEF Named
    <2>2. \A j \in (i + 1)..Len(Stages) : Untried(j)'
        BY <1>1, <1>3, NamesOK DEF Named
    <2> QED BY <1>3, <2>1, <2>2 DEF Named
<1> QED BY <1>2, <1>4 DEF Headed

(* The run moves to the next stage: those before it succeeded, those after it were not *)
(* tried.                                                                              *)
LEMMA NextHeaded ==
    ASSUME TypeOK, Ahead, Headed, lost = 0, pc = "working", place < Len(Stages), open = <<>>,
           UNCHANGED <<place, attempt>>, run'.stage = Stages[place + 1],
           stageRow' = stageRow \/ Written(StageKey, "RUNNING"),
           pc' \in Going => open' # <<>>
    PROVE  Headed'
<1>1. place + 1 \in 1..Len(Stages) /\ \A name : Number(name)' = Number(name)
    BY InTurn DEF Number
<1>2. \A j \in 1..Len(Stages) : j # place + 1 => (Won(j) => Won(j)') /\ (Untried(j) => Untried(j)')
    <2>1. CASE stageRow' = stageRow
        BY <1>1, <2>1 DEF Won, Untried
    <2>2. CASE Written(StageKey, "RUNNING")
        BY <1>1, <2>2, OtherStages
    <2> QED BY <2>1, <2>2
<1>3. \A j \in 1..place : Won(j)'
    <2> SUFFICES ASSUME NEW j \in 1..place PROVE Won(j)'
        OBVIOUS
    <2>1. Won(j)
        BY DEF Headed
    <2>2. j \in 1..Len(Stages) /\ j # place + 1
        BY InTurn, NamesOK
    <2> QED BY <1>2, <2>1, <2>2
<1>4. \A j \in (place + 2)..Len(Stages) : Untried(j)'
    <2> SUFFICES ASSUME NEW j \in (place + 2)..Len(Stages) PROVE Untried(j)'
        OBVIOUS
    <2>1. j \in 1..Len(Stages) /\ j > place + 1 /\ j # place + 1
        BY InTurn, NamesOK
    <2>2. Untried(j)
        BY <2>1 DEF Ahead, StagesAhead, Untried
    <2> QED BY <1>2, <2>1, <2>2
<1>5. Named(place + 1)'
    <2>1. place' = place /\ (place + 1) + 1 = place + 2 /\ (place + 1) - 1 = place
          /\ place + 1 <= place + 1
        BY InTurn, NamesOK
    <2>2. \A j \in 1..((place + 1) - 1) : Won(j)'
        BY <1>3, <2>1
    <2>3. \A j \in ((place + 1) + 1)..Len(Stages) : Untried(j)'
        BY <1>4, <2>1
    <2> QED BY <2>1, <2>2, <2>3 DEF Named
<1> QED BY <1>1, <1>3, <1>5 DEF Headed

(* Begin, in the story of a run that loses no write. *)
LEMMA BeginStory ==
    ASSUME TypeOK, Inside, Story, Begin, lost' = 0, run.status \notin Terminal
    PROVE  Running' /\ Headed' /\ Saved'
<1>0. Ahead /\ Running /\ Headed /\ Saved
    BY DEF Story
<1>1. pc = "working" /\ pc' = pc /\ UNCHANGED <<place, attempt, step, cut>>
    BY <1>0, BeginFacts
<1>2. StageKey' = StageKey /\ StepKey' = StepKey
    BY <1>1 DEF StageKey, StepKey, Number
<1>3. CASE open = <<>> /\ open' = <<StageKey>>
    <2>1. /\ place < Len(Stages) /\ Written(StageKey, "RUNNING") /\ row' = run'
          /\ run' = [run EXCEPT !.stage = Stages[place + 1]]
        BY <1>0, <1>3, BeginFacts, Blocks
    <2>2. lost = 0 /\ open' # <<>> /\ ~InStep /\ ~InStep'
        BY <1>3, <2>1, Blocks DEF InStep, Written
    <2>3. run'.stage = Stages[place + 1] /\ run'.status = run.status
        BY <2>1 DEF TypeOK, Records
    <2>4. Running'
        BY <1>0, <1>1, <1>2, <1>3, <2>1, <2>2 DEF Running, Written
    <2>5. Headed'
        BY <1>0, <1>1, <1>3, <2>1, <2>2, <2>3, NextHeaded
    <2>6. Saved'
        BY <2>1, <2>3 DEF Saved, Terminal
    <2> QED BY <2>4, <2>5, <2>6
<1>4. CASE open = <<StageKey>> /\ open' = <<StepKey, StageKey>>
    <2>1. /\ step < Len(Steps) /\ place < Len(Stages)
          /\ Written(StepKey, "RUNNING") /\ run' = run /\ row' = row
        BY <1>0, <1>4, BeginFacts, Blocks
    <2>2. lost = 0 /\ open' # <<>> /\ open # <<>> /\ ~InStep /\ InStep'
        BY <1>4, <2>1, Blocks DEF InStep, Written
    <2>3. Running'
        BY <1>0, <1>1, <1>2, <2>1, <2>2 DEF Running, Written
    <2>4. Saved'
        BY <1>0, <1>1, <2>1, <2>2 DEF Saved
    <2>5. Headed'
        BY <1>0, <1>1, <2>1, <2>2, StepHeaded
    <2> QED BY <2>3, <2>4, <2>5
<1> QED BY <1>0, <1>3, <1>4, BeginFacts

(* Ctrl-C on the way in, in the same story. *)
LEMMA InterruptBeginStory ==
    ASSUME TypeOK, Inside, Story, InterruptBegin, lost' = 0, run.status \notin Terminal
    PROVE  Running' /\ Headed' /\ Saved'
<1>0. Ahead /\ Running /\ Headed /\ Saved
    BY DEF Story
<1>1. pc = "working" /\ pc' = "interrupted" /\ UNCHANGED <<open, place, attempt, step>>
    BY <1>0, InterruptBeginFacts
<1>2. StageKey' = StageKey /\ StepKey' = StepKey /\ InStep' = InStep
    BY <1>1 DEF StageKey, StepKey, Number, InStep
<1>3. CASE open = <<>>
    <2>1. /\ place < Len(Stages) /\ lost = 0 /\ row' = run'
          /\ run' = [run EXCEPT !.stage = Stages[place + 1]]
          /\ \/ stageRow' = stageRow /\ cut' = cut
             \/ Written(StageKey, "RUNNING") /\ cut' = cut \cup {StageKey}
        BY <1>0, <1>3, InterruptBeginFacts, Blocks DEF Written
    <2>2. run'.stage = Stages[place + 1] /\ run'.status = run.status
        BY <2>1 DEF TypeOK, Records
    <2>3. Running'
        BY <1>0, <1>1, <1>2, <1>3, <2>1 DEF Running, Written
    <2>4. Headed'
        BY <1>0, <1>1, <1>3, <2>1, <2>2, NextHeaded DEF Going
    <2>5. Saved'
        BY <2>1, <2>2 DEF Saved, Terminal
    <2> QED BY <2>3, <2>4, <2>5
<1>4. CASE open = <<StageKey>>
    <2>1. /\ step < Len(Steps) /\ place < Len(Stages) /\ cut' = cut \cup {StepKey}
          /\ Written(StepKey, "RUNNING") /\ run' = run /\ row' = row /\ open # <<>>
        BY <1>0, <1>4, InterruptBeginFacts, Blocks
    <2>2. lost = 0
        BY <2>1 DEF Written
    <2>3. Running'
        BY <1>0, <1>1, <1>2, <2>1, <2>2 DEF Running, Written
    <2>4. Saved'
        BY <1>0, <1>1, <2>1, <2>2 DEF Saved
    <2>5. Headed'
        BY <1>0, <1>1, <2>1, <2>2, StepHeaded
    <2> QED BY <2>3, <2>4, <2>5
<1> QED BY <1>0, <1>3, <1>4, InterruptBeginFacts

(* Ctrl-C on the way out, in the same story. *)
LEMMA InterruptLeaveStory ==
    ASSUME TypeOK, Inside, Story, InterruptLeave, lost' = 0
    PROVE  Running' /\ Headed' /\ Saved'
<1>0. Ahead /\ Running /\ Headed /\ Saved
    BY DEF Story
<1>1. /\ pc \in {"working", "failing", "interrupted"} /\ pc' = "interrupted"
      /\ UNCHANGED <<place, attempt, step, run, row, stageRow, lost>>
    BY <1>0, InterruptLeaveFacts
<1>2. StageKey' = StageKey /\ StepKey' = StepKey /\ \A i : Won(i)' = Won(i) /\ Untried(i)' = Untried(i)
    BY <1>1 DEF StageKey, StepKey, Number, Won, Untried
<1>3. Saved'
    BY <1>0, <1>1 DEF Saved
<1>4. open # <<>>
    BY DEF InterruptLeave
<1>5. Headed'
    <2>1. PICK i \in 1..Len(Stages) : Named(i)
        BY <1>0, <1>1, <1>4 DEF Headed, Unnamed
    <2>2. Named(i)'
        BY <1>1, <1>2, <1>4, <2>1 DEF Named, Going
    <2> QED BY <1>1, <2>2 DEF Headed
<1>6. Running'
    <2>1. CASE open = <<StageKey>> /\ cut' = cut \cup {StageKey}
        <3>1. ~InStep
            BY <2>1, Blocks DEF InStep
        <3> QED BY <1>0, <1>1, <2>1, <3>1 DEF Running
    <2>2. CASE open' = <<StageKey>> /\ cut' = cut \cup {StepKey}
        <3>1. open' # <<>>
            BY <2>2, Blocks
        <3> QED BY <1>0, <1>1, <1>2, <2>2, <3>1 DEF Running
    <2> QED BY <1>0, <2>1, <2>2, InterruptLeaveFacts
<1> QED BY <1>3, <1>5, <1>6

(* The blocks that are open belong to the stage the run names. *)
LEMMA OpenIsNamed ==
    ASSUME TypeOK, Headed, lost = 0, open # <<>>, place < Len(Stages)
    PROVE  /\ place + 1 \in 1..Len(Stages) /\ run.stage = Stages[place + 1]
           /\ \A j \in 1..place : Won(j)
           /\ \A j \in (place + 2)..Len(Stages) : Untried(j)
<1>1. PICK i \in 1..Len(Stages) : Named(i)
    BY DEF Headed, Unnamed
<1>2. i = place + 1
    BY <1>1 DEF Named
<1>3. (place + 1) - 1 = place /\ (place + 1) + 1 = place + 2
    BY InTurn
<1>4. /\ run.stage = Stages[i]
      /\ \A j \in 1..(i - 1) : Won(j)
      /\ \A j \in (i + 1)..Len(Stages) : Untried(j)
    BY <1>1 DEF Named
<1> QED BY <1>2, <1>3, <1>4

(* End, in the same story. *)
LEMMA EndStory ==
    ASSUME TypeOK, Inside, Story, End, lost' = 0
    PROVE  Running' /\ Headed' /\ Saved'
<1>0. Ahead /\ Running /\ Headed /\ Saved
    BY DEF Story
<1>1. pc = "working" /\ pc' = pc /\ run' = run /\ attempt' = attempt /\ cut' = cut
    BY <1>0, EndFacts
<1>2. \A name : Number(name)' = Number(name)
    BY <1>1 DEF Number
<1>3. CASE open = <<StageKey>> /\ open' = <<>>
    <2>1. /\ place < Len(Stages) /\ place' = place + 1
          /\ Written(StageKey, "SUCCESS") /\ row' \in {row, run'}
        BY <1>0, <1>3, EndFacts, Blocks
    <2>2. lost = 0 /\ open # <<>> /\ ~InStep /\ ~InStep'
          /\ stageRow'[StageKey] = "SUCCESS"
        BY <1>3, <2>1, Blocks DEF InStep, Written
    <2>3. Running'
        BY <1>0, <1>1, <1>3, <2>1, <2>2 DEF Running, Written
    <2>4. Saved'
        BY <1>0, <1>1, <2>1, <2>2 DEF Saved
    <2>5. PICK i \in 1..Len(Stages) : i = place + 1
        BY <2>1, InTurn
    <2>6. /\ run.stage = Stages[i]
          /\ \A j \in 1..(i - 1) : Won(j)
          /\ \A j \in (i + 1)..Len(Stages) : Untried(j)
        <3>1. i - 1 = place /\ i + 1 = place + 2
            BY <2>5, InTurn
        <3> QED BY <1>0, <2>1, <2>2, <2>5, <3>1, OpenIsNamed
    <2>7. \A j \in 1..(i - 1) : Won(j)'
        <3> SUFFICES ASSUME NEW j \in 1..(i - 1) PROVE Won(j)'
            OBVIOUS
        <3>1. j \in 1..Len(Stages) /\ j # i
            BY NamesOK
        <3> QED BY <1>2, <2>1, <2>5, <2>6, <3>1, OtherStages
    <2>8. Won(i)'
        BY <1>2, <2>2, <2>5 DEF Won, StageKey
    <2>9. \A j \in (i + 1)..Len(Stages) : Untried(j)'
        <3> SUFFICES ASSUME NEW j \in (i + 1)..Len(Stages) PROVE Untried(j)'
            OBVIOUS
        <3>1. j \in 1..Len(Stages) /\ j # i
            BY NamesOK
        <3> QED BY <2>1, <2>5, <2>6, <3>1, OtherStages
    <2>10. Named(i)'
        <3>1. i <= place' + 1 /\ i # place' + 1
            BY <2>1, <2>5, InTurn
        <3> QED BY <1>1, <1>3, <2>6, <2>7, <2>9, <3>1 DEF Named
    <2>11. \A j \in 1..place' : Won(j)'
        <3> SUFFICES ASSUME NEW j \in 1..place' PROVE Won(j)'
            OBVIOUS
        <3>1. j = i \/ j \in 1..(i - 1)
            BY <2>1, <2>5, InTurn
        <3> QED BY <2>7, <2>8, <3>1
    <2>12. Headed'
        BY <2>10, <2>11 DEF Headed
    <2> QED BY <2>3, <2>4, <2>12
<1>4. CASE open = <<StepKey, StageKey>> /\ open' = <<StageKey>>
    <2>1. /\ step < Len(Steps) /\ place < Len(Stages) /\ place' = place
          /\ Written(StepKey, "SUCCESS") /\ row' \in {row, run'}
        BY <1>0, <1>4, EndFacts, Blocks
    <2>2. lost = 0 /\ open # <<>> /\ open' # <<>> /\ StageKey' = StageKey
          /\ stageRow'[StepKey] = "SUCCESS"
        BY <1>2, <1>4, <2>1, Blocks DEF Written, StageKey
    <2>3. Running'
        BY <1>0, <1>1, <1>4, <2>1, <2>2 DEF Running, Written
    <2>4. Saved'
        BY <1>0, <1>1, <2>1, <2>2 DEF Saved
    <2>5. Headed'
        BY <1>0, <1>1, <2>1, <2>2, StepHeaded
    <2> QED BY <2>3, <2>4, <2>5
<1> QED BY <1>0, <1>3, <1>4, EndFacts

(* Fail, in the same story. *)
LEMMA FailStory ==
    ASSUME TypeOK, Inside, Story, Fail, lost' = 0
    PROVE  Running' /\ Headed' /\ Saved'
<1>0. Ahead /\ Running /\ Headed /\ Saved
    BY DEF Story
<1>1. /\ pc \in {"working", "failing", "interrupted"} /\ run' = run /\ row' = row
      /\ place' = place /\ cut' = cut
    BY <1>0, FailFacts
<1>2. CASE open = <<StageKey>> /\ open' = <<>>
    <2>1. /\ place < Len(Stages) /\ Written(StageKey, "FAILED")
          /\ \/ pc' \in {"ending", "interrupted"} /\ attempt' = attempt
             \/ pc' = "working" /\ Stages[place + 1] = "acquisition"
        BY <1>0, <1>2, FailFacts, Blocks
    <2>2. lost = 0 /\ open # <<>> /\ ~InStep /\ ~InStep'
          /\ stageRow'[StageKey] = "FAILED"
        BY <1>2, <2>1, Blocks DEF InStep, Written
    <2>3. Running'
        BY <1>0, <1>1, <1>2, <2>1, <2>2 DEF Running, Written
    <2>4. Saved'
        BY <1>0, <1>1, <2>1, <2>2 DEF Saved
    <2>5. /\ place + 1 \in 1..Len(Stages) /\ run.stage = Stages[place + 1]
          /\ \A j \in 1..place : Won(j)
          /\ \A j \in (place + 2)..Len(Stages) : Untried(j)
        BY <1>0, <2>1, <2>2, OpenIsNamed
    <2>6. \A j \in 1..place : Won(j)'
        <3> SUFFICES ASSUME NEW j \in 1..place PROVE Won(j)'
            OBVIOUS
        <3>1. j \in 1..Len(Stages) /\ j # place + 1
            BY <2>5, InTurn, NamesOK
        <3>2. Stages[j] # Stages[place + 1]
            BY <2>5, <3>1, RecordsAssumption
        <3>3. Number(Stages[j])' = Number(Stages[j])
            BY <2>1, <3>2 DEF Number
        <3> QED BY <2>1, <2>5, <3>1, <3>3, OtherStages
    <2>7. \A j \in (place + 2)..Len(Stages) : Untried(j)'
        BY <2>1, <2>5, OtherStages, InTurn, NamesOK
    <2>8. Named(place + 1)'
        <3>0. place \in Nat /\ place' = place
            BY <1>1, InTurn
        <3>1. (place + 1) - 1 = place /\ (place + 1) + 1 = place + 2 /\ place + 1 <= place' + 1
            BY <3>0
        <3>2. \A j \in 1..((place + 1) - 1) : Won(j)'
            BY <2>6, <3>1
        <3>3. \A j \in ((place + 1) + 1)..Len(Stages) : Untried(j)'
            BY <2>7, <3>1
        <3>4. pc' \in Going => Stages[place + 1] = "acquisition"
            BY <2>1 DEF Going
        <3> QED BY <1>1, <1>2, <2>5, <3>1, <3>2, <3>3, <3>4 DEF Named
    <2>9. Headed'
        BY <1>1, <2>5, <2>6, <2>8 DEF Headed
    <2> QED BY <2>3, <2>4, <2>9
<1>3. CASE open = <<StepKey, StageKey>> /\ open' = <<StageKey>>
    <2>1. /\ step < Len(Steps) /\ place < Len(Stages) /\ attempt' = attempt
          /\ Written(StepKey, "FAILED") /\ pc' # "working"
        BY <1>0, <1>3, FailFacts, Blocks
    <2>2. lost = 0 /\ open # <<>> /\ open' # <<>> /\ StageKey' = StageKey
          /\ stageRow'[StepKey] = "FAILED"
        BY <1>1, <1>3, <2>1, Blocks DEF Written, StageKey, Number
    <2>3. Running'
        BY <1>0, <1>1, <1>3, <2>1, <2>2 DEF Running, Written
    <2>4. Saved'
        BY <1>0, <1>1, <2>1, <2>2 DEF Saved
    <2>5. Headed'
        BY <1>0, <1>1, <2>1, <2>2, StepHeaded
    <2> QED BY <2>3, <2>4, <2>5
<1> QED BY <1>0, <1>2, <1>3, FailFacts

(* A run that is about to be recorded as failed is in the stage that failed. *)
LEMMA FailFell ==
    ASSUME TypeOK, Inside, Story, Fail
    PROVE  Fell'
<1>0. Ahead /\ Headed
    BY DEF Story
<1>1. /\ run' = run /\ place' = place
      /\ pc' \in {"working", "failing", "interrupted", "ending"}
    BY <1>0, FailFacts
<1>2. CASE pc' # "ending"
    BY <1>1, <1>2 DEF Fell
<1>3. CASE pc' = "ending"
    <2> SUFFICES ASSUME lost' = 0 PROVE Fallen'
        BY <1>3 DEF Fell
    <2>1. /\ open = <<StageKey>> /\ place < Len(Stages) /\ Written(StageKey, "FAILED")
          /\ attempt' = attempt
        BY <1>0, <1>3, FailFacts
    <2>2. lost = 0 /\ open # <<>> /\ stageRow'[StageKey] = "FAILED"
        BY <2>1, Blocks DEF Written
    <2>3. StageKey' = StageKey
        BY <1>1, <2>1 DEF StageKey, Number
    <2>4. run.stage = Stages[place + 1]
        BY <1>0, <2>1, <2>2, OpenIsNamed
    <2> QED BY <1>1, <2>1, <2>2, <2>3, <2>4 DEF Fallen
<1> QED BY <1>2, <1>3

(* Skip, in the same story: the stage that is skipped comes after the one named. *)
LEMMA SkipStory ==
    ASSUME TypeOK, Inside, Story, Skip, lost' = 0
    PROVE  Running' /\ Headed' /\ Saved'
<1>0. Ahead /\ Running /\ Headed /\ Saved
    BY DEF Story
<1>1. /\ pc \in Going /\ pc # "killed" /\ pc' = "skipping"
      /\ open = <<>> /\ UNCHANGED <<open, attempt, step, run, row, cut>>
      /\ place < Len(Stages) /\ place' = place + 1
      /\ \E d \in 1..place : Stages[d] = "dedup"
      /\ Stages[place + 1] # "acquisition"
      /\ Written(StageKey, "SKIPPED")
    BY <1>0, SkipFacts DEF Going
<1>2. lost = 0 /\ ~InStep /\ stageRow'[StageKey] = "SKIPPED" /\ place + 1 \in 1..Len(Stages)
    BY <1>1, InTurn DEF Written, InStep
<1>3. \A name : Number(name)' = Number(name)
    BY <1>1 DEF Number
<1>4. Running'
    BY <1>0, <1>1, <1>2 DEF Running, Written
<1>5. Saved'
    BY <1>0, <1>1, <1>2 DEF Saved
<1>6. PICK i \in 1..Len(Stages) : Named(i)
    <2>1. place # 0
        BY <1>1, InTurn
    <2> QED BY <1>0, <1>2, <2>1 DEF Headed, Unnamed
<1>7. i <= place
    BY <1>1, <1>6, InTurn, NamesOK DEF Named
<1>8. Named(i)'
    <2>1. \A j \in 1..(i - 1) : Won(j)'
        <3> SUFFICES ASSUME NEW j \in 1..(i - 1) PROVE Won(j)'
            OBVIOUS
        <3>1. j \in 1..Len(Stages) /\ j # place + 1
            BY <1>7, InTurn, NamesOK
        <3>2. Won(j)
            BY <1>6 DEF Named
        <3> QED BY <1>1, <1>3, <3>1, <3>2, OtherStages
    <2>2. \A j \in (i + 1)..Len(Stages) : Untried(j)'
        <3> SUFFICES ASSUME NEW j \in (i + 1)..Len(Stages) PROVE Untried(j)'
            OBVIOUS
        <3>1. j \in 1..Len(Stages) /\ Untried(j)
            BY <1>6, NamesOK DEF Named
        <3>2. CASE j # place + 1
            BY <1>1, <3>1, <3>2, OtherStages
        <3>3. CASE j = place + 1
            <4> SUFFICES ASSUME NEW n \in 1..MaxAttempts
                         PROVE  \/ stageRow'[<<Stages[j], n>>] = "none"
                                \/ n = 1 /\ stageRow'[<<Stages[j], n>>] = "SKIPPED"
                BY DEF Untried
            <4>1. CASE n = Number(Stages[j])
                BY <1>1, <1>2, <3>3, <4>1 DEF StageKey, Number
            <4>2. CASE n # Number(Stages[j])
                BY <1>1, <3>1, <4>2, OtherThanStage DEF Untried
            <4> QED BY <4>1, <4>2
        <3> QED BY <3>2, <3>3
    <2>3. i <= place' + 1 /\ i # place' + 1
        BY <1>1, <1>7, InTurn, NamesOK
    <2> QED BY <1>1, <1>6, <2>1, <2>2, <2>3 DEF Named
<1>9. Headed'
    BY <1>1, <1>8 DEF Headed
<1> QED BY <1>4, <1>5, <1>9
-----------------------------------------------------------------------------
(* The story of a run holds when it is queued, *)
LEMMA StoryInit == Init => Story
<1> SUFFICES ASSUME Init PROVE Story
    OBVIOUS
<1>1. /\ pc = "queued" /\ open = <<>> /\ place = 0 /\ lost = 0 /\ row = run
      /\ run.stage = "" /\ run.status = "QUEUED"
      /\ \A key \in Keys : stageRow[key] = "none"
    BY DEF Init, QueuedRecord
<1>2. Len(open) = 0 /\ Len(open) # 1 /\ ~InStep
    <2>1. Len(open) = 0
        BY <1>1
    <2> QED BY <2>1 DEF InStep
<1>3. \A i \in 1..Len(Stages), n \in 1..MaxAttempts : stageRow[<<Stages[i], n>>] = "none"
    BY <1>1, OneKey
<1>4. \A j \in 1..Len(Steps), n \in 1..MaxAttempts : stageRow[<<Steps[j], n>>] = "none"
    BY <1>1, OneStep
<1>5. Ahead
    BY <1>1, <1>2, <1>3, <1>4 DEF Ahead, Walk, StagesAhead, StepsAhead, OpenRows
<1>6. Running /\ Headed
    BY <1>1, <1>3 DEF Running, Headed, Unnamed
<1>7. Saved /\ Fell
    BY <1>1 DEF Saved, Fell
<1> QED BY <1>5, <1>6, <1>7 DEF Story

(* and every step keeps it. *)
LEMMA StoryStep == IInv /\ IInv' /\ Story /\ [Next]_vars => Story'
<1> SUFFICES ASSUME IInv, IInv', Story, [Next]_vars PROVE Story'
    OBVIOUS
<1>a. TypeOK /\ Inside /\ Ahead /\ Saved /\ Fell /\ Walk /\ run \in Records
    BY DEF IInv, Story, Ahead, TypeOK
<1>b. pc \notin Done => run.status \notin Terminal
    BY DEF IInv, Ends
<1>c. ASSUME Ahead', Fell', run'.status # "FAILED" \/ run' = run,
             lost' = 0 => Running' /\ Headed' /\ Saved'
      PROVE  Story'
    <2>1. Running' /\ Headed'
        BY <1>c DEF Running, Headed
    <2>2. Saved'
        BY <1>a, <1>c DEF Saved
    <2> QED BY <1>c, <2>1, <2>2 DEF Story
<1>d. ASSUME pc' \in {"working", "skipping", "interrupted"} PROVE Fell'
    BY <1>d DEF Fell
<1>1. CASE Begin
    <2>1. pc = "working" /\ pc' = pc /\ run.status \notin Terminal
        BY <1>1, <1>a, <1>b, BeginFacts DEF Done
    <2>2. run'.status = run.status
        BY <1>1, <1>a, BeginFacts DEF Records
    <2>3. lost' = 0 => Running' /\ Headed' /\ Saved'
        BY <1>1, <1>a, <2>1, BeginStory
    <2> QED BY <1>1, <1>a, <1>c, <1>d, <2>1, <2>2, <2>3, BeginAhead DEF Terminal
<1>2. CASE End
    <2>1. pc' = "working" /\ run' = run
        BY <1>2, <1>a, EndFacts
    <2>2. lost' = 0 => Running' /\ Headed' /\ Saved'
        BY <1>2, <1>a, EndStory
    <2> QED BY <1>2, <1>a, <1>c, <1>d, <2>1, <2>2, EndAhead
<1>3. CASE Fail
    <2>1. run' = run
        BY <1>3, <1>a, FailFacts
    <2>2. lost' = 0 => Running' /\ Headed' /\ Saved'
        BY <1>3, <1>a, FailStory
    <2> QED BY <1>3, <1>a, <1>c, <2>1, <2>2, FailAhead, FailFell
<1>4. CASE Skip
    <2>1. run' = run /\ pc' = "skipping"
        BY <1>4, <1>a, SkipFacts
    <2>2. lost' = 0 => Running' /\ Headed' /\ Saved'
        BY <1>4, <1>a, SkipStory
    <2> QED BY <1>4, <1>a, <1>c, <1>d, <2>1, <2>2, SkipAhead
<1>5. CASE InterruptBegin
    <2>1. pc = "working" /\ pc' = "interrupted" /\ run.status \notin Terminal
        BY <1>5, <1>a, <1>b, InterruptBeginFacts DEF Done
    <2>2. run'.status = run.status
        BY <1>5, <1>a, InterruptBeginFacts DEF Records
    <2>3. lost' = 0 => Running' /\ Headed' /\ Saved'
        BY <1>5, <1>a, <2>1, InterruptBeginStory
    <2> QED BY <1>5, <1>a, <1>c, <1>d, <2>1, <2>2, <2>3, InterruptBeginAhead DEF Terminal
<1>6. CASE InterruptLeave
    <2>1. run' = run /\ pc' = "interrupted"
        BY <1>6, <1>a, InterruptLeaveFacts
    <2>2. lost' = 0 => Running' /\ Headed' /\ Saved'
        BY <1>6, <1>a, InterruptLeaveStory
    <2> QED BY <1>6, <1>a, <1>c, <1>d, <2>1, <2>2, InterruptLeaveAhead
<1>7. CASE Quiet
    BY <1>7, <1>a, QuietStory
<1> QED BY <1>1, <1>2, <1>3, <1>4, <1>5, <1>6, <1>7, <1>a, EveryStep

(* The records of a run, its files and its timeline agree in every reachable state.    *)
LEMMA StoryHolds == Spec => [](IInv /\ Story)
<1>1. IInv /\ Story /\ [Next]_vars => (IInv /\ Story)'
    BY StepInv, StoryStep
<1> QED BY InitInv, StoryInit, <1>1, PTL DEF Spec

-----------------------------------------------------------------------------
(* A row is only written if it has no outcome yet, and then it gets at least "running". *)
LEMMA WritesForward ==
    ASSUME IInv, Story, Begin \/ End \/ Fail \/ Skip \/ InterruptBegin \/ InterruptLeave
    PROVE  /\ pc \notin Done
           /\ \/ stageRow' = stageRow
              \/ \E key \in Keys, status \in Ended \cup {"RUNNING"} :
                     Written(key, status) /\ stageRow[key] \in {"none", "RUNNING"}
<1>0. TypeOK /\ Inside /\ Ahead
    BY DEF IInv, Story
<1>1. CASE Begin
    BY <1>0, <1>1, BeginFacts DEF Done, Written
<1>2. ASSUME End \/ Fail,
             NEW status \in Ended,
             \/ open = <<StageKey>> /\ Written(StageKey, status)
             \/ open = <<StepKey, StageKey>> /\ Written(StepKey, status)
      PROVE  \E key \in Keys, s \in Ended \cup {"RUNNING"} :
                 Written(key, s) /\ stageRow[key] \in {"none", "RUNNING"}
    <2>1. CASE open = <<StageKey>> /\ Written(StageKey, status)
        <3>1. stageRow[StageKey] \in {"none", "RUNNING"}
            BY <1>0, <2>1, Blocks DEF Ahead, OpenRows
        <3> QED BY <2>1, <3>1 DEF Written
    <2>2. CASE open = <<StepKey, StageKey>> /\ Written(StepKey, status)
        <3>1. stageRow[StepKey] \in {"none", "RUNNING"}
            BY <1>0, <2>2, Blocks DEF Ahead, OpenRows, InStep
        <3> QED BY <2>2, <3>1 DEF Written
    <2> QED BY <1>2, <2>1, <2>2
<1>3. CASE End
    BY <1>0, <1>2, <1>3, EndFacts DEF Ended, Done
<1>4. CASE Fail
    BY <1>0, <1>2, <1>4, FailFacts DEF Ended, Done
<1>5. CASE Skip
    BY <1>0, <1>5, SkipFacts DEF Ended, Done, Written
<1>6. CASE InterruptBegin
    BY <1>0, <1>6, InterruptBeginFacts DEF Done, Written
<1>7. CASE InterruptLeave
    BY <1>0, <1>7, InterruptLeaveFacts DEF Done
<1> QED BY <1>1, <1>3, <1>4, <1>5, <1>6, <1>7

(* The live timeline never takes back a stage or step it showed as done, failed or     *)
(* skipped, nor a running one to pending, whatever writes of save_stage are lost.      *)
THEOREM MovesForward == Spec => TimelineMovesForward
<1>1. ASSUME IInv, IInv', Story, [Next]_vars, NEW key \in Keys
      PROVE  /\ Shown(key) \in Ended => Shown(key)' = Shown(key)
             /\ Shown(key) = "RUNNING" => Shown(key)' # "PENDING"
    <2>0. row.status \in Terminal => pc \in Done
        BY <1>1 DEF IInv, Ends
    <2>1. CASE Begin \/ End \/ Fail \/ Skip \/ InterruptBegin \/ InterruptLeave
        <3>1. pc \notin Done /\ row.status \notin Terminal
            BY <1>1, <2>0, <2>1, WritesForward
        <3>0. CASE stageRow' = stageRow
            BY <3>0, <3>1 DEF Shown, Ended
        <3> SUFFICES ASSUME ~(stageRow' = stageRow)
                     PROVE  /\ Shown(key) \in Ended => Shown(key)' = Shown(key)
                            /\ Shown(key) = "RUNNING" => Shown(key)' # "PENDING"
            BY <3>0
        <3>2. PICK k \in Keys, status \in Ended \cup {"RUNNING"} :
                  Written(k, status) /\ stageRow[k] \in {"none", "RUNNING"}
            BY <1>1, <2>1, WritesForward
        <3>3. CASE key = k
            BY <3>1, <3>2, <3>3 DEF Shown, Written, Ended
        <3>4. CASE key # k
            BY <3>1, <3>2, <3>4 DEF Shown, Written, Ended
        <3> QED BY <3>3, <3>4
    <2>2. CASE Quiet
        BY <2>2 DEF Quiet, Shown, Ended
    <2> QED BY <1>1, <2>1, <2>2, EveryStep DEF Story, Ahead
<1>2. IInv /\ IInv' /\ Story /\ [Next]_vars
      => [\A key \in Keys : /\ Shown(key) \in Ended => Shown(key)' = Shown(key)
                            /\ Shown(key) = "RUNNING" => Shown(key)' # "PENDING"]_vars
    BY <1>1
<1> QED BY StoryHolds, <1>2, PTL DEF Spec, TimelineMovesForward

(* A run recorded as over has nothing running or pending on its timeline but the       *)
(* stages whose last row an interrupt cut off, if its process was not killed and       *)
(* ClickHouse took every write.                                                        *)
THEOREM Settles == Spec => []EndedTimelinesAreSettled
<1>1. ASSUME IInv, Story PROVE EndedTimelinesAreSettled
    <2> SUFFICES ASSUME row.status \in Terminal, lost = 0, pc # "killed", NEW key \in Keys
                 PROVE  Shown(key) \in Ended \/ key \in cut
        BY DEF EndedTimelinesAreSettled
    <2>1. pc \in {"closing", "summary", "over", "raised"}
        BY <1>1 DEF IInv, Ends, Done
    <2>2. open = <<>> /\ ~InStep
        BY <1>1, <2>1, EmptySeq DEF Story, Ahead, Walk, Idle, InStep
    <2>3. stageRow[key] # "RUNNING" \/ key \in cut
        BY <1>1, <2>2 DEF Story, Running
    <2>4. stageRow[key] \in Ended \cup {"RUNNING", "none"}
        BY <1>1 DEF IInv, TypeOK
    <2> QED BY <2>3, <2>4 DEF Shown, Ended
<1> QED BY StoryHolds, <1>1, PTL

(* The attempt the headline of a stage shows: the one it is at if that is recorded, the *)
(* first if it was not tried.                                                           *)
LEMMA LatestOf ==
    ASSUME TypeOK, Ahead, NEW i \in 1..Len(Stages)
    PROVE  /\ stageRow[<<Stages[i], Number(Stages[i])>>] \in Ended
                  => Headline(i) = stageRow[<<Stages[i], Number(Stages[i])>>]
           /\ Untried(i) /\ row.status \in Terminal => Headline(i) = "SKIPPED"
<1> DEFINE name == Stages[i]
           tried == {n \in 1..MaxAttempts : stageRow[<<name, n>>] # "none"}
<1>1. Latest(name) = IF tried = {} THEN 1 ELSE CHOOSE n \in tried : \A m \in tried : m <= n
    BY DEF Latest
<1>2. ASSUME stageRow[<<name, Number(name)>>] \in Ended
      PROVE  Headline(i) = stageRow[<<name, Number(name)>>]
    <2>1. Number(name) \in tried
        BY <1>2, InTurn DEF Ended
    <2>2. \A n \in tried : n <= Number(name)
        BY InTurn, NamesOK DEF Ahead, StagesAhead
    <2>3. \A n \in tried : (\A m \in tried : m <= n) => n = Number(name)
        BY <2>1, <2>2, InTurn
    <2>4. Latest(name) = Number(name)
        BY <1>1, <2>1, <2>2, <2>3
    <2>5. Headline(i) = Shown(<<name, Number(name)>>)
        BY <2>4 DEF Headline
    <2> QED BY <1>2, <2>5 DEF Shown, Ended
<1>3. ASSUME Untried(i), row.status \in Terminal
      PROVE  Headline(i) = "SKIPPED"
    <2>1. tried \subseteq {1}
        BY <1>3 DEF Untried
    <2>2. Latest(name) = 1
        <3>1. CASE tried = {}
            BY <1>1, <3>1
        <3>2. CASE tried = {1}
            BY <1>1, <3>2
        <3> QED BY <2>1, <3>1, <3>2
    <2>3. 1 \in 1..MaxAttempts
        BY NamesOK
    <2>4. Headline(i) = Shown(<<name, 1>>)
        BY <2>2 DEF Headline
    <2>5. stageRow[<<name, 1>>] \in {"none", "SKIPPED"}
        BY <1>3, <2>3 DEF Untried
    <2> QED BY <1>3, <2>4, <2>5 DEF Shown
<1> QED BY <1>2, <1>3

(* The stage a failed run names is where it stopped, by the attempts the timeline      *)
(* shows: those before it are done, those after it skipped, and it failed itself       *)
(* unless the run was killed or interrupted (if no write was lost).                    *)
THEOREM BlamesRight == Spec => []BlameIsRight
<1>1. ASSUME IInv, Story PROVE BlameIsRight
    <2> SUFFICES ASSUME row.status = "FAILED", lost = 0
                 PROVE  \/ /\ row.error \in {"pipeline", "queued"}
                           /\ \A i \in 1..Len(Stages) : Headline(i) = "SKIPPED"
                        \/ \E i \in 1..Len(Stages) :
                               /\ row.error = Stages[i]
                               /\ \A j \in 1..(i - 1) : Headline(j) = "SUCCESS"
                               /\ \A j \in (i + 1)..Len(Stages) : Headline(j) = "SKIPPED"
                               /\ Headline(i) = "FAILED" \/ pc \in {"raised", "killed"}
        BY DEF BlameIsRight
    <2>0. TypeOK /\ Ahead /\ Headed /\ Saved /\ Fell /\ row.status \in Terminal /\ pc \in Done
        BY <1>1 DEF IInv, Story, Terminal, Ends
    <2>1. /\ run.stage = "" => row.error \in {"pipeline", "queued"}
          /\ run.stage # "" => row.error = run.stage
        BY <2>0 DEF Saved
    <2>2. CASE Unnamed
        <3>1. \A i \in 1..Len(Stages) : Untried(i)
            BY <2>2 DEF Unnamed, Untried
        <3>2. \A i \in 1..Len(Stages) : Headline(i) = "SKIPPED"
            BY <2>0, <3>1, LatestOf
        <3> QED BY <2>1, <2>2, <3>2 DEF Unnamed
    <2>3. ASSUME NEW i \in 1..Len(Stages), Named(i)
          PROVE  /\ row.error = Stages[i]
                 /\ \A j \in 1..(i - 1) : Headline(j) = "SUCCESS"
                 /\ \A j \in (i + 1)..Len(Stages) : Headline(j) = "SKIPPED"
                 /\ Headline(i) = "FAILED" \/ pc \in {"raised", "killed"}
        <3>1. run.stage = Stages[i] /\ run.stage # ""
            <4>1. Stages[i] \in StageNames /\ "" \notin StageNames
                BY NamesOK, RecordsAssumption
            <4> QED BY <2>3, <4>1 DEF Named
        <3>2. ASSUME NEW j \in 1..(i - 1) PROVE Headline(j) = "SUCCESS"
            <4>1. j \in 1..Len(Stages) /\ Won(j)
                BY <2>3, NamesOK DEF Named
            <4> QED BY <2>0, <4>1, LatestOf DEF Won, Ended
        <3>3. ASSUME NEW j \in (i + 1)..Len(Stages) PROVE Headline(j) = "SKIPPED"
            <4>1. j \in 1..Len(Stages) /\ Untried(j)
                BY <2>3, NamesOK DEF Named
            <4> QED BY <2>0, <4>1, LatestOf
        <3>4. ASSUME pc \notin {"raised", "killed"} PROVE Headline(i) = "FAILED"
            <4>1. pc \in {"closing", "summary", "over"} /\ row = run
                BY <2>0, <3>4 DEF Done, Saved
            <4>2. Fallen
                BY <2>0, <3>1, <4>1 DEF Fell
            <4>3. i = place + 1
                <5>1. place + 1 \in 1..Len(Stages)
                    BY <2>0, <4>2, InTurn DEF Fallen
                <5> QED BY <3>1, <4>2, <5>1, RecordsAssumption DEF Fallen
            <4>4. stageRow[<<Stages[i], Number(Stages[i])>>] = "FAILED"
                BY <4>2, <4>3 DEF Fallen, StageKey
            <4> QED BY <2>0, <4>4, LatestOf DEF Ended
        <3> QED BY <2>1, <3>1, <3>2, <3>3, <3>4
    <2> QED BY <2>0, <2>2, <2>3 DEF Headed
<1> QED BY StoryHolds, <1>1, PTL
=============================================================================
