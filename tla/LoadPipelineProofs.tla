------------------------- MODULE LoadPipelineProofs -------------------------
(***************************************************************************)
(* Proofs about LoadPipeline: type correctness; that a load that passes    *)
(* verification is exact, whatever fails; that failed runs leave nothing   *)
(* behind as long as every failed load is rolled back; and, if the run     *)
(* records are written as well, that runs are atomic loads.                *)
(***************************************************************************)
EXTENDS LoadPipeline, FiniteSetTheorems, SequenceTheorems, WellFoundedInduction, TLAPS

(* A run is under way, and its load counts batches and attempts. *)
ControlInv ==
    /\ pc # "idle" => run \in Runs
    /\ pc = "loading" => attempt \in 1..MaxAttempts

IInv == TypeOK /\ ControlInv

(* A rolled-back run has no copy of any batch. *)
LEMMA NoRowsFacts == NoRows \in [BatchNos -> Nat] /\ \A b \in BatchNos : NoRows[b] = 0
  BY DEF NoRows

(* A run's data never has more batches than the bound. *)
LEMMA DataOK ==
    ASSUME TypeOK, NEW r \in Runs
    PROVE  Len(data[r]) \in 0..MaxBatches
<1>1. data[r] \in Datasets \cup {<<>>}
  BY DEF TypeOK
<1>2. CASE data[r] = <<>>
  BY <1>2, EmptySeq, LoadPipelineAssumption
<1>3. CASE data[r] \in Datasets
  <2>1. \E S : data[r] \in Seq(S)
    BY <1>3, LoadPipelineAssumption
  <2>2. Len(data[r]) \in Nat
    BY <2>1
  <2>3. Len(data[r]) <= MaxBatches
    BY <1>3, LoadPipelineAssumption
  <2>4. QED
    BY <2>2, <2>3, LoadPipelineAssumption
<1>4. QED
  BY <1>1, <1>2, <1>3

(* An executed insert adds at most one copy of its batch, and the table    *)
(* remembers no more than Window tokens.                                   *)
LEMMA LandFacts ==
    ASSUME TypeOK, NEW r \in Runs, NEW b \in BatchNos, Land(r, b)
    PROVE  /\ rows' \in [Runs -> [BatchNos -> Nat]]
           /\ tokens' \in Seq(Runs \X BatchNos) /\ Len(tokens') <= Window
           /\ \A q \in Runs \ {r} : rows'[q] = rows[q]
<1>1. CASE UNCHANGED <<rows, tokens>>
  BY <1>1 DEF TypeOK
<1>2. CASE rows' = [rows EXCEPT ![r][b] = @ + 1] /\ Remember(<<r, b>>)
  <2>1. rows' \in [Runs -> [BatchNos -> Nat]] /\ \A q \in Runs \ {r} : rows'[q] = rows[q]
    BY <1>2 DEF TypeOK
  <2> DEFINE kept == IF Len(tokens) < Window THEN tokens ELSE Tail(tokens)
  <2>2. Len(tokens) \in Nat /\ Window \in Nat /\ Window # 0
    BY LoadPipelineAssumption DEF TypeOK
  <2>3. kept \in Seq(Runs \X BatchNos) /\ Len(kept) < Window
    <3>1. CASE Len(tokens) < Window
      BY <3>1 DEF TypeOK
    <3>2. CASE ~(Len(tokens) < Window)
      <4>1. Len(tokens) = Window /\ tokens # <<>>
        BY <2>2, <3>2, EmptySeq DEF TypeOK
      <4>2. /\ Tail(tokens) \in Seq(Runs \X BatchNos)
            /\ Len(Tail(tokens)) = Len(tokens) - 1
        BY <4>1, HeadTailProperties DEF TypeOK
      <4>3. QED
        BY <2>2, <3>2, <4>1, <4>2
    <3>3. QED
      BY <3>1, <3>2
  <2>4. tokens' = Append(kept, <<r, b>>)
    BY <1>2 DEF Remember
  <2> HIDE DEF kept
  <2>5. /\ tokens' \in Seq(Runs \X BatchNos)
        /\ Len(tokens') = Len(kept) + 1
    BY <2>3, <2>4, AppendProperties
  <2>6. Len(tokens') <= Window
    <3>1. Len(kept) \in Nat
      BY <2>3
    <3>2. QED
      BY <2>2, <2>3, <2>5, <3>1
  <2>7. QED
    BY <2>1, <2>5, <2>6
<1>3. QED
  BY <1>1, <1>2 DEF Land

(* An empty destination and a new run satisfy the inductive invariant. *)
LEMMA InitIInv == Init => IInv
<1> SUFFICES ASSUME Init PROVE IInv
  OBVIOUS
<1> USE LoadPipelineAssumption DEF Init
<1>1. tokens \in Seq(Runs \X BatchNos) /\ Len(tokens) <= Window
  BY EmptySeq
<1>2. run \in 0..MaxRuns /\ attempt \in 0..MaxAttempts /\ batch \in 1..(MaxBatches + 1)
  OBVIOUS
<1>3. rows \in [Runs -> [BatchNos -> Nat]] /\ data \in [Runs -> Datasets \cup {<<>>}]
  BY NoRowsFacts
<1>4. TypeOK
  BY <1>1, <1>2, <1>3 DEF TypeOK
<1>5. QED
  BY <1>4 DEF IInv, ControlInv

(* The end of a run, however it ends. *)
LEMMA EndOK ==
    ASSUME IInv, run \in Runs, NEW status \in Statuses, End(status),
           UNCHANGED <<run, retry, data, table>>
    PROVE  IInv'
  BY DEF IInv, TypeOK, ControlInv, End, TryWrite, Goto, Statuses, retry, table

(* Every step keeps the types. *)
LEMMA NextIInv == IInv /\ [Next]_vars => IInv'
<1> SUFFICES ASSUME IInv, [Next]_vars PROVE IInv'
  OBVIOUS
<1>0. /\ MaxRuns \in Nat /\ MaxBatches \in Nat /\ MaxAttempts \in Nat \ {0}
      /\ {"SUCCESS", "SKIPPED", "FAILED"} \subseteq Statuses
  BY LoadPipelineAssumption DEF Statuses
<1>1. CASE UNCHANGED vars
  BY <1>1 DEF IInv, TypeOK, ControlInv, vars
<1>2. CASE Begin
  BY <1>0, <1>2 DEF IInv, TypeOK, ControlInv, Begin, TryWrite, Goto, Runs, retry, table
<1>3. ASSUME NEW d \in Datasets, Prepare(d) PROVE IInv'
  BY <1>3 DEF IInv, TypeOK, ControlInv, Prepare, Goto, retry, table
<1>4. ASSUME NEW force \in BOOLEAN, Proceed(force) PROVE IInv'
  BY <1>0, <1>4 DEF IInv, TypeOK, ControlInv, Proceed, Goto, table
<1>5. CASE Skip \/ FailBeforeLoad \/ Fail \/ Succeed \/ Abort
  <2>1. run \in Runs /\ UNCHANGED <<run, retry, data, table>>
    BY <1>5 DEF IInv, ControlInv, Skip, FailBeforeLoad, Fail, Succeed, Abort
  <2>2. \E status \in Statuses : End(status)
    BY <1>0, <1>5 DEF Skip, FailBeforeLoad, Fail, Succeed, Abort
  <2>3. QED
    BY <2>1, <2>2, EndOK
<1>6. CASE InsertBatch
  <2>1. run \in Runs /\ batch \in BatchNos /\ batch + 1 \in 1..(MaxBatches + 1)
    BY <1>0, <1>6, DataOK DEF IInv, TypeOK, ControlInv, InsertBatch, BatchNos
  <2>2. QED
    BY <1>6, <2>1, LandFacts DEF IInv, TypeOK, ControlInv, InsertBatch
<1>7. CASE InsertFails
  <2>1. run \in Runs /\ batch \in BatchNos /\ attempt \in 1..MaxAttempts
    BY <1>0, <1>7, DataOK DEF IInv, TypeOK, ControlInv, InsertFails, BatchNos
  <2>2. /\ rows' \in [Runs -> [BatchNos -> Nat]]
        /\ tokens' \in Seq(Runs \X BatchNos) /\ Len(tokens') <= Window
        /\ pending' \subseteq Runs \X BatchNos \X (1..MaxAttempts)
    <3>1. CASE UNCHANGED table
      BY <3>1 DEF IInv, TypeOK, table
    <3>2. CASE Land(run, batch) /\ UNCHANGED pending
      BY <2>1, <3>2, LandFacts DEF IInv, TypeOK
    <3>3. CASE pending' = pending \cup {<<run, batch, attempt>>} /\ UNCHANGED <<rows, tokens>>
      BY <2>1, <3>3 DEF IInv, TypeOK
    <3>4. QED
      BY <1>7, <3>1, <3>2, <3>3 DEF InsertFails
  <2>3. /\ pc' \in {pc, "rollback"} /\ batch' \in {batch, 1}
        /\ attempt' \in 0..MaxAttempts
        /\ pc' = "loading" => attempt' \in 1..MaxAttempts
    <3>1. attempt \in Nat /\ MaxAttempts \in Nat
      BY <2>1, LoadPipelineAssumption
    <3>2. CASE NextAttempt
      BY <2>1, <3>1, <3>2 DEF NextAttempt, Goto, retry
    <3>3. CASE ~NextAttempt
      BY <1>7, <2>1, <3>1, <3>3 DEF InsertFails, Goto, retry
    <3>4. QED
      BY <3>2, <3>3
  <2>4. batch' \in 1..(MaxBatches + 1)
    BY <1>0, <2>3 DEF IInv, TypeOK
  <2>5. QED
    BY <1>7, <2>1, <2>2, <2>3, <2>4 DEF IInv, TypeOK, ControlInv, InsertFails
<1>8. CASE AllInserted \/ Verify \/ VerifyFails
  BY <1>8 DEF IInv, TypeOK, ControlInv, AllInserted, Verify, VerifyFails, Goto, retry, table
<1>9. CASE Rollback
  <2>1. rows' \in [Runs -> [BatchNos -> Nat]]
    BY <1>9, NoRowsFacts DEF IInv, TypeOK, Rollback
  <2>2. QED
    BY <1>9, <2>1 DEF IInv, TypeOK, ControlInv, Rollback, Goto, retry
<1>10. CASE Crash
  BY <1>10 DEF IInv, TypeOK, ControlInv, Crash, Goto, retry, table
<1>11. CASE Merge
  <2>1. PICK r1 \in Runs, b1 \in BatchNos :
            Present(r1, b1) /\ rows' = [rows EXCEPT ![r1][b1] = @ - 1]
    BY <1>11 DEF Merge
  <2>2. rows[r1][b1] \in Nat /\ rows[r1][b1] - 1 \in Nat
    BY <2>1 DEF Present, IInv, TypeOK
  <2>3. rows' \in [Runs -> [BatchNos -> Nat]]
    BY <2>1, <2>2 DEF IInv, TypeOK
  <2>4. QED
    BY <1>11, <2>3 DEF IInv, TypeOK, ControlInv, Merge, retry
<1>12. ASSUME NEW p \in pending, LateInsert(p) PROVE IInv'
  <2>1. p[1] \in Runs /\ p[2] \in BatchNos
    BY DEF IInv, TypeOK
  <2>2. /\ rows' \in [Runs -> [BatchNos -> Nat]]
        /\ tokens' \in Seq(Runs \X BatchNos) /\ Len(tokens') <= Window
    BY <1>12, <2>1, LandFacts DEF IInv, TypeOK, LateInsert
  <2>3. QED
    BY <1>12, <2>2 DEF IInv, TypeOK, ControlInv, LateInsert, retry
<1>13. QED
  BY <1>1, <1>2, <1>3, <1>4, <1>5, <1>6, <1>7, <1>8, <1>9, <1>10, <1>11, <1>12
  DEF Next, Step

(* The inductive invariant holds in every reachable state of the load (pipeline.py *)
(* and loader.py), whatever faults are allowed. *)
LEMMA Typed == Spec => []IInv
  BY InitIInv, NextIInv, PTL DEF Spec

(* Runs, batches, attempts, tokens and inserts always have their types; in *)
(* particular a load never inserts a batch its dataset does not have.      *)
THEOREM TypeCorrect == Spec => []TypeOK
<1>1. IInv => TypeOK
  BY DEF IInv
<1>2. QED
  BY Typed, <1>1, PTL

-----------------------------------------------------------------------------
(* The inserts that were executed or are still to be are those of runs that began,     *)
(* and what the table remembers of the run that loads is in the table.                 *)
Known ==
    /\ \A r \in Runs, b \in BatchNos : rows[r][b] > 0 => r <= run
    /\ \A i \in DOMAIN tokens : tokens[i][1] <= run
    /\ \A p \in pending : p[1] <= run
    /\ pc \in {"preparing", "deciding"} =>
          /\ \A i \in DOMAIN tokens : tokens[i][1] # run
          /\ \A p \in pending : p[1] # run
    /\ pc = "loading" =>
          \A i \in DOMAIN tokens : tokens[i][1] = run => rows[run][tokens[i][2]] > 0

(* A load has put each batch it is past into the table. *)
Put(b) == b \in BatchNos => rows[run][b] > 0
Complete ==
    /\ pc = "loading" => \A b \in 1..(batch - 1) : Put(b)
    /\ pc \in {"verifying", "verified"} => \A b \in 1..Len(data[run]) : Put(b)

PutInv == IInv /\ Known /\ Complete

(* An executed insert is in the table, or the table remembers that it was; and nothing *)
(* else changes.                                                                       *)
LEMMA LandKeeps ==
    ASSUME TypeOK, NEW r \in Runs, NEW b \in BatchNos, Land(r, b)
    PROVE  /\ \A q \in Runs, c \in BatchNos :
                  /\ rows[q][c] > 0 => rows'[q][c] > 0
                  /\ rows'[q][c] > 0 => rows[q][c] > 0 \/ q = r
           /\ \A i \in DOMAIN tokens' :
                  \/ tokens'[i] = <<r, b>> /\ rows'[r][b] > 0
                  \/ \E j \in DOMAIN tokens : tokens'[i] = tokens[j]
           /\ rows'[r][b] > 0 \/ \E j \in DOMAIN tokens : tokens[j] = <<r, b>>
<1>1. CASE \E j \in DOMAIN tokens : tokens[j] = <<r, b>>
  BY <1>1 DEF Land
<1>2. CASE ~ \E j \in DOMAIN tokens : tokens[j] = <<r, b>>
  <2>1. rows' = [rows EXCEPT ![r][b] = @ + 1] /\ Remember(<<r, b>>)
    BY <1>2 DEF Land
  <2>2. /\ rows'[r][b] > 0
        /\ \A q \in Runs, c \in BatchNos :
              /\ rows[q][c] > 0 => rows'[q][c] > 0
              /\ rows'[q][c] > 0 => rows[q][c] > 0 \/ q = r
    BY <2>1 DEF TypeOK
  <2> DEFINE kept == IF Len(tokens) < Window THEN tokens ELSE Tail(tokens)
  <2>3. tokens' = Append(kept, <<r, b>>)
    BY <2>1 DEF Remember
  <2>4. tokens \in Seq(Runs \X BatchNos) /\ Len(tokens) \in Nat /\ Window \in Nat \ {0}
    BY LoadPipelineAssumption DEF TypeOK
  <2>5. /\ kept \in Seq(Runs \X BatchNos)
        /\ \A i \in 1..Len(kept) : \E j \in DOMAIN tokens : kept[i] = tokens[j]
    <3>1. CASE Len(tokens) < Window
      BY <2>4, <3>1
    <3>2. CASE ~(Len(tokens) < Window)
      <4>1. tokens # <<>>
        BY <2>4, <3>2, EmptySeq
      <4>2. /\ Tail(tokens) \in Seq(Runs \X BatchNos)
            /\ Len(Tail(tokens)) = Len(tokens) - 1
            /\ \A i \in 1..Len(Tail(tokens)) : Tail(tokens)[i] = tokens[i + 1]
        BY <2>4, <4>1, HeadTailProperties
      <4>3. \A i \in 1..Len(Tail(tokens)) : i + 1 \in DOMAIN tokens
        BY <2>4, <4>2
      <4>4. QED
        BY <3>2, <4>2, <4>3
    <3>3. QED
      BY <3>1, <3>2
  <2> HIDE DEF kept
  <2>6. /\ tokens' \in Seq(Runs \X BatchNos)
        /\ Len(tokens') = Len(kept) + 1
        /\ \A i \in 1..Len(kept) : tokens'[i] = kept[i]
        /\ tokens'[Len(kept) + 1] = <<r, b>>
    BY <2>3, <2>5, AppendProperties
  <2>7. \A i \in DOMAIN tokens' : i \in 1..Len(kept) \/ i = Len(kept) + 1
    <3>1. Len(kept) \in Nat /\ DOMAIN tokens' = 1..(Len(kept) + 1)
      BY <2>5, <2>6, LenProperties
    <3>2. QED
      BY <3>1
  <2>8. QED
    BY <2>2, <2>5, <2>6, <2>7
<1>3. QED
  BY <1>1, <1>2

(* An insert of the loading run puts its batch into the table: if the server drops it, *)
(* an earlier copy is there.                                                           *)
LEMMA LoadLands ==
    ASSUME PutInv, pc = "loading", batch <= Len(data[run]), Land(run, batch)
    PROVE  /\ run \in Runs /\ batch \in BatchNos
           /\ rows'[run][batch] > 0
           /\ \A i \in DOMAIN tokens' : tokens'[i][1] = run => rows'[run][tokens'[i][2]] > 0
           /\ \A b \in BatchNos : rows[run][b] > 0 => rows'[run][b] > 0
<1>1. TypeOK /\ run \in Runs /\ batch \in BatchNos
  <2>1. TypeOK /\ run \in Runs
    BY DEF PutInv, IInv, ControlInv
  <2>2. Len(data[run]) \in 0..MaxBatches
    BY <2>1, DataOK
  <2>3. batch \in 1..(MaxBatches + 1) /\ MaxBatches \in Nat
    BY <2>1, LoadPipelineAssumption DEF TypeOK
  <2>4. QED
    BY <2>1, <2>2, <2>3 DEF BatchNos
<1>2. \A i \in DOMAIN tokens : tokens[i][1] = run => rows[run][tokens[i][2]] > 0
  BY DEF PutInv, Known
<1>3. /\ \A c \in BatchNos : rows[run][c] > 0 => rows'[run][c] > 0
      /\ \A i \in DOMAIN tokens' :
            \/ tokens'[i] = <<run, batch>> /\ rows'[run][batch] > 0
            \/ \E j \in DOMAIN tokens : tokens'[i] = tokens[j]
      /\ rows'[run][batch] > 0 \/ \E j \in DOMAIN tokens : tokens[j] = <<run, batch>>
  BY <1>1, LandKeeps
<1>4. \A j \in DOMAIN tokens : tokens[j][2] \in BatchNos
  BY <1>1, ElementOfSeq DEF TypeOK
<1>5. rows'[run][batch] > 0
  BY <1>1, <1>2, <1>3
<1>6. \A i \in DOMAIN tokens' : tokens'[i][1] = run => rows'[run][tokens'[i][2]] > 0
  BY <1>2, <1>3, <1>4
<1>7. QED
  BY <1>1, <1>3, <1>5, <1>6

(* Every step keeps it: in particular a late insert only adds copies, and a merge      *)
(* leaves one of each of the newest run's batches.                                     *)
LEMMA PutStep ==
    ASSUME PutInv, [Next]_vars
    PROVE  Known' /\ Complete'
<1>0. /\ TypeOK /\ Known /\ Complete /\ ControlInv
      /\ MaxRuns \in Nat /\ MaxBatches \in Nat /\ run \in Nat /\ batch \in Nat
  BY LoadPipelineAssumption DEF PutInv, IInv, TypeOK
<1>a. ASSUME UNCHANGED <<run, data, batch, table>>,
             pc' \in {"idle", "rollback", "failing"} \/ (pc' = "verified" /\ pc = "verifying")
      PROVE  Known' /\ Complete'
  BY <1>0, <1>a DEF Known, Complete, Put, table
<1>1. CASE UNCHANGED vars
  BY <1>0, <1>1 DEF vars, Known, Complete, Put
<1>2. CASE Begin
  <2>1. /\ run' = run + 1 /\ pc' = "preparing" /\ UNCHANGED <<rows, tokens, pending>>
    BY <1>2 DEF Begin, Goto, table
  <2>2. \A i \in DOMAIN tokens : tokens[i][1] \in Nat
    BY <1>0, ElementOfSeq DEF TypeOK, Runs
  <2>3. \A p \in pending : p[1] \in Nat
    BY <1>0 DEF TypeOK, Runs
  <2>4. Known'
    BY <1>0, <2>1, <2>2, <2>3 DEF Known, Runs
  <2>5. QED
    BY <2>1, <2>4 DEF Complete
<1>3. ASSUME NEW d \in Datasets, Prepare(d) PROVE Known' /\ Complete'
  BY <1>0, <1>3 DEF Prepare, Goto, table, Known, Complete
<1>4. ASSUME NEW force \in BOOLEAN, Proceed(force) PROVE Known' /\ Complete'
  <2>1. pc = "deciding" /\ pc' = "loading" /\ batch' = 1
        /\ UNCHANGED <<run, rows, tokens, pending>>
    BY <1>4 DEF Proceed, Goto, table
  <2>2. Known'
    BY <1>0, <2>1 DEF Known
  <2>3. 1..(batch' - 1) = {}
    BY <2>1
  <2>4. QED
    BY <2>1, <2>2, <2>3 DEF Complete
<1>5. CASE Skip \/ FailBeforeLoad \/ Fail \/ Succeed \/ Abort \/ Crash \/ Verify \/ VerifyFails
  <2>1. UNCHANGED <<run, data, batch, table>>
    BY <1>5 DEF Skip, FailBeforeLoad, Fail, Succeed, Abort, Crash, Verify, VerifyFails, retry
  <2>2. pc' \in {"idle", "rollback"} \/ (pc' = "verified" /\ pc = "verifying")
    BY <1>5 DEF Skip, FailBeforeLoad, Fail, Succeed, Abort, Crash, Verify, VerifyFails, End,
       Goto
  <2>3. QED
    BY <1>a, <2>1, <2>2
<1>6. CASE InsertBatch
  <2>1. pc = "loading" /\ pc' = "loading" /\ batch <= Len(data[run]) /\ Land(run, batch)
        /\ batch' = batch + 1 /\ UNCHANGED <<run, data, pending>>
    BY <1>6 DEF InsertBatch
  <2>2. /\ run \in Runs /\ batch \in BatchNos
        /\ rows'[run][batch] > 0
        /\ \A i \in DOMAIN tokens' : tokens'[i][1] = run => rows'[run][tokens'[i][2]] > 0
        /\ \A b \in BatchNos : rows[run][b] > 0 => rows'[run][b] > 0
    BY <2>1, LoadLands
  <2>3. Known'
    BY <1>0, <2>1, <2>2, LandKeeps DEF Known
  <2>4. \A b \in 1..(batch' - 1) : b = batch \/ b \in 1..(batch - 1)
    BY <1>0, <2>1
  <2>5. Complete'
    BY <1>0, <2>1, <2>2, <2>4 DEF Complete, Put
  <2>6. QED
    BY <2>3, <2>5
<1>7. CASE AllInserted
  <2>1. pc = "loading" /\ pc' = "verifying" /\ batch > Len(data[run])
        /\ UNCHANGED <<run, data, rows, tokens, pending>>
    BY <1>7 DEF AllInserted, Goto, table
  <2>2. Known'
    BY <1>0, <2>1 DEF Known
  <2>3. \A b \in 1..Len(data[run]) : b \in 1..(batch - 1)
    <3>1. run \in Runs
      BY <1>0, <2>1 DEF ControlInv
    <3>2. Len(data[run]) \in Nat
      BY <1>0, <3>1, DataOK
    <3>3. QED
      BY <1>0, <2>1, <3>2
  <2>4. QED
    BY <1>0, <2>1, <2>2, <2>3 DEF Complete, Put
<1>8. CASE InsertFails
  <2>1. pc = "loading" /\ batch <= Len(data[run]) /\ UNCHANGED <<run, data>>
        /\ (pc' = "rollback" \/ (pc' = "loading" /\ batch' = 1))
    BY <1>8 DEF InsertFails, NextAttempt, Goto
  <2>2. run \in Runs
    BY <1>0, <2>1 DEF ControlInv
  <2>3. Complete'
    <3>1. batch' = 1 => 1..(batch' - 1) = {}
      OBVIOUS
    <3>2. QED
      BY <2>1, <3>1 DEF Complete
  <2>4. CASE UNCHANGED table
    BY <1>0, <2>1, <2>3, <2>4 DEF Known, table
  <2>5. CASE Land(run, batch) /\ UNCHANGED pending
    <3>1. /\ batch \in BatchNos
          /\ \A i \in DOMAIN tokens' : tokens'[i][1] = run => rows'[run][tokens'[i][2]] > 0
      BY <2>1, <2>5, LoadLands
    <3>2. Known'
      BY <1>0, <2>1, <2>2, <2>5, <3>1, LandKeeps DEF Known
    <3>3. QED
      BY <2>3, <3>2
  <2>6. CASE pending' = pending \cup {<<run, batch, attempt>>} /\ UNCHANGED <<rows, tokens>>
    BY <1>0, <2>1, <2>3, <2>6 DEF Known
  <2>7. QED
    BY <1>8, <2>4, <2>5, <2>6 DEF InsertFails
<1>9. CASE Rollback
  <2>1. \A r \in Runs, b \in BatchNos : rows'[r][b] > 0 => rows[r][b] > 0
    <3>1. CASE UNCHANGED rows
      BY <3>1
    <3>2. CASE rows' = [rows EXCEPT ![run] = NoRows]
      <4>1. ASSUME NEW r \in Runs, NEW b \in BatchNos, rows'[r][b] > 0
            PROVE  rows[r][b] > 0
        <5>1. r # run
          BY <1>0, <3>2, <4>1, NoRowsFacts DEF TypeOK
        <5>2. rows'[r] = rows[r]
          BY <1>0, <3>2, <5>1 DEF TypeOK
        <5>3. QED
          BY <4>1, <5>2
      <4>2. QED
        BY <4>1
    <3>3. QED
      BY <1>9, <3>1, <3>2 DEF Rollback
  <2>2. QED
    BY <1>0, <1>9, <2>1 DEF Rollback, Goto, Known, Complete
<1>10. CASE Merge
  <2>1. PICK r1 \in Runs, r2 \in Runs, b1 \in BatchNos, b2 \in BatchNos :
            /\ Present(r1, b1) /\ Present(r2, b2)
            /\ r1 < r2 \/ (r1 = r2 /\ rows[r1][b1] > 1)
            /\ rows' = [rows EXCEPT ![r1][b1] = @ - 1]
    BY <1>10 DEF Merge
  <2>2. UNCHANGED <<run, pc, batch, data, tokens, pending>>
    BY <1>10 DEF Merge, retry
  <2>3. r2 <= run
    BY <1>0, <2>1 DEF Present, Known
  <2>4. /\ \A r \in Runs, b \in BatchNos : rows'[r][b] > 0 => rows[r][b] > 0
        /\ \A b \in BatchNos : run \in Runs /\ rows[run][b] > 0 => rows'[run][b] > 0
    <3>1. rows \in [Runs -> [BatchNos -> Nat]] /\ r1 \in Nat /\ r2 \in Nat
      BY <1>0 DEF TypeOK, Runs
    <3>2. \A r \in Runs, b \in BatchNos :
              rows'[r][b] = IF r = r1 /\ b = b1 THEN rows[r][b] - 1 ELSE rows[r][b]
      BY <2>1, <3>1
    <3>3. r1 = run => rows[r1][b1] > 1
      BY <1>0, <2>1, <2>3, <3>1
    <3>4. \A r \in Runs, b \in BatchNos : rows[r][b] \in Nat
      BY <3>1
    <3>5. QED
      BY <3>2, <3>3, <3>4
  <2>5. pc # "idle" => run \in Runs
    BY <1>0 DEF ControlInv
  <2>6. \A i \in DOMAIN tokens : tokens[i][2] \in BatchNos
    BY <1>0, ElementOfSeq DEF TypeOK
  <2>7. QED
    BY <1>0, <2>2, <2>4, <2>5, <2>6 DEF Known, Complete, Put
<1>11. ASSUME NEW p \in pending, LateInsert(p) PROVE Known' /\ Complete'
  <2>1. /\ p[1] \in Runs /\ p[2] \in BatchNos /\ p[1] <= run
        /\ pc \in {"preparing", "deciding"} => p[1] # run
    BY <1>0 DEF TypeOK, Known
  <2>2. /\ UNCHANGED <<run, pc, batch, data>> /\ pending' \subseteq pending
        /\ Land(p[1], p[2]) \/ UNCHANGED <<rows, tokens>>
    BY <1>11 DEF LateInsert, retry
  <2>3. CASE UNCHANGED <<rows, tokens>>
    BY <1>0, <2>2, <2>3 DEF Known, Complete, Put
  <2>4. CASE Land(p[1], p[2])
    <3>1. /\ \A q \in Runs, c \in BatchNos :
                /\ rows[q][c] > 0 => rows'[q][c] > 0
                /\ rows'[q][c] > 0 => rows[q][c] > 0 \/ q = p[1]
          /\ \A i \in DOMAIN tokens' :
                \/ tokens'[i] = <<p[1], p[2]>> /\ rows'[p[1]][p[2]] > 0
                \/ \E j \in DOMAIN tokens : tokens'[i] = tokens[j]
      BY <1>0, <2>1, <2>4, LandKeeps
    <3>2. \A i \in DOMAIN tokens : tokens[i][2] \in BatchNos
      BY <1>0, ElementOfSeq DEF TypeOK
    <3>3. pc # "idle" => run \in Runs
      BY <1>0 DEF ControlInv
    <3>4. Known'
      BY <1>0, <2>1, <2>2, <3>1, <3>2, <3>3 DEF Known
    <3>5. Complete'
      BY <1>0, <2>2, <3>1, <3>3 DEF Complete, Put
    <3>6. QED
      BY <3>4, <3>5
  <2>5. QED
    BY <2>2, <2>3, <2>4
<1>12. QED
  BY <1>1, <1>2, <1>3, <1>4, <1>5, <1>6, <1>7, <1>8, <1>9, <1>10, <1>11 DEF Next, Step

(* Each batch a load is past is in the table, in every reachable state. *)
LEMMA PutHolds == Spec => []PutInv
<1>1. Init => PutInv
  BY InitIInv, NoRowsFacts DEF PutInv, Known, Complete, Init
<1>2. PutInv /\ [Next]_vars => PutInv'
  BY PutStep, NextIInv DEF PutInv
<1>3. QED
  BY <1>1, <1>2, PTL DEF Spec

(* A table of n batches that has a row of each of the first m, and m rows in all, has  *)
(* one row of each of these and none of the others.                                    *)
LEMMA Counting ==
    ASSUME NEW n \in Nat, NEW m \in 0..n, NEW f \in [1..n -> Nat],
           \A b \in 1..m : f[b] > 0,
           Cardinality(UNION {{b} \X (1..f[b]) : b \in 1..n}) = m
    PROVE  \A b \in 1..n : f[b] = IF b <= m THEN 1 ELSE 0
<1> DEFINE Copies(b) == {b} \X (1..f[b])
           Column == [b \in 1..n |-> Copies(b)]
           Columns == {Copies(b) : b \in 1..n}
           First == (1..m) \X {1}
<1>1. IsFiniteSet(Columns)
  <2>1. Column \in Surjection(1..n, Columns)
    BY DEF Surjection
  <2>2. IsFiniteSet(1..n)
    BY FS_Interval
  <2> HIDE DEF Column, Columns
  <2>3. QED
    BY <2>1, <2>2, FS_Surjection
<1>2. \A T \in Columns : IsFiniteSet(T)
  <2>1. ASSUME NEW b \in 1..n PROVE IsFiniteSet(Copies(b))
    <3>1. IsFiniteSet({b})
      BY FS_Singleton
    <3>2. 1 \in Int /\ f[b] \in Int
      OBVIOUS
    <3>3. IsFiniteSet(1..f[b])
      BY <3>2, FS_Interval
    <3>4. QED
      BY <3>1, <3>3, FS_Product
  <2>2. QED
    BY <2>1
<1>3. IsFiniteSet(UNION Columns)
  <2> HIDE DEF Columns
  <2>1. QED
    BY <1>1, <1>2, FS_UNION
<1>4. First \subseteq UNION Columns
  <2>1. ASSUME NEW b \in 1..m PROVE <<b, 1>> \in UNION Columns
    <3>1. b \in 1..n /\ 1 \in 1..f[b]
      OBVIOUS
    <3>2. <<b, 1>> \in Copies(b)
      BY <3>1
    <3>3. QED
      BY <3>1, <3>2
  <2>2. QED
    BY <2>1
<1>5. Cardinality(First) = m
  <2>1. IsFiniteSet(1..m) /\ Cardinality(1..m) = m
    BY FS_Interval
  <2>2. IsFiniteSet({1}) /\ Cardinality({1}) = 1
    BY FS_Singleton
  <2>3. Cardinality((1..m) \X {1}) = Cardinality(1..m) * Cardinality({1})
    BY <2>1, <2>2, FS_Product
  <2>4. m * 1 = m
    OBVIOUS
  <2>5. QED
    BY <2>1, <2>2, <2>3, <2>4
<1>6. UNION Columns = First
  <2> HIDE DEF Columns, First
  <2>1. Cardinality(UNION Columns) = m
    BY DEF Columns
  <2>2. QED
    BY <1>3, <1>4, <1>5, <2>1, FS_Subset
<1>7. ASSUME NEW b \in 1..n, NEW c \in 1..f[b] PROVE b <= m /\ c = 1
  <2>1. <<b, c>> \in Copies(b)
    OBVIOUS
  <2>2. <<b, c>> \in UNION Columns
    BY <2>1
  <2>3. <<b, c>> \in First
    BY <1>6, <2>2
  <2>4. QED
    BY <2>3
<1>8. ASSUME NEW b \in 1..n PROVE f[b] = IF b <= m THEN 1 ELSE 0
  <2>1. f[b] \in Nat /\ (f[b] > 0 => f[b] \in 1..f[b] /\ f[b] = 1 /\ b <= m)
    BY <1>7
  <2>2. QED
    BY <2>1
<1>9. QED
  BY <1>8

(* A load whose verification passes has each of its batches in the table exactly once, *)
(* whatever inserts were rejected, timed out, came late, were dropped or merged,       *)
(* however many tokens the table remembers, and whatever runs were killed or failed    *)
(* before it: comparing one total is enough because a load never misses a batch.       *)
THEOREM VerificationIsExact == Spec => VerifiedLoadsAreExact
<1>1. ASSUME PutInv, [Next]_vars, pc = "verifying", pc' = "verified"
      PROVE  \A b \in BatchNos : rows[run][b] = IF b <= Len(data[run]) THEN 1 ELSE 0
  <2>1. Verify
    BY <1>1 DEF Next, Step, vars, Begin, Prepare, Proceed, Skip, FailBeforeLoad, InsertBatch,
       AllInserted, InsertFails, VerifyFails, Rollback, Fail, Succeed, Abort, Crash, Merge,
       LateInsert, End, Goto
  <2>2. /\ run \in Runs /\ TypeOK /\ MaxBatches \in Nat
        /\ \A b \in 1..Len(data[run]) : Put(b)
    BY <1>1, LoadPipelineAssumption DEF PutInv, IInv, ControlInv, Complete
  <2>3. Len(data[run]) \in 0..MaxBatches /\ rows[run] \in [1..MaxBatches -> Nat]
    BY <2>2, DataOK DEF TypeOK, BatchNos
  <2>4. \A b \in 1..Len(data[run]) : rows[run][b] > 0
    BY <2>2, <2>3 DEF Put, BatchNos
  <2>5. Cardinality(UNION {{b} \X (1..rows[run][b]) : b \in 1..MaxBatches}) = Len(data[run])
    BY <2>1 DEF Verify, Found, BatchNos
  <2>6. \A b \in 1..MaxBatches : rows[run][b] = IF b <= Len(data[run]) THEN 1 ELSE 0
    BY <2>2, <2>3, <2>4, <2>5, Counting
  <2>7. QED
    BY <2>6 DEF BatchNos
<1>2. PutInv /\ [Next]_vars
      => [pc = "verifying" /\ pc' = "verified"
          => \A b \in BatchNos : rows[run][b] = IF b <= Len(data[run]) THEN 1 ELSE 0]_vars
  BY <1>1
<1>3. QED
  BY PutHolds, <1>2, PTL DEF Spec, VerifiedLoadsAreExact

-----------------------------------------------------------------------------
(* Failures after which the code does roll back, and the rollback works.   *)
RolledBack == Faults \cap {"late", "delete", "abort", "crash"} = {}

Empty(r) == \A b \in BatchNos : rows[r][b] = 0

(* Only the run that is loading, and runs that succeeded, have rows.       *)
OnlyLoads ==
    /\ pending = {}
    /\ \A r \in Runs :
          \/ Empty(r)
          \/ outcome[r] = "SUCCESS"
          \/ r = run /\ pc \in {"loading", "verifying", "verified", "rollback"}
    /\ \A r \in Runs : r > run => Empty(r) /\ outcome[r] = "none"
    /\ run \in Runs /\ pc \in {"preparing", "deciding", "failing"} => Empty(run)

CleanInv == IInv /\ OnlyLoads

(* Only loads have rows, after every step. *)
LEMMA CleanStep ==
    ASSUME RolledBack, CleanInv, [Next]_vars
    PROVE  OnlyLoads'
<1> USE DEF CleanInv, IInv, TypeOK, ControlInv, OnlyLoads, Empty, RolledBack, Goto
<1>0. MaxRuns \in Nat /\ MaxBatches \in Nat
  BY LoadPipelineAssumption
<1>1. CASE UNCHANGED vars
  BY <1>1 DEF vars
<1>2. CASE Begin
  BY <1>0, <1>2 DEF Begin, TryWrite, Runs, table
<1>3. ASSUME NEW d \in Datasets, Prepare(d) PROVE OnlyLoads'
  BY <1>3 DEF Prepare, table
<1>4. ASSUME NEW force \in BOOLEAN, Proceed(force) PROVE OnlyLoads'
  BY <1>4 DEF Proceed, table
<1>5. CASE Skip \/ FailBeforeLoad \/ Fail \/ Succeed
  <2>1. /\ run \in Runs /\ run' = run /\ pc' = "idle" /\ UNCHANGED <<rows, pending>>
        /\ \A r \in Runs \ {run} : outcome'[r] = outcome[r]
    BY <1>5 DEF Skip, FailBeforeLoad, Fail, Succeed, End, table
  <2>2. Empty(run) \/ outcome'[run] = "SUCCESS"
    BY <1>5, <2>1 DEF Skip, FailBeforeLoad, Fail, Succeed, End
  <2>3. \A r \in Runs : r > run => r \in Runs \ {run}
    BY <1>0 DEF Runs
  <2>4. QED
    BY <2>1, <2>2, <2>3
<1>6. CASE InsertBatch
  <2>1. run \in Runs /\ batch \in BatchNos
    BY <1>0, <1>6, DataOK DEF InsertBatch, BatchNos
  <2>2. QED
    BY <1>6, <2>1, LandFacts DEF InsertBatch, Runs
<1>7. CASE InsertFails
  <2>1. run \in Runs /\ batch \in BatchNos
    BY <1>0, <1>7, DataOK DEF InsertFails, BatchNos
  <2>2. pending' = {} /\ \A q \in Runs \ {run} : rows'[q] = rows[q]
    BY <1>7, <2>1, LandFacts DEF InsertFails, table
  <2>3. QED
    BY <1>7, <2>1, <2>2 DEF InsertFails, NextAttempt, Runs, retry
<1>8. CASE AllInserted \/ Verify \/ VerifyFails
  BY <1>8 DEF AllInserted, Verify, VerifyFails, table
<1>9. CASE Rollback
  <2>1. rows' = [rows EXCEPT ![run] = NoRows] /\ run \in Runs /\ run' = run
    BY <1>9 DEF Rollback
  <2>2. Empty(run)' /\ \A r \in Runs \ {run} : rows'[r] = rows[r]
    BY <2>1, NoRowsFacts
  <2>3. QED
    BY <1>9, <2>1, <2>2 DEF Rollback, Runs
<1>10. CASE Abort \/ Crash
  BY <1>10 DEF Abort, Crash
<1>11. CASE Merge
  <2>1. PICK r1 \in Runs, b1 \in BatchNos :
            Present(r1, b1) /\ rows' = [rows EXCEPT ![r1][b1] = @ - 1]
    BY <1>11 DEF Merge
  <2>2. \A r \in Runs : Empty(r) => Empty(r)'
    BY <2>1 DEF Present
  <2>3. QED
    BY <1>11, <2>2 DEF Merge
<1>12. ASSUME NEW p \in pending, LateInsert(p) PROVE OnlyLoads'
  BY <1>12
<1>13. QED
  BY <1>1, <1>2, <1>3, <1>4, <1>5, <1>6, <1>7, <1>8, <1>9, <1>10, <1>11, <1>12
  DEF Next, Step

(* Between runs readers see what the successful loads have put there, if   *)
(* runs fail only in ways the code answers with a rollback that succeeds.  *)
THEOREM LeavesNothing ==
    ASSUME RolledBack
    PROVE  Spec => []FailedRunsLeaveNothing
<1>1. Init => CleanInv
  BY InitIInv, NoRowsFacts, LoadPipelineAssumption DEF CleanInv, OnlyLoads, Empty, Init
<1>2. CleanInv /\ [Next]_vars => CleanInv'
  BY CleanStep, NextIInv DEF CleanInv
<1>3. CleanInv => FailedRunsLeaveNothing
  <2> SUFFICES ASSUME CleanInv, pc = "idle", NEW k \in Keys
               PROVE  Visible(k) = Shown(Committed, k)
    BY DEF FailedRunsLeaveNothing
  <2>1. Having(Runs, k) = Having(Committed, k)
    <3>1. \A r \in Runs : r \notin Committed => Empty(r)
      BY DEF CleanInv, OnlyLoads, Committed
    <3>2. \A r \in Runs : Empty(r) => r \notin Having(Runs, k)
      BY DEF Empty, Present, Having
    <3>3. Committed \subseteq Runs
      BY DEF Committed
    <3>4. QED
      BY <3>1, <3>2, <3>3 DEF Having
  <2>2. QED
    BY <2>1 DEF Visible, Shown
<1>4. QED
  BY <1>1, <1>2, <1>3, PTL DEF Spec

-----------------------------------------------------------------------------
(* Only inserts and queries fail: every failed load is rolled back, what is stored     *)
(* stays, and how each run ended is recorded.                                          *)
Undisturbed == RolledBack /\ Faults \cap {"merge", "metadata"} = {}

Stored(r) == data[r] \in Datasets /\ \A b \in DOMAIN data[r] : rows[r][b] > 0

(* A run under way has not ended, and a run that loads has a dataset; the runs recorded *)
(* as loads are those that succeeded, and their datasets are in the table.              *)
Recorded ==
    /\ pc # "idle" => outcome[run] = "none"
    /\ pc \notin {"idle", "preparing"} => data[run] \in Datasets
    /\ \A r \in Runs : /\ record[r] = "SUCCESS" <=> outcome[r] = "SUCCESS"
                       /\ outcome[r] = "SUCCESS" => Stored(r)

AtomicInv == PutInv /\ OnlyLoads /\ Recorded

(* A dataset's batches fit the bound, and each has natural keys of its own. *)
LEMMA DatasetFacts ==
    ASSUME NEW d \in Datasets
    PROVE  /\ Len(d) \in Nat /\ DOMAIN d = 1..Len(d) /\ DOMAIN d \subseteq BatchNos
           /\ \A b \in DOMAIN d : d[b][1] \in Keys
           /\ \A b1, b2 \in DOMAIN d : d[b1][1] = d[b2][1] => b1 = b2
<1> DEFINE Values == {d[b][2] : b \in DOMAIN d}
<1>1. /\ d \in Seq(Keys \X Values) /\ Len(d) <= MaxBatches /\ MaxBatches \in Nat
      /\ \A b1, b2 \in DOMAIN d : d[b1][1] = d[b2][1] => b1 = b2
  BY LoadPipelineAssumption
<1> HIDE DEF Values
<1>2. Len(d) \in Nat /\ DOMAIN d = 1..Len(d)
  BY <1>1, LenProperties
<1>3. \A b \in DOMAIN d : d[b][1] \in Keys
  BY <1>1, <1>2, ElementOfSeq
<1>4. QED
  BY <1>1, <1>2, <1>3 DEF BatchNos

(* Every set of runs has a newest one. *)
LEMMA Newest ==
    ASSUME NEW S \in SUBSET Runs, S # {}
    PROVE  \E r \in S : \A q \in S : q <= r
<1> DEFINE Since(r) == r..MaxRuns
           Order == StrictSubsetOrdering(Runs)
           Family == {Since(r) : r \in S}
<1>0. MaxRuns \in Nat /\ Runs = 1..MaxRuns /\ IsFiniteSet(Runs)
  <2>1. 1 \in Int /\ MaxRuns \in Int
    BY LoadPipelineAssumption
  <2>2. QED
    BY <2>1, FS_Interval, LoadPipelineAssumption DEF Runs
<1>1. IsWellFoundedOn(Order, SUBSET Runs)
  <2>1. FiniteSubsetsOf(Runs) = SUBSET Runs
    BY <1>0, FS_FiniteSubsetsOfFinite
  <2>2. QED
    BY <2>1, FS_StrictSubsetOrderingWellFounded
<1>2. Family \subseteq SUBSET Runs /\ Family # {}
  <2>1. ASSUME NEW r \in S PROVE Since(r) \in SUBSET Runs
    BY <1>0
  <2>2. QED
    BY <2>1
<1>3. PICK x \in Family : \A y \in Family : <<y, x>> \notin Order
  <2> HIDE DEF Family, Order
  <2>1. QED
    BY <1>1, <1>2, WFMin
<1>4. PICK r \in S : x = Since(r)
  OBVIOUS
<1>5. ASSUME NEW q \in S, ~(q <= r) PROVE FALSE
  <2>1. Since(q) \in Family /\ r \in Runs /\ q \in Runs
    OBVIOUS
  <2>2. Since(q) \subseteq Since(r) /\ r \in Since(r) /\ r \notin Since(q)
    BY <1>0, <1>5, <2>1
  <2>3. <<Since(q), Since(r)>> \in Order
    BY <1>0, <2>1, <2>2 DEF StrictSubsetOrdering
  <2>4. QED
    BY <1>3, <1>4, <2>1, <2>3
<1>6. QED
  BY <1>5

(* The rows and the dataset of a committed run are never touched again. *)
LEMMA CommittedStays ==
    ASSUME Undisturbed, AtomicInv, [Next]_vars, NEW r \in Committed
    PROVE  r \in Runs /\ rows'[r] = rows[r] /\ data'[r] = data[r]
<1>1. /\ TypeOK /\ ControlInv /\ pending = {} /\ r \in Runs
      /\ r = run => pc \in {"idle", "verified"}
  BY DEF AtomicInv, PutInv, IInv, OnlyLoads, Recorded, Committed
<1>2. CASE UNCHANGED <<rows, data>>
  BY <1>1, <1>2
<1>3. ASSUME NEW d \in Datasets, Prepare(d) PROVE rows'[r] = rows[r] /\ data'[r] = data[r]
  BY <1>1, <1>3 DEF Prepare, table, TypeOK
<1>4. CASE InsertBatch \/ InsertFails
  <2>1. pc = "loading" /\ batch <= Len(data[run]) /\ UNCHANGED data
        /\ (UNCHANGED rows \/ Land(run, batch))
    BY <1>4 DEF InsertBatch, InsertFails, table
  <2>2. run \in Runs /\ batch \in BatchNos
    <3>1. run \in Runs /\ batch \in 1..(MaxBatches + 1) /\ MaxBatches \in Nat
      BY <1>1, <2>1, LoadPipelineAssumption DEF TypeOK, ControlInv
    <3>2. Len(data[run]) \in 0..MaxBatches
      BY <1>1, <3>1, DataOK
    <3>3. QED
      BY <2>1, <3>1, <3>2 DEF BatchNos
  <2>3. r # run
    BY <1>1, <2>1
  <2>4. QED
    BY <1>1, <2>1, <2>2, <2>3, LandFacts
<1>5. CASE Rollback
  BY <1>1, <1>5 DEF Rollback, TypeOK
<1>6. CASE ~ \/ \E d \in Datasets : Prepare(d)
             \/ InsertBatch \/ InsertFails \/ Rollback
  BY <1>1, <1>2, <1>6 DEF Next, Step, vars, table, Undisturbed, Begin, Proceed, Skip,
     FailBeforeLoad, AllInserted, Verify, VerifyFails, Fail, Succeed, Abort, Crash, Merge
<1>7. QED
  BY <1>1, <1>3, <1>4, <1>5, <1>6

(* Every step keeps outcomes, records and stored datasets in agreement. *)
LEMMA RecordedStep ==
    ASSUME Undisturbed, AtomicInv, [Next]_vars
    PROVE  Recorded'
<1>0. /\ TypeOK /\ ControlInv /\ OnlyLoads /\ Recorded /\ Complete /\ pending = {}
      /\ "abort" \notin Faults /\ "crash" \notin Faults
      /\ "merge" \notin Faults /\ "metadata" \notin Faults
  BY DEF AtomicInv, PutInv, IInv, OnlyLoads, Undisturbed, RolledBack
<1>a. ASSUME NEW r \in Runs, outcome[r] = "SUCCESS"
      PROVE  Stored(r)'
  <2>1. r \in Committed /\ Stored(r)
    BY <1>0, <1>a DEF Committed, Recorded
  <2>2. rows'[r] = rows[r] /\ data'[r] = data[r]
    BY <2>1, CommittedStays
  <2>3. QED
    BY <2>1, <2>2 DEF Stored
<1>b. ASSUME UNCHANGED <<run, outcome, record>>,
             pc' # "idle" => pc # "idle",
             pc' \notin {"idle", "preparing"} => data'[run] \in Datasets
      PROVE  Recorded'
  BY <1>0, <1>a, <1>b DEF Recorded
<1>1. CASE UNCHANGED vars
  BY <1>0, <1>b, <1>1 DEF vars, Recorded
<1>2. CASE Begin
  <2>1. /\ run' = run + 1 /\ run' \in Runs /\ pc' = "preparing" /\ UNCHANGED <<data, outcome>>
        /\ record' = [record EXCEPT ![run + 1] = "RUNNING"]
    BY <1>0, <1>2, LoadPipelineAssumption DEF Begin, TryWrite, Goto, Runs, TypeOK
  <2>2. outcome[run + 1] = "none" /\ run + 1 \in Runs
    BY <1>0, <2>1, LoadPipelineAssumption DEF OnlyLoads, TypeOK
  <2>3. \A r \in Runs : record'[r] = "SUCCESS" <=> outcome'[r] = "SUCCESS"
    BY <1>0, <2>1, <2>2 DEF Recorded, TypeOK
  <2>4. QED
    BY <1>a, <2>1, <2>2, <2>3 DEF Recorded
<1>3. ASSUME NEW d \in Datasets, Prepare(d) PROVE Recorded'
  BY <1>0, <1>b, <1>3 DEF Prepare, Goto, TypeOK, ControlInv
<1>4. CASE \/ \E force \in BOOLEAN : Proceed(force)
           \/ InsertBatch \/ AllInserted \/ InsertFails \/ Verify \/ VerifyFails \/ Rollback
  <2>1. /\ pc \notin {"idle", "preparing"} /\ UNCHANGED <<run, outcome, record, data>>
    BY <1>4 DEF Proceed, InsertBatch, AllInserted, InsertFails, Verify, VerifyFails, Rollback
  <2>2. QED
    BY <1>0, <1>b, <2>1 DEF Recorded
<1>5. CASE Skip \/ FailBeforeLoad \/ Fail \/ Succeed
  <2>1. PICK status \in {"SKIPPED", "FAILED", "SUCCESS"} :
            End(status) /\ (status = "SUCCESS" => Succeed)
    BY <1>5 DEF Skip, FailBeforeLoad, Fail, Succeed
  <2>2. run \in Runs /\ UNCHANGED <<run, data, rows>> /\ pc' = "idle"
    BY <1>0, <1>5, <2>1 DEF ControlInv, End, Goto, Skip, FailBeforeLoad, Fail, Succeed, table
  <2>3. /\ outcome' = [outcome EXCEPT ![run] = status]
        /\ record' = [record EXCEPT ![run] = status]
    BY <1>0, <2>1 DEF End, TryWrite
  <2>4. \A r \in Runs : record'[r] = "SUCCESS" <=> outcome'[r] = "SUCCESS"
    BY <1>0, <2>3 DEF Recorded, TypeOK
  <2>5. ASSUME status = "SUCCESS" PROVE Stored(run)'
    <3>1. pc = "verified" /\ data[run] \in Datasets
      BY <1>0, <2>1, <2>5 DEF Succeed, Recorded
    <3>2. \A b \in DOMAIN data[run] : rows[run][b] > 0
      BY <1>0, <3>1, DatasetFacts DEF Complete, Put
    <3>3. QED
      BY <2>2, <3>1, <3>2 DEF Stored
  <2>6. \A r \in Runs : outcome'[r] = "SUCCESS" => Stored(r)'
    <3>1. ASSUME NEW r \in Runs, outcome'[r] = "SUCCESS" PROVE Stored(r)'
      <4>1. CASE r = run
        BY <1>0, <2>2, <2>3, <2>5, <3>1, <4>1 DEF TypeOK, Stored
      <4>2. CASE r # run
        BY <1>0, <1>a, <2>3, <3>1, <4>2 DEF TypeOK
      <4>3. QED
        BY <4>1, <4>2
    <3>2. QED
      BY <3>1
  <2>7. QED
    BY <2>2, <2>4, <2>6 DEF Recorded
<1>6. QED
  BY <1>0, <1>1, <1>2, <1>3, <1>4, <1>5 DEF Next, Step, Abort, Crash, Merge

(* In every reachable state the successful runs, and only they, are recorded as loads  *)
(* and stored.                                                                         *)
LEMMA AtomicHolds ==
    ASSUME Undisturbed
    PROVE  Spec => []AtomicInv
<1>1. Init => PutInv /\ OnlyLoads
  BY InitIInv, NoRowsFacts, LoadPipelineAssumption
  DEF PutInv, Known, Complete, OnlyLoads, Empty, Init
<1>2. Init => Recorded
  BY DEF Recorded, Init
<1>3. AtomicInv /\ [Next]_vars => AtomicInv'
  BY PutStep, CleanStep, RecordedStep, NextIInv
  DEF AtomicInv, PutInv, CleanInv, Undisturbed
<1>4. QED
  BY <1>1, <1>2, <1>3, PTL DEF Spec, AtomicInv

-----------------------------------------------------------------------------
(* What readers see of the committed runs, and the committed runs that have rows of k. *)
Table    == [k \in Keys |-> Shown(Committed, k)]
Carry(k) == {r \in Committed : \E b \in DOMAIN data[r] : KeyOf(r, b) = k}

(* For each key, the newest committed run that has rows of it is the one readers see.  *)
ReadsNewest ==
    \A k \in Keys :
        /\ Carry(k) = {} => Table[k] = NoRow
        /\ \A r \in Carry(k) : \A b \in DOMAIN data[r] :
              KeyOf(r, b) = k /\ (\A q \in Carry(k) : q <= r) => Table[k] = ValueOf(r, b)

(* A committed run has the rows of each batch of its dataset. *)
LEMMA CommittedIsStored ==
    ASSUME AtomicInv, NEW r \in Committed
    PROVE  r \in Runs /\ r <= run /\ Stored(r)
<1>1. CASE outcome[r] = "SUCCESS"
  BY <1>1, LoadPipelineAssumption
  DEF Committed, AtomicInv, Recorded, OnlyLoads, PutInv, IInv, TypeOK, Runs
<1>2. CASE r = run /\ pc = "verified"
  <2>1. r \in Runs /\ data[r] \in Datasets /\ \A b \in 1..Len(data[r]) : Put(b)
    BY <1>2 DEF Committed, AtomicInv, Recorded, PutInv, Complete
  <2>2. \A b \in DOMAIN data[r] : rows[r][b] > 0
    BY <1>2, <2>1, DatasetFacts DEF Put
  <2>3. QED
    BY <1>2, <2>1, <2>2 DEF Stored, Runs
<1>3. QED
  BY <1>1, <1>2 DEF Committed

(* The same of all committed runs, as a property of a state. *)
LEMMA CommittedAreStored == AtomicInv => \A r \in Committed : Stored(r)
  BY CommittedIsStored

(* So the rows readers see are those of the newest committed run that has the key.     *)
LEMMA NewestIsRead == AtomicInv => ReadsNewest
<1> SUFFICES ASSUME AtomicInv, NEW k \in Keys
             PROVE  /\ Carry(k) = {} => Table[k] = NoRow
                    /\ \A r \in Carry(k) : \A b \in DOMAIN data[r] :
                          KeyOf(r, b) = k /\ (\A q \in Carry(k) : q <= r)
                          => Table[k] = ValueOf(r, b)
  BY DEF ReadsNewest
<1>1. Table[k] = Shown(Committed, k)
  BY DEF Table
<1>2. ASSUME NEW r \in Committed, NEW b PROVE Present(r, b) <=> b \in DOMAIN data[r]
  BY CommittedIsStored DEF Present, Stored
<1>3. \A r \in Committed : data[r] \in Datasets /\ r \in Nat
  BY CommittedIsStored DEF Stored, Runs
<1>4. Having(Committed, k) = Carry(k)
  <2>1. \A r \in Committed : DOMAIN data[r] \subseteq BatchNos
    BY <1>3, DatasetFacts
  <2>2. QED
    BY <1>2, <2>1 DEF Having, Carry
<1>5. ASSUME Carry(k) = {} PROVE Table[k] = NoRow
  BY <1>1, <1>4, <1>5 DEF Shown
<1>6. ASSUME NEW r \in Carry(k), NEW b \in DOMAIN data[r],
             KeyOf(r, b) = k, \A q \in Carry(k) : q <= r
      PROVE  Table[k] = ValueOf(r, b)
  <2> DEFINE newest == CHOOSE n \in Having(Committed, k) :
                            \A r2 \in Having(Committed, k) : r2 <= n
             shown == CHOOSE c \in BatchNos : Present(newest, c) /\ KeyOf(newest, c) = k
  <2>1. r \in Committed /\ b \in BatchNos /\ Present(r, b)
    BY <1>2, <1>3, DatasetFacts DEF Carry
  <2>2. newest = r
    <3>1. \A n \in Having(Committed, k) :
              (\A r2 \in Having(Committed, k) : r2 <= n) => n = r
      BY <1>3, <1>4, <1>6 DEF Carry
    <3>2. r \in Having(Committed, k) /\ \A r2 \in Having(Committed, k) : r2 <= r
      BY <1>4, <1>6
    <3>3. QED
      BY <3>1, <3>2
  <2>3. shown \in BatchNos /\ Present(newest, shown) /\ KeyOf(newest, shown) = k
    BY <1>6, <2>1, <2>2
  <2>4. Shown(Committed, k) = ValueOf(newest, shown)
    BY <1>4, <1>6 DEF Shown
  <2> HIDE DEF newest, shown
  <2>5. shown = b
    BY <1>2, <1>3, <1>6, <2>1, <2>2, <2>3, DatasetFacts DEF KeyOf
  <2>6. QED
    BY <1>1, <2>2, <2>4, <2>5
<1>7. QED
  BY <1>5, <1>6

(* Unless a load is under way, the table has only rows of committed runs. *)
LoadingAt == {"loading", "verifying", "rollback"}

LEMMA OnlyCommittedIsVisible ==
    ASSUME AtomicInv, pc \notin LoadingAt, NEW k \in Keys
    PROVE  Visible(k) = Table[k]
<1>1. Having(Runs, k) = Having(Committed, k)
  <2>1. \A r \in Runs : r \notin Committed => Empty(r)
    BY DEF AtomicInv, OnlyLoads, Committed, LoadingAt
  <2>2. \A r \in Runs : Empty(r) => r \notin Having(Runs, k)
    BY DEF Empty, Present, Having
  <2>3. Committed \subseteq Runs
    BY DEF Committed
  <2>4. QED
    BY <2>1, <2>2, <2>3 DEF Having
<1>2. QED
  BY <1>1 DEF Visible, Shown, Table

(* A run that skips its load finds the whole of its data in the table, and a run that  *)
(* was verified has put it there.                                                      *)
LEMMA DataIsRead ==
    ASSUME AtomicInv, (pc = "deciding" /\ IsDuplicate) \/ pc = "verified",
           NEW b \in DOMAIN data[run]
    PROVE  KeyOf(run, b) \in Keys /\ Table[KeyOf(run, b)] = ValueOf(run, b)
<1>1. run \in Runs /\ data[run] \in Datasets
  BY DEF AtomicInv, PutInv, IInv, ControlInv, Recorded
<1>2. PICK r \in Committed : data[r] = data[run] /\ \A q \in Committed : q <= r
  <2>1. CASE pc = "verified"
    BY <1>1, <2>1, CommittedIsStored DEF Committed
  <2>2. CASE pc = "deciding" /\ IsDuplicate
    <3>1. Loads = Committed
      BY <2>2 DEF Loads, Committed, AtomicInv, Recorded
    <3>2. Loads # {} /\ Loads \subseteq Runs /\ data[LatestLoad] = data[run]
      BY <2>2 DEF IsDuplicate, Loads
    <3>3. \E r \in Loads : \A q \in Loads : q <= r
      BY <3>2, Newest
    <3>4. LatestLoad \in Loads /\ \A q \in Loads : q <= LatestLoad
      BY <3>3 DEF LatestLoad
    <3>5. QED
      BY <3>1, <3>2, <3>4
  <2>3. QED
    BY <2>1, <2>2
<1>3. KeyOf(run, b) \in Keys
  BY <1>1, DatasetFacts DEF KeyOf
<1>4. r \in Carry(KeyOf(run, b)) /\ KeyOf(r, b) = KeyOf(run, b)
  BY <1>2 DEF Carry, KeyOf
<1>5. \A q \in Carry(KeyOf(run, b)) : q <= r
  BY <1>2 DEF Carry
<1>6. Table[KeyOf(run, b)] = ValueOf(r, b)
  BY <1>2, <1>3, <1>4, <1>5, NewestIsRead DEF ReadsNewest
<1>7. QED
  BY <1>2, <1>3, <1>6 DEF ValueOf

(* A run ends ok only by the steps Succeed and Skip. *)
LEMMA OkIsSucceedOrSkip ==
    ASSUME AtomicInv, [Next]_vars, NEW r \in Runs, outcome[r] = "none",
           outcome'[r] \in {"SUCCESS", "SKIPPED"}
    PROVE  r = run /\ \/ pc = "deciding" /\ IsDuplicate
                      \/ pc = "verified"
<1>1. TypeOK
  BY DEF AtomicInv, PutInv, IInv
<1>2. CASE Skip \/ Succeed
  BY <1>1, <1>2 DEF Skip, Succeed, End, TypeOK
<1>3. CASE FailBeforeLoad \/ Fail \/ Abort \/ Crash
  BY <1>1, <1>3 DEF FailBeforeLoad, Fail, Abort, Crash, End, TypeOK
<1>4. CASE UNCHANGED outcome
  BY <1>4
<1>5. QED
  BY <1>2, <1>3, <1>4 DEF Next, Step, vars, table, Begin, Prepare, Proceed, InsertBatch,
     AllInserted, InsertFails, Verify, VerifyFails, Rollback, Merge, LateInsert

(* A run that ends ok, loaded or skipped as a duplicate of the latest load (pipeline.py *)
(* and latest_load), has its data where readers see it, if only inserts and queries     *)
(* fail: a merge or a lost record can leave a skipped run's data replaced.              *)
THEOREM OkMeansVisible ==
    ASSUME Undisturbed
    PROVE  Spec => OkRunsAreVisible
<1>1. ASSUME AtomicInv, [Next]_vars, NEW r \in Runs, outcome[r] = "none",
             outcome'[r] \in {"SUCCESS", "SKIPPED"}, NEW b \in DOMAIN data[r]
      PROVE  Visible(KeyOf(r, b)) = ValueOf(r, b)
  <2>1. r = run /\ ((pc = "deciding" /\ IsDuplicate) \/ pc = "verified")
    BY <1>1, OkIsSucceedOrSkip
  <2>2. KeyOf(run, b) \in Keys /\ Table[KeyOf(run, b)] = ValueOf(run, b)
    BY <1>1, <2>1, DataIsRead
  <2>3. QED
    BY <1>1, <2>1, <2>2, OnlyCommittedIsVisible DEF LoadingAt
<1>2. AtomicInv /\ [Next]_vars
      => [\A r \in Runs :
              outcome[r] = "none" /\ outcome'[r] \in {"SUCCESS", "SKIPPED"}
              => \A b \in DOMAIN data[r] : Visible(KeyOf(r, b)) = ValueOf(r, b)]_vars
  BY <1>1
<1>3. QED
  BY AtomicHolds, <1>2, PTL DEF Spec, OkRunsAreVisible
-----------------------------------------------------------------------------
(* How the runs ended, as AtomicLoad is to see it: a verified run has succeeded. *)
Result == [r \in Runs |-> IF r \in Committed THEN "SUCCESS" ELSE outcome[r]]

(* What a step does to the committed runs: verification adds the run; a run that ends  *)
(* otherwise was not one of them; and nothing else changes how runs ended.             *)
LEMMA CommittedNext ==
    ASSUME Undisturbed, AtomicInv, [Next]_vars
    PROVE  \/ /\ Verify /\ run \in Runs /\ run \notin Committed
              /\ Committed' = Committed \cup {run} /\ UNCHANGED <<outcome, data>>
           \/ /\ Skip \/ FailBeforeLoad \/ Fail
              /\ run \in Runs /\ run \notin Committed /\ Committed' = Committed
              /\ \E status \in {"SKIPPED", "FAILED"} :
                    /\ outcome' = [outcome EXCEPT ![run] = status]
                    /\ status = "SKIPPED" => pc = "deciding" /\ IsDuplicate
           \/ Committed' = Committed /\ Result' = Result
<1>0. /\ TypeOK /\ Recorded /\ ControlInv
      /\ "abort" \notin Faults /\ "crash" \notin Faults
  BY DEF AtomicInv, PutInv, IInv, Undisturbed, RolledBack
<1>1. CASE UNCHANGED <<outcome, run>> /\ pc # "verified" /\ pc' # "verified"
  BY <1>1 DEF Committed, Result
<1>2. CASE UNCHANGED vars
  BY <1>2 DEF Committed, Result, vars
<1>3. CASE Begin
  BY <1>3 DEF Begin, Goto, Committed, Result
<1>4. CASE Verify
  <2>1. /\ pc = "verifying" /\ pc' = "verified" /\ UNCHANGED <<run, outcome, data>>
    BY <1>4 DEF Verify, Goto
  <2>2. run \in Runs /\ outcome[run] = "none"
    BY <1>0, <2>1 DEF ControlInv, Recorded
  <2>3. QED
    BY <1>4, <2>1, <2>2 DEF Committed
<1>5. CASE Skip \/ FailBeforeLoad \/ Fail
  <2>1. PICK status \in {"SKIPPED", "FAILED"} :
            End(status) /\ (status = "SKIPPED" => Skip)
    BY <1>5 DEF Skip, FailBeforeLoad, Fail
  <2>2. /\ pc \notin {"idle", "verified"} /\ pc' = "idle"
        /\ outcome' = [outcome EXCEPT ![run] = status]
    BY <1>5, <2>1 DEF Skip, FailBeforeLoad, Fail, End, Goto
  <2>3. run \in Runs /\ outcome[run] = "none"
    BY <1>0, <2>2 DEF ControlInv, Recorded
  <2>4. Committed' = Committed /\ run \notin Committed
    BY <1>0, <2>2, <2>3 DEF Committed, TypeOK
  <2>5. QED
    BY <1>5, <2>1, <2>2, <2>3, <2>4 DEF Skip
<1>6. CASE Succeed
  <2>1. /\ pc = "verified" /\ pc' = "idle"
        /\ outcome' = [outcome EXCEPT ![run] = "SUCCESS"]
    BY <1>6 DEF Succeed, End, Goto
  <2>2. run \in Runs
    BY <1>0, <2>1 DEF ControlInv
  <2>3. Committed' = Committed
    BY <1>0, <2>1, <2>2 DEF Committed, TypeOK
  <2>4. Result' = Result
    BY <1>0, <2>1, <2>2, <2>3 DEF Result, Committed, TypeOK
  <2>5. QED
    BY <2>3, <2>4
<1>7. ASSUME \/ (\E d \in Datasets : Prepare(d)) \/ (\E force \in BOOLEAN : Proceed(force))
             \/ InsertBatch \/ AllInserted \/ InsertFails \/ VerifyFails \/ Rollback
      PROVE  UNCHANGED <<outcome, run>> /\ pc # "verified" /\ pc' # "verified"
  BY <1>7 DEF Prepare, Proceed, InsertBatch, AllInserted, InsertFails, NextAttempt, VerifyFails,
     Rollback, Goto
<1>8. ASSUME Merge \/ \E p \in pending : LateInsert(p)
      PROVE  UNCHANGED <<outcome, run, pc>>
  BY <1>8 DEF Merge, LateInsert
<1>9. CASE UNCHANGED <<outcome, run, pc>>
  BY <1>9 DEF Committed, Result
<1>10. QED
  BY <1>0, <1>1, <1>2, <1>3, <1>4, <1>5, <1>6, <1>7, <1>8, <1>9 DEF Next, Step, Abort, Crash

(* While no run is committed, readers see the same. *)
LEMMA SameTable ==
    ASSUME Undisturbed, AtomicInv, AtomicInv', [Next]_vars, Committed' = Committed
    PROVE  Table' = Table
<1>1. ReadsNewest /\ ReadsNewest'
  BY NewestIsRead, PTL
<1>2. \A r \in Committed : r \in Runs /\ data'[r] = data[r]
  BY CommittedStays
<1>3. ASSUME NEW k \in Keys PROVE Table'[k] = Table[k]
  <2>1. Carry(k)' = Carry(k)
    BY <1>2 DEF Carry, KeyOf
  <2>2. CASE Carry(k) = {}
    BY <1>1, <2>1, <2>2 DEF ReadsNewest
  <2>3. CASE Carry(k) # {}
    <3>1. Carry(k) \in SUBSET Runs
      BY <1>2 DEF Carry
    <3>2. PICK r \in Carry(k) : \A q \in Carry(k) : q <= r
      BY <2>3, <3>1, Newest
    <3>3. PICK b \in DOMAIN data[r] : KeyOf(r, b) = k
      BY DEF Carry
    <3>4. r \in Committed /\ data'[r] = data[r]
      BY <1>2 DEF Carry
    <3>5. Table[k] = data[r][b][2]
      BY <1>1, <3>2, <3>3 DEF ReadsNewest, ValueOf
    <3>6. Table'[k] = data'[r][b][2]
      BY <1>1, <2>1, <3>2, <3>3, <3>4 DEF ReadsNewest, ValueOf, KeyOf
    <3>7. QED
      BY <3>4, <3>5, <3>6
  <2>4. QED
    BY <2>2, <2>3
<1>4. QED
  BY <1>3 DEF Table
(* Once its load is verified, readers see a run's rows for the keys of its dataset, and *)
(* what they saw before for the others.                                                 *)
LEMMA VerifiedTable ==
    ASSUME AtomicInv, AtomicInv', [Next]_vars, UNCHANGED data,
           run \in Runs, run \notin Committed, Committed' = Committed \cup {run}
    PROVE  Table' = Promise!Overwrite(Table, data[run])
<1>1. ReadsNewest /\ ReadsNewest'
  BY NewestIsRead, PTL
<1>2. data[run] \in Datasets /\ \A r \in Committed : r \in Runs /\ r <= run
  <2>1. run \in Committed' /\ data'[run] = data[run]
    OBVIOUS
  <2>2. (\A r \in Committed : Stored(r))'
    BY CommittedAreStored, PTL
  <2>3. QED
    BY <2>1, <2>2, CommittedIsStored DEF Stored
<1>3. \A b1, b2 \in DOMAIN data[run] : data[run][b1][1] = data[run][b2][1] => b1 = b2
  BY <1>2, DatasetFacts
<1>4. ASSUME NEW k \in Keys
      PROVE  Table'[k] = IF \E b \in DOMAIN data[run] : data[run][b][1] = k
                         THEN data[run][CHOOSE b \in DOMAIN data[run] : data[run][b][1] = k][2]
                         ELSE Table[k]
  <2>1. CASE \E b \in DOMAIN data[run] : data[run][b][1] = k
    <3> DEFINE c == CHOOSE b \in DOMAIN data[run] : data[run][b][1] = k
    <3>1. c \in DOMAIN data[run] /\ data[run][c][1] = k
      BY <2>1
    <3> HIDE DEF c
    <3>2. run \in Carry(k)' /\ \A q \in Carry(k)' : q <= run
      BY <1>2, <3>1 DEF Carry, KeyOf, Runs
    <3>3. Table'[k] = data[run][c][2]
      BY <1>1, <3>1, <3>2 DEF ReadsNewest, KeyOf, ValueOf
    <3>4. QED
      BY <2>1, <3>3 DEF c
  <2>2. CASE ~ \E b \in DOMAIN data[run] : data[run][b][1] = k
    <3>1. Carry(k)' = Carry(k)
      BY <2>2 DEF Carry, KeyOf
    <3>2. CASE Carry(k) = {}
      BY <1>1, <2>2, <3>1, <3>2 DEF ReadsNewest
    <3>3. CASE Carry(k) # {}
      <4>1. Carry(k) \in SUBSET Runs
        BY <1>2 DEF Carry
      <4>2. PICK r \in Carry(k) : \A q \in Carry(k) : q <= r
        BY <3>3, <4>1, Newest
      <4>3. PICK b \in DOMAIN data[r] : KeyOf(r, b) = k
        BY DEF Carry
      <4>4. Table[k] = data[r][b][2]
        BY <1>1, <4>2, <4>3 DEF ReadsNewest, ValueOf
      <4>5. Table'[k] = data[r][b][2]
        BY <1>1, <3>1, <4>2, <4>3 DEF ReadsNewest, ValueOf, KeyOf
      <4>6. QED
        BY <2>2, <4>4, <4>5
    <3>4. QED
      BY <3>2, <3>3
  <2>3. QED
    BY <2>1, <2>2
<1>5. QED
  BY <1>4 DEF Table, Promise!Overwrite

(* What readers see, and the dataset of the load under way. *)
Seen    == [k \in Keys |-> Visible(k)]
Loading == IF pc \in LoadingAt THEN data[run] ELSE <<>>

(* Between loads readers see what the committed runs have put there. *)
Underway   == pc \in LoadingAt
SeeSettled == ~Underway => Seen = Table

LEMMA SettledIsSeen == AtomicInv => SeeSettled
  BY OnlyCommittedIsVisible DEF Seen, Table, Underway, SeeSettled

(* During a load readers see its batches that are in the table already, and elsewhere   *)
(* what they saw before it.                                                             *)
LoadIsSeen ==
    Underway => \A k \in Keys :
        /\ (\A b \in DOMAIN data[run] : KeyOf(run, b) = k => rows[run][b] = 0)
           => Seen[k] = Table[k]
        /\ \A b \in DOMAIN data[run] :
              KeyOf(run, b) = k /\ rows[run][b] > 0 => Seen[k] = ValueOf(run, b)

LEMMA LoadShows == AtomicInv => LoadIsSeen
<1> SUFFICES ASSUME AtomicInv, pc \in LoadingAt, NEW k \in Keys
             PROVE  /\ (\A b \in DOMAIN data[run] : KeyOf(run, b) = k => rows[run][b] = 0)
                       => Seen[k] = Table[k]
                    /\ \A b \in DOMAIN data[run] :
                          KeyOf(run, b) = k /\ rows[run][b] > 0 => Seen[k] = ValueOf(run, b)
  BY DEF LoadIsSeen, Underway
<1>1. /\ run \in Runs /\ run \notin Committed /\ data[run] \in Datasets
      /\ rows \in [Runs -> [BatchNos -> Nat]]
  BY DEF AtomicInv, PutInv, IInv, TypeOK, ControlInv, Recorded, Committed, LoadingAt
<1>2. /\ DOMAIN data[run] \subseteq BatchNos
      /\ \A b1, b2 \in DOMAIN data[run] : KeyOf(run, b1) = KeyOf(run, b2) => b1 = b2
  BY <1>1, DatasetFacts DEF KeyOf
<1>3. \A r \in Runs : r \notin Committed /\ r # run => Empty(r)
  BY DEF AtomicInv, OnlyLoads, Committed, LoadingAt
<1>4. Committed \subseteq Runs /\ \A r \in Committed : r <= run
  BY CommittedIsStored
<1>5. \A r \in Having(Runs, k) : r \in Having(Committed, k) \/ r = run
  <2>1. \A r \in Runs : Empty(r) => r \notin Having(Runs, k)
    BY DEF Empty, Present, Having
  <2>2. QED
    BY <1>3, <2>1 DEF Having
<1>6. Seen[k] = Visible(k) /\ Table[k] = Shown(Committed, k)
  BY DEF Seen, Table
<1>7. ASSUME \A b \in DOMAIN data[run] : KeyOf(run, b) = k => rows[run][b] = 0
      PROVE  Seen[k] = Table[k]
  <2>1. run \notin Having(Runs, k)
    BY <1>1, <1>7 DEF Having, Present
  <2>2. Having(Runs, k) = Having(Committed, k)
    BY <1>4, <1>5, <2>1 DEF Having
  <2>3. QED
    BY <1>6, <2>2 DEF Visible, Shown
<1>8. ASSUME NEW b \in DOMAIN data[run], KeyOf(run, b) = k, rows[run][b] > 0
      PROVE  Seen[k] = ValueOf(run, b)
  <2> DEFINE newest == CHOOSE n \in Having(Runs, k) : \A r2 \in Having(Runs, k) : r2 <= n
             shown == CHOOSE c \in BatchNos : Present(newest, c) /\ KeyOf(newest, c) = k
  <2>1. Present(run, b) /\ b \in BatchNos
    BY <1>2, <1>8 DEF Present
  <2>2. run \in Having(Runs, k) /\ \A r2 \in Having(Runs, k) : r2 <= run /\ r2 \in Nat
    <3>1. run \in Having(Runs, k)
      BY <1>1, <1>8, <2>1 DEF Having
    <3>2. \A r2 \in Having(Runs, k) : r2 \in Nat /\ (r2 \in Committed \/ r2 = run)
      BY <1>5 DEF Having, Runs
    <3>3. run <= run
      BY <1>1 DEF Runs
    <3>4. QED
      BY <1>4, <3>1, <3>2, <3>3
  <2>3. newest = run
    <3>1. \A n \in Having(Runs, k) : (\A r2 \in Having(Runs, k) : r2 <= n) => n = run
      BY <2>2
    <3>2. QED
      BY <2>2, <3>1
  <2>4. shown \in BatchNos /\ Present(newest, shown) /\ KeyOf(newest, shown) = k
    BY <1>8, <2>1, <2>3
  <2>5. Shown(Runs, k) = ValueOf(newest, shown)
    BY <2>2 DEF Shown
  <2> HIDE DEF newest, shown
  <2>6. shown = b
    BY <1>2, <1>8, <2>3, <2>4 DEF Present
  <2>7. QED
    BY <1>6, <2>3, <2>5, <2>6 DEF Visible
<1>9. QED
  BY <1>7, <1>8

(* An insert that reaches the server makes its batch visible, or changes nothing. *)
LEMMA InsertShows ==
    ASSUME AtomicInv, AtomicInv', pc = "loading", pc' \in LoadingAt, Table' = Table,
           batch <= Len(data[run]), Land(run, batch), UNCHANGED <<run, data>>
    PROVE  /\ batch \in DOMAIN data[run]
           /\ Seen' = [Seen EXCEPT ![data[run][batch][1]] = data[run][batch][2]]
<1>1. LoadIsSeen /\ LoadIsSeen' /\ Underway /\ Underway'
  <2>1. LoadIsSeen /\ LoadIsSeen'
    BY LoadShows, PTL
  <2>2. QED
    BY <2>1 DEF Underway, LoadingAt
<1>2. /\ run \in Runs /\ batch \in BatchNos /\ rows'[run][batch] > 0
      /\ rows \in [Runs -> [BatchNos -> Nat]] /\ data[run] \in Datasets
  BY LoadLands DEF AtomicInv, PutInv, IInv, TypeOK, Recorded
<1>3. /\ batch \in DOMAIN data[run] /\ DOMAIN data[run] \subseteq BatchNos
      /\ \A b \in DOMAIN data[run] : KeyOf(run, b) \in Keys
      /\ \A b1, b2 \in DOMAIN data[run] : KeyOf(run, b1) = KeyOf(run, b2) => b1 = b2
  BY <1>2, DatasetFacts DEF KeyOf, BatchNos
<1>4. \A b \in BatchNos : b # batch => rows'[run][b] = rows[run][b]
  BY <1>2 DEF Land
<1>5. ASSUME NEW k \in Keys
      PROVE  Seen'[k] = IF k = data[run][batch][1] THEN data[run][batch][2] ELSE Seen[k]
  <2>1. CASE k = data[run][batch][1]
    <3>1. PICK b \in DOMAIN data[run] : b = batch
      BY <1>3
    <3>2. KeyOf(run, b)' = k /\ ValueOf(run, b)' = data[run][b][2] /\ rows'[run][b] > 0
      BY <1>2, <2>1, <3>1 DEF KeyOf, ValueOf
    <3>3. Seen'[k] = ValueOf(run, b)'
      BY <1>1, <3>1, <3>2 DEF LoadIsSeen
    <3>4. QED
      BY <2>1, <3>1, <3>2, <3>3
  <2>2. CASE k # data[run][batch][1]
    <3>1. \A b \in DOMAIN data[run] : /\ KeyOf(run, b)' = KeyOf(run, b)
                                      /\ ValueOf(run, b)' = ValueOf(run, b)
                                      /\ KeyOf(run, b) = k => rows'[run][b] = rows[run][b]
      BY <1>3, <1>4, <2>2 DEF KeyOf, ValueOf
    <3>2. CASE \E b \in DOMAIN data[run] : KeyOf(run, b) = k /\ rows[run][b] > 0
      <4>1. PICK b \in DOMAIN data[run] : KeyOf(run, b) = k /\ rows[run][b] > 0
        BY <3>2
      <4>2. Seen[k] = ValueOf(run, b)
        BY <1>1, <4>1 DEF LoadIsSeen
      <4>3. KeyOf(run, b)' = k /\ rows'[run][b] > 0 /\ ValueOf(run, b)' = ValueOf(run, b)
        BY <3>1, <4>1
      <4>4. Seen'[k] = ValueOf(run, b)'
        BY <1>1, <4>1, <4>3 DEF LoadIsSeen
      <4>5. QED
        BY <2>2, <4>2, <4>3, <4>4
    <3>3. CASE ~ \E b \in DOMAIN data[run] : KeyOf(run, b) = k /\ rows[run][b] > 0
      <4>1. \A b \in DOMAIN data[run] : KeyOf(run, b) = k => rows[run][b] = 0
        BY <1>2, <1>3, <3>3
      <4>2. \A b \in DOMAIN data[run] : KeyOf(run, b)' = k => rows'[run][b] = 0
        BY <3>1, <4>1
      <4>3. Seen[k] = Table[k] /\ Seen'[k] = Table'[k]
        BY <1>1, <4>1, <4>2 DEF LoadIsSeen
      <4>4. QED
        BY <2>2, <4>3
    <3>4. QED
      BY <3>2, <3>3
  <2>3. QED
    BY <2>1, <2>2
<1>6. QED
  BY <1>3, <1>5 DEF Seen

(* When a load is verified, readers see its whole dataset, over what they saw before.   *)
LEMMA VerifiedIsSeen ==
    ASSUME AtomicInv, pc = "verifying"
    PROVE  Seen = Promise!Overwrite(Table, data[run])
<1>1. LoadIsSeen /\ Underway
  BY LoadShows DEF LoadingAt, Underway
<1>2. run \in Runs /\ data[run] \in Datasets
  BY DEF AtomicInv, PutInv, IInv, ControlInv, Recorded
<1>3. \A b \in DOMAIN data[run] : rows[run][b] > 0
  BY <1>2, DatasetFacts DEF AtomicInv, PutInv, Complete, Put
<1>4. ASSUME NEW k \in Keys
      PROVE  Seen[k] = IF \E b \in DOMAIN data[run] : data[run][b][1] = k
                       THEN data[run][CHOOSE b \in DOMAIN data[run] : data[run][b][1] = k][2]
                       ELSE Table[k]
  BY <1>1, <1>3 DEF LoadIsSeen, KeyOf, ValueOf
<1>5. QED
  BY <1>4 DEF Seen, Promise!Overwrite

(* A step that ends no run and verifies none commits none. *)
LEMMA CommittedSame ==
    ASSUME UNCHANGED <<outcome, run>>, pc # "verified", pc' # "verified"
    PROVE  Committed' = Committed /\ Result' = Result
  BY DEF Committed, Result

(* The steps of a load: it starts, its batches appear, its rollback takes them back and *)
(* its verification completes it.                                                       *)
LEMMA LoadSteps ==
    ASSUME Undisturbed, AtomicInv, AtomicInv', [Next]_vars,
           \/ \E force \in BOOLEAN : Proceed(force)
           \/ InsertBatch \/ InsertFails \/ AllInserted \/ VerifyFails \/ Rollback
    PROVE  [Promise!Next]_(Promise!vars)
<1>0. /\ UNCHANGED <<outcome, run, data>> /\ pc # "verified" /\ pc' # "verified"
      /\ "late" \notin Faults /\ "delete" \notin Faults
  BY DEF Undisturbed, RolledBack, Proceed, InsertBatch, InsertFails, NextAttempt, AllInserted,
     VerifyFails, Rollback, Goto
<1>1. Committed' = Committed /\ Result' = Result /\ Table' = Table
  BY <1>0, CommittedSame, SameTable
<1>2. ASSUME UNCHANGED <<rows, data>> PROVE Seen' = Seen
  BY <1>2 DEF Seen, Visible, Shown, Having, Present, KeyOf, ValueOf
<1>3. ASSUME Seen' = Seen, Loading' = Loading PROVE UNCHANGED Promise!vars
  BY <1>1, <1>3 DEF Promise!vars, Seen, Loading, LoadingAt, Table, Result
<1>4. ASSUME NEW force \in BOOLEAN, Proceed(force) PROVE Promise!Next
  <2>1. /\ pc = "deciding" /\ pc' = "loading" /\ UNCHANGED <<rows, data>>
        /\ data[run] \in Datasets
    BY <1>0, <1>4 DEF Proceed, Goto, table, AtomicInv, Recorded
  <2>2. Loading = <<>> /\ Loading' = data[run] /\ Seen' = Seen
    BY <1>0, <1>2, <2>1 DEF Loading, LoadingAt
  <2>3. Promise!Start(data[run])
    BY <1>1, <2>2 DEF Promise!Start, Seen, Loading, LoadingAt, Table, Result
  <2>4. QED
    BY <2>1, <2>3 DEF Promise!Next, Promise!Start
<1>5. CASE InsertBatch \/ InsertFails
  <2>1. /\ pc = "loading" /\ pc' \in {"loading", "rollback"} /\ batch <= Len(data[run])
        /\ UNCHANGED rows \/ Land(run, batch)
    BY <1>0, <1>5 DEF InsertBatch, InsertFails, NextAttempt, Goto, table
  <2>2. Loading = data[run] /\ Loading' = Loading
    BY <1>0, <2>1 DEF Loading, LoadingAt
  <2>3. CASE UNCHANGED rows
    BY <1>0, <1>2, <1>3, <2>2, <2>3
  <2>4. CASE Land(run, batch)
    <3>1. /\ batch \in DOMAIN data[run]
          /\ Seen' = [Seen EXCEPT ![data[run][batch][1]] = data[run][batch][2]]
      BY <1>0, <1>1, <2>1, <2>4, InsertShows DEF LoadingAt
    <3>2. Promise!Appear(batch)
      BY <1>1, <2>2, <3>1 DEF Promise!Appear, Seen, Loading, LoadingAt, Table, Result
    <3>3. batch \in DOMAIN Loading
      BY <2>2, <3>1
    <3>4. QED
      BY <3>2, <3>3 DEF Promise!Next, Promise!Appear, Loading, LoadingAt
  <2>5. QED
    BY <2>1, <2>3, <2>4
<1>6. CASE AllInserted \/ VerifyFails
  <2>1. pc \in LoadingAt /\ pc' \in LoadingAt /\ UNCHANGED <<rows, data>>
    BY <1>6 DEF AllInserted, VerifyFails, Goto, table, LoadingAt
  <2>2. QED
    BY <1>0, <1>2, <1>3, <2>1 DEF Loading
<1>7. CASE Rollback
  <2>1. Loading' = <<>> /\ pc' \notin LoadingAt
    BY <1>7 DEF Rollback, Goto, Loading, LoadingAt
  <2>2. Seen' = Table'
    <3>1. SeeSettled'
      BY SettledIsSeen, PTL
    <3>2. QED
      BY <2>1, <3>1 DEF SeeSettled, Underway
  <2>3. Promise!Undo
    BY <1>1, <2>1, <2>2 DEF Promise!Undo, Seen, Loading, LoadingAt, Table, Result
  <2>4. QED
    BY <2>3 DEF Promise!Next, Promise!Undo
<1>8. QED
  BY <1>4, <1>5, <1>6, <1>7

(* The step that verifies a load completes it. *)
LEMMA VerifyLoads ==
    ASSUME AtomicInv, AtomicInv', [Next]_vars, Verify, UNCHANGED <<outcome, data>>,
           run \in Runs, run \notin Committed, Committed' = Committed \cup {run}
    PROVE  Promise!Next
<1>1. /\ pc = "verifying" /\ pc' = "verified" /\ UNCHANGED <<rows, run>>
      /\ outcome[run] = "none"
  BY DEF Verify, Goto, table, AtomicInv, Recorded
<1>2. Table' = Promise!Overwrite(Table, data[run])
  BY VerifiedTable
<1>3. Result[run] = "none" /\ Result' = [Result EXCEPT ![run] = "SUCCESS"]
  BY <1>1 DEF Result
<1>4. Seen' = Seen /\ Seen = Promise!Overwrite(Table, data[run])
  <2>1. Seen' = Seen
    BY <1>1 DEF Seen, Visible, Shown, Having, Present, KeyOf, ValueOf
  <2>2. QED
    BY <1>1, <2>1, VerifiedIsSeen
<1>5. Loading = data[run] /\ Loading' = <<>>
  BY <1>1 DEF Loading, LoadingAt
<1>6. Promise!Load(run)
  BY <1>2, <1>3, <1>4, <1>5
  DEF Promise!Load, Promise!End, Seen, Loading, LoadingAt, Table, Result
<1>7. QED
  BY <1>6 DEF Promise!Next, Promise!Load, Promise!End

(* What readers see of the table is AtomicLoad: batches may show while they are loaded, *)
(* but a load ends with all of its rows replaced or with the table as it was before.    *)
(* It needs that only inserts and queries fail; a kill or an interrupt may leave a run  *)
(* half loaded.                                                                         *)
THEOREM LoadsAreAtomic ==
    ASSUME Undisturbed
    PROVE  Spec => IsAtomic
<1>1. Init => Promise!Init
  <2> SUFFICES ASSUME Init PROVE Promise!Init
    OBVIOUS
  <2>1. Committed = {}
    BY DEF Init, Committed
  <2>2. \A k : Having(Runs, k) = {} /\ Having(Committed, k) = {}
    BY <2>1, NoRowsFacts DEF Init, Having, Present
  <2>3. \A k : Visible(k) = NoRow /\ Shown(Committed, k) = NoRow
    BY <2>2 DEF Visible, Shown
  <2>4. QED
    BY <2>1, <2>3 DEF Promise!Init, Init
<1>2. ASSUME AtomicInv, AtomicInv', [Next]_vars
      PROVE  [Promise!Next]_(Promise!vars)
  <2>1. CASE \/ \E force \in BOOLEAN : Proceed(force)
             \/ InsertBatch \/ InsertFails \/ AllInserted \/ VerifyFails \/ Rollback
    BY <1>2, <2>1, LoadSteps
  <2>2. CASE /\ Verify /\ run \in Runs /\ run \notin Committed
             /\ Committed' = Committed \cup {run} /\ UNCHANGED <<outcome, data>>
    BY <1>2, <2>2, VerifyLoads
  <2>3. ASSUME pc \notin LoadingAt, pc' \notin LoadingAt, Committed' = Committed
        PROVE  /\ Seen = Table /\ Seen' = Seen /\ Table' = Table
               /\ Loading = <<>> /\ Loading' = <<>>
    <3>1. Seen = Table /\ Seen' = Table'
      <4>1. SeeSettled /\ SeeSettled'
        BY <1>2, SettledIsSeen, PTL
      <4>2. QED
        BY <2>3, <4>1 DEF SeeSettled, Underway
    <3>2. QED
      BY <1>2, <2>3, <3>1, SameTable DEF Loading
  <2>4. ASSUME NEW status \in {"SKIPPED", "FAILED"},
               Skip \/ FailBeforeLoad \/ Fail,
               run \in Runs, run \notin Committed, Committed' = Committed,
               outcome' = [outcome EXCEPT ![run] = status],
               status = "SKIPPED" => pc = "deciding" /\ IsDuplicate
        PROVE  Promise!Next
    <3>1. pc \notin LoadingAt /\ pc' \notin LoadingAt
      BY <2>4 DEF Skip, FailBeforeLoad, Fail, End, Goto, LoadingAt
    <3>2. /\ Seen = Table /\ Seen' = Seen /\ Table' = Table
          /\ Loading = <<>> /\ Loading' = <<>>
      BY <2>3, <2>4, <3>1
    <3>3. outcome[run] = "none" /\ TypeOK
      BY <1>2, <2>4 DEF AtomicInv, Recorded, PutInv, IInv, Skip, FailBeforeLoad, Fail
    <3>4. Result[run] = "none" /\ Result' = [Result EXCEPT ![run] = status]
      BY <2>4, <3>3 DEF Result, TypeOK
    <3>5. Promise!End(run, status)
      BY <3>2, <3>4 DEF Promise!End, Seen, Loading, LoadingAt, Result
    <3>6. CASE status = "FAILED"
      <4>1. Promise!Fail(run)
        BY <3>2, <3>5, <3>6 DEF Promise!Fail, Loading, LoadingAt, Table
      <4>2. QED
        BY <2>4, <4>1 DEF Promise!Next, Promise!Fail, Promise!End
    <3>7. CASE status = "SKIPPED"
      <4>1. data[run] \in Datasets
        BY <1>2, <2>4, <3>7 DEF AtomicInv, Recorded
      <4>2. \A b \in DOMAIN data[run] : Seen[data[run][b][1]] = data[run][b][2]
        BY <1>2, <2>4, <3>2, <3>7, DataIsRead DEF KeyOf, ValueOf
      <4>3. Promise!Shows(Seen, data[run])
        BY <4>2 DEF Promise!Shows
      <4>4. Promise!Skip(run, data[run])
        BY <3>2, <3>5, <3>7, <4>3 DEF Promise!Skip, Seen, Loading, LoadingAt, Table
      <4>5. QED
        BY <2>4, <4>1, <4>4 DEF Promise!Next, Promise!Skip, Promise!End
    <3>8. QED
      BY <3>6, <3>7
  <2>5. ASSUME pc \notin LoadingAt, pc' \notin LoadingAt, Committed' = Committed,
               Result' = Result
        PROVE  UNCHANGED Promise!vars
    BY <2>3, <2>5 DEF Promise!vars, Seen, Loading, LoadingAt, Table, Result
  <2>6. CASE UNCHANGED vars
    BY <2>6 DEF vars, Promise!vars, Visible, Shown, Having, Present, KeyOf, ValueOf, Committed
  <2>7. CASE Verify
    <3>1. run \in Committed' /\ run \notin Committed
      BY <1>2, <2>7 DEF Verify, Goto, Committed, AtomicInv, Recorded, PutInv, IInv, ControlInv
    <3>2. QED
      BY <1>2, <2>2, <3>1, CommittedNext
  <2>8. CASE Skip \/ FailBeforeLoad \/ Fail \/ Begin \/ Succeed \/ \E d \in Datasets : Prepare(d)
    <3>1. pc \notin LoadingAt /\ pc' \notin LoadingAt /\ ~Verify
      BY <2>8 DEF Skip, FailBeforeLoad, Fail, Begin, Succeed, Prepare, Verify, End, Goto,
         LoadingAt
    <3>2. QED
      BY <1>2, <2>4, <2>5, <3>1, CommittedNext
  <2>9. CASE Merge \/ Abort \/ Crash \/ \E p \in pending : LateInsert(p)
    BY <1>2, <2>9 DEF Merge, Abort, Crash, Undisturbed, RolledBack, AtomicInv, OnlyLoads
  <2>10. QED
    BY <1>2, <2>1, <2>6, <2>7, <2>8, <2>9 DEF Next, Step
<1>3. QED
  BY AtomicHolds, <1>1, <1>2, PTL DEF Spec, IsAtomic, Promise!Spec

=============================================================================
