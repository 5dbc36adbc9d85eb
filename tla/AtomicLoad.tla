----------------------------- MODULE AtomicLoad -----------------------------
(***************************************************************************)
(* What the pipeline promises the readers of a destination table           *)
(* (README.md, "Idempotency").  While a load is under way, readers may see *)
(* some of its rows already.  When it ends, the load has replaced every    *)
(* row its data has a key for, and the run ends SUCCESS; or the table is   *)
(* what it was before the load, and the run ends FAILED.  A run that finds *)
(* its data already in the table ends SKIPPED.                             *)
(***************************************************************************)
EXTENDS Naturals, Sequences

CONSTANTS
    Runs,       \* run identifiers
    Keys,       \* groups of natural keys
    NoRow,      \* the value of a key the table has no row for
    Datasets    \* a dataset is a sequence of batches <<key group, value>>

VARIABLES
    table,      \* table[k]: the value readers see for k
    before,     \* what they saw when the last completed load had ended
    loading,    \* the dataset of the load under way, or <<>>
    result      \* result[r]: how run r ended, or "none"

vars == <<table, before, loading, result>>

Shows(t, d) == \A b \in DOMAIN d : t[d[b][1]] = d[b][2]

Overwrite(t, d) ==
    [k \in Keys |-> IF \E b \in DOMAIN d : d[b][1] = k
                    THEN d[CHOOSE b \in DOMAIN d : d[b][1] = k][2]
                    ELSE t[k]]

Init ==
    /\ table = [k \in Keys |-> NoRow]
    /\ before = [k \in Keys |-> NoRow]
    /\ loading = <<>>
    /\ result = [r \in Runs |-> "none"]

Start(d) ==
    /\ loading = <<>>
    /\ loading' = d
    /\ UNCHANGED <<table, before, result>>

Appear(b) ==
    /\ b \in DOMAIN loading
    /\ table' = [table EXCEPT ![loading[b][1]] = loading[b][2]]
    /\ UNCHANGED <<before, loading, result>>

Undo ==
    /\ table' = before
    /\ loading' = <<>>
    /\ UNCHANGED <<before, result>>

End(r, status) ==
    /\ result[r] = "none"
    /\ result' = [result EXCEPT ![r] = status]
    /\ loading' = <<>>
    /\ UNCHANGED table

Load(r) == End(r, "SUCCESS") /\ table = Overwrite(before, loading) /\ before' = table

Skip(r, d) ==
    /\ loading = <<>> /\ Shows(table, d)
    /\ End(r, "SKIPPED") /\ UNCHANGED before

Fail(r) == loading = <<>> /\ End(r, "FAILED") /\ UNCHANGED before

Next ==
    \/ \E d \in Datasets : Start(d)
    \/ \E b \in DOMAIN loading : Appear(b)
    \/ Undo
    \/ \E r \in Runs :
          \/ Load(r) \/ Fail(r)
          \/ \E d \in Datasets : Skip(r, d)

Spec == Init /\ [][Next]_vars

=============================================================================
