------------------------------ MODULE Quality ------------------------------
(***************************************************************************)
(* The quality stage: evaluate (ingestion/quality.py) and the rows that    *)
(* IngestionService.validate (ingestion/service.py) keeps of what it       *)
(* refuses.  A frame is a sequence of rows, functions from columns to      *)
(* cells; spoiled[p] is the set of columns whose cell in row p did not     *)
(* survive coercion (row_errors).  A rule says which cells it accepts in a *)
(* column; min, max, allowed and pattern are such sets.  Errors of one     *)
(* column of one row count once, so a row's errors are a set of columns.   *)
(***************************************************************************)
EXTENDS Sequences, SequencesExt, Coercion, Positions

(* The frames of some columns: any number of rows, any numbers.            *)
FrameOf(columns) == Seq([DOMAIN columns -> Int \cup {Missing, NoNumber}])

-----------------------------------------------------------------------------
(* _rule_violation *)
Violated(rule, cell) ==
    IF cell = Missing THEN rule.notNull ELSE cell \notin rule.accepts

(* The columns in error of each row, after coercion and all rules. *)
Errors(frame, spoiled, rules) ==
    [p \in DOMAIN frame |->
        spoiled[p] \cup {rule.column : rule \in
                            {r \in rules : Violated(r, frame[p][r.column])}}]

(* Positions of the rows without error, in order. *)
ValidPositions(frame, errors) == InOrder({p \in DOMAIN frame : errors[p] = {}})

SameKey(row1, row2, key) == \A c \in key : row1[c] = row2[c]

(* Mutant: whole rows are compared. *)
DuplicatedRows(valid, key) ==
    {i \in DOMAIN valid : \E j \in DOMAIN valid \ {i} : valid[i] = valid[j]}

(* valid.duplicated(subset=unique_key, keep=False) *)
Duplicated(valid, key) ==
    {i \in DOMAIN valid :
        \E j \in DOMAIN valid \ {i} : SameKey(valid[i], valid[j], key)}

(* A refusal of the whole dataset names rows; their originals are stored. *)
Refused(why, named) == [kind |-> why, named |-> named]
Passed(valid, rejected) == [kind |-> "valid", valid |-> valid, rejected |-> rejected]

(* Mutant: positions after the reset of the index name the rows. *)
EvaluateUnmapped(frame, spoiled, config, key) ==
    LET errors    == Errors(frame, spoiled, config.rules)
        rejected  == {p \in DOMAIN frame : errors[p] # {}}
        positions == ValidPositions(frame, errors)
        valid     == [i \in DOMAIN positions |-> frame[positions[i]]]
    IN  CASE rejected # {} /\ config.onInvalid = "fail" -> Refused("invalid", rejected)
          [] OTHER ->
                IF Duplicated(valid, key) # {}
                THEN Refused("duplicates", Duplicated(valid, key))
                ELSE Passed(valid, [p \in rejected |-> errors[p]])

(* invalid_ratio > max_invalid_ratio; the bound is a fraction <<a, b>>. *)
TooMany(rejected, frame, ratio) == Cardinality(rejected) * ratio[2] > ratio[1] * Len(frame)

(* evaluate: the first check that fails decides. *)
Evaluate(frame, spoiled, config, key) ==
    LET errors    == Errors(frame, spoiled, config.rules)
        rejected  == {p \in DOMAIN frame : errors[p] # {}}
        positions == ValidPositions(frame, errors)
        valid     == [i \in DOMAIN positions |-> frame[positions[i]]]
        twins     == Duplicated(valid, key)
    IN  IF rejected # {} /\ config.onInvalid = "fail" THEN Refused("invalid", rejected)
        ELSE IF TooMany(rejected, frame, config.maxRatio) THEN Refused("ratio", rejected)
        ELSE IF Len(valid) < config.minRows THEN Refused("few", rejected)
        ELSE IF twins # {} THEN Refused("duplicates", {positions[i] : i \in twins})
        ELSE Passed(valid, [p \in rejected |-> errors[p]])

(* IngestionService.validate. *)
Validated(frame, columns, config, key) ==
    LET coerced == CoerceFrame(frame, columns)
    IN  Evaluate(coerced.frame, coerced.spoiled, config, key)

-----------------------------------------------------------------------------
(***************************************************************************)
(* What the stage must do.                                                 *)
(***************************************************************************)
(* The column can hold the cell, and the rules accept it.                  *)
Holds(column, cell) ==
    IF cell = Missing THEN column.nullable
    ELSE cell # NoNumber /\ \E v \in Low(column.bits, column.signed)..High(column.bits, column.signed) :
                               cell = v * Ten[Fraction]

Clean(row, columns, rules) ==
    /\ \A c \in DOMAIN columns : Holds(columns[c], row[c])
    /\ \A r \in rules : ~Violated(r, Coerced(row, columns)[r.column])

CleanRows(frame, columns, rules) == {p \in DOMAIN frame : Clean(frame[p], columns, rules)}

(* No row gets lost and none is counted twice: what is loaded and what is  *)
(* set aside are together the rows of the frame, the loaded ones are clean *)
(* and have natural keys, all different, the others have a reason.         *)
AccountsForRows(frame, columns, config, key) ==
    LET result == Validated(frame, columns, config, key)
        clean  == CleanRows(frame, columns, config.rules)
    IN  result.kind = "valid" =>
            /\ DOMAIN result.rejected = DOMAIN frame \ clean
            /\ \A p \in DOMAIN result.rejected : result.rejected[p] # {}
            /\ Len(result.valid) = Cardinality(clean)
            /\ \A p \in clean : Contains(result.valid, Coerced(frame[p], columns))
            /\ \A i, j \in DOMAIN result.valid :
                  SameKey(result.valid[i], result.valid[j], key) => i = j

(* A dataset is refused only for the reason given: the named rows are the  *)
(* unclean ones, or the clean ones that share their key with another.      *)
NamesTheCulprits(frame, columns, config, key) ==
    LET result == Validated(frame, columns, config, key)
        clean  == CleanRows(frame, columns, config.rules)
        twins  == {p \in clean : \E q \in clean \ {p} : SameKey(frame[p], frame[q], key)}
    IN  CASE result.kind = "valid"      -> twins = {}
          [] result.kind = "duplicates" -> result.named = twins /\ twins # {}
          [] OTHER                      -> result.named = DOMAIN frame \ clean

=============================================================================
