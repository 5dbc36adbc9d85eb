----------------------------- MODULE Transforms -----------------------------
(***************************************************************************)
(* The transform steps that can lose or invent data (ingestion/transforms, *)
(* service): pivot, drop_duplicates, filter_rows and those that name       *)
(* columns.  Rows are functions from columns to cells.                     *)
(***************************************************************************)
EXTENDS Integers, Sequences, FiniteSets, SequencesExt, Positions

CONSTANT Null   \* None: a missing value

ASSUME NullAssumption == Null \notin Int

-----------------------------------------------------------------------------
(***************************************************************************)
(* pivot.  A long row has an index (the values of its index columns), a    *)
(* metric (the value of `columns`) and a value.                            *)
(***************************************************************************)
LongRows == [index : STRING \cup {Null}, metric : STRING \cup {Null}, value : Int \cup {Null}]

Pairs(rows)      == {<<rows[i].index, rows[i].metric>> : i \in DOMAIN rows}
Indexes(rows)    == {rows[i].index : i \in DOMAIN rows}
Metrics(rows)    == {rows[i].metric : i \in DOMAIN rows}
Group(rows, x, m) ==
    Selected(rows, {i \in DOMAIN rows : rows[i].index = x /\ rows[i].metric = m})
Present(group) == Selected(group, {i \in DOMAIN group : group[i].value # Null})

(* Mutant: nulls are not skipped. *)
AggregatedNulls(aggregate, group) ==
    group[IF aggregate = "last" THEN Len(group) ELSE 1].value

(* groupby skips nulls; "none" is "first" of rows that do not share a      *)
(* place.  The aggregates that count (sum, mean, min, max) first convert   *)
(* to float64 or int64 (pd.to_numeric) and are left out.                   *)
Aggregates == {"none", "first", "last"}

Aggregated(aggregate, group) ==
    LET present == Present(group)
    IN  IF present = <<>> THEN Null
        ELSE present[IF aggregate = "last" THEN Len(present) ELSE 1].value

(* Mutant: rows that share their index and column are not noticed. *)
AmbiguousNever(rows, aggregate) == FALSE

Ambiguous(rows, aggregate) ==
    aggregate = "none" /\ Cardinality(Pairs(rows)) < Len(rows)

HasNullKey(rows) == \E i \in DOMAIN rows : Null \in {rows[i].index, rows[i].metric}

(* TransformationError: the run fails. *)
Refuses(rows, aggregate) == Ambiguous(rows, aggregate) \/ HasNullKey(rows)

(* The wide cell of x and m; fillna replaces every null, whatever its origin. *)
WideCell(rows, aggregate, fill, x, m) ==
    LET cell == IF <<x, m>> \in Pairs(rows)
                THEN Aggregated(aggregate, Group(rows, x, m)) ELSE Null
    IN  IF cell = Null THEN fill ELSE cell

(* One row per index, one column per metric (fill = Null: no fill_value). *)
Pivot(rows, aggregate, fill) ==
    [x \in Indexes(rows) \ {Null} |->
        [m \in Metrics(rows) \ {Null} |-> WideCell(rows, aggregate, fill, x, m)]]

(* The values the rows have for a place of the wide frame. *)
Held(rows, x, m) ==
    {rows[i].value : i \in {j \in DOMAIN rows : rows[j].index = x /\ rows[j].metric = m}} \ {Null}

(* "groupby drops groups whose keys contain nulls; that would lose rows    *)
(* silently": each cell of a pivot that does not refuse holds a value the  *)
(* rows have for it, or the fill value if they have none; and without an   *)
(* aggregate each row finds its own value there.                           *)
PivotIsLossless(rows, aggregate, fill) ==
    ~Refuses(rows, aggregate) =>
        LET wide == Pivot(rows, aggregate, fill)
        IN  /\ \A x \in DOMAIN wide, m \in Metrics(rows) :
                  IF Held(rows, x, m) = {} THEN wide[x][m] = fill
                  ELSE wide[x][m] \in Held(rows, x, m)
            /\ \A i \in DOMAIN rows :
                  rows[i].value # Null =>
                      /\ rows[i].index \in DOMAIN wide
                      /\ aggregate = "none" => wide[rows[i].index][rows[i].metric] = rows[i].value

-----------------------------------------------------------------------------
(***************************************************************************)
(* drop_duplicates and filter_rows.                                        *)
(***************************************************************************)
Alike(row1, row2, subset) == \A c \in subset : row1[c] = row2[c]

(* Mutant: rows that have a duplicate all go. *)
KeptOnlySingles(rows, subset, keep) ==
    {i \in DOMAIN rows : ~\E j \in DOMAIN rows \ {i} : Alike(rows[i], rows[j], subset)}

(* Positions that survive: the first or the last of each set of duplicates. *)
Kept(rows, subset, keep) ==
    {i \in DOMAIN rows :
        ~\E j \in DOMAIN rows :
            /\ IF keep = "first" THEN j < i ELSE j > i
            /\ Alike(rows[i], rows[j], subset)}

Excluded(row, exclude) == \E c \in DOMAIN exclude : row[c] \in exclude[c]

DropDuplicates(rows, subset, keep) == Selected(rows, Kept(rows, subset, keep))

FilterRows(rows, exclude) ==
    Selected(rows, {i \in DOMAIN rows : ~Excluded(rows[i], exclude)})

(* Cleaning steps can be swapped: dropping summary rows and then duplicates *)
(* gives the rows that dropping duplicates and then summary rows gives, if *)
(* the summary is told by the columns compared; and each distinct row that *)
(* is no summary is there exactly once.                                    *)
CleaningCommutes(rows, subset, keep, exclude) ==
    LET filtered == DropDuplicates(FilterRows(rows, exclude), subset, keep)
        dropped  == FilterRows(DropDuplicates(rows, subset, keep), exclude)
    IN  /\ DOMAIN exclude \subseteq subset => filtered = dropped
        /\ \A i \in DOMAIN rows :
              (\A c \in DOMAIN exclude : rows[i][c] \notin exclude[c]) =>
                  Cardinality({j \in DOMAIN filtered : Alike(filtered[j], rows[i], subset)}) = 1

-----------------------------------------------------------------------------
(***************************************************************************)
(* normalize_columns, rename and drop_columns.  A frame is here a sequence *)
(* of columns; a name is a sequence of words in some style.                *)
(***************************************************************************)
NamedColumns == [name : [words : Seq(STRING), style : STRING], cells : Nat]

ColumnNames(frame) == {frame[i].name : i \in DOMAIN frame}

Refusal == <<[name |-> "refused"]>>

(* to_snake_case: the words, in lower case with underscores. *)
ToSnakeCase(name) == [name EXCEPT !.style = "snake"]

NormalizeColumns(frame) ==
    LET out == [i \in DOMAIN frame |-> [frame[i] EXCEPT !.name = ToSnakeCase(@)]]
    IN  IF Cardinality(ColumnNames(out)) < Len(out) THEN Refusal ELSE out

(* All columns at once: two of them can trade names. *)
RenameColumns(frame, names) ==
    IF ~(DOMAIN names \subseteq ColumnNames(frame)) THEN Refusal
    ELSE [i \in DOMAIN frame |->
             IF frame[i].name \in DOMAIN names
             THEN [frame[i] EXCEPT !.name = names[@]] ELSE frame[i]]

DropColumns(frame, names) ==
    IF ~(names \subseteq ColumnNames(frame)) THEN Refusal
    ELSE Selected(frame, {i \in DOMAIN frame : frame[i].name \notin names})

(* A rename may land on a column that stays where it is, or on another.    *)
Overwrites(frame, names) ==
    \/ \E old \in DOMAIN names : names[old] \in ColumnNames(frame) \ DOMAIN names
    \/ Cardinality(Range(names)) < Cardinality(DOMAIN names)

(* The columns coerce_frame finds under a name of the destination: a frame *)
(* of two has no tolist, which fails the run.                              *)
Called(frame, name) == {i \in DOMAIN frame : frame[i].name = name}

(* Mutant: of two columns of a name, one is loaded. *)
LoadableAny(frame, name) == Called(frame, name) # {}

Loadable(frame, name) == Cardinality(Called(frame, name)) = 1

LoadedCells(frame, name) == frame[CHOOSE i \in Called(frame, name) : TRUE].cells

(* Normalised columns keep their cells and get names of their own.  A      *)
(* rename may give two columns one name, which nothing refuses: then none  *)
(* of them can be loaded, so that none is lost behind the other; else it   *)
(* can be undone.                                                          *)
NamesStayApart(frame, names) ==
    LET normal  == NormalizeColumns(frame)
        renamed == RenameColumns(frame, names)
        undone  == [new \in Range(names) |-> CHOOSE old \in DOMAIN names : names[old] = new]
    IN  /\ normal # Refusal =>
              /\ Cardinality(ColumnNames(normal)) = Len(frame)
              /\ NormalizeColumns(normal) = normal
              /\ \A i \in DOMAIN frame : normal[i].cells = frame[i].cells
        /\ renamed # Refusal =>
              \A i \in DOMAIN frame :
                  Loadable(renamed, renamed[i].name) =>
                      LoadedCells(renamed, renamed[i].name) = frame[i].cells
        /\ renamed # Refusal /\ ~Overwrites(frame, names) =>
              /\ Cardinality(ColumnNames(renamed)) = Len(frame)
              /\ RenameColumns(renamed, undone) = frame
              /\ DropColumns(renamed, Range(names)) = DropColumns(frame, DOMAIN names)

=============================================================================
