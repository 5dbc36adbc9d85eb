----------------------------- MODULE ReportModel ----------------------------
(***************************************************************************)
(* Which destinations the models accept (config/models.py, columns.py) and *)
(* what the warehouse has against the tables made of them                  *)
(* (warehouse/ddl.py).  Patterns of names and limits of single values are  *)
(* left out.                                                               *)
(***************************************************************************)
EXTENDS Naturals, Sequences, FiniteSets, SequencesExt

Invalid == [kind |-> "invalid"]

-----------------------------------------------------------------------------
(***************************************************************************)
(* parse_column_type.  A type is a base in wrappers, outermost first; a    *)
(* base is its kind and, for decimals, precision and scale.                *)
(***************************************************************************)
Unwrapped(type, wrapper) ==
    IF type.wrappers # <<>> /\ Head(type.wrappers) = wrapper
    THEN [type EXCEPT !.wrappers = Tail(@)] ELSE type

(* Mutant: only an outer Nullable is seen. *)
ParseColumnTypeOutside(type) ==
    LET bare == Unwrapped(Unwrapped(type, "LowCardinality"), "Nullable")
    IN  IF bare.wrappers # <<>> THEN Invalid
        ELSE [kind |-> bare.kind, nullable |-> Unwrapped(type, "Nullable") # type]

(* LowCardinality, Nullable, and LowCardinality again if not nullable.     *)
ParseColumnType(type) ==
    LET outer    == Unwrapped(type, "LowCardinality")
        inner    == Unwrapped(outer, "Nullable")
        nullable == inner # outer
        bare     == IF nullable THEN inner ELSE Unwrapped(inner, "LowCardinality")
    IN  IF bare.wrappers # <<>> \/ bare.kind = "other"
           \/ (bare.kind = "decimal" /\ ~(bare.precision \in 1..76 /\ bare.scale <= bare.precision))
        THEN Invalid
        ELSE [kind |-> bare.kind, nullable |-> nullable]

-----------------------------------------------------------------------------
(***************************************************************************)
(* DestinationConfig.  The partition expression is free text: what it is   *)
(* here are the columns it names.                                          *)
(***************************************************************************)
ColumnNamesOf(d) == {d.columns[i].name : i \in DOMAIN d.columns}

(* ColumnSpec: a leading underscore is reserved for lineage columns. *)
Lineage == {"_run_id", "_ingested_at"}

ValidColumn(c) == c.name \notin Lineage /\ ParseColumnType(c.type) # Invalid

(* DestinationConfig._consistent *)
ValidDestination(d) ==
    /\ \A i \in DOMAIN d.columns : ValidColumn(d.columns[i])
    /\ Cardinality(ColumnNamesOf(d)) = Len(d.columns)
    /\ d.orderBy \subseteq ColumnNamesOf(d)
    /\ \A i \in DOMAIN d.columns :
          d.columns[i].name \in d.orderBy => ~ParseColumnType(d.columns[i].type).nullable

-----------------------------------------------------------------------------
(***************************************************************************)
(* The table of a destination.                                             *)
(***************************************************************************)
(* create_table_sql: the columns of the table. *)
TableColumns(d) ==
    d.columns \o SetToSeq({[name |-> n, type |-> [wrappers |-> <<>>, kind |-> "lineage"]] : n \in Lineage})

(* "LowCardinality(Nullable(String)) is legal ClickHouse" (columns.py:78), *)
(* the other order is not, nor one wrapper twice, nor LowCardinality of a  *)
(* Decimal.                                                                *)
InWarehouse(type) ==
    /\ type.wrappers \in {<<>>, <<"Nullable">>, <<"LowCardinality">>, <<"LowCardinality", "Nullable">>}
    /\ Contains(type.wrappers, "LowCardinality") => type.kind # "decimal"

(* What the warehouse has against a table; Nullable is anywhere in a type. *)
Complaints(d) ==
    LET columns == TableColumns(d)
        named(n) == {i \in DOMAIN columns : columns[i].name = n}
    IN  {c \in {"names", "key", "type", "partition"} :
            \/ c = "names" /\ \E i, j \in DOMAIN columns : i # j /\ columns[i].name = columns[j].name
            \/ c = "key" /\ ~\A k \in d.orderBy :
                  \E i \in named(k) : ~Contains(columns[i].type.wrappers, "Nullable")
            \/ c = "type" /\ \E i \in DOMAIN columns : ~InWarehouse(columns[i].type)
            \/ c = "partition" /\ \E n \in d.partitionBy : named(n) = {}}

(* What parse_column_type lets through and the warehouse does not have.    *)
Unsupported(type) ==
    \/ type.wrappers = <<"LowCardinality", "LowCardinality">>
    \/ Contains(type.wrappers, "LowCardinality") /\ type.kind = "decimal"

(* The models see to the names and the sorting key of an accepted table,   *)
(* and to its types but for those; a partition expression is refused only  *)
(* if it names a column the table does not have.                           *)
AcceptedTablesStand(d) ==
    ValidDestination(d) =>
        /\ Complaints(d) \subseteq {"type", "partition"}
        /\ "type" \in Complaints(d) => \E i \in DOMAIN d.columns : Unsupported(d.columns[i].type)
        /\ "partition" \in Complaints(d) => ~(d.partitionBy \subseteq ColumnNamesOf(d) \cup Lineage)

=============================================================================
