----------------------------- MODULE Algorithms -----------------------------
(***************************************************************************)
(* The pure algorithms of the pipeline on given inputs: each behaviour     *)
(* picks one input of one algorithm, and the invariants compare what the   *)
(* algorithm makes of it with what it should.                              *)
(***************************************************************************)
EXTENDS Quality, Expressions, Flattening, Cron, ConfigText, ReportModel, Assistant

CONSTANT Inputs   \* the inputs of each kind

VARIABLE input

Kinds == {"decimal", "integer", "date", "quality", "pivot", "clean", "names",
          "compute", "object", "cron", "environment", "override", "suggestion", "destination",
          "request", "diagnosis", "draft"}

-----------------------------------------------------------------------------
(***************************************************************************)
(* What the algorithms can be given.                                       *)
(***************************************************************************)
IsSequence(s) == s \in Seq(ToSet(s))

(* Reports of any rows and columns, with a natural key.  *)
IsReport(q) == q.frame \in FrameOf(q.columns) /\ q.key \in SUBSET DOMAIN q.columns

(* Expressions of any length: the operands of a node are nodes before it,  *)
(* and every node but the last is an operand.                              *)
Operands(n) == Seq(1..n)
NodesAfter(n) ==
    [op : {"constant"}, value : Int] \cup [op : {"column"}, name : STRING]
        \cup [op : Unary, args : [1..1 -> 1..n]] \cup [op : Binary, args : [1..2 -> 1..n]]
        \cup [op : Logical, args : Operands(n)]
        \cup {c \in [op : {"compare"}, ops : Seq(Compares), args : Operands(n)] :
                  Len(c.args) = Len(c.ops) + 1}
IsExpression(nodes) ==
    /\ nodes # <<>> /\ IsSequence(nodes)
    /\ \A n \in DOMAIN nodes : nodes[n] \in NodesAfter(n - 1)
    /\ \A n \in DOMAIN nodes : n = Len(nodes) \/ IsOperand(nodes, n)
IsComputation(c) ==
    IsSequence(c.columns) /\ \A n \in DOMAIN c.columns : IsExpression(c.columns[n][2])

(* What stands at the places of a tree: only inner nodes have others below.*)
IsTree(at, S, inner) ==
    /\ <<>> \in DOMAIN at /\ DOMAIN at \subseteq Seq(S)
    /\ \A p \in DOMAIN at : \A n \in 0..(Len(p) - 1) :
          SubSeq(p, 1, n) \in DOMAIN at /\ at[SubSeq(p, 1, n)].kind = inner

IsObject(at) ==
    IsTree(at, Nat, "object") /\ IsFiniteSet(DOMAIN at)
        /\ \A p \in DOMAIN at : at[p].key \in Seq(STRING) /\ at[p].kind \in {"object", "atom"}

(* Raw configs, and overrides of any paths with any values. *)
IsYaml(at) == IsTree(at, STRING, "mapping") /\ \A p \in DOMAIN at : at[p].kind \in {"mapping", "scalar"}
IsRaw(raw) == raw = Tree(raw.at) /\ IsYaml(raw.at) /\ raw.at[<<>>].kind = "mapping"
IsChange(o) ==
    /\ o.path \in Seq(STRING) /\ o.value.kind \in {"garbled", "tree"}
    /\ o.value.kind = "tree" => IsYaml(o.value.at)

(* The scalars of a config that names some of the given variables, and the *)
(* environments that give them values.                                     *)
Parts(variables) ==
    [kind : {"literal"}, value : STRING]
        \cup [kind : {"reference"}, name : variables, default : STRING]
ScalarsOver(variables) == Seq(STRING) \X Seq(Parts(variables))
EnvironmentsOf(variables) ==
    [values : [variables -> STRING], allowlist : SUBSET STRING, hosts : SUBSET STRING]
IsReading(e) ==
    LET variables == DOMAIN e.env.values
    IN  /\ "METABASE_URL" \in variables
        /\ e.env \in EnvironmentsOf(variables) /\ e.other \in [variables -> STRING]
        /\ e.scalars \in SUBSET ScalarsOver(variables)

(* Destinations of any number of columns, with any names and any wrappers  *)
(* around a type.                                                          *)
TypeTexts == [kind : STRING, wrappers : Seq(STRING)]
                \cup [kind : STRING, wrappers : Seq(STRING), precision : Nat, scale : Nat]
ColumnSpecs  == [name : STRING, type : TypeTexts]
Destinations ==
    [columns : Seq(ColumnSpecs), orderBy : SUBSET STRING, partitionBy : SUBSET STRING]

(* What the provider and its models may say. *)
Calls       == [1..Attempts -> Answers]
Confidences == [kind : {"nan", "text"}] \cup [kind : {"number"}, value : Int]
Replies     == [text : STRING, notes : Seq(STRING)]
IsDraft(d)  == d.flaw \in Flaws \cup {"none"} /\ d.replies \in [1..2 -> Replies]

ASSUME InputsAssumption ==
    /\ DOMAIN Inputs = Kinds
    /\ Inputs["decimal"] \subseteq [number : Int, precision : Nat, scale : 0..Fraction]
    /\ Inputs["integer"] \subseteq [number : Int, bits : Nat \ {0}, signed : BOOLEAN]
    /\ Inputs["date"] \subseteq Int
    /\ \A q \in Inputs["quality"] : IsReport(q)
    /\ \A p \in Inputs["pivot"] : p.rows \in Seq(LongRows) /\ p.aggregate \in Aggregates
    /\ \A c \in Inputs["clean"] : IsSequence(c.rows)
    /\ \A n \in Inputs["names"] :
          n.frame \in Seq(NamedColumns) /\ Cardinality(ColumnNames(n.frame)) = Len(n.frame)
    /\ \A c \in Inputs["compute"] : IsComputation(c)
    /\ \A at \in Inputs["object"] : IsObject(at)
    /\ \A f \in Inputs["cron"] : f \subseteq Items
    /\ \A e \in Inputs["environment"] : IsReading(e)
    /\ \A o \in Inputs["override"] : IsRaw(o.raw) /\ IsChange(o.change)
    /\ \A o \in Inputs["suggestion"] :
          /\ IsRaw(o.raw) /\ IsSequence(o.changes)
          /\ \A n \in DOMAIN o.changes : IsChange(o.changes[n])
    /\ Inputs["destination"] \subseteq Destinations
    /\ Inputs["request"] \subseteq Seq(Calls)
    /\ \A d \in Inputs["diagnosis"] : d.reply.confidence \in Confidences
    /\ \A d \in Inputs["draft"] : IsDraft(d)

-----------------------------------------------------------------------------
Nothing == [kind |-> "nothing"]

Init == input = Nothing

Pick(kind) == \E i \in Inputs[kind] : input' = [kind |-> kind, of |-> i]

ConvertDecimal  == Pick("decimal")
ConvertInteger  == Pick("integer")
ConvertDate     == Pick("date")
CheckQuality    == Pick("quality")
PivotRows       == Pick("pivot")
CleanFrame      == Pick("clean")
NameThings      == Pick("names")
Compute         == Pick("compute")
FlattenObject   == Pick("object")
Schedule        == Pick("cron")
ReadEnvironment == Pick("environment")
Override        == Pick("override")
Suggest         == Pick("suggestion")
CheckDestination == Pick("destination")
AskModels       == Pick("request")
Diagnose        == Pick("diagnosis")
DraftConfig     == Pick("draft")

Next ==
    /\ input = Nothing
    /\ \/ ConvertDecimal \/ ConvertInteger \/ ConvertDate
       \/ CheckQuality \/ PivotRows \/ CleanFrame \/ NameThings
       \/ Compute \/ FlattenObject
       \/ Schedule \/ ReadEnvironment \/ Override \/ Suggest \/ CheckDestination
       \/ AskModels \/ Diagnose \/ DraftConfig

Spec == Init /\ [][Next]_input

-----------------------------------------------------------------------------
(* What a column would store as another number or date is not let through  *)
(* ("values outside this range are silently wrapped by the server",        *)
(* coercion.py:26), and what is let through as a decimal is the nearest    *)
(* one.  The rest is rejected, but for decimals that the decimal context   *)
(* has no room for: "a value that cannot be converted does not abort the   *)
(* run" (coercion.py:4-5) is not so for them, as quantize raises what      *)
(* coerce_frame does not catch (:97, :218).                                *)
CellsAreConverted ==
    LET i == input.of
    IN  /\ input.kind = "decimal" => DecimalFits(i.number, i.precision, i.scale)
        /\ input.kind = "integer" => IntegerFits(i.number, i.bits, i.signed)
        /\ input.kind = "date" => DateFits(i)

(* Every row of a report is loaded or set aside with a reason, the loaded  *)
(* ones have different natural keys, and the rows stored with a refusal    *)
(* are the ones that caused it (coercion.py, quality.py, service.py).      *)
RowsAreAccountedFor ==
    LET i == input.of
    IN  input.kind = "quality" =>
            /\ AccountsForRows(i.frame, i.columns, i.config, i.key)
            /\ NamesTheCulprits(i.frame, i.columns, i.config, i.key)

(* A transform step that does not refuse a frame loses no value, misplaces *)
(* none and invents none: pivots that pick a value, cleaning steps in      *)
(* either order, new names, which keep their cells to themselves or fail   *)
(* the run (transforms.py, coercion.py).                                   *)
TransformsLoseNothing ==
    LET i == input.of
    IN  /\ input.kind = "pivot" => PivotIsLossless(i.rows, i.aggregate, i.fill)
        /\ input.kind = "clean" => CleaningCommutes(i.rows, i.subset, i.keep, i.exclude)
        /\ input.kind = "names" => NamesStayApart(i.frame, i.names)

(* What is computed from a row is certain: a derived column is known only  *)
(* where no missing cell could change it, and "any null operand gives null"*)
(* (transforms.py:505) but behind a comparison of a chain that is false.   *)
(* A flattened object keeps its atoms but those that stand where another   *)
(* path joins to the same name: nothing refuses these (transforms.py:330). *)
ResultsAreCertain ==
    LET i == input.of
    IN  /\ input.kind = "compute" =>
              /\ KnownResultsAreCertain(i.columns, i.row, i.numbers)
              /\ \A n \in DOMAIN i.columns : MissingGivesNull(i.columns[n][2], i.row)
        /\ input.kind = "object" => FlattenKeepsAtoms(i)

(* Accepted schedules fire on the days standard cron names, but for two    *)
(* forms (scheduling/cron.py).                                             *)
SchedulesAreStandard == input.kind = "cron" => IsStandard(input.of)

(* Overrides act like edits of the file, and changes kept from a diagnosis *)
(* leave protected settings alone and make a config that loads             *)
(* (config/loader.py, assistant.py:307-322).                               *)
ConfigsMeanWhatTheySay ==
    LET i == input.of
    IN  /\ input.kind = "override" => OverridesAreEdits(i.raw, i.change)
        /\ input.kind = "suggestion" => SuggestionsAreSafe(i.raw, i.changes, i.env, i.name)

(* Only variables a config may read have a say in what it becomes or how   *)
(* it is refused, and the warehouse has nothing against an accepted table  *)
(* but, perhaps, a type or the partition expression: no name twice, no     *)
(* nullable sorting key however it is wrapped (config/loader.py, models.py,*)
(* ddl.py).  The types are LowCardinality of a LowCardinality or a Decimal,*)
(* which do not "fail before any work starts" (columns.py:7).              *)
ConfigsAreVetted ==
    LET i == input.of
    IN  /\ input.kind = "environment" => OnlyAllowedVariablesMatter(i.scalars, i.env, i.other, i.name)
        /\ input.kind = "destination" => AcceptedTablesStand(i)

(* Models are asked in order and given up for cause, diagnoses fit the run *)
(* they are stored with, and a draft comes with the problems of its own    *)
(* text and the notes of all its replies (ai/client.py, assistant.py).     *)
AssistantAnswersAreSound ==
    LET i == input.of
    IN  /\ input.kind = "request" => FallsBackInOrder(i)
        /\ input.kind = "diagnosis" => DiagnosesAreSound(i.enabled, i.run, i.answers, i.reply)
        /\ input.kind = "draft" =>
              DraftsAreSound(i.enabled, i.flaw, i.worded, i.outcomes, i.replies, i.problems)

=============================================================================
