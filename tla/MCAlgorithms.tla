---------------------------- MODULE MCAlgorithms ----------------------------
(***************************************************************************)
(* Bounded inputs for Algorithms.                                          *)
(***************************************************************************)
EXTENDS Algorithms, TLC

CONSTANTS
    Precisions,   \* precisions of Decimal columns
    Numerals,     \* numbers in cells, in units of 10^-Fraction
    MaxRows,      \* bound: rows of a frame
    MaxMembers    \* bound: members of an object

(* -11.00 to 11.00: past the limits of all the types. *)
Amounts == -1100..1100

UpTo(n, S) == UNION {[1..k -> S] : k \in 0..n}

(* The column id is the natural key. *)
FrameRows == [id : {100, 200, Missing}, qty : {100, 250, 200, Missing, NoNumber}]
Typed(nullable) == [nullable |-> nullable, bits |-> 3, signed |-> TRUE]
Rules     == {[column |-> "qty", notNull |-> nn, accepts |-> {1}] : nn \in BOOLEAN}
QualityConfigs == [onInvalid : {"quarantine", "fail"}, maxRatio : {<<0, 1>>, <<1, 2>>, <<1, 1>>},
                   minRows : {0, 1}, rules : {{}} \cup {{r} : r \in Rules}]

(* Rows with null keys are refused whatever else they hold. *)
WideRows == [index : {"x", "y"}, metric : {"m", "n"}, value : {1, 2, Null}]
                \cup [index : {"x", Null}, metric : {"m", Null}, value : {1}]

Summaries == [region |-> {"total"}, sku |-> {"total"}]
CleanRowSet == [{"region", "sku"} -> {"a", "b", "total"}]

Named == [words : {<<"a">>, <<"b">>}, style : {"snake", "camel"}]
NamedFrames == {[i \in DOMAIN names |-> [name |-> names[i], cells |-> i]] :
              names \in {s \in UpTo(3, Named) : IsInjective(s)}}
Renames == UNION {[S -> Named] : S \in {T \in SUBSET Named : Cardinality(T) \in {1, 2}}}

Alone(node) == <<>> :> node

(* Objects of two levels of members, or of three with one at the top.      *)
Keys == {<<"a">>, <<"b">>, <<"a", "b">>}
Keyed(S) == {[at EXCEPT ![<<>>].key = key] : at \in S, key \in Keys}
Members(S) == {ms \in UpTo(MaxMembers, Keyed(S)) :
                  \A i, j \in DOMAIN ms : ms[i][<<>>].key = ms[j][<<>>].key => i = j}
Whole(members) ==
    [p \in {<<>>} \cup UNION {{<<i>> \o q : q \in DOMAIN members[i]} : i \in DOMAIN members} |->
        IF p = <<>> THEN Object(<<>>) ELSE members[p[1]][Tail(p)]]
Flat   == {Alone(Atom(<<>>, 1)), Alone(Atom(<<>>, 2))}
Level1 == Flat \cup {Whole(ms) : ms \in Members(Flat)}
Level2 == {Whole(ms) : ms \in Members(Level1)}
Level3 == {Whole(<<[at EXCEPT ![<<>>].key = <<"a">>]>>) : at \in Level2}

(* Expressions over two columns, and over the result of another.           *)
Leaves(names) == {Column(c) : c \in names} \cup {Constant(1)}
Formulas(names) ==
    LET L == Leaves(names)
    IN  {<<x>> : x \in L}
          \cup {<<x, Apply(op, <<1>>)>> : op \in Unary, x \in L}
          \cup {<<x, y, Apply(op, <<1, 2>>)>> : op \in {"+", "%"} \cup Logical, x \in L, y \in L}
          \cup {<<x, y, Chain(<<"<">>, <<1, 2>>)>> : x \in L, y \in L}
          \cup {<<x, y, z, Chain(<<"<", "<=">>, <<1, 2, 3>>)>> : x \in L, y \in L, z \in L}
Computations ==
    {[columns |-> <<<<"c", first>>, <<"d", second>>>>, numbers |-> {0, 1, 2},
      row |-> [c \in {"a", "b"} |-> IF c = "a" THEN a ELSE b]] :
        first \in Formulas({"a", "b"}), second \in Formulas({"a", "c"}),
        a \in {0, 2, Null}, b \in {1, Null, Text}}

(* A config that names the variables at two places, and changes to it.     *)
Variables == {"METABASE_URL", "METABASE_USER", "CLICKHOUSE_HOST"}
Infrastructure == {"CLICKHOUSE_HOST"}
SchemaKeys == {<<"name">>, <<"source", "base_url">>, <<"source", "credentials", "username">>,
               <<"browser", "headless">>}
Shielded == {<<"name">>, <<"source", "credentials">>, <<"source", "base_url">>}
Plain(v) == Scalar(<<Literal(v)>>)
Raw(url, user, browser) ==
    Tree(<<>> :> Mapping @@ <<"name">> :> Plain("r") @@ <<"source">> :> Mapping
            @@ <<"source", "base_url">> :> Scalar(<<url>>)
            @@ <<"source", "credentials">> :> Mapping
            @@ <<"source", "credentials", "username">> :> Scalar(<<user>>)
            @@ <<"browser">> :> Mapping @@ browser)
RawConfigs ==
    {Raw(url, user, browser) :
        url \in {Literal("h1"), Reference("METABASE_URL", NoDefault)},
        user \in {Literal("u"), Reference("METABASE_USER", NoDefault),
                  Reference("METABASE_USER", "u"), Reference("CLICKHOUSE_HOST", NoDefault)},
        browser \in {<<>>, <<"browser", "headless">> :> Plain("no")}}
Environments ==
    [values    : [Variables -> {"", "h1"}],
     allowlist : {{"METABASE_URL", "METABASE_USER"}, {"METABASE_URL", "CLICKHOUSE_HOST"}},
     hosts     : {{}, {"h2"}, {"*"}}]

Paths == {<<>>, <<"name">>, <<"source">>, <<"browser", "headless">>, <<"browser", "new">>,
          <<"source", "credentials">>, <<"source", "credentials", "username">>,
          <<"source", "base_url", "x">>}
Changes == [path : Paths,
            value : {Tree(Alone(Plain("v"))), Tree(Alone(Scalar(<<Reference("METABASE_USER", NoDefault)>>))),
                     Tree(<<>> :> Mapping @@ <<"username">> :> Plain("v")), Garbled}]
Usual == [values |-> [n \in Variables |-> "h1"], hosts |-> {},
          allowlist |-> {"METABASE_URL", "METABASE_USER"}]

(* Destinations of one or two columns, wrapped in up to two wrappers.      *)
Types == [kind : {"integer", "decimal"}, wrappers : UpTo(2, {"Nullable", "LowCardinality"}),
          precision : {9}, scale : {2}]
Tables == [columns : UpTo(2, [name : {"a", "b", "_run_id"}, type : Types]) \ {<<>>},
           orderBy : {{"a"}, {"b"}, {"a", "b"}, {"c"}}, partitionBy : {{}, {"a"}, {"_run_id"}, {"c"}}]

(* What the provider and its models may say.                               *)
CallsTo(models) == [1..models -> [1..Attempts -> Answers]]
DiagnosisReplies == [category : {"login", "made up"},
                     confidence : [kind : {"nan", "text"}]
                                     \cup [kind : {"number"}, value : {-1, 0, 7, 11}],
                     changes : {"kept", "withheld", "raised"}]
DraftReplies == [text : {"t1", "t2", NoText}, notes : UpTo(2, {"n1", "n2"})]

(* Days around the limits of Date and Date32; fields of one or two items.  *)
SomeInputs ==
    [decimal  |-> {d \in [number : Numerals, precision : Precisions, scale : 0..Fraction] :
                      d.scale <= d.precision},
     integer  |-> [number : Numerals, bits : 1..4, signed : BOOLEAN],
     date     |-> {limit + d : limit \in {DateMin, DateMax, Date32Min, Date32Max}, d \in -2..2},
     quality  |-> [frame : UpTo(MaxRows, FrameRows), config : QualityConfigs, key : {{"id"}},
                   columns : {[id |-> Typed(FALSE), qty |-> Typed(n)] : n \in BOOLEAN}],
     pivot    |-> [rows : UpTo(MaxRows, WideRows), aggregate : Aggregates, fill : {0, Null}],
     clean    |-> [rows : UpTo(MaxRows, CleanRowSet), subset : SUBSET {"region", "sku"},
                   keep : {"first", "last"}, exclude : {Summaries}],
     names    |-> [frame : NamedFrames, names : Renames],
     compute  |-> Computations,
     object   |-> Level2 \cup Level3,
     cron     |-> {f \in {{i, j} : i, j \in Items} : Accepted(f)},
     environment |-> [scalars : {Scalars(raw.at) : raw \in RawConfigs}, env : Environments,
                      other : [Variables -> {"", "h1"}], name : {"r"}],
     override |-> [raw : RawConfigs, change : Changes],
     suggestion |-> [raw : RawConfigs, changes : UpTo(2, Changes), env : {Usual}, name : {"r"}],
     destination |-> Tables,
     request  |-> CallsTo(3),
     diagnosis |-> [enabled : BOOLEAN, run : {"none", "RUNNING", "FAILED"}, answers : CallsTo(1),
                    reply : DiagnosisReplies],
     draft    |-> [enabled : BOOLEAN, worded : BOOLEAN, flaw : {"none", "empty", "size"},
                   outcomes : [1..2 -> {"object", "nobody"}], replies : [1..2 -> DraftReplies],
                   problems : [{"t1", "t2"} -> {{}, {"p1"}, {"p2"}}]]]

=============================================================================
