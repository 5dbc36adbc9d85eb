---------------------------- MODULE Expressions -----------------------------
(***************************************************************************)
(* The compute transform (ingestion/transforms.py): parse_expression and   *)
(* _interpret over one row.  A parsed expression is the sequence of its    *)
(* nodes, operands before operators; an operand is the position of a node. *)
(* Numbers are integers, the results of comparisons 0 and 1, as Python     *)
(* counts them.  Division and powers share the guard of % and are left out.*)
(***************************************************************************)
EXTENDS Transforms

CONSTANTS
    Text,   \* a cell that is no number
    Error   \* a TransformationError: the run fails

Constant(n)      == [op |-> "constant", value |-> n]
Column(c)        == [op |-> "column", name |-> c]
Apply(op, args)  == [op |-> op, args |-> args]
Chain(ops, args) == [op |-> "compare", ops |-> ops, args |-> args]

(* The nodes parse_expression lets through: no calls, attributes, texts.   *)
Unary    == {"-", "not"}
Binary   == {"+", "*", "%"}
Logical  == {"and", "or"}
Compares == {"<", "<=", "="}

Truth(b) == IF b THEN 1 ELSE 0

(* Decimal's %: the remainder has the sign of the dividend. *)
Remainder(a, b) ==
    LET n == IF a < 0 THEN -a ELSE a
        m == IF b < 0 THEN -b ELSE b
    IN  IF a < 0 THEN -(n % m) ELSE n % m

Operated(op, a, b) ==
    CASE op = "+" -> a + b
      [] op = "*" -> a * b
      [] op = "%" -> IF b = 0 THEN Null ELSE Remainder(a, b)   \* "x / 0 is unknown"

Compared(op, a, b) ==
    CASE op = "<" -> a < b [] op = "<=" -> a <= b [] op = "=" -> a = b

(* What the operands that were evaluated leave for the result. *)
Failing(values) == Contains(values, Error)
Unknown(values) == Contains(values, Null)

(* Mutant: and/or skip the operands that are null. *)
JoinedSkipping(op, values) ==
    LET known == SelectSeq(values, LAMBDA v : v # Null)
    IN  IF known = <<>> THEN Null
        ELSE IF op = "and" THEN Truth(~Contains(known, 0))
        ELSE Truth(\E i \in DOMAIN known : known[i] # 0)

(* BoolOp: all operands are evaluated, and all must be known. *)
Joined(op, values) ==
    IF Unknown(values) THEN Null
    ELSE IF op = "and" THEN Truth(~Contains(values, 0))
    ELSE Truth(\E i \in DOMAIN values : values[i] # 0)

(* Compare: a chain ends at the first comparison that is false, unknown or *)
(* fails; what comes after it is not looked at.                            *)
Chained(ops, values) ==
    LET bad(i) == \/ {values[i], values[i + 1]} \cap {Null, Error} # {}
                  \/ ~Compared(ops[i], values[i], values[i + 1])
        ends   == {i \in DOMAIN ops : bad(i)}
        end    == CHOOSE i \in ends : \A j \in ends : i <= j
    IN  IF ends = {} THEN 1
        ELSE IF Error \in {values[end], values[end + 1]} THEN Error
        ELSE IF Null \in {values[end], values[end + 1]} THEN Null
        ELSE 0

(* What _interpret makes of a node, given the values of those before it.   *)
Interpreted(node, before, row) ==
    IF node.op = "constant" THEN node.value
    ELSE IF node.op = "column"
    THEN IF node.name \notin DOMAIN row \/ row[node.name] = Text THEN Error ELSE row[node.name]
    ELSE LET values == [i \in DOMAIN node.args |-> before[node.args[i]]]
         IN  IF node.op = "compare" THEN Chained(node.ops, values)
             ELSE IF Failing(values) THEN Error
             ELSE IF node.op \in Logical THEN Joined(node.op, values)
             ELSE IF Unknown(values) THEN Null
             ELSE IF node.op = "not" THEN Truth(values[1] = 0)
             ELSE IF node.op = "-" THEN -values[1]
             ELSE Operated(node.op, values[1], values[2])

(* _interpret: the last node is the whole expression. *)
Interpret(nodes, row) ==
    LET values[n \in 0..Len(nodes)] ==
            IF n = 0 THEN <<>>
            ELSE LET before == values[n - 1]
                 IN  Append(before, Interpreted(nodes[n], before, row))
    IN  Last(values[Len(nodes)])

(* A row with a derived column; one of that name is gone. *)
Derived(row, column) ==
    LET value == Interpret(column[2], row)
    IN  [c \in DOMAIN row \cup {column[1]} |-> IF c = column[1] THEN value ELSE row[c]]

(* compute: later columns see the earlier ones. *)
Computed(columns, row) ==
    LET after[n \in 0..Len(columns)] ==
            IF n = 0 THEN row ELSE Derived(after[n - 1], columns[n])
    IN  after[Len(columns)]

-----------------------------------------------------------------------------
(* What filling the missing cells of a row by numbers can give.            *)
Fillings(row, numbers) ==
    {full \in [DOMAIN row -> numbers \cup Range(row)] :
        \A c \in DOMAIN row : IF row[c] = Null THEN full[c] \in numbers ELSE full[c] = row[c]}

(* A derived value that is known does not hang on the cells that are       *)
(* missing; whatever they had been, it would be the same.                  *)
KnownResultsAreCertain(columns, row, numbers) ==
    LET result == Computed(columns, row)
    IN  Error \notin Range(result) =>
            \A full \in Fillings(row, numbers), c \in DOMAIN result :
                result[c] # Null => Computed(columns, full)[c] = result[c]

IsLeaf(node) == node.op \in {"constant", "column"}

IsOperand(nodes, n) == \E m \in DOMAIN nodes : ~IsLeaf(nodes[m]) /\ n \in ToSet(nodes[m].args)

(* Comparisons of more than two operands, which may end before the last.   *)
HasChain(nodes) == \E n \in DOMAIN nodes : nodes[n].op = "compare" /\ Len(nodes[n].ops) # 1

(* "A missing value or a division by zero gives null" (README.md:580-581), *)
(* wherever it is in an expression that has no chains.                     *)
MissingGivesNull(nodes, row) ==
    /\ ~HasChain(nodes)
    /\ \E n \in DOMAIN nodes : /\ nodes[n].op = "column" /\ nodes[n].name \in DOMAIN row
                              /\ row[nodes[n].name] = Null
    => Interpret(nodes, row) \in {Null, Error}

=============================================================================
