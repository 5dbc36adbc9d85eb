------------------------------ MODULE Coercion ------------------------------
(***************************************************************************)
(* Converting a cell to the type of its destination column                 *)
(* (ingestion/coercion.py, columns.py), for the types whose limits matter: *)
(* Decimal(P, S), (U)IntN, Date and Date32; and a frame, row by row.  A    *)
(* number is written with Fraction digits after the point and stands here  *)
(* as an integer: 12.30 is 1230 for Fraction = 2.  A conversion gives its  *)
(* value, rejects the cell (ValueError), or raises something else, which   *)
(* ends the run.                                                           *)
(***************************************************************************)
EXTENDS Integers, FiniteSets

CONSTANTS
    Fraction,   \* digits after the point of the numbers in a report
    Context,    \* precision of Python's decimal context (28)
    Missing,    \* an empty cell
    NoNumber    \* a cell that is no number

ASSUME CoercionAssumption ==
    /\ Fraction \in Nat /\ Context \in Nat \ {0}
    /\ Missing \notin Int \cup {NoNumber}

Value(v) == [kind |-> "value", value |-> v]
Rejected == [kind |-> "rejected"]
Raised   == [kind |-> "raised"]

Abs(n) == IF n < 0 THEN -n ELSE n

(* Powers of ten and of two. *)
Ten[n \in Nat] == IF n = 0 THEN 1 ELSE 10 * Ten[n - 1]
Two[n \in Nat] == IF n = 0 THEN 1 ELSE 2 * Two[n - 1]

-----------------------------------------------------------------------------
(***************************************************************************)
(* Decimal(P, S).                                                          *)
(***************************************************************************)
(* n / m, rounded to the nearest integer and a tie to the even one. *)
RoundHalfEven(n, m) ==
    LET q == n \div m
        r == n % m
    IN  IF 2 * r > m \/ (2 * r = m /\ q % 2 = 1) THEN q + 1 ELSE q

(* Decimal.quantize to S digits after the point, as a number of units.     *)
Quantized(n, S) ==
    IF S >= Fraction THEN n * Ten[S - Fraction]
    ELSE RoundHalfEven(n, Ten[Fraction - S])

Digits(units) ==
    IF units = 0 THEN 1
    ELSE CHOOSE d \in 1..Abs(units) : Ten[d - 1] <= Abs(units) /\ Abs(units) < Ten[d]

(* Decimal.adjusted: the exponent of the first digit. *)
Adjusted(units, S) == Digits(units) - 1 - S

(* Mutant: the digits are counted before rounding. *)
ToDecimalUnrounded(n, P, S) ==
    LET units == Quantized(n, S)
    IN  IF Digits(units) > Context THEN Raised
        ELSE IF Adjusted(n, Fraction) + 1 > P - S /\ n # 0 THEN Rejected
        ELSE Value(units)

(* quantize raises InvalidOperation, which is no ValueError, if the result *)
(* needs more digits than the context has.                                 *)
ToDecimal(n, P, S) ==
    LET units == Quantized(n, S)
    IN  IF Digits(units) > Context THEN Raised
        ELSE IF Adjusted(units, S) + 1 > P - S /\ units # 0 THEN Rejected
        ELSE Value(units)

(***************************************************************************)
(* (U)IntN.                                                                *)
(***************************************************************************)
Low(bits, signed) == IF signed THEN -Two[bits - 1] ELSE 0

High(bits, signed) == IF signed THEN Two[bits - 1] - 1 ELSE Two[bits] - 1

ToInteger(n, bits, signed) ==
    LET number == n \div Ten[Fraction]
    IN  IF n % Ten[Fraction] # 0 THEN Rejected
        ELSE IF number \in Low(bits, signed)..High(bits, signed) THEN Value(number)
        ELSE Rejected

(* What the warehouse makes of an integer: the value modulo the width. *)
Stored(v, bits, signed) ==
    LET u == v % Two[bits]
    IN  IF signed /\ u >= Two[bits - 1] THEN u - Two[bits] ELSE u

(***************************************************************************)
(* Date and Date32, as days since 1970-01-01.                              *)
(***************************************************************************)
Leap(y) == (y % 4 = 0 /\ y % 100 # 0) \/ y % 400 = 0

(* Days before each month of a year, and before the year (date.toordinal). *)
DaysBefore == <<0, 31, 59, 90, 120, 151, 181, 212, 243, 273, 304, 334>>

DaysBeforeYear(y) == (y - 1) * 365 + (y - 1) \div 4 - (y - 1) \div 100 + (y - 1) \div 400

Day(y, m, d) ==
    DaysBeforeYear(y) - DaysBeforeYear(1970)
    + DaysBefore[m] + (IF m > 2 /\ Leap(y) THEN 1 ELSE 0) + d - 1

DateMin   == Day(1970, 1, 1)
DateMax   == Day(2149, 6, 6)
Date32Min == Day(1900, 1, 1)
Date32Max == Day(2299, 12, 31)

(* Mutant: Date columns take what Date32 columns take. *)
DateRange32(date32) == Date32Min..Date32Max

DateRange(date32) == IF date32 THEN Date32Min..Date32Max ELSE DateMin..DateMax

ToDate(day, date32) == IF day \in DateRange(date32) THEN Value(day) ELSE Rejected

(***************************************************************************)
(* coerce_frame, for integer columns: the cells of the destination columns *)
(* and, for each row, the columns whose cell could not be converted.       *)
(***************************************************************************)
(* Mutant: a missing cell is left to the rules. *)
ConvertNulls(cell, column) ==
    CASE cell = Missing  -> Value(Missing)
      [] cell = NoNumber -> Rejected
      [] OTHER           -> ToInteger(cell, column.bits, column.signed)

Convert(cell, column) ==
    CASE cell = Missing  -> IF column.nullable THEN Value(Missing) ELSE Rejected
      [] cell = NoNumber -> Rejected
      [] OTHER           -> ToInteger(cell, column.bits, column.signed)

Coerced(row, columns) ==
    [c \in DOMAIN columns |->
        LET result == Convert(row[c], columns[c])
        IN  IF result.kind = "value" THEN result.value ELSE Missing]

CoerceFrame(frame, columns) ==
    [frame   |-> [p \in DOMAIN frame |-> Coerced(frame[p], columns)],
     spoiled |-> [p \in DOMAIN frame |->
                     {c \in DOMAIN columns :
                         Convert(frame[p][c], columns[c]).kind = "rejected"}]]

-----------------------------------------------------------------------------
(***************************************************************************)
(* What the conversions must do.                                           *)
(***************************************************************************)
(* The nearest number with S digits after the point has more than D digits.*)
TooBig(n, D, S) ==
    LET unit == Ten[Fraction - S]
    IN  2 * Abs(n) + unit >= 2 * Ten[D] * unit

(* A number the context has room for is accepted, as the nearest one with  *)
(* S digits, or rejected, as one that has more than P.  One that it has no *)
(* room for always ends the run.                                           *)
DecimalFits(n, P, S) ==
    LET result == ToDecimal(n, P, S)
        unit   == Ten[Fraction - S]
    IN  /\ result.kind = "raised" <=> TooBig(n, Context, S)
        /\ result.kind = "rejected" => TooBig(n, P, S)
        /\ result.kind = "value" => /\ Abs(result.value) < Ten[P]
                                     /\ 2 * Abs(result.value * unit - n) <= unit

(* An integer is accepted exactly if the column stores it unchanged.       *)
IntegerFits(n, bits, signed) ==
    ToInteger(n, bits, signed).kind = "value"
        <=> \E v \in -Two[bits]..Two[bits] :
                n = v * Ten[Fraction] /\ Stored(v, bits, signed) = v

(* A Date is accepted exactly if it is its own value modulo 2^16 ("values  *)
(* outside this range are silently wrapped by the server").                *)
DateFits(day) == ToDate(day, FALSE).kind = "value" <=> Stored(day, 16, FALSE) = day

=============================================================================
