-------------------------------- MODULE Cron --------------------------------
(***************************************************************************)
(* The day-of-week field of a schedule's cron expression                   *)
(* (scheduling/cron.py).  Standard cron numbers the days from Sunday = 0   *)
(* (7 is Sunday too); APScheduler 3 numbers them from Monday = 0.          *)
(* cron_trigger replaces day numbers by names and leaves the rest to       *)
(* APScheduler.  Days are named here by their standard number 0..6.        *)
(***************************************************************************)
EXTENDS Naturals

CONSTANTS
    Numbers,   \* day numbers that are written
    Steps      \* steps n of the items */n

ASSUME CronAssumption ==
    /\ Numbers \subseteq Nat
    /\ Steps \subseteq Nat \ {0}

Weekdays == 0..6

(* An item of the field: a number, a range, or a step over the whole week; *)
(* a field is a set of items, joined by commas.                            *)
Items == [kind : {"range"}, first : Numbers, last : Numbers]
            \cup [kind : {"every"}, step : Steps]

(* What standard cron makes of an item; a range that ends before it begins *)
(* means nothing to it.                                                    *)
Meaningful(i) == i.kind = "range" => i.first <= i.last

StandardDays(i) ==
    IF i.kind = "every" THEN {d \in Weekdays : d % i.step = 0}
    ELSE {n % 7 : n \in i.first..i.last}

-----------------------------------------------------------------------------
(* _translate_day_of_week: 7 is Sunday again, more is out of range. *)
Translatable(i) == i.kind = "range" => i.first <= 7 /\ i.last <= 7

(* Mutant: the numbers are handed to APScheduler as they are. *)
IndexUntranslated(n) == n

(* Position of a name in APScheduler's week: mon = 0, ..., sun = 6. *)
Index(n) == (n + 6) % 7
DayAt(index) == (index + 1) % 7

(* APScheduler refuses a range that ends before it begins. *)
Ordered(i) == i.kind = "range" => Index(i.first) <= Index(i.last)

Accepted(f) == \A i \in f : Translatable(i) /\ Ordered(i)

(* The days APScheduler fires on; a step counts from its first day.        *)
Days(i) ==
    IF i.kind = "every" THEN {DayAt(x) : x \in {y \in 0..6 : y % i.step = 0}}
    ELSE {DayAt(x) : x \in Index(i.first)..Index(i.last)}

-----------------------------------------------------------------------------
(* The two forms that APScheduler reads in its own way: it counts steps    *)
(* from Monday, and 0-7 becomes sun-sun.                                   *)
OwnWay(i) == IF i.kind = "every" THEN i.step # 1 ELSE i.first = 0 /\ i.last = 7

(* "Cron semantics: standard cron" (README.md:721): a field that is        *)
(* accepted fires on the days standard cron fires on.                      *)
IsStandard(f) ==
    Accepted(f) /\ (\A i \in f : Meaningful(i) /\ ~OwnWay(i)) =>
        UNION {Days(i) : i \in f} = UNION {StandardDays(i) : i \in f}

=============================================================================
