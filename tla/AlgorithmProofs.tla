-------------------------- MODULE AlgorithmProofs --------------------------
(***************************************************************************)
(* Proofs that Algorithms keeps its invariants whatever inputs it is       *)
(* given: derived values are certain and flattened objects whole,          *)
(* schedules fire on the days standard cron names, overrides are edits and *)
(* suggestions leave protected settings alone, only allowed variables have *)
(* a say in a config, an accepted config can be run, and the assistant     *)
(* asks its models in order and fits its answers to the request; cells and *)
(* rows are the business of IngestionProofs.                               *)
(***************************************************************************)
EXTENDS Algorithms, IngestionProofs

(* An accepted range of day numbers means the days that standard cron names. *)
LEMMA RangesAreStandard ==
    ASSUME NEW i \in [kind : {"range"}, first : Numbers, last : Numbers],
           Translatable(i), Ordered(i), Meaningful(i), ~OwnWay(i)
    PROVE  Days(i) = StandardDays(i)
<1>1. /\ i.first \in 0..7 /\ i.last \in 0..7 /\ i.first <= i.last
      /\ ~(i.first = 0 /\ i.last = 7) /\ Index(i.first) <= Index(i.last)
  <2>1. i.kind = "range" /\ i.first \in Nat /\ i.last \in Nat
    BY CronAssumption
  <2>2. i.first <= 7 /\ i.last <= 7 /\ i.first <= i.last /\ Index(i.first) <= Index(i.last)
    BY <2>1 DEF Translatable, Ordered, Meaningful
  <2>3. ~(i.first = 0 /\ i.last = 7)
    BY <2>1 DEF OwnWay
  <2>4. QED
    BY <2>1, <2>2, <2>3
<1>2. /\ Days(i) = {DayAt(x) : x \in Index(i.first)..Index(i.last)}
      /\ StandardDays(i) = {n % 7 : n \in i.first..i.last}
  BY DEF Days, StandardDays
<1>3. CASE i.first = 0
  <2>1. i.last = 0
    BY <1>1, <1>3 DEF Index
  <2>2. Index(0) = 6 /\ DayAt(6) = 0 /\ 6..6 = {6} /\ 0..0 = {0} /\ 0 % 7 = 0
    BY DEF Index, DayAt
  <2>3. QED
    BY <1>2, <1>3, <2>1, <2>2
<1>4. CASE i.first # 0
  <2>1. Index(i.first) = i.first - 1 /\ Index(i.last) = i.last - 1
    BY <1>1, <1>4 DEF Index
  <2>2. \A n \in i.first..i.last :
            n - 1 \in Index(i.first)..Index(i.last) /\ DayAt(n - 1) = n % 7
    BY <1>1, <2>1 DEF DayAt
  <2>3. \A x \in Index(i.first)..Index(i.last) :
            x + 1 \in i.first..i.last /\ DayAt(x) = (x + 1) % 7
    BY <1>1, <2>1 DEF DayAt
  <2>4. QED
    BY <1>2, <2>2, <2>3
<1>5. QED
  BY <1>3, <1>4

(* cron_trigger (scheduling/cron.py): a day-of-week field of any number of items, with *)
(* any numbers and steps, that is accepted fires on the days standard cron fires on,   *)
(* unless it uses a step or 0-7.                                                       *)
THEOREM SchedulesAreCron ==
    ASSUME NEW field \in SUBSET Items
    PROVE  IsStandard(field)
<1> SUFFICES ASSUME Accepted(field) PROVE IsStandard(field)
  BY DEF IsStandard
<1>1. ASSUME NEW i \in field, Meaningful(i), ~OwnWay(i)
      PROVE  Days(i) = StandardDays(i)
  <2>1. Translatable(i) /\ Ordered(i)
    BY DEF Accepted
  <2>2. CASE i \in [kind : {"range"}, first : Numbers, last : Numbers]
    BY <1>1, <2>1, <2>2, RangesAreStandard
  <2>3. CASE i \in [kind : {"every"}, step : Steps]
    <3>1. i.kind = "every" /\ i.step = 1
      BY <1>1, <2>3 DEF OwnWay
    <3>2. /\ \A y \in 0..6 : y % 1 = 0 /\ DayAt(y) \in 0..6
          /\ \A d \in 0..6 : (d + 6) % 7 \in 0..6 /\ DayAt((d + 6) % 7) = d
      BY DEF DayAt
    <3>3. Days(i) = {DayAt(x) : x \in 0..6}
      BY <3>1, <3>2 DEF Days
    <3>4. StandardDays(i) = 0..6
      BY <3>1, <3>2 DEF StandardDays, Weekdays
    <3>5. QED
      BY <3>2, <3>3, <3>4
  <2>4. QED
    BY <2>2, <2>3 DEF Items
<1>2. QED
  BY <1>1 DEF IsStandard

-----------------------------------------------------------------------------
(* _complete: a model is asked until it answers or has had all its attempts. *)
LEMMA AskedFacts ==
    ASSUME NEW a \in Calls
    PROVE  /\ Asked(a) \in 1..Attempts
           /\ \A k \in 1..(Asked(a) - 1) : a[k] \in Retried
           /\ a[Asked(a)] \notin Retried \/ Asked(a) = Attempts
<1>0. Attempts \in Nat \ {0} /\ a \in [1..Attempts -> Answers]
  BY AttemptsAssumption DEF Calls
<1> DEFINE Ends == {n \in 1..Attempts : a[n] \notin Retried \/ n = Attempts}
<1>1. PICK n \in Ends : \A q \in Ends : n <= q
  <2>1. Ends \in SUBSET (1..Attempts) /\ Attempts \in Ends
    BY <1>0
  <2>2. QED
    BY <1>0, <2>1, Least
<1>2. \A k \in 1..(n - 1) : a[k] \in Retried
  BY <1>0, <1>1
<1>3. \E c \in 1..Attempts : /\ \A k \in 1..(c - 1) : a[k] \in Retried
                             /\ a[c] \notin Retried \/ c = Attempts
  BY <1>2
<1>4. QED
  BY <1>3 DEF Asked

(* complete_json (ai/client.py): with any number of models, attempts and answers, no    *)
(* model is asked before all in front of it were given up for cause, none is asked      *)
(* after one that answered, and only a request nobody answered may be repeated.         *)
THEOREM ModelsAreAskedInOrder ==
    ASSUME NEW answers \in Seq(Calls)
    PROVE  FallsBackInOrder(answers)
<1> DEFINE models == DOMAIN answers
           left   == {m \in models : ~GivenUp(answers[m])}
           last   == IF left = {} THEN Len(answers)
                     ELSE CHOOSE m \in left : \A n \in left : m <= n
           result == CompleteJson(answers)
           usable == {"object", "garbage", "refused"}
<1>1. /\ Len(answers) \in Nat /\ models = 1..Len(answers)
      /\ \A m \in models : answers[m] \in Calls
      /\ Attempts \in Nat \ {0}
  BY LenProperties, ElementOfSeq, AttemptsAssumption
<1>2. ASSUME NEW m \in models
      PROVE  /\ Asked(answers[m]) \in 1..Attempts
             /\ \A k \in 1..(Asked(answers[m]) - 1) : answers[m][k] \in Retried
             /\ answers[m][Asked(answers[m])] \notin Retried \/ Asked(answers[m]) = Attempts
             /\ answers[m][Asked(answers[m])] \in Answers
  BY <1>1, AskedFacts DEF Calls
<1>3. ASSUME NEW m \in models, m \notin left
      PROVE  /\ \/ Asked(answers[m]) = Attempts
                \/ answers[m][Asked(answers[m])] = "gone"
             /\ \A k \in 1..Asked(answers[m]) : answers[m][k] \notin usable
  <2>1. answers[m][Asked(answers[m])] \in Retried \cup {"gone"}
    BY <1>3 DEF GivenUp
  <2>2. Asked(answers[m]) \in Nat
    BY <1>2
  <2>3. \A k \in 1..Asked(answers[m]) : k = Asked(answers[m]) \/ k \in 1..(Asked(answers[m]) - 1)
    BY <2>2
  <2>4. \A k \in 1..Asked(answers[m]) : answers[m][k] \in Retried \cup {"gone"}
    BY <1>2, <2>1, <2>3
  <2>5. QED
    BY <1>2, <2>1, <2>4 DEF Retried
<1>4. left # {} => last \in left /\ \A n \in left : last <= n
  <2>1. left \in SUBSET (1..Len(answers))
    BY <1>1
  <2>2. left # {} => \E m \in left : \A n \in left : m <= n
    BY <1>1, <2>1, Least
  <2>3. QED
    BY <2>2
<1>5. /\ result.outcome = IF left = {} THEN "nobody" ELSE answers[last][Asked(answers[last])]
      /\ \A m \in models : result.calls[m] = IF m <= last THEN Asked(answers[m]) ELSE 0
      /\ result.retryable = (left = {})
  BY DEF CompleteJson
<1> HIDE DEF left, last, result
<1>6. last \in Nat /\ \A n \in models : n < last => n \notin left
  BY <1>1, <1>4 DEF left, last
<1>7. ASSUME NEW m \in models, result.calls[m] > 0, NEW n \in 1..(m - 1)
      PROVE  result.calls[n] = Attempts \/ answers[n][result.calls[n]] = "gone"
  <2>1. m <= last /\ n \in models /\ n < last
    BY <1>1, <1>5, <1>6, <1>7
  <2>2. result.calls[n] = Asked(answers[n]) /\ n \notin left
    BY <1>5, <1>6, <2>1
  <2>3. QED
    BY <1>3, <2>1, <2>2
<1>8. ASSUME NEW m \in models, NEW k \in 1..result.calls[m], answers[m][k] \in usable
      PROVE  m \in left /\ m = last
  <2>1. m <= last /\ result.calls[m] = Asked(answers[m])
    BY <1>5, <1>8
  <2>2. m \in left
    BY <1>3, <1>8, <2>1
  <2>3. QED
    BY <1>1, <1>4, <1>6, <2>1, <2>2
<1>9. left # {} => /\ last \in models /\ result.calls[last] = Asked(answers[last])
                   /\ result.calls[last] \in 1..result.calls[last]
                   /\ answers[last][result.calls[last]] \in usable
  <2>1. left # {} => last \in models /\ last \in left
    BY <1>4 DEF left
  <2>2. left # {} => answers[last][Asked(answers[last])] \in usable
    BY <1>2, <2>1 DEF left, GivenUp, Answers, Retried
  <2>3. left # {} => result.calls[last] = Asked(answers[last])
    BY <1>5, <1>6, <2>1
  <2>4. \A c \in 1..Attempts : c \in 1..c
    OBVIOUS
  <2>5. left # {} => result.calls[last] \in 1..result.calls[last]
    BY <1>2, <2>1, <2>3, <2>4
  <2>6. QED
    BY <2>1, <2>2, <2>3, <2>5
<1> DEFINE answered == {m \in models : \E k \in 1..result.calls[m] : answers[m][k] \in usable}
<1>10. answered = IF left = {} THEN {} ELSE {last}
  BY <1>8, <1>9
<1>11. \A m \in answered, n \in models : n > m => result.calls[n] = 0
  BY <1>1, <1>5, <1>6, <1>10
<1>12. result.outcome = "object" =>
          \E m \in answered : answers[m][result.calls[m]] = "object"
  BY <1>5, <1>9, <1>10
<1>13. result.retryable <=> answered = {}
  BY <1>5, <1>10
<1>14. QED
  BY <1>7, <1>11, <1>12, <1>13 DEF FallsBackInOrder, result

(* diagnose (ai/assistant.py) and its endpoint: whatever the models answer, a diagnosis *)
(* answers a failed run and can be stored, and a request for one ends unforeseen only    *)
(* for the two kinds of reply known to do that.                                          *)
THEOREM DiagnosesFitTheirRun ==
    ASSUME NEW enabled, NEW run, NEW answers, NEW reply, reply.confidence \in Confidences
    PROVE  DiagnosesAreSound(enabled, run, answers, reply)
<1> DEFINE response == DiagnoseResponse(enabled, run, answers, reply)
<1>1. response = 200 => enabled /\ run = "FAILED" /\ ~Unforeseen(reply)
  BY DEF DiagnoseResponse
<1>2. response = 500 => Unforeseen(reply)
  BY DEF DiagnoseResponse
<1>3. Diagnosis(reply).category \in Categories \/ Diagnosis(reply).category = "unknown"
  BY DEF Diagnosis
<1>4. ~Unforeseen(reply) => Diagnosis(reply).confidence \in 0..10
  <2>1. CASE reply.confidence.kind = "text"
    BY <2>1 DEF Diagnosis, Clamped
  <2>2. CASE reply.confidence \in [kind : {"number"}, value : Int]
    <3>1. reply.confidence.kind = "number" /\ reply.confidence.value \in Int
      BY <2>2
    <3>2. Clamped(reply.confidence) \in 0..10
      BY <3>1 DEF Clamped
    <3>3. QED
      BY <3>2 DEF Diagnosis
  <2>3. QED
    BY <2>1, <2>2 DEF Confidences, Unforeseen
<1> HIDE DEF response
<1>5. QED
  BY <1>1, <1>2, <1>3, <1>4 DEF DiagnosesAreSound, Unforeseen, Categories, response

(* What two replies have to say, merged: all of both, nothing twice.                     *)
LEMMA MergedFacts ==
    ASSUME NEW notes \in Seq(STRING), NEW more \in Seq(STRING)
    PROVE  /\ ToSet(notes) \subseteq ToSet(Merged(notes, more))
           /\ ToSet(more) \subseteq ToSet(Merged(notes, more))
           /\ IsInjective(notes) /\ IsInjective(more) => IsInjective(Merged(notes, more))
<1> DEFINE n == Len(notes)
           m == Len(more)
           S == {i \in DOMAIN more : ~Contains(notes, more[i])}
           c == Cardinality(S)
           f == InOrder(S)
           all == Merged(notes, more)
<1>1. /\ n \in Nat /\ notes \in [1..n -> STRING] /\ DOMAIN notes = 1..n
      /\ m \in Nat /\ more \in [1..m -> STRING] /\ DOMAIN more = 1..m
  BY LenProperties
<1>2. S \in SUBSET (1..m)
  BY <1>1
<1>3. \A s : Contains(notes, s) <=> \E i \in 1..n : notes[i] = s
  BY DEF Contains
<1>4. all = notes \o Selected(more, S)
  BY DEF Merged
<1>5. \A i \in S : i \in 1..m /\ \A j \in 1..n : notes[j] # more[i]
  BY <1>1, <1>3
<1>6. \A i \in 1..m : i \in S \/ \E j \in 1..n : notes[j] = more[i]
  BY <1>1, <1>3
<1> HIDE DEF n, m, S, c, f, all
<1>7. Selects(more, S, STRING, c, f)
  BY <1>1, <1>2, SelectedFacts DEF c, f
<1>8. /\ c \in Nat /\ f \in [1..c -> S]
      /\ \A p \in S : \E i \in 1..c : f[i] = p
      /\ \A i, j \in 1..c : f[i] = f[j] => i = j
      /\ Selected(more, S) = [i \in 1..c |-> more[f[i]]]
      /\ Selected(more, S) \in Seq(STRING) /\ Len(Selected(more, S)) = c
  BY <1>7 DEF Selects
<1>9. /\ DOMAIN all = 1..(n + c)
      /\ \A i \in 1..n : i \in 1..(n + c) /\ all[i] = notes[i]
      /\ \A i \in 1..c : n + i \in 1..(n + c) /\ all[n + i] = more[f[i]]
  <2> DEFINE new == Selected(more, S)
  <2>1. new \in Seq(STRING) /\ Len(new) = c /\ \A i \in 1..c : new[i] = more[f[i]]
    BY <1>8
  <2> HIDE DEF new
  <2>2. /\ all \in Seq(STRING) /\ Len(all) = n + c
        /\ \A i \in 1..(n + c) : all[i] = IF i <= n THEN notes[i] ELSE new[i - n]
    BY <1>4, <2>1, ConcatProperties DEF n, new
  <2>3. DOMAIN all = 1..(n + c)
    BY <2>2, LenProperties
  <2>4. \A i \in 1..n : i \in 1..(n + c) /\ i <= n
    BY <1>1, <1>8
  <2>5. \A i \in 1..c : n + i \in 1..(n + c) /\ ~(n + i <= n) /\ (n + i) - n = i
    BY <1>1, <1>8
  <2>6. ASSUME NEW i \in 1..c PROVE all[n + i] = more[f[i]]
    <3>1. all[n + i] = new[(n + i) - n]
      BY <2>2, <2>5
    <3>2. QED
      BY <2>1, <2>5, <3>1
  <2>7. QED
    BY <2>2, <2>3, <2>4, <2>5, <2>6
<1>10. \A i \in 1..(n + c) : i \in 1..n \/ \E k \in 1..c : i = n + k
  <2>1. ASSUME NEW i \in 1..(n + c), i \notin 1..n PROVE i - n \in 1..c /\ i = n + (i - n)
    BY <1>1, <1>8, <2>1
  <2>2. QED
    BY <2>1
<1>11. ToSet(notes) \subseteq ToSet(all)
  BY <1>1, <1>9 DEF ToSet
<1>12. ToSet(more) \subseteq ToSet(all)
  <2>1. ASSUME NEW i \in 1..m PROVE \E j \in 1..(n + c) : all[j] = more[i]
    <3>1. CASE i \in S
      <4>1. PICK k \in 1..c : f[k] = i
        BY <1>8, <3>1
      <4>2. QED
        BY <1>9, <4>1
    <3>2. CASE \E j \in 1..n : notes[j] = more[i]
      BY <1>9, <3>2
    <3>3. QED
      BY <1>6, <3>1, <3>2
  <2>2. QED
    BY <1>1, <1>9, <2>1 DEF ToSet
<1>13. ASSUME IsInjective(notes), IsInjective(more) PROVE IsInjective(all)
  <2>1. /\ \A i, j \in 1..n : notes[i] = notes[j] => i = j
        /\ \A i, j \in 1..m : more[i] = more[j] => i = j
    BY <1>1, <1>13 DEF IsInjective
  <2>2. ASSUME NEW i \in 1..(n + c), NEW j \in 1..(n + c), all[i] = all[j] PROVE i = j
    <3>1. CASE i \in 1..n /\ j \in 1..n
      BY <1>9, <2>1, <2>2, <3>1
    <3>2. \A a \in 1..n, b \in 1..c : notes[a] # more[f[b]]
      BY <1>5, <1>8
    <3>3. CASE i \in 1..n /\ \E k \in 1..c : j = n + k
      BY <1>9, <2>2, <3>2, <3>3
    <3>4. CASE j \in 1..n /\ \E k \in 1..c : i = n + k
      BY <1>9, <2>2, <3>2, <3>4
    <3>5. CASE (\E k \in 1..c : i = n + k) /\ \E k \in 1..c : j = n + k
      <4>1. PICK a \in 1..c, b \in 1..c : i = n + a /\ j = n + b
        BY <3>5
      <4>2. more[f[a]] = more[f[b]] /\ f[a] \in 1..m /\ f[b] \in 1..m
        BY <1>5, <1>8, <1>9, <2>2, <4>1
      <4>3. a = b
        BY <1>8, <2>1, <4>2
      <4>4. QED
        BY <4>1, <4>3
    <3>6. QED
      BY <1>10, <3>1, <3>3, <3>4, <3>5
  <2>3. QED
    BY <1>9, <2>2 DEF IsInjective
<1>14. QED
  BY <1>11, <1>12, <1>13 DEF all

(* draft (ai/assistant.py) and its endpoint: a draft is shown with the problems of its   *)
(* own text and with every note of the replies it comes from, none twice unless one      *)
(* reply has it twice, and the caller is blamed exactly for a fault of the request,      *)
(* where the words of the message do not mislead.                                        *)
THEOREM DraftsSpeakForThemselves ==
    ASSUME NEW enabled, NEW flaw \in Flaws \cup {"none"}, NEW worded, NEW outcomes,
           NEW replies \in [1..2 -> Replies], NEW problems
    PROVE  DraftsAreSound(enabled, flaw, worded, outcomes, replies, problems)
<1> DEFINE draft    == Drafted(outcomes, replies, problems)
           response == DraftResponse(enabled, flaw, worded, draft)
           one      == replies[1].notes
           two      == replies[2].notes
           used     == {i \in {1, 2} : i = 1 \/ problems[replies[1].text] # {}}
<1>1. one \in Seq(STRING) /\ two \in Seq(STRING)
  BY DEF Replies
<1>2. \/ draft = Failed
      \/ /\ problems[replies[1].text] = {}
         /\ draft = Draft(replies[1].text, one, {})
      \/ /\ problems[replies[1].text] # {}
         /\ draft = Draft(replies[2].text, Merged(one, two), problems[replies[2].text])
  BY DEF Drafted
<1>3. response = 200 => draft # Failed
  BY DEF DraftResponse, Failed
<1>4. draft # Failed => draft.problems = problems[draft.text]
  BY <1>2 DEF Draft
<1>5. /\ ToSet(one) \subseteq ToSet(Merged(one, two))
      /\ ToSet(two) \subseteq ToSet(Merged(one, two))
      /\ IsInjective(one) /\ IsInjective(two) => IsInjective(Merged(one, two))
  BY <1>1, MergedFacts
<1>6. draft # Failed =>
          /\ \A i \in used : ToSet(replies[i].notes) \subseteq ToSet(draft.notes)
          /\ (\A i \in used : IsInjective(replies[i].notes)) => IsInjective(draft.notes)
  <2>1. CASE problems[replies[1].text] = {} /\ draft = Draft(replies[1].text, one, {})
    <3>1. used = {1} /\ draft.notes = one
      BY <2>1 DEF Draft
    <3> HIDE DEF used, draft
    <3>2. QED
      BY <3>1
  <2>2. CASE /\ problems[replies[1].text] # {}
             /\ draft = Draft(replies[2].text, Merged(one, two), problems[replies[2].text])
    <3>1. used = {1, 2} /\ draft.notes = Merged(one, two)
      BY <2>2 DEF Draft
    <3> HIDE DEF used, draft
    <3>2. QED
      BY <1>5, <3>1
  <2>3. QED
    BY <1>2, <2>1, <2>2
<1>7. ASSUME enabled, ~(IF flaw = "none" THEN worded ELSE flaw = "empty" /\ ~worded)
      PROVE  response = 422 <=> flaw # "none"
  BY <1>7 DEF DraftResponse, Flaws
<1> HIDE DEF draft, response, used
<1>8. QED
  BY <1>3, <1>4, <1>6, <1>7 DEF DraftsAreSound, draft, response, used

-----------------------------------------------------------------------------
(* Taking a wrapper off a type leaves a type, with one wrapper less or the same.       *)
LEMMA UnwrapFacts ==
    ASSUME NEW t \in TypeTexts, NEW w
    PROVE  /\ Unwrapped(t, w) \in TypeTexts /\ t.wrappers \in Seq(STRING)
           /\ \/ Unwrapped(t, w) = t /\ (t.wrappers = <<>> \/ Head(t.wrappers) # w)
              \/ /\ t.wrappers # <<>> /\ Head(t.wrappers) = w
                 /\ Unwrapped(t, w).wrappers = Tail(t.wrappers)
<1>1. t.wrappers \in Seq(STRING) /\ "wrappers" \in DOMAIN t
  BY DEF TypeTexts
<1>2. CASE t.wrappers = <<>> \/ Head(t.wrappers) # w
  BY <1>1, <1>2 DEF Unwrapped
<1>3. CASE t.wrappers # <<>> /\ Head(t.wrappers) = w
  <2>1. Tail(t.wrappers) \in Seq(STRING)
    BY <1>1, <1>3
  <2>2. Unwrapped(t, w) = [t EXCEPT !.wrappers = Tail(t.wrappers)]
    BY <1>3 DEF Unwrapped
  <2>3. QED
    BY <1>1, <1>3, <2>1, <2>2 DEF TypeTexts
<1>4. QED
  BY <1>2, <1>3

(* A type that is accepted and not nullable has no Nullable in any of its wrappers.    *)
LEMMA NotNullable ==
    ASSUME NEW type \in TypeTexts, ParseColumnType(type) # Invalid,
           ~ParseColumnType(type).nullable
    PROVE  ~Contains(type.wrappers, "Nullable")
<1> DEFINE outer == Unwrapped(type, "LowCardinality")
           inner == Unwrapped(outer, "Nullable")
           bare  == Unwrapped(inner, "LowCardinality")
<1>1. inner = outer /\ bare.wrappers = <<>>
  BY DEF ParseColumnType
<1>2. /\ outer \in TypeTexts /\ type.wrappers \in Seq(STRING)
      /\ \/ outer = type
         \/ /\ type.wrappers # <<>> /\ Head(type.wrappers) = "LowCardinality"
            /\ outer.wrappers = Tail(type.wrappers)
  BY UnwrapFacts
<1>3. bare = Unwrapped(outer, "LowCardinality")
  BY <1>1
<1> HIDE DEF outer, inner, bare
<1>4. /\ outer.wrappers \in Seq(STRING)
      /\ \/ bare = outer
         \/ /\ outer.wrappers # <<>> /\ Head(outer.wrappers) = "LowCardinality"
            /\ bare.wrappers = Tail(outer.wrappers)
  BY <1>2, <1>3, UnwrapFacts
<1> DEFINE Bare(s) == \A i \in 1..Len(s) : s[i] = "LowCardinality"
<1>5. ASSUME NEW s \in Seq(STRING), s # <<>>, Head(s) = "LowCardinality", Bare(Tail(s))
      PROVE  Bare(s)
  <2>1. /\ Len(s) \in Nat /\ Len(Tail(s)) = Len(s) - 1 /\ s[1] = "LowCardinality"
        /\ \A i \in 1..Len(Tail(s)) : Tail(s)[i] = s[i + 1]
    BY <1>5, HeadTailProperties
  <2>2. ASSUME NEW i \in 1..Len(s) PROVE s[i] = "LowCardinality"
    <3>1. i = 1 \/ i - 1 \in 1..Len(Tail(s))
      BY <2>1
    <3>2. i - 1 \in 1..Len(Tail(s)) => s[i] = Tail(s)[i - 1]
      BY <2>1
    <3>3. QED
      BY <1>5, <2>1, <3>1, <3>2
  <2>3. QED
    BY <2>2
<1>6. Bare(<<>>)
  BY EmptySeq
<1> HIDE DEF Bare
<1>7. Bare(outer.wrappers)
  BY <1>1, <1>4, <1>5, <1>6
<1>8. Bare(type.wrappers)
  BY <1>2, <1>5, <1>7
<1>9. QED
  BY <1>8 DEF Bare, Contains

(* Two elements in a row. *)
LEMMA TwoInARow ==
    ASSUME NEW S, NEW a \in S, NEW b \in S
    PROVE  <<a, b>> \in Seq(S) /\ Len(<<a, b>>) = 2 /\ <<a, b>>[1] = a /\ <<a, b>>[2] = b
OBVIOUS

(* A sequence is h followed by t. *)
FollowedBy(S, s, h, t) ==
    /\ s \in Seq(S) /\ t \in Seq(S) /\ h \in S /\ h = s[1]
    /\ Len(s) \in Nat /\ Len(t) \in Nat /\ Len(t) + 1 = Len(s)
    /\ \A i \in 1..Len(t) : t[i] = s[i + 1]

(* If t is short it can be written down. *)
LEMMA ShortTails ==
    ASSUME NEW S, NEW s, NEW h, NEW t, FollowedBy(S, s, h, t)
    PROVE  /\ t = <<>> => s = <<h>>
           /\ \A x : t = <<x>> => s = <<h, x>>
<1> USE DEF FollowedBy
<1>1. ASSUME t = <<>> PROVE s = <<h>>
  <2>1. Len(t) = 0
    BY <1>1
  <2>2. Len(s) = 1
    BY <2>1
  <2>3. <<h>> \in Seq(S) /\ Len(<<h>>) = 1 /\ <<h>>[1] = h
    OBVIOUS
  <2>4. \A i \in 1..Len(s) : s[i] = <<h>>[i]
    BY <2>2, <2>3
  <2>5. QED
    BY <2>2, <2>3, <2>4, SeqEqual
<1>2. ASSUME NEW x, t = <<x>> PROVE s = <<h, x>>
  <2>1. Len(t) = 1 /\ t[1] = x
    BY <1>2
  <2>2. Len(s) = 2 /\ s[2] = x /\ x \in S
    <3>1. Len(s) = 2 /\ 1 + 1 = 2 /\ 1 \in 1..Len(t)
      BY <2>1
    <3>2. t[1] \in S
      BY <3>1, ElementOfSeq
    <3>3. QED
      BY <2>1, <3>1, <3>2
  <2> DEFINE two == <<h, x>>
  <2>3. two \in Seq(S) /\ Len(two) = 2 /\ two[1] = h /\ two[2] = x
    BY <2>2, TwoInARow
  <2> HIDE DEF two
  <2>4. \A i \in 1..Len(s) : s[i] = two[i]
    <3>1. \A i \in 1..2 : i = 1 \/ i = 2
      OBVIOUS
    <3>2. QED
      BY <2>2, <2>3, <3>1
  <2>5. s = two
    BY <2>2, <2>3, <2>4, SeqEqual
  <2>6. QED
    BY <2>5 DEF two
<1>3. QED
  BY <1>1, <1>2

(* A sequence is its head followed by its tail. *)
LEMMA HeadAndTail ==
    ASSUME NEW s \in Seq(STRING), s # <<>>
    PROVE  FollowedBy(STRING, s, Head(s), Tail(s))
<1>1. /\ Head(s) \in STRING /\ Head(s) = s[1] /\ Tail(s) \in Seq(STRING)
      /\ Len(s) \in Nat /\ Len(Tail(s)) = Len(s) - 1
      /\ \A i \in 1..Len(Tail(s)) : Tail(s)[i] = s[i + 1]
  BY HeadTailProperties, LenProperties
<1>2. Len(Tail(s)) \in Nat
  BY <1>1, LenProperties
<1>3. QED
  BY <1>1, <1>2 DEF FollowedBy

(* An accepted type is in the wrappers the warehouse has, or LowCardinality twice.     *)
LEMMA AcceptedTypes ==
    ASSUME NEW type \in TypeTexts, ParseColumnType(type) # Invalid, ~Unsupported(type)
    PROVE  InWarehouse(type)
<1> DEFINE LC    == "LowCardinality"
           N     == "Nullable"
           outer == Unwrapped(type, LC)
           inner == Unwrapped(outer, N)
           bare  == IF inner # outer THEN inner ELSE Unwrapped(inner, LC)
<1>1. bare.wrappers = <<>>
  BY DEF ParseColumnType
<1>2. /\ outer \in TypeTexts /\ type.wrappers \in Seq(STRING)
      /\ \/ outer = type
         \/ /\ type.wrappers # <<>> /\ Head(type.wrappers) = LC
            /\ outer.wrappers = Tail(type.wrappers)
  BY UnwrapFacts
<1>3. /\ inner \in TypeTexts /\ outer.wrappers \in Seq(STRING)
      /\ \/ inner = outer
         \/ /\ outer.wrappers # <<>> /\ Head(outer.wrappers) = N
            /\ inner.wrappers = Tail(outer.wrappers)
  BY <1>2, UnwrapFacts
<1>4. /\ inner.wrappers \in Seq(STRING)
      /\ \/ bare = inner
         \/ /\ inner = outer /\ inner.wrappers # <<>> /\ Head(inner.wrappers) = LC
            /\ bare.wrappers = Tail(inner.wrappers)
  BY <1>3, UnwrapFacts
<1> HIDE DEF outer, inner, bare
<1>5. \A w \in Seq(STRING) : w # <<>> => FollowedBy(STRING, w, Head(w), Tail(w))
  BY HeadAndTail
<1>6. inner.wrappers = <<>> \/ (inner = outer /\ inner.wrappers = <<LC>>)
  <2>1. CASE bare = inner
    BY <1>1, <2>1
  <2>2. CASE bare # inner
    <3>1. FollowedBy(STRING, inner.wrappers, LC, bare.wrappers)
      BY <1>4, <1>5, <2>2
    <3>2. QED
      BY <1>1, <1>4, <2>2, <3>1, ShortTails
  <2>3. QED
    BY <2>1, <2>2
<1>7. outer.wrappers \in {<<>>, <<LC>>, <<N>>}
  <2>1. CASE inner = outer
    BY <1>6, <2>1
  <2>2. CASE inner # outer
    BY <1>3, <1>5, <1>6, <2>2, ShortTails
  <2>3. QED
    BY <2>1, <2>2
<1>8. type.wrappers \in {<<>>, <<LC>>, <<N>>, <<LC, LC>>, <<LC, N>>}
  <2>1. CASE outer = type
    BY <1>7, <2>1
  <2>2. CASE outer # type
    <3>1. FollowedBy(STRING, type.wrappers, LC, outer.wrappers)
      BY <1>2, <1>5, <2>2
    <3>2. QED
      BY <1>7, <3>1, ShortTails
  <2>3. QED
    BY <2>1, <2>2
<1>9. QED
  BY <1>8 DEF InWarehouse, Unsupported

(* The lineage columns, written as a sequence, are columns of different names.         *)
LineageType    == [wrappers |-> <<>>, kind |-> "lineage"]
LineageSpecs   == [name : Lineage, type : {LineageType}]
LineageColumns == SetToSeq({[name |-> n, type |-> LineageType] : n \in Lineage})

(* There is a sequence of them, and each name is in it once. *)
LEMMA LineageFacts ==
    \E n \in Nat :
        /\ LineageColumns \in Seq(LineageSpecs) /\ Len(LineageColumns) = n
        /\ \A i, j \in 1..n : LineageColumns[i].name = LineageColumns[j].name => i = j
        /\ \A c \in Lineage : \E i \in 1..n : LineageColumns[i].name = c
<1> DEFINE Made == {[name |-> c, type |-> LineageType] : c \in Lineage}
           n    == Cardinality(Made)
<1>1. IsFiniteSet(Made)
  <2> DEFINE First  == [name |-> "_run_id", type |-> LineageType]
             Second == [name |-> "_ingested_at", type |-> LineageType]
  <2>1. IsFiniteSet({First}) /\ IsFiniteSet({Second})
    BY FS_Singleton
  <2>2. Made = {First} \cup {Second}
    BY DEF Lineage
  <2> HIDE DEF First, Second, Made
  <2>3. QED
    BY <2>1, <2>2, FS_Union
<1>2. /\ LineageColumns \in [1..n -> Made] /\ n \in Nat
      /\ \A i, j \in 1..n : LineageColumns[i] = LineageColumns[j] => i = j
  BY <1>1, SetToSeqFacts DEF LineageColumns
<1>3. /\ Made \subseteq LineageSpecs
      /\ \A a, b \in Made : a.name = b.name => a = b
      /\ \A c \in Lineage : \E a \in Made : a.name = c
  <2>1. \A a \in Made : \E c \in Lineage : a = [name |-> c, type |-> LineageType]
    OBVIOUS
  <2>2. ASSUME NEW c \in Lineage PROVE \E a \in Made : a.name = c
    <3>1. [name |-> c, type |-> LineageType] \in Made
      OBVIOUS
    <3>2. QED
      BY <3>1
  <2> HIDE DEF Made
  <2>3. QED
    BY <2>1, <2>2 DEF LineageSpecs
<1> HIDE DEF Made, n
<1>4. LineageColumns \in Seq(Made) /\ Len(LineageColumns) = n
  <2>1. LineageColumns \in Seq(Made)
    BY <1>2, SeqDef
  <2>2. Len(LineageColumns) \in Nat /\ DOMAIN LineageColumns = 1..Len(LineageColumns)
    BY <2>1, LenProperties
  <2>3. 1..n = 1..Len(LineageColumns)
    BY <1>2, <2>2
  <2>4. QED
    BY <1>2, <2>1, <2>2, <2>3
<1>5. LineageColumns \in Seq(LineageSpecs)
  BY <1>3, <1>4, SeqMonotonic
<1>6. \A i, j \in 1..n : LineageColumns[i].name = LineageColumns[j].name => i = j
  BY <1>2, <1>3
<1>7. \A a \in Made : \E i \in 1..n : LineageColumns[i] = a
  <2> DEFINE Image == {LineageColumns[i] : i \in 1..n}
  <2>1. LineageColumns \in Bijection(1..n, Image)
    BY <1>2 DEF Bijection, Injection, Surjection, IsInjective
  <2>2. IsFiniteSet(1..n) /\ Cardinality(1..n) = n
    BY <1>2, FS_Interval
  <2>3. Image \in SUBSET Made
    BY <1>2
  <2> HIDE DEF Image
  <2>4. Cardinality(Image) = n
    BY <2>1, <2>2, FS_Bijection DEF ExistsBijection
  <2>5. Made = Image
    BY <1>1, <2>3, <2>4, FS_Subset DEF n
  <2>6. QED
    BY <2>5 DEF Image
<1>8. \A c \in Lineage : \E i \in 1..n : LineageColumns[i].name = c
  BY <1>3, <1>7
<1>9. QED
  BY <1>2, <1>4, <1>5, <1>6, <1>8

(* ddl.py: of an accepted destination, whatever its columns, types and wrappers, no two  *)
(* columns of the table have one name, lineage columns included, and no column of the    *)
(* sorting key is nullable; all the warehouse may refuse is a LowCardinality of another  *)
(* or of a Decimal, and a partition expression over columns the table does not have.     *)
THEOREM AcceptedTablesHold ==
    ASSUME NEW d \in Destinations
    PROVE  AcceptedTablesStand(d)
<1> SUFFICES ASSUME ValidDestination(d)
             PROVE  /\ Complaints(d) \subseteq {"type", "partition"}
                    /\ "type" \in Complaints(d) =>
                          \E i \in DOMAIN d.columns : Unsupported(d.columns[i].type)
                    /\ "partition" \in Complaints(d) =>
                          ~(d.partitionBy \subseteq ColumnNamesOf(d) \cup Lineage)
  BY DEF AcceptedTablesStand
<1> DEFINE own == d.columns
           all == TableColumns(d)
           m   == Len(own)
<1>1. own \in Seq(ColumnSpecs) /\ m \in Nat /\ DOMAIN own = 1..m
      /\ \A i \in 1..m : own[i] \in ColumnSpecs
  <2>1. own \in Seq(ColumnSpecs)
    BY DEF Destinations
  <2>2. QED
    BY <2>1, LenProperties, ElementOfSeq
<1>2. PICK n \in Nat :
          /\ LineageColumns \in Seq(LineageSpecs)
          /\ Len(LineageColumns) = n
          /\ \A i, j \in 1..n : LineageColumns[i].name = LineageColumns[j].name => i = j
          /\ \A c \in Lineage : \E i \in 1..n : LineageColumns[i].name = c
  BY LineageFacts
<1>3. \A i \in 1..n : LineageColumns[i].name \in Lineage /\ LineageColumns[i].type = LineageType
  <2>1. \A i \in 1..n : LineageColumns[i] \in LineageSpecs
    BY <1>2, ElementOfSeq
  <2>2. QED
    BY <2>1 DEF LineageSpecs
<1>4. /\ DOMAIN all = 1..(m + n)
      /\ \A i \in 1..(m + n) : all[i] = IF i <= m THEN own[i] ELSE LineageColumns[i - m]
  <2> DEFINE Either == ColumnSpecs \cup LineageSpecs
  <2>1. own \in Seq(Either) /\ LineageColumns \in Seq(Either)
    <3>1. ColumnSpecs \subseteq Either /\ LineageSpecs \subseteq Either
      OBVIOUS
    <3> HIDE DEF Either
    <3>2. QED
      BY <1>1, <1>2, <3>1, SeqMonotonic
  <2>2. all = own \o LineageColumns
    BY DEF TableColumns, LineageColumns, LineageType
  <2> HIDE DEF Either, all, own
  <2>3. all \in Seq(Either) /\ Len(all) = m + n
        /\ \A i \in 1..(m + n) : all[i] = IF i <= m THEN own[i] ELSE LineageColumns[i - m]
    <3>1. /\ own \o LineageColumns \in Seq(Either)
          /\ Len(own \o LineageColumns) = Len(own) + Len(LineageColumns)
          /\ \A i \in 1..(Len(own) + Len(LineageColumns)) :
                (own \o LineageColumns)[i] = IF i <= Len(own) THEN own[i]
                                            ELSE LineageColumns[i - Len(own)]
      BY <2>1, ConcatProperties
    <3>2. QED
      BY <1>2, <2>2, <3>1
  <2>4. QED
    BY <2>3, LenProperties
<1>5. \A i, j \in 1..m : own[i].name = own[j].name => i = j
  <2> DEFINE names == [i \in 1..m |-> own[i].name]
  <2>1. names \in Surjection(1..m, ColumnNamesOf(d))
    BY <1>1 DEF Surjection, ColumnNamesOf
  <2>2. IsFiniteSet(1..m) /\ Cardinality(1..m) = m
    BY <1>1, FS_Interval
  <2>3. Cardinality(ColumnNamesOf(d)) = m
    BY DEF ValidDestination
  <2> HIDE DEF names
  <2>4. names \in Injection(1..m, ColumnNamesOf(d))
    BY <2>1, <2>2, <2>3, FS_SurjSameCardinalityImpliesInj
  <2>5. \A i, j \in 1..m : names[i] = names[j] => i = j
    BY <2>4 DEF Injection, IsInjective
  <2>6. QED
    BY <2>5 DEF names
<1>6. \A i \in 1..m : own[i].name \notin Lineage
  BY <1>1 DEF ValidDestination, ValidColumn
<1> HIDE DEF own, all, m
<1>7. \A i, j \in DOMAIN all : all[i].name = all[j].name => i = j
  <2>1. ASSUME NEW i \in 1..(m + n), NEW j \in 1..(m + n), all[i].name = all[j].name
        PROVE  i = j
    <3>1. m \in Nat
      BY <1>1
    <3>2. CASE i <= m /\ j <= m
      BY <1>4, <1>5, <2>1, <3>1, <3>2
    <3>3. CASE i > m /\ j > m
      <4>1. i - m \in 1..n /\ j - m \in 1..n /\ ~(i <= m) /\ ~(j <= m)
        BY <3>1, <3>3
      <4>2. LineageColumns[i - m].name = LineageColumns[j - m].name
        BY <1>4, <2>1, <4>1
      <4>3. i - m = j - m
        BY <1>2, <4>1, <4>2
      <4>4. QED
        BY <3>1, <4>3
    <3>4. CASE i <= m /\ j > m
      <4>1. i \in 1..m /\ j - m \in 1..n /\ ~(j <= m)
        BY <3>1, <3>4
      <4>2. QED
        BY <1>3, <1>4, <1>6, <2>1, <3>4, <4>1
    <3>5. CASE i > m /\ j <= m
      <4>1. j \in 1..m /\ i - m \in 1..n /\ ~(i <= m)
        BY <3>1, <3>5
      <4>2. QED
        BY <1>3, <1>4, <1>6, <2>1, <3>5, <4>1
    <3>6. QED
      BY <3>1, <3>2, <3>3, <3>4, <3>5
  <2>2. QED
    BY <1>4, <2>1
<1>8. ASSUME NEW k \in d.orderBy
      PROVE  \E i \in DOMAIN all :
                all[i].name = k /\ ~Contains(all[i].type.wrappers, "Nullable")
  <2>1. PICK i \in 1..m : own[i].name = k
    BY <1>1 DEF ValidDestination, ColumnNamesOf, own
  <2>2. own[i].type \in TypeTexts
    BY <1>1 DEF ColumnSpecs
  <2>3. ParseColumnType(own[i].type) # Invalid /\ ~ParseColumnType(own[i].type).nullable
    BY <1>1, <2>1 DEF ValidDestination, ValidColumn, own
  <2>4. ~Contains(own[i].type.wrappers, "Nullable")
    BY <2>2, <2>3, NotNullable
  <2>5. i \in DOMAIN all /\ all[i] = own[i]
    BY <1>1, <1>4
  <2>6. QED
    BY <2>1, <2>4, <2>5
<1>9. "names" \notin Complaints(d)
  BY <1>7 DEF Complaints, all
<1>10. "key" \notin Complaints(d)
  BY <1>8 DEF Complaints, all
<1>11. Complaints(d) \subseteq {"names", "key", "type", "partition"}
  BY DEF Complaints
<1>12. ASSUME "type" \in Complaints(d)
       PROVE  \E i \in DOMAIN d.columns : Unsupported(d.columns[i].type)
  <2>1. PICK i \in DOMAIN all : ~InWarehouse(all[i].type)
    BY <1>12 DEF Complaints, all
  <2>2. i <= m
    <3>1. CASE ~(i <= m)
      <4>1. i - m \in 1..n /\ all[i] = LineageColumns[i - m]
        BY <1>1, <1>4, <3>1
      <4>2. all[i].type = LineageType
        BY <1>3, <4>1
      <4>3. InWarehouse(LineageType)
        <5>1. ~Contains(<<>>, "LowCardinality")
          BY DEF Contains
        <5>2. QED
          BY <5>1 DEF InWarehouse, LineageType
      <4>4. QED
        BY <2>1, <4>2, <4>3
    <3>2. QED
      BY <3>1
  <2>3. i \in 1..m /\ all[i] = own[i]
    BY <1>1, <1>4, <2>2
  <2>4. own[i].type \in TypeTexts /\ ParseColumnType(own[i].type) # Invalid
    BY <1>1, <2>3 DEF ColumnSpecs, ValidDestination, ValidColumn, own
  <2>5. Unsupported(own[i].type)
    BY <2>1, <2>3, <2>4, AcceptedTypes
  <2>6. QED
    BY <1>1, <2>3, <2>5 DEF own
<1>13. ASSUME "partition" \in Complaints(d)
       PROVE  ~(d.partitionBy \subseteq ColumnNamesOf(d) \cup Lineage)
  <2>1. PICK c \in d.partitionBy : {i \in DOMAIN all : all[i].name = c} = {}
    BY <1>13 DEF Complaints, all
  <2>2. ASSUME c \in ColumnNamesOf(d) PROVE FALSE
    <3>1. PICK i \in 1..m : own[i].name = c
      BY <1>1, <2>2 DEF ColumnNamesOf, own
    <3>2. i \in DOMAIN all /\ all[i] = own[i]
      BY <1>1, <1>4
    <3>3. QED
      BY <2>1, <3>1, <3>2
  <2>3. ASSUME c \in Lineage PROVE FALSE
    <3>1. PICK i \in 1..n : LineageColumns[i].name = c
      BY <1>2, <2>3
    <3>2. m + i \in DOMAIN all /\ ~(m + i <= m) /\ (m + i) - m = i
      BY <1>1, <1>4
    <3>3. all[m + i] = LineageColumns[i]
      BY <1>4, <3>2
    <3>4. QED
      BY <2>1, <3>1, <3>2, <3>3
  <2>4. QED
    BY <2>1, <2>2, <2>3
<1>14. QED
  BY <1>9, <1>10, <1>11, <1>12, <1>13


-----------------------------------------------------------------------------
(* config/policy.py: of two environments that differ only in variables a config may not  *)
(* read, any config makes the same of both: the same settings, or the same refusal. So   *)
(* no secret of the server can be read out of what a config becomes.                     *)
THEOREM OnlyTheAllowedMatter ==
    ASSUME NEW variables, "METABASE_URL" \in variables,
           NEW scalars \in SUBSET ScalarsOver(variables),
           NEW env \in EnvironmentsOf(variables), NEW other \in [variables -> STRING], NEW name
    PROVE  OnlyAllowedVariablesMatter(scalars, env, other, name)
<1> SUFFICES ASSUME \A n \in DOMAIN env.values :
                       EnvAllowed(env, n) \/ n = "METABASE_URL" => env.values[n] = other[n]
             PROVE  Validate(scalars, env, name)
                    = Validate(scalars, [env EXCEPT !.values = other], name)
  BY DEF OnlyAllowedVariablesMatter
<1> DEFINE changed == [env EXCEPT !.values = other]
<1>1. /\ changed.values = other /\ changed.allowlist = env.allowlist
      /\ changed.hosts = env.hosts /\ DOMAIN env.values = variables
  BY DEF EnvironmentsOf
<1> HIDE DEF changed
<1>2. \A n : EnvAllowed(changed, n) <=> EnvAllowed(env, n)
  BY <1>1 DEF EnvAllowed
<1>3. \A host : HostAllowed(changed, host) <=> HostAllowed(env, host)
  <2>1. other["METABASE_URL"] = env.values["METABASE_URL"]
    BY <1>1
  <2>2. AllowedHosts(changed) = AllowedHosts(env)
    BY <1>1, <2>1 DEF AllowedHosts
  <2>3. QED
    BY <2>2 DEF HostAllowed
<1>4. Denied(scalars, changed) = Denied(scalars, env)
  BY <1>2 DEF Denied
<1>5. CASE Denied(scalars, env) # {}
  BY <1>4, <1>5 DEF Validate, changed
<1>6. CASE Denied(scalars, env) = {}
  <2>1. ASSUME NEW s \in scalars, NEW i \in DOMAIN s[2]
        PROVE  Resolved(s[2][i], changed) = Resolved(s[2][i], env)
    <3>1. s[2] \in Seq(Parts(variables))
      BY DEF ScalarsOver
    <3>2. s[2][i] \in Parts(variables)
      BY <3>1, ElementOfSeq, LenProperties
    <3>3. CASE s[2][i].kind = "literal"
      BY <3>3 DEF Resolved
    <3>4. CASE s[2][i].kind # "literal"
      <4>1. s[2][i].kind = "reference" /\ s[2][i].name \in variables
        BY <3>2, <3>4 DEF Parts, Literal, Reference
      <4>2. s[2][i].name \in Names(scalars)
        BY <4>1 DEF Names, ToSet
      <4>3. EnvAllowed(env, s[2][i].name)
        BY <1>6, <4>2 DEF Denied
      <4>4. changed.values[s[2][i].name] = env.values[s[2][i].name]
        BY <1>1, <4>1, <4>3
      <4>5. QED
        BY <4>4 DEF Resolved
    <3>5. QED
      BY <3>3, <3>4
  <2>2. Unset(scalars, changed) = Unset(scalars, env)
    BY <2>1 DEF Unset
  <2>3. \A s \in scalars : Interpolated(s[2], changed) = Interpolated(s[2], env)
    BY <2>1 DEF Interpolated
  <2>4. Settings(scalars, changed) = Settings(scalars, env)
    BY <2>3 DEF Settings
  <2>5. \A path : Setting(scalars, changed, path) = Setting(scalars, env, path)
    BY <2>4 DEF Setting
  <2>6. WellFormed(scalars, changed) <=> WellFormed(scalars, env)
    BY <2>5 DEF WellFormed
  <2>7. Validate(scalars, changed, name) = Validate(scalars, env, name)
    BY <1>3, <1>4, <2>2, <2>4, <2>5, <2>6 DEF Validate
  <2>8. QED
    BY <2>7 DEF changed
<1>7. QED
  BY <1>5, <1>6

-----------------------------------------------------------------------------
(* A longer prefix of a sequence begins with the shorter ones. *)
LEMMA Starts ==
    ASSUME NEW S, NEW p \in Seq(S), NEW n \in 0..Len(p)
    PROVE  /\ SubSeq(p, 1, n) \in Seq(S) /\ Len(SubSeq(p, 1, n)) = n
           /\ \A k \in 1..n : SubSeq(p, 1, n)[k] = p[k]
           /\ \A k \in 0..n : SubSeq(SubSeq(p, 1, n), 1, k) = SubSeq(p, 1, k)
           /\ n = 0 => SubSeq(p, 1, n) = <<>>
OBVIOUS

(* Walked is what a sequence of steps leads to. *)
LEMMA WalkSteps ==
    ASSUME NEW tree, NEW keys, NEW m \in Nat, m = Len(keys) - 1
    PROVE  \E r : /\ r[0] = tree /\ Walked(tree, keys) = r[m]
                  /\ \A n \in 1..m : r[n] = Entered(r[n - 1], SubSeq(keys, 1, n))
<1> DEFINE Follows(f, n) ==
               f = [k \in 0..n |-> IF k = 0 THEN tree ELSE Entered(f[k - 1], SubSeq(keys, 1, k))]
           Possible == {n \in Nat : \E f : Follows(f, n)}
<1>1. 0 \in Possible
  <2>1. Follows([k \in 0..0 |-> tree], 0)
    OBVIOUS
  <2>2. QED
    BY <2>1
<1>2. ASSUME NEW n \in Nat, n \in Possible PROVE n + 1 \in Possible
  <2>1. PICK f : Follows(f, n)
    BY <1>2
  <2> DEFINE g == [k \in 0..(n + 1) |->
                      IF k = n + 1 THEN Entered(f[n], SubSeq(keys, 1, n + 1)) ELSE f[k]]
  <2>2. ASSUME NEW k \in 0..(n + 1)
        PROVE  g[k] = IF k = 0 THEN tree ELSE Entered(g[k - 1], SubSeq(keys, 1, k))
    <3>1. CASE k = n + 1
      BY <3>1
    <3>2. CASE k # n + 1
      <4>1. k \in 0..n /\ (k # 0 => k - 1 \in 0..n)
        BY <3>2
      <4>2. f[k] = IF k = 0 THEN tree ELSE Entered(f[k - 1], SubSeq(keys, 1, k))
        BY <2>1, <4>1
      <4>3. g[k] = f[k] /\ (k # 0 => g[k - 1] = f[k - 1])
        BY <3>2, <4>1
      <4>4. QED
        BY <4>2, <4>3
    <3>3. QED
      BY <3>1, <3>2
  <2>3. g = [k \in 0..(n + 1) |-> g[k]]
    OBVIOUS
  <2> HIDE DEF g
  <2>4. Follows(g, n + 1)
    BY <2>2, <2>3
  <2>5. QED
    BY <2>4
<1>3. m \in Possible
  <2> HIDE DEF Possible
  <2>1. QED
    BY <1>1, <1>2, Induction
<1> DEFINE r == CHOOSE f : Follows(f, m)
<1>4. Follows(r, m)
  BY <1>3
<1>5. Walked(tree, keys) = r[m]
  BY DEF Walked
<1> HIDE DEF r
<1>6. r[0] = tree /\ \A n \in 1..m : r[n] = Entered(r[n - 1], SubSeq(keys, 1, n))
  <2>1. 0 \in 0..m /\ \A n \in 1..m : n \in 0..m /\ n # 0
    OBVIOUS
  <2>2. QED
    BY <1>4, <2>1
<1>7. QED
  BY <1>5, <1>6

(* What the walk to the last key leaves of a tree: a scalar on the way ends it, and      *)
(* mappings are put where there was nothing.                                             *)
Way(keys, n) == {SubSeq(keys, 1, k) : k \in 1..n}
Leads(at, keys, n, tree) ==
    IF \E p \in Way(keys, n) : p \in DOMAIN at /\ at[p].kind = "scalar"
    THEN tree = Broken("not a mapping")
    ELSE /\ tree.kind = "tree" /\ DOMAIN tree.at = DOMAIN at \cup Way(keys, n)
         /\ \A p \in DOMAIN at : tree.at[p] = at[p]
         /\ \A p \in Way(keys, n) : tree.at[p].kind = "mapping"

LEMMA WalkFacts ==
    ASSUME NEW at, IsYaml(at), NEW keys \in Seq(STRING), keys # <<>>
    PROVE  Leads(at, keys, Len(keys) - 1, Walked(Tree(at), keys))
<1> DEFINE m == Len(keys) - 1
           Way1(n) == SubSeq(keys, 1, n)
<1>1. m \in Nat
  OBVIOUS
<1>2. PICK r : /\ r[0] = Tree(at) /\ Walked(Tree(at), keys) = r[m]
               /\ \A n \in 1..m : r[n] = Entered(r[n - 1], SubSeq(keys, 1, n))
  BY <1>1, WalkSteps
<1> DEFINE Good == {n \in Nat : n <= m => Leads(at, keys, n, r[n])}
<1> HIDE DEF m
<1>3. 0 \in Good
  <2>1. Way(keys, 0) = {}
    BY DEF Way
  <2>2. Leads(at, keys, 0, Tree(at))
    BY <2>1 DEF Leads, Tree
  <2>3. QED
    BY <1>2, <2>2
<1>4. ASSUME NEW n \in Nat, n \in Good PROVE n + 1 \in Good
  <2>1. SUFFICES ASSUME n + 1 <= m PROVE Leads(at, keys, n + 1, r[n + 1])
    OBVIOUS
  <2>2. r[n + 1] = Entered(r[n], SubSeq(keys, 1, n + 1)) /\ Leads(at, keys, n, r[n])
    <3>1. n + 1 \in 1..m /\ (n + 1) - 1 = n /\ n <= m
      BY <1>1, <2>1
    <3>2. r[n + 1] = Entered(r[(n + 1) - 1], SubSeq(keys, 1, n + 1))
      BY <1>2, <3>1
    <3>3. Leads(at, keys, n, r[n])
      BY <1>4, <3>1
    <3>4. QED
      BY <3>1, <3>2, <3>3
  <2> DEFINE p == SubSeq(keys, 1, n + 1)
             W == Way(keys, n)
  <2>3. Way(keys, n + 1) = W \cup {p}
    BY DEF Way
  <2>4. p \notin W
    <3>1. SUFFICES ASSUME NEW k \in 1..n, SubSeq(keys, 1, k) = p PROVE FALSE
      BY DEF Way
    <3>2. Len(SubSeq(keys, 1, k)) = k /\ Len(p) = n + 1
      BY <1>1, <2>1, Starts DEF m
    <3>3. QED
      BY <3>1, <3>2
  <2> HIDE DEF p, W
  <2>5. CASE r[n].kind = "broken"
    <3>1. \E q \in W : q \in DOMAIN at /\ at[q].kind = "scalar"
      BY <2>2, <2>5 DEF Leads, W
    <3>2. r[n + 1] = r[n] /\ r[n] = Broken("not a mapping")
      BY <2>2, <2>5, <3>1 DEF Entered, Leads, W
    <3>3. QED
      BY <2>3, <3>1, <3>2 DEF Leads
  <2>6. CASE r[n].kind # "broken"
    <3>1. /\ ~\E q \in W : q \in DOMAIN at /\ at[q].kind = "scalar"
          /\ r[n].kind = "tree" /\ DOMAIN r[n].at = DOMAIN at \cup W
          /\ \A q \in DOMAIN at : r[n].at[q] = at[q]
          /\ \A q \in W : r[n].at[q].kind = "mapping"
      <4>1. Broken("not a mapping").kind = "broken"
        BY DEF Broken
      <4>2. ~\E q \in W : q \in DOMAIN at /\ at[q].kind = "scalar"
        BY <2>2, <2>6, <4>1 DEF Leads, W
      <4>3. QED
        BY <2>2, <4>2 DEF Leads, W
    <3>2. CASE p \notin DOMAIN at
      <4>1. p \notin DOMAIN r[n].at
        BY <2>4, <3>1, <3>2
      <4>2. r[n + 1] = Tree([q \in DOMAIN r[n].at \cup {p} |-> IF q = p THEN Mapping ELSE r[n].at[q]])
        BY <2>2, <2>6, <4>1 DEF Entered, p
      <4> DEFINE new == [q \in DOMAIN r[n].at \cup {p} |-> IF q = p THEN Mapping ELSE r[n].at[q]]
      <4>3. /\ DOMAIN new = DOMAIN at \cup W \cup {p} /\ new[p] = Mapping
            /\ \A q \in DOMAIN at \cup W : new[q] = r[n].at[q]
        BY <2>4, <3>1, <3>2
      <4> HIDE DEF new
      <4>4. r[n + 1].kind = "tree" /\ r[n + 1].at = new
        BY <4>2 DEF Tree, new
      <4>5. QED
        <5>1. ~\E q \in Way(keys, n + 1) : q \in DOMAIN at /\ at[q].kind = "scalar"
          BY <2>3, <3>1, <3>2
        <5>2. DOMAIN r[n + 1].at = DOMAIN at \cup Way(keys, n + 1)
          BY <2>3, <4>3, <4>4
        <5>3. \A q \in DOMAIN at : r[n + 1].at[q] = at[q]
          BY <3>1, <4>3, <4>4
        <5>4. \A q \in Way(keys, n + 1) : r[n + 1].at[q].kind = "mapping"
          BY <2>3, <3>1, <4>3, <4>4 DEF Mapping
        <5>5. QED
          BY <4>4, <5>1, <5>2, <5>3, <5>4 DEF Leads
    <3>3. CASE p \in DOMAIN at /\ at[p].kind = "scalar"
      <4>1. r[n + 1] = Broken("not a mapping")
        BY <2>2, <3>1, <3>3 DEF Entered, p
      <4>2. QED
        BY <2>3, <3>3, <4>1 DEF Leads
    <3>4. CASE p \in DOMAIN at /\ at[p].kind = "mapping"
      <4>1. r[n + 1] = r[n]
        BY <2>2, <3>1, <3>4 DEF Entered, p
      <4>2. QED
        BY <2>3, <3>1, <3>4, <4>1 DEF Leads
    <3>5. QED
      BY <3>2, <3>3, <3>4 DEF IsYaml
  <2>7. QED
    BY <2>5, <2>6
<1>5. m \in Good
  <2> HIDE DEF Good
  <2>1. QED
    BY <1>1, <1>3, <1>4, Induction
<1>6. QED
  BY <1>1, <1>2, <1>5 DEF m

(* A beginning of two joined sequences that ends in the second. *)
LEMMA Joins ==
    ASSUME NEW S, NEW p \in Seq(S), NEW q \in Seq(S), NEW n \in 0..Len(q)
    PROVE  SubSeq(p \o q, 1, Len(p) + n) = p \o SubSeq(q, 1, n)
OBVIOUS

(* What is under a path is that path and the rest. *)
LEMMA Splits ==
    ASSUME NEW S, NEW p \in Seq(S), NEW q \in Seq(S), Under(q, p)
    PROVE  SubSeq(q, Len(p) + 1, Len(q)) \in Seq(S) /\ q = p \o SubSeq(q, Len(p) + 1, Len(q))
<1> DEFINE rest == SubSeq(q, Len(p) + 1, Len(q))
<1>1. /\ p = SubSeq(p, 1, Len(p)) /\ Len(p) \in Nat /\ Len(q) \in Nat
      /\ Len(p) <= Len(q) /\ p = SubSeq(q, 1, Len(p))
  <2>1. p = SubSeq(p, 1, Len(p)) /\ Len(p) \in Nat /\ Len(q) \in Nat
    OBVIOUS
  <2>2. QED
    BY <2>1 DEF Under, IsPrefix
<1>2. \A k \in 1..Len(p) : p[k] = q[k]
  <2>1. \A k \in 1..Len(p) : SubSeq(q, 1, Len(p))[k] = q[k]
    BY <1>1, Starts
  <2>2. QED
    BY <1>1, <2>1
<1>3. rest \in Seq(S) /\ Len(rest) = Len(q) - Len(p) /\ \A k \in 1..Len(rest) : rest[k] = q[Len(p) + k]
  BY <1>1
<1> HIDE DEF rest
<1>4. /\ p \o rest \in Seq(S) /\ Len(p \o rest) = Len(q)
      /\ \A k \in 1..Len(q) : (p \o rest)[k] = q[k]
  BY <1>1, <1>2, <1>3
<1>5. q = p \o rest
  BY <1>4, SeqEqual
<1>6. QED
  BY <1>3, <1>5 DEF rest

(* A path is under its beginnings, and splits into one and the rest. *)
LEMMA UnderFacts ==
    ASSUME NEW S, NEW p \in Seq(S), NEW q \in Seq(S)
    PROVE  /\ Under(q, p) <=> Len(p) <= Len(q) /\ p = SubSeq(q, 1, Len(p))
           /\ Under(q, p) => /\ SubSeq(q, Len(p) + 1, Len(q)) \in Seq(S)
                             /\ q = p \o SubSeq(q, Len(p) + 1, Len(q))
           /\ p \o q \in Seq(S) /\ Len(p \o q) = Len(p) + Len(q)
           /\ Under(p \o q, p) /\ SubSeq(p \o q, Len(p) + 1, Len(p \o q)) = q
           /\ \A n \in 0..Len(p) : SubSeq(p \o q, 1, n) = SubSeq(p, 1, n)
           /\ \A n \in 0..Len(q) : SubSeq(p \o q, 1, Len(p) + n) = p \o SubSeq(q, 1, n)
<1>1. p = SubSeq(p, 1, Len(p)) /\ Len(p) \in Nat /\ Len(q) \in Nat
  OBVIOUS
<1>2. Under(q, p) <=> Len(p) <= Len(q) /\ p = SubSeq(q, 1, Len(p))
  BY <1>1 DEF Under, IsPrefix
<1>3. p \o q \in Seq(S) /\ Len(p \o q) = Len(p) + Len(q)
  OBVIOUS
<1>4. \A n \in 0..Len(p) : SubSeq(p \o q, 1, n) = SubSeq(p, 1, n)
  OBVIOUS
<1>5. \A n \in 0..Len(q) : SubSeq(p \o q, 1, Len(p) + n) = p \o SubSeq(q, 1, n)
  OBVIOUS
<1>6. SubSeq(p \o q, Len(p) + 1, Len(p \o q)) = q
  OBVIOUS
<1>7. Under(p \o q, p)
  BY <1>1, <1>3, <1>4 DEF Under, IsPrefix
<1>8. Under(q, p) => /\ SubSeq(q, Len(p) + 1, Len(q)) \in Seq(S)
                     /\ q = p \o SubSeq(q, Len(p) + 1, Len(q))
  BY Splits
<1>9. QED
  BY <1>2, <1>3, <1>4, <1>5, <1>6, <1>7, <1>8

(* A scalar of a tree is in the way of a path. *)
Blocks(at, path) == \E p \in DOMAIN at : at[p].kind = "scalar" /\ Under(path, p) /\ p # path

(* The walk to a key ends at a scalar in its way, and leaves a tree if there is none.    *)
LEMMA WalkEnds ==
    ASSUME NEW at, IsYaml(at), at[<<>>].kind = "mapping", NEW keys \in Seq(STRING), keys # <<>>
    PROVE  LET tree == Walked(Tree(at), keys)
           IN  IF Blocks(at, keys) THEN tree = Broken("not a mapping")
               ELSE /\ tree.kind = "tree" /\ IsYaml(tree.at) /\ tree.at[<<>>].kind = "mapping"
                    /\ Scalars(tree.at) = Scalars(at)
                    /\ \A n \in 0..(Len(keys) - 1) :
                          /\ SubSeq(keys, 1, n) \in DOMAIN tree.at
                          /\ tree.at[SubSeq(keys, 1, n)].kind = "mapping"
<1> DEFINE m == Len(keys) - 1
           W == Way(keys, m)
           tree == Walked(Tree(at), keys)
<1>1. Len(keys) \in Nat /\ m \in Nat /\ Len(keys) = m + 1 /\ keys = SubSeq(keys, 1, Len(keys))
  OBVIOUS
<1>2. Leads(at, keys, m, tree)
  BY WalkFacts
<1>3. DOMAIN at \subseteq Seq(STRING) /\ <<>> \in DOMAIN at
  BY DEF IsYaml, IsTree
<1>4. W \subseteq Seq(STRING) /\ \A k \in 1..m : SubSeq(keys, 1, k) \in W
  <2>1. \A k \in 1..m : k \in 0..Len(keys)
    BY <1>1
  <2>2. \A k \in 1..m : SubSeq(keys, 1, k) \in Seq(STRING)
    BY <2>1, Starts
  <2>3. QED
    BY <2>2 DEF Way
<1> HIDE DEF m, tree
<1>5. Blocks(at, keys) <=> \E p \in W : p \in DOMAIN at /\ at[p].kind = "scalar"
  <2>1. ASSUME NEW p \in DOMAIN at, at[p].kind = "scalar", Under(keys, p), p # keys PROVE p \in W
    <3>1. p \in Seq(STRING) /\ Len(p) \in Nat
      BY <1>3
    <3>2. Len(p) <= Len(keys) /\ p = SubSeq(keys, 1, Len(p))
      BY <2>1, <3>1, UnderFacts
    <3>3. Len(p) # Len(keys)
      BY <1>1, <2>1, <3>2
    <3>4. Len(p) # 0
      BY <2>1, <3>1
    <3>5. Len(p) \in 1..m
      <4>1. \A l, k \in Nat : l # 0 /\ l <= k /\ l # k /\ k = m + 1 => l \in 1..m
        BY <1>1
      <4>2. QED
        BY <1>1, <3>1, <3>2, <3>3, <3>4, <4>1
    <3>6. QED
      BY <3>2, <3>5 DEF Way
  <2>2. ASSUME NEW p \in W PROVE Under(keys, p) /\ p # keys
    <3>1. PICK k \in 1..m : p = SubSeq(keys, 1, k)
      BY DEF Way
    <3>2. k \in 0..Len(keys) /\ k < Len(keys)
      BY <1>1
    <3>3. p \in Seq(STRING) /\ Len(p) = k
      BY <3>1, <3>2, Starts
    <3>4. QED
      <4>1. Len(p) <= Len(keys) /\ p = SubSeq(keys, 1, Len(p)) /\ Len(p) # Len(keys)
        BY <1>1, <3>1, <3>2, <3>3
      <4>2. QED
        BY <3>3, <4>1, UnderFacts
  <2>3. QED
    BY <2>1, <2>2 DEF Blocks
<1>6. CASE Blocks(at, keys)
  BY <1>2, <1>5, <1>6 DEF Leads, m, tree
<1>7. CASE ~Blocks(at, keys)
  <2>1. /\ tree.kind = "tree" /\ DOMAIN tree.at = DOMAIN at \cup W
        /\ \A p \in DOMAIN at : tree.at[p] = at[p]
        /\ \A p \in W : tree.at[p].kind = "mapping"
    BY <1>2, <1>5, <1>7 DEF Leads
  <2>2. tree.at[<<>>].kind = "mapping"
    BY <1>3, <2>1
  <2>3. ASSUME NEW n \in 0..m
        PROVE  SubSeq(keys, 1, n) \in DOMAIN tree.at /\ tree.at[SubSeq(keys, 1, n)].kind = "mapping"
    <3>1. CASE n = 0
      <4>1. SubSeq(keys, 1, n) = <<>>
        BY <3>1
      <4>2. QED
        BY <1>3, <2>1, <2>2, <4>1
    <3>2. CASE n \in 1..m
      BY <1>4, <2>1, <3>2
    <3>3. QED
      BY <1>1, <3>1, <3>2
  <2>4. IsTree(tree.at, STRING, "mapping")
    <3>1. ASSUME NEW p \in DOMAIN tree.at, NEW n \in 0..(Len(p) - 1)
          PROVE  SubSeq(p, 1, n) \in DOMAIN tree.at /\ tree.at[SubSeq(p, 1, n)].kind = "mapping"
      <4>1. CASE p \in DOMAIN at
        <5>1. SubSeq(p, 1, n) \in DOMAIN at /\ at[SubSeq(p, 1, n)].kind = "mapping"
          BY <3>1, <4>1 DEF IsYaml, IsTree
        <5>2. QED
          BY <2>1, <5>1
      <4>2. CASE p \in W
        <5>1. PICK k \in 1..m : p = SubSeq(keys, 1, k)
          BY <4>2 DEF Way
        <5>2. k \in 0..Len(keys) /\ n \in 0..k /\ n \in 0..m
          <6>1. k \in 0..Len(keys)
            BY <1>1
          <6>2. Len(p) = k
            BY <5>1, <6>1, Starts
          <6>3. QED
            BY <1>1, <6>1, <6>2
        <5>3. SubSeq(p, 1, n) = SubSeq(keys, 1, n)
          BY <5>1, <5>2, Starts
        <5>4. QED
          BY <2>3, <5>2, <5>3
      <4>3. QED
        BY <2>1, <4>1, <4>2
    <3>2. QED
      BY <1>3, <1>4, <2>1, <3>1 DEF IsTree
  <2>5. IsYaml(tree.at)
    BY <2>1, <2>4 DEF IsYaml
  <2>6. Scalars(tree.at) = Scalars(at)
    <3>1. {p \in DOMAIN tree.at : tree.at[p].kind = "scalar"} = {p \in DOMAIN at : at[p].kind = "scalar"}
      BY <2>1
    <3>2. QED
      BY <2>1, <3>1 DEF Scalars
  <2>7. QED
    BY <1>7, <2>1, <2>2, <2>3, <2>5, <2>6 DEF m, tree
<1>8. QED
  BY <1>6, <1>7

(* A value put at the end of a path of mappings gives a tree again, with the scalars of  *)
(* the value in place of those under the path.                                           *)
LEMMA ReplacedFacts ==
    ASSUME NEW at, IsYaml(at), NEW path \in Seq(STRING), path # <<>>,
           \A n \in 0..(Len(path) - 1) :
               SubSeq(path, 1, n) \in DOMAIN at /\ at[SubSeq(path, 1, n)].kind = "mapping",
           NEW value, IsYaml(value)
    PROVE  /\ IsYaml(Replaced(at, path, value)) /\ Replaced(at, path, value)[<<>>].kind = "mapping"
           /\ Scalars(Replaced(at, path, value)) =
                  {s \in Scalars(at) : ~Under(s[1], path)}
                      \cup {<<path \o s[1], s[2]>> : s \in Scalars(value)}
<1> DEFINE new == Replaced(at, path, value)
           l == Len(path)
           Left == {q \in DOMAIN at : ~Under(q, path)}
           Moved == {path \o q : q \in DOMAIN value}
<1>1. l \in Nat /\ l > 0
  OBVIOUS
<1>2. /\ DOMAIN at \subseteq Seq(STRING) /\ <<>> \in DOMAIN at
      /\ DOMAIN value \subseteq Seq(STRING) /\ <<>> \in DOMAIN value
  BY DEF IsYaml, IsTree
<1>3. DOMAIN new = Left \cup Moved
  BY DEF Replaced
<1>4. ASSUME NEW q \in Left PROVE new[q] = at[q] /\ ~Under(q, path)
  BY <1>4 DEF Replaced
<1>5. ASSUME NEW q \in DOMAIN value
      PROVE  /\ path \o q \in Seq(STRING) /\ Under(path \o q, path) /\ Len(path \o q) = l + Len(q)
             /\ new[path \o q] = value[q]
  <2>1. /\ q \in Seq(STRING) /\ Under(path \o q, path) /\ path \o q \in Moved
        /\ SubSeq(path \o q, l + 1, Len(path \o q)) = q
    <3>1. q \in Seq(STRING) /\ path \o q \in Moved
      BY <1>2
    <3>2. Under(path \o q, path) /\ SubSeq(path \o q, Len(path) + 1, Len(path \o q)) = q
      BY <3>1, UnderFacts
    <3>3. QED
      BY <3>1, <3>2
  <2>2. path \o q \in Seq(STRING) /\ Len(path \o q) = l + Len(q)
    BY <2>1, ConcatProperties
  <2>3. new[path \o q] = value[SubSeq(path \o q, l + 1, Len(path \o q))]
    BY <2>1 DEF Replaced
  <2> HIDE DEF new
  <2>4. QED
    BY <2>1, <2>2, <2>3
<1> HIDE DEF new, Left, Moved
<1>6. ASSUME NEW p \in Seq(STRING), Len(p) < l PROVE ~Under(p, path)
  <2>1. ~(Len(path) <= Len(p))
    BY <1>1, <1>6
  <2>2. QED
    BY <2>1, UnderFacts
<1>7. <<>> \in Left /\ new[<<>>].kind = "mapping"
  <2>1. <<>> \in Seq(STRING) /\ Len(<<>>) < l /\ SubSeq(path, 1, 0) = <<>> /\ 0 \in 0..(l - 1)
    BY <1>1
  <2>2. <<>> \in Left
    BY <1>2, <1>6, <2>1 DEF Left
  <2>3. at[<<>>].kind = "mapping"
    BY <2>1
  <2>4. QED
    BY <1>4, <2>2, <2>3
<1>8. ASSUME NEW n \in 0..(l - 1)
      PROVE  SubSeq(path, 1, n) \in Left
  <2>1. SubSeq(path, 1, n) \in Seq(STRING) /\ Len(SubSeq(path, 1, n)) < l
    BY <1>1, Starts
  <2>2. QED
    BY <1>6, <2>1 DEF Left
<1>9. IsTree(new, STRING, "mapping")
  <2>1. ASSUME NEW p \in DOMAIN new, NEW n \in 0..(Len(p) - 1)
        PROVE  SubSeq(p, 1, n) \in DOMAIN new /\ new[SubSeq(p, 1, n)].kind = "mapping"
    <3>1. CASE p \in Left
      <4>1. p \in DOMAIN at /\ p \in Seq(STRING) /\ ~Under(p, path)
        BY <1>2, <1>4, <3>1 DEF Left
      <4> DEFINE q == SubSeq(p, 1, n)
      <4>2. q \in DOMAIN at /\ at[q].kind = "mapping"
        BY <4>1 DEF IsYaml, IsTree
      <4>3. ~Under(q, path)
        <5>1. n \in 0..Len(p) /\ Len(p) \in Nat
          BY <4>1
        <5>2. q \in Seq(STRING) /\ Len(q) = n /\ \A k \in 0..n : SubSeq(q, 1, k) = SubSeq(p, 1, k)
          BY <4>1, <5>1, Starts
        <5> HIDE DEF q
        <5>3. SUFFICES ASSUME Under(q, path) PROVE FALSE
          OBVIOUS
        <5>4. l <= n /\ path = SubSeq(q, 1, l)
          BY <5>2, <5>3, UnderFacts
        <5>5. l <= Len(p) /\ path = SubSeq(p, 1, l)
          <6>1. l \in 0..n
            BY <1>1, <5>4
          <6>2. SubSeq(q, 1, l) = SubSeq(p, 1, l)
            BY <5>2, <6>1
          <6>3. QED
            BY <1>1, <5>1, <5>4, <6>2
        <5>6. QED
          BY <4>1, <5>5, UnderFacts
      <4>4. q \in Left
        BY <4>2, <4>3 DEF Left
      <4> HIDE DEF q
      <4>5. QED
        BY <1>3, <1>4, <4>2, <4>4 DEF q
    <3>2. CASE p \in Moved
      <4>1. PICK r \in DOMAIN value : p = path \o r
        BY <3>2 DEF Moved
      <4>2. r \in Seq(STRING) /\ Len(r) \in Nat /\ Len(p) = l + Len(r)
        BY <1>2, <1>5, <4>1
      <4>3. CASE n < l
        <5>1. n \in 0..(l - 1) /\ n \in 0..l
          BY <1>1, <4>2, <4>3
        <5>2. SubSeq(p, 1, n) = SubSeq(path, 1, n)
          BY <4>1, <4>2, <5>1, UnderFacts
        <5>3. QED
          BY <1>3, <1>4, <1>8, <5>1, <5>2
      <4>4. CASE n >= l
        <5> DEFINE k == n - l
        <5>1. k \in 0..(Len(r) - 1) /\ k \in 0..Len(r) /\ n = l + k
          BY <1>1, <4>2, <4>4
        <5> HIDE DEF k
        <5>2. SubSeq(p, 1, n) = path \o SubSeq(r, 1, k)
          <6>1. SubSeq(path \o r, 1, Len(path) + k) = path \o SubSeq(r, 1, k)
            BY <4>2, <5>1, Joins
          <6>2. QED
            BY <4>1, <5>1, <6>1
        <5>3. SubSeq(r, 1, k) \in DOMAIN value /\ value[SubSeq(r, 1, k)].kind = "mapping"
          BY <5>1 DEF IsYaml, IsTree
        <5>4. path \o SubSeq(r, 1, k) \in Moved
          BY <5>3 DEF Moved
        <5>5. QED
          BY <1>3, <1>5, <5>2, <5>3, <5>4
      <4>5. QED
        BY <1>1, <4>2, <4>3, <4>4
    <3>3. QED
      BY <1>3, <3>1, <3>2
  <2>2. DOMAIN new \subseteq Seq(STRING)
    BY <1>2, <1>3, <1>5 DEF Left, Moved
  <2>3. QED
    BY <1>3, <1>7, <2>1, <2>2 DEF IsTree
<1>10. \A p \in DOMAIN new : new[p].kind \in {"mapping", "scalar"}
  <2>1. \A p \in Left : new[p].kind \in {"mapping", "scalar"}
    BY <1>4 DEF Left, IsYaml
  <2>2. \A p \in Moved : new[p].kind \in {"mapping", "scalar"}
    BY <1>5 DEF Moved, IsYaml
  <2>3. QED
    BY <1>3, <2>1, <2>2
<1>11. Scalars(new) = {s \in Scalars(at) : ~Under(s[1], path)}
                          \cup {<<path \o s[1], s[2]>> : s \in Scalars(value)}
  <2>1. ASSUME NEW p \in Left, new[p].kind = "scalar"
        PROVE  <<p, new[p].parts>> \in {s \in Scalars(at) : ~Under(s[1], path)}
    <3>1. p \in DOMAIN at /\ at[p].kind = "scalar" /\ new[p] = at[p] /\ ~Under(p, path)
      BY <1>4, <2>1 DEF Left
    <3>2. <<p, new[p].parts>> \in Scalars(at)
      BY <3>1 DEF Scalars
    <3>3. QED
      BY <3>1, <3>2
  <2>2. ASSUME NEW p \in Moved, new[p].kind = "scalar"
        PROVE  <<p, new[p].parts>> \in {<<path \o s[1], s[2]>> : s \in Scalars(value)}
    <3>1. PICK q \in DOMAIN value : p = path \o q
      BY DEF Moved
    <3>2. new[p] = value[q]
      BY <1>5, <3>1
    <3>3. <<q, value[q].parts>> \in Scalars(value)
      BY <2>2, <3>2 DEF Scalars
    <3>4. <<path \o <<q, value[q].parts>>[1], <<q, value[q].parts>>[2]>> = <<p, new[p].parts>>
      BY <3>1, <3>2
    <3>5. QED
      BY <3>3, <3>4
  <2>3. ASSUME NEW s \in Scalars(at), ~Under(s[1], path) PROVE s \in Scalars(new)
    <3>1. PICK p \in DOMAIN at : at[p].kind = "scalar" /\ s = <<p, at[p].parts>>
      BY DEF Scalars
    <3>2. p \in Left
      BY <2>3, <3>1 DEF Left
    <3>3. p \in DOMAIN new /\ new[p] = at[p]
      BY <1>3, <1>4, <3>2
    <3>4. QED
      BY <3>1, <3>3 DEF Scalars
  <2>4. ASSUME NEW s \in Scalars(value) PROVE <<path \o s[1], s[2]>> \in Scalars(new)
    <3>1. PICK q \in DOMAIN value : value[q].kind = "scalar" /\ s = <<q, value[q].parts>>
      BY DEF Scalars
    <3>2. path \o q \in DOMAIN new /\ new[path \o q] = value[q]
      BY <1>3, <1>5 DEF Moved
    <3>3. <<path \o q, new[path \o q].parts>> \in Scalars(new)
      BY <3>1, <3>2 DEF Scalars
    <3>4. QED
      BY <3>1, <3>2, <3>3
  <2>5. \A s \in Scalars(new) : \E p \in DOMAIN new : new[p].kind = "scalar" /\ s = <<p, new[p].parts>>
    BY DEF Scalars
  <2>6. QED
    BY <1>3, <2>1, <2>2, <2>3, <2>4, <2>5
<1>12. QED
  BY <1>7, <1>9, <1>10, <1>11 DEF IsYaml, new

(* An override is an edit of the file, or what is wrong with it is told.                 *)
LEMMA OverriddenFacts ==
    ASSUME NEW raw, IsRaw(raw), NEW o, IsChange(o)
    PROVE  LET tree == Overridden(raw, o)
           IN  IF o.path = <<>> THEN tree = Broken("no key")
               ELSE IF Blocks(raw.at, o.path) THEN tree = Broken("not a mapping")
               ELSE IF o.value.kind = "garbled" THEN tree = Broken("raised")
               ELSE /\ IsRaw(tree) /\ tree.kind = "tree"
                    /\ Scalars(tree.at) =
                           {s \in Scalars(raw.at) : ~Under(s[1], o.path)}
                               \cup {<<o.path \o s[1], s[2]>> : s \in Scalars(o.value.at)}
<1> DEFINE walked == Walked(raw, o.path)
           tree == Overridden(raw, o)
<1>1. /\ raw = Tree(raw.at) /\ IsYaml(raw.at) /\ raw.at[<<>>].kind = "mapping"
      /\ o.path \in Seq(STRING) /\ o.value.kind \in {"garbled", "tree"}
      /\ (o.value.kind = "tree" => IsYaml(o.value.at))
  BY DEF IsRaw, IsChange
<1>2. CASE o.path = <<>>
  BY <1>2 DEF Overridden
<1>3. CASE o.path # <<>> /\ Blocks(raw.at, o.path)
  <2>1. walked = Broken("not a mapping")
    <3>1. Walked(Tree(raw.at), o.path) = Broken("not a mapping")
      BY <1>1, <1>3, WalkEnds
    <3>2. QED
      BY <1>1, <3>1
  <2> HIDE DEF walked
  <2>2. walked.kind = "broken"
    BY <2>1 DEF Broken
  <2>3. tree = walked
    BY <1>3, <2>2 DEF Overridden, walked
  <2>4. QED
    BY <1>3, <2>1, <2>3
<1>4. CASE o.path # <<>> /\ ~Blocks(raw.at, o.path)
  <2>1. /\ walked.kind = "tree" /\ IsYaml(walked.at)
        /\ Scalars(walked.at) = Scalars(raw.at)
        /\ \A n \in 0..(Len(o.path) - 1) :
              /\ SubSeq(o.path, 1, n) \in DOMAIN walked.at
              /\ walked.at[SubSeq(o.path, 1, n)].kind = "mapping"
    <3> DEFINE w == Walked(Tree(raw.at), o.path)
    <3>1. /\ w.kind = "tree" /\ IsYaml(w.at)
          /\ Scalars(w.at) = Scalars(raw.at)
          /\ \A n \in 0..(Len(o.path) - 1) :
                SubSeq(o.path, 1, n) \in DOMAIN w.at /\ w.at[SubSeq(o.path, 1, n)].kind = "mapping"
      BY <1>1, <1>4, WalkEnds
    <3>2. walked = w
      BY <1>1
    <3> HIDE DEF w, walked
    <3>3. QED
      BY <3>1, <3>2
  <2> HIDE DEF walked
  <2>2. CASE o.value.kind = "garbled"
    <3>1. tree = Broken("raised")
      BY <1>4, <2>1, <2>2 DEF Overridden, walked
    <3>2. QED
      BY <1>4, <2>2, <3>1
  <2>3. CASE o.value.kind = "tree"
    <3> DEFINE new == Replaced(walked.at, o.path, o.value.at)
    <3>1. tree = Tree(new)
      BY <1>4, <2>1, <2>3 DEF Overridden, walked
    <3>2. /\ IsYaml(new) /\ new[<<>>].kind = "mapping"
          /\ Scalars(new) = {s \in Scalars(walked.at) : ~Under(s[1], o.path)}
                                \cup {<<o.path \o s[1], s[2]>> : s \in Scalars(o.value.at)}
      <4>1. /\ IsYaml(walked.at) /\ o.path \in Seq(STRING) /\ o.path # <<>> /\ IsYaml(o.value.at)
            /\ \A n \in 0..(Len(o.path) - 1) :
                  /\ SubSeq(o.path, 1, n) \in DOMAIN walked.at
                  /\ walked.at[SubSeq(o.path, 1, n)].kind = "mapping"
        BY <1>1, <1>4, <2>1, <2>3
      <4>2. QED
        BY <4>1, ReplacedFacts, ZenonT(60)
    <3> HIDE DEF new
    <3>3. tree.at = new /\ tree.kind = "tree"
      BY <3>1 DEF Tree
    <3>4. IsRaw(tree)
      BY <3>1, <3>2, <3>3 DEF IsRaw
    <3> HIDE DEF tree
    <3>5. QED
      BY <1>4, <2>1, <2>3, <3>2, <3>3, <3>4 DEF tree
  <2>4. QED
    BY <1>1, <2>2, <2>3
<1>5. QED
  BY <1>2, <1>3, <1>4

(* ApplyOverrides is what a sequence of edits leads to. *)
LEMMA OverrideSteps ==
    ASSUME NEW raw, NEW overrides, Len(overrides) \in Nat
    PROVE  \E r : /\ r[0] = raw /\ ApplyOverrides(raw, overrides) = r[Len(overrides)]
                  /\ \A n \in 1..Len(overrides) :
                        r[n] = IF r[n - 1].kind = "broken" THEN r[n - 1]
                               ELSE Overridden(r[n - 1], overrides[n])
<1> DEFINE m == Len(overrides)
           Next1(tree, k) == IF tree.kind = "broken" THEN tree ELSE Overridden(tree, overrides[k])
           Follows(f, n) ==
               f = [k \in 0..n |-> IF k = 0 THEN raw ELSE
                                   IF f[k - 1].kind = "broken" THEN f[k - 1]
                                   ELSE Overridden(f[k - 1], overrides[k])]
           Possible == {n \in Nat : \E f : Follows(f, n)}
<1>1. 0 \in Possible
  <2>1. Follows([k \in 0..0 |-> raw], 0)
    OBVIOUS
  <2>2. QED
    BY <2>1
<1>2. ASSUME NEW n \in Nat, n \in Possible PROVE n + 1 \in Possible
  <2>1. PICK f : Follows(f, n)
    BY <1>2
  <2> DEFINE g == [k \in 0..(n + 1) |-> IF k = n + 1 THEN Next1(f[n], n + 1) ELSE f[k]]
  <2>2. ASSUME NEW k \in 0..(n + 1)
        PROVE  g[k] = IF k = 0 THEN raw ELSE Next1(g[k - 1], k)
    <3>1. CASE k = n + 1
      <4>1. g[k] = Next1(f[n], n + 1) /\ k # 0 /\ g[k - 1] = f[n]
        BY <3>1
      <4> HIDE DEF g, Next1
      <4>2. QED
        BY <3>1, <4>1
    <3>2. CASE k # n + 1
      <4>1. k \in 0..n /\ (k # 0 => k - 1 \in 0..n)
        BY <3>2
      <4>2. f[k] = IF k = 0 THEN raw ELSE Next1(f[k - 1], k)
        BY <2>1, <4>1
      <4>3. g[k] = f[k] /\ (k # 0 => g[k - 1] = f[k - 1])
        BY <3>2, <4>1
      <4> HIDE DEF g, Next1
      <4>4. QED
        BY <4>2, <4>3
    <3>3. QED
      BY <3>1, <3>2
  <2>3. g = [k \in 0..(n + 1) |-> g[k]]
    OBVIOUS
  <2> HIDE DEF g
  <2>4. Follows(g, n + 1)
    BY <2>2, <2>3
  <2> HIDE DEF Follows
  <2>5. QED
    BY <2>4
<1>3. m \in Possible
  <2> HIDE DEF Possible
  <2>1. QED
    BY <1>1, <1>2, Induction
<1> DEFINE r == CHOOSE f : Follows(f, m)
<1>4. Follows(r, m)
  BY <1>3
<1>5. ApplyOverrides(raw, overrides) = r[m]
  BY DEF ApplyOverrides
<1> HIDE DEF r
<1>6. r[0] = raw /\ \A n \in 1..m : r[n] = Next1(r[n - 1], n)
  <2>1. 0 \in 0..m /\ \A n \in 1..m : n \in 0..m /\ n # 0
    OBVIOUS
  <2>2. QED
    BY <1>4, <2>1
<1>7. QED
  BY <1>5, <1>6

(* ai/assistant.py, config/loader.py: "overrides are applied before validation, so they  *)
(* are checked exactly like file contents": an override leaves the config of a file in   *)
(* which the setting at its path, and all below, was replaced, whatever the config, the  *)
(* path and the value, and it is refused exactly if a scalar is in the way.              *)
THEOREM OverridesEditTheFile ==
    ASSUME NEW raw, IsRaw(raw), NEW o, IsChange(o)
    PROVE  OverridesAreEdits(raw, o)
<1> DEFINE tree == ApplyOverrides(raw, <<o>>)
<1>1. tree = Overridden(raw, o)
  <2> DEFINE overrides == <<o>>
  <2>1. Len(overrides) = 1 /\ overrides[1] = o /\ 1 \in Nat
    OBVIOUS
  <2> HIDE DEF overrides
  <2>2. PICK r : /\ r[0] = raw /\ ApplyOverrides(raw, overrides) = r[Len(overrides)]
                 /\ \A n \in 1..Len(overrides) : r[n] = IF r[n - 1].kind = "broken" THEN r[n - 1]
                                           ELSE Overridden(r[n - 1], overrides[n])
    BY <2>1, OverrideSteps
  <2>3. r[1] = IF r[0].kind = "broken" THEN r[0] ELSE Overridden(r[0], overrides[1])
    <3>1. 1 \in 1..Len(overrides) /\ 1 - 1 = 0
      BY <2>1
    <3>2. QED
      BY <2>2, <3>1
  <2>4. raw.kind # "broken"
    <3>1. Tree(raw.at).kind = "tree" /\ raw = Tree(raw.at)
      BY DEF Tree, IsRaw
    <3>2. QED
      BY <3>1
  <2>5. ApplyOverrides(raw, overrides) = Overridden(raw, o)
    BY <2>1, <2>2, <2>3, <2>4
  <2>6. QED
    BY <2>5 DEF overrides
<1>2. Blocks(raw.at, o.path) <=> \E s \in Scalars(raw.at) : Under(o.path, s[1]) /\ s[1] # o.path
  <2>1. ASSUME NEW p \in DOMAIN raw.at, raw.at[p].kind = "scalar", Under(o.path, p), p # o.path
        PROVE  \E s \in Scalars(raw.at) : Under(o.path, s[1]) /\ s[1] # o.path
    <3>1. <<p, raw.at[p].parts>> \in Scalars(raw.at)
      BY <2>1 DEF Scalars
    <3>2. QED
      BY <2>1, <3>1
  <2>2. \A s \in Scalars(raw.at) : s[1] \in DOMAIN raw.at /\ raw.at[s[1]].kind = "scalar"
    BY DEF Scalars
  <2>3. QED
    BY <2>1, <2>2 DEF Blocks
<1> HIDE DEF tree
<1>3. SUFFICES ASSUME o.path # <<>>, o.value.kind # "garbled"
      PROVE  IF tree.kind = "broken" THEN Blocks(raw.at, o.path)
             ELSE /\ ~Blocks(raw.at, o.path)
                  /\ Scalars(tree.at) =
                         {s \in Scalars(raw.at) : ~Under(s[1], o.path)}
                             \cup {<<o.path \o s[1], s[2]>> : s \in Scalars(o.value.at)}
  BY <1>2 DEF OverridesAreEdits, tree
<1>4. IF Blocks(raw.at, o.path) THEN tree = Broken("not a mapping")
      ELSE /\ IsRaw(tree) /\ tree.kind = "tree"
           /\ Scalars(tree.at) =
                  {s \in Scalars(raw.at) : ~Under(s[1], o.path)}
                      \cup {<<o.path \o s[1], s[2]>> : s \in Scalars(o.value.at)}
  BY <1>1, <1>3, OverriddenFacts
<1>5. Broken("not a mapping").kind = "broken"
  BY DEF Broken
<1>6. QED
  BY <1>4, <1>5

(* The scalars under a path. *)
ScalarsUnder(at, p) == {s \in Scalars(at) : Under(s[1], p)}

(* A change that is not withheld leaves what is under a protected path alone: a path of  *)
(* two keys or more that ends above a protected one would be a part of it.               *)
LEMMA ProtectedStays ==
    ASSUME NEW raw, IsRaw(raw), NEW o, IsChange(o), ~Withheld(o.path), NEW p \in Protected,
           Overridden(raw, o).kind = "tree"
    PROVE  ScalarsUnder(Overridden(raw, o).at, p) = ScalarsUnder(raw.at, p)
<1> DEFINE tree == Overridden(raw, o)
<1>1. o.path \in Seq(STRING) /\ Len(o.path) \in Nat /\ Len(o.path) >= 2 /\ ~Under(o.path, p)
  <2>1. o.path \in Seq(STRING)
    BY DEF IsChange
  <2>2. Len(o.path) \in Nat /\ ~(Len(o.path) < 2) /\ ~Under(o.path, p)
    BY <2>1 DEF Withheld
  <2>3. QED
    BY <2>1, <2>2
<1>2. Len(p) \in 1..2
  BY ProtectedAssumption
<1>3. ASSUME NEW q \in Seq(STRING), Under(q, o.path), Under(q, p) PROVE FALSE
  <2>1. Len(o.path) <= Len(q) /\ o.path = SubSeq(q, 1, Len(o.path)) /\ Len(q) \in Nat
    BY <1>1, <1>3, UnderFacts
  <2>2. Len(p) \in 0..Len(o.path) /\ Len(o.path) \in 0..Len(q)
    <3>1. \A k \in 1..2, l, n \in Nat : l >= 2 /\ l <= n => k \in 0..l /\ l \in 0..n
      OBVIOUS
    <3>2. QED
      BY <1>1, <1>2, <2>1, <3>1
  <2>3. SubSeq(o.path, 1, Len(p)) = SubSeq(q, 1, Len(p))
    <3>1. \A k \in 0..Len(o.path) : SubSeq(SubSeq(q, 1, Len(o.path)), 1, k) = SubSeq(q, 1, k)
      BY <2>2, Starts
    <3>2. QED
      BY <2>1, <2>2, <3>1
  <2>4. SubSeq(p, 1, Len(p)) = SubSeq(q, 1, Len(p))
    BY <1>3 DEF Under, IsPrefix
  <2>5. Under(o.path, p)
    BY <1>1, <1>2, <2>2, <2>3, <2>4 DEF Under, IsPrefix
  <2>6. QED
    BY <1>1, <2>5
<1>4. /\ Scalars(tree.at) = {s \in Scalars(raw.at) : ~Under(s[1], o.path)}
                                \cup {<<o.path \o s[1], s[2]>> : s \in Scalars(o.value.at)}
      /\ o.value.kind = "tree"
  <2>1. \A w : Broken(w).kind = "broken"
    BY DEF Broken
  <2>2. o.path # <<>> /\ ~Blocks(raw.at, o.path) /\ o.value.kind # "garbled"
    BY <2>1, OverriddenFacts
  <2>3. o.value.kind = "tree"
    BY <2>2 DEF IsChange
  <2>4. QED
    BY <2>2, <2>3, OverriddenFacts
<1>5. \A s \in Scalars(raw.at) : s[1] \in Seq(STRING)
  <2>1. DOMAIN raw.at \subseteq Seq(STRING)
    BY DEF IsRaw, IsYaml, IsTree
  <2>2. QED
    BY <2>1 DEF Scalars
<1>6. \A s \in Scalars(o.value.at) : ~Under(o.path \o s[1], p)
  <2>1. DOMAIN o.value.at \subseteq Seq(STRING)
    BY <1>4 DEF IsChange, IsYaml, IsTree
  <2>2. \A s \in Scalars(o.value.at) : s[1] \in Seq(STRING)
    BY <2>1 DEF Scalars
  <2>3. ASSUME NEW s \in Scalars(o.value.at)
        PROVE  o.path \o s[1] \in Seq(STRING) /\ Under(o.path \o s[1], o.path)
    BY <1>1, <2>2, UnderFacts
  <2>4. QED
    BY <1>3, <2>3
<1> HIDE DEF tree
<1>7. ASSUME NEW s \in Scalars(tree.at), Under(s[1], p) PROVE s \in Scalars(raw.at)
  <2>1. CASE s \in {<<o.path \o z[1], z[2]>> : z \in Scalars(o.value.at)}
    <3>1. PICK z \in Scalars(o.value.at) : s = <<o.path \o z[1], z[2]>>
      BY <2>1
    <3>2. s[1] = o.path \o z[1]
      BY <3>1
    <3>3. QED
      BY <1>6, <1>7, <3>2
  <2>2. QED
    BY <1>4, <1>7, <2>1
<1>8. ASSUME NEW s \in Scalars(raw.at), Under(s[1], p) PROVE s \in Scalars(tree.at)
  <2>1. ~Under(s[1], o.path)
    BY <1>3, <1>5, <1>8
  <2>2. QED
    BY <1>4, <2>1
<1>9. QED
  BY <1>7, <1>8 DEF ScalarsUnder, tree

(* Changes of which none is withheld, one after the other. *)
LEMMA ChangesKeepProtected ==
    ASSUME NEW raw, IsRaw(raw), NEW changes, IsSequence(changes),
           \A n \in DOMAIN changes : IsChange(changes[n]) /\ ~Withheld(changes[n].path)
    PROVE  LET tree == ApplyOverrides(raw, changes)
           IN  \/ /\ tree.kind = "broken"
                  /\ tree.why = "raised" => \E n \in DOMAIN changes : changes[n].value.kind = "garbled"
               \/ /\ tree.kind = "tree"
                  /\ \A p \in Protected : ScalarsUnder(tree.at, p) = ScalarsUnder(raw.at, p)
<1> DEFINE m == Len(changes)
           Fine(tree) ==
               \/ /\ tree.kind = "broken"
                  /\ tree.why = "raised" => \E n \in DOMAIN changes : changes[n].value.kind = "garbled"
               \/ /\ IsRaw(tree) /\ tree.kind = "tree"
                  /\ \A p \in Protected : ScalarsUnder(tree.at, p) = ScalarsUnder(raw.at, p)
<1>1. m \in Nat /\ DOMAIN changes = 1..m
  BY LenProperties DEF IsSequence
<1>2. PICK r : /\ r[0] = raw /\ ApplyOverrides(raw, changes) = r[m]
               /\ \A n \in 1..m : r[n] = IF r[n - 1].kind = "broken" THEN r[n - 1]
                                         ELSE Overridden(r[n - 1], changes[n])
  BY <1>1, OverrideSteps
<1> DEFINE Good == {n \in Nat : n <= m => Fine(r[n])}
<1> HIDE DEF m
<1>3. 0 \in Good
  <2>1. raw.kind = "tree"
    <3>1. Tree(raw.at).kind = "tree" /\ raw = Tree(raw.at)
      BY DEF Tree, IsRaw
    <3>2. QED
      BY <3>1
  <2>2. QED
    BY <1>2, <2>1
<1>4. ASSUME NEW n \in Nat, n \in Good PROVE n + 1 \in Good
  <2>1. SUFFICES ASSUME n + 1 <= m PROVE Fine(r[n + 1])
    OBVIOUS
  <2> DEFINE tree == r[n]
             o == changes[n + 1]
  <2>2. n + 1 \in 1..m /\ (n + 1) - 1 = n /\ n <= m
    BY <1>1, <2>1
  <2>3. Fine(tree)
    BY <1>4, <2>2
  <2>4. r[n + 1] = IF tree.kind = "broken" THEN tree ELSE Overridden(tree, o)
    BY <1>2, <2>2
  <2>5. IsChange(o) /\ ~Withheld(o.path) /\ n + 1 \in DOMAIN changes
    BY <1>1, <2>2
  <2> HIDE DEF tree
  <2>6. CASE tree.kind = "broken"
    <3>1. r[n + 1] = tree
      BY <2>4, <2>6
    <3> HIDE DEF Fine
    <3>2. QED
      BY <2>3, <3>1
  <2>7. CASE tree.kind # "broken"
    <3> DEFINE next == Overridden(tree, o)
    <3>1. r[n + 1] = next
      BY <2>4, <2>7
    <3>2. /\ IsRaw(tree)
          /\ \A p \in Protected : ScalarsUnder(tree.at, p) = ScalarsUnder(raw.at, p)
      BY <2>3, <2>7
    <3>3. \A w : Broken(w).kind = "broken" /\ Broken(w).why = w
      BY DEF Broken
    <3>4. \/ next = Broken("no key") \/ next = Broken("not a mapping")
          \/ next = Broken("raised") /\ o.value.kind = "garbled"
          \/ IsRaw(next) /\ next.kind = "tree"
      BY <2>5, <3>2, OverriddenFacts
    <3>5. ASSUME next.kind = "tree", NEW p \in Protected
          PROVE  ScalarsUnder(next.at, p) = ScalarsUnder(raw.at, p)
      <4>1. ScalarsUnder(next.at, p) = ScalarsUnder(tree.at, p)
        BY <2>5, <3>2, <3>5, ProtectedStays
      <4>2. QED
        BY <3>2, <4>1
    <3> HIDE DEF next
    <3>6. Fine(next)
      <4>1. CASE next = Broken("no key") \/ next = Broken("not a mapping")
        <5>1. next.kind = "broken" /\ next.why # "raised"
          BY <3>3, <4>1
        <5>2. QED
          BY <5>1
      <4>2. CASE next = Broken("raised") /\ o.value.kind = "garbled"
        <5>1. next.kind = "broken" /\ \E k \in DOMAIN changes : changes[k].value.kind = "garbled"
          BY <2>5, <3>3, <4>2
        <5>2. QED
          BY <5>1
      <4>3. CASE IsRaw(next) /\ next.kind = "tree"
        BY <3>5, <4>3
      <4>4. QED
        BY <3>4, <4>1, <4>2, <4>3
    <3> HIDE DEF Fine
    <3>7. QED
      BY <3>1, <3>6
  <2>8. QED
    BY <2>6, <2>7
<1>5. m \in Good
  <2> HIDE DEF Good
  <2>1. QED
    BY <1>1, <1>3, <1>4, Induction
<1>6. Fine(r[m])
  BY <1>1, <1>5
<1>7. QED
  BY <1>2, <1>6

(* ai/assistant.py:307-322: whatever a model suggests, the changes kept for a retry are  *)
(* all that were suggested, make a config that loads, and leave the protected settings   *)
(* as the file has them.                                                                 *)
THEOREM SuggestionsLeaveProtectedAlone ==
    ASSUME NEW raw, IsRaw(raw), NEW changes, IsSequence(changes),
           \A n \in DOMAIN changes : IsChange(changes[n]), NEW env, NEW name
    PROVE  SuggestionsAreSafe(raw, changes, env, name)
<1> DEFINE tree == ApplyOverrides(raw, changes)
           loaded == Load(raw, changes, env, name)
           vetted == VetOverrides(raw, changes, env, name)
           Garbles == \E n \in DOMAIN changes : changes[n].value.kind = "garbled"
<1>1. \A c : KeptChanges(c).kind = "kept" /\ KeptChanges(c).changes = c
  BY DEF KeptChanges
<1>2. \A w : Broken(w).kind = "broken" /\ Broken(w).why = w
  BY DEF Broken
<1>3. CASE \E n \in DOMAIN changes : Withheld(changes[n].path)
  <2>1. vetted = KeptChanges(<<>>)
    BY <1>3 DEF VetOverrides
  <2>2. vetted.kind = "kept" /\ vetted.changes = <<>>
    BY <1>1, <2>1
  <2> HIDE DEF vetted
  <2>3. QED
    BY <2>2 DEF SuggestionsAreSafe, vetted
<1>4. CASE \A n \in DOMAIN changes : ~Withheld(changes[n].path)
  <2>1. \/ tree.kind = "broken" /\ (tree.why = "raised" => Garbles)
        \/ /\ tree.kind = "tree"
           /\ \A p \in Protected : ScalarsUnder(tree.at, p) = ScalarsUnder(raw.at, p)
    BY <1>4, ChangesKeepProtected
  <2> HIDE DEF tree, Garbles
  <2>2. vetted = IF loaded.kind = "config" THEN KeptChanges(changes)
                 ELSE IF loaded.why = "raised" THEN loaded ELSE KeptChanges(<<>>)
    BY <1>4 DEF VetOverrides
  <2>3. loaded = IF tree.kind = "broken" THEN tree ELSE Validate(Scalars(tree.at), env, name)
    BY DEF Load, tree
  <2> HIDE DEF vetted, loaded
  <2>4. CASE tree.kind = "broken"
    <3>1. loaded = tree
      BY <2>3, <2>4
    <3>2. CASE tree.why = "raised"
      <4>1. vetted.kind # "kept" /\ Garbles
        BY <2>1, <2>2, <2>4, <3>1, <3>2
      <4>2. QED
        BY <4>1 DEF SuggestionsAreSafe, vetted, Garbles
    <3>3. CASE tree.why # "raised"
      <4>1. vetted.kind = "kept" /\ vetted.changes = <<>>
        BY <1>1, <2>2, <2>4, <3>1, <3>3
      <4>2. QED
        BY <4>1 DEF SuggestionsAreSafe, vetted
    <3>4. QED
      BY <3>2, <3>3
  <2>5. CASE tree.kind # "broken"
    <3>1. loaded = Validate(Scalars(tree.at), env, name)
      BY <2>3, <2>5
    <3>2. \/ loaded = [kind |-> "config", settings |-> Settings(Scalars(tree.at), env)]
          \/ \E w \in {"denied", "missing", "invalid", "host", "name"} : loaded = Broken(w)
      BY <3>1 DEF Validate
    <3>3. CASE loaded = [kind |-> "config", settings |-> Settings(Scalars(tree.at), env)]
      <4>1. /\ loaded.kind = "config" /\ loaded.settings = Settings(Scalars(tree.at), env)
        BY <3>3
      <4>2. vetted.kind = "kept" /\ vetted.changes = changes
        BY <1>1, <2>2, <4>1
      <4>3. ASSUME NEW p \in Protected
            PROVE  {s \in loaded.settings : Under(s[1], p)}
                       = {s \in Settings(Scalars(raw.at), env) : Under(s[1], p)}
        <5>1. \A at : {s \in Settings(Scalars(at), env) : Under(s[1], p)}
                          = {<<s[1], Interpolated(s[2], env)>> : s \in ScalarsUnder(at, p)}
          BY DEF Settings, ScalarsUnder
        <5>2. ScalarsUnder(tree.at, p) = ScalarsUnder(raw.at, p)
          BY <2>1, <2>5
        <5>3. QED
          BY <4>1, <5>1, <5>2
      <4>4. QED
        BY <4>1, <4>2, <4>3 DEF SuggestionsAreSafe, vetted, loaded
    <3>4. CASE \E w \in {"denied", "missing", "invalid", "host", "name"} : loaded = Broken(w)
      <4>1. loaded.kind # "config" /\ loaded.why # "raised"
        BY <1>2, <3>4
      <4>2. vetted.kind = "kept" /\ vetted.changes = <<>>
        BY <1>1, <2>2, <4>1
      <4>3. QED
        BY <4>2 DEF SuggestionsAreSafe, vetted
    <3>5. QED
      BY <3>2, <3>3, <3>4
  <2>6. QED
    BY <2>4, <2>5
<1>5. QED
  BY <1>3, <1>4

-----------------------------------------------------------------------------
(* A value no missing cell can change. *)
Sure(v) == v # Null /\ v # Error

(* Values that agree where the first are sure. *)
AgreeOn(D, v, w) == \A i \in D : Sure(v[i]) => w[i] = v[i]

(* A chain whose result is sure has looked at sure operands only. *)
LEMMA ChainsAgree ==
    ASSUME NEW n \in Nat, NEW ops, DOMAIN ops = 1..n, NEW v, NEW w, AgreeOn(1..(n + 1), v, w),
           Sure(Chained(ops, v))
    PROVE  Chained(ops, w) = Chained(ops, v)
<1> DEFINE BadV(i) == \/ {v[i], v[i + 1]} \cap {Null, Error} # {}
                      \/ ~Compared(ops[i], v[i], v[i + 1])
           BadW(i) == \/ {w[i], w[i + 1]} \cap {Null, Error} # {}
                      \/ ~Compared(ops[i], w[i], w[i + 1])
           EndsV == {i \in DOMAIN ops : BadV(i)}
           EndsW == {i \in DOMAIN ops : BadW(i)}
           IsEnd(S, e) == e \in S /\ \A j \in S : e <= j
           endV == CHOOSE i \in EndsV : \A j \in EndsV : i <= j
           endW == CHOOSE i \in EndsW : \A j \in EndsW : i <= j
           Result(E, x, e) ==
               IF E = {} THEN 1
               ELSE IF Error \in {x[e], x[e + 1]} THEN Error
               ELSE IF Null \in {x[e], x[e + 1]} THEN Null
               ELSE 0
<1>1. Chained(ops, v) = Result(EndsV, v, endV) /\ Chained(ops, w) = Result(EndsW, w, endW)
  BY DEF Chained
<1>2. ASSUME NEW i \in 1..n, Sure(v[i]), Sure(v[i + 1])
      PROVE  BadW(i) <=> BadV(i)
  <2>1. w[i] = v[i] /\ w[i + 1] = v[i + 1]
    BY <1>2 DEF AgreeOn
  <2>2. QED
    BY <2>1
<1>3. \A i \in 1..n : ~BadV(i) => Sure(v[i]) /\ Sure(v[i + 1])
  BY DEF Sure
<1>4. EndsV \in SUBSET (1..n) /\ EndsW \in SUBSET (1..n)
  OBVIOUS
<1> HIDE DEF BadV, BadW
<1>5. CASE EndsV = {}
  <2>1. EndsW = {}
    BY <1>2, <1>3, <1>5
  <2>2. QED
    BY <1>1, <1>5, <2>1
<1>6. CASE EndsV # {}
  <2>1. IsEnd(EndsV, endV)
    <3>1. \E e \in EndsV : \A j \in EndsV : e <= j
      <4> HIDE DEF EndsV
      <4>1. QED
        BY <1>4, <1>6, Least
    <3> HIDE DEF EndsV
    <3>2. QED
      BY <3>1
  <2> HIDE DEF endV
  <2>2. Sure(v[endV]) /\ Sure(v[endV + 1])
    <3>1. Error \notin {v[endV], v[endV + 1]} /\ Null \notin {v[endV], v[endV + 1]}
      BY <1>1, <1>6 DEF Sure
    <3>2. QED
      BY <3>1 DEF Sure
  <2>3. endV \in EndsW
    BY <1>2, <2>1, <2>2
  <2>4. \A j \in EndsW : endV <= j
    <3>1. ASSUME NEW j \in EndsW, ~(endV <= j) PROVE FALSE
      <4>1. j \in 1..n /\ ~BadV(j)
        BY <2>1, <3>1
      <4>2. BadW(j) <=> BadV(j)
        BY <1>2, <1>3, <4>1
      <4>3. QED
        BY <4>1, <4>2
    <3>2. QED
      BY <3>1
  <2>5. endW = endV
    <3>1. \A e \in EndsW : (\A j \in EndsW : e <= j) => e = endV
      <4>1. endV \in Int /\ EndsW \subseteq Int
        BY <1>4, <2>3
      <4> HIDE DEF EndsW
      <4>2. QED
        BY <2>3, <2>4, <4>1
    <3> HIDE DEF EndsW
    <3>2. QED
      BY <2>3, <2>4, <3>1
  <2>6. w[endV] = v[endV] /\ w[endV + 1] = v[endV + 1]
    <3>1. endV \in 1..(n + 1) /\ endV + 1 \in 1..(n + 1)
      BY <2>1
    <3>2. QED
      BY <2>2, <3>1 DEF AgreeOn
  <2>7. EndsW # {}
    BY <2>3
  <2> HIDE DEF EndsW, EndsV, endW
  <2>8. QED
    BY <1>1, <1>6, <2>5, <2>6, <2>7
<1>7. QED
  BY <1>5, <1>6

(* What is made of a node from sure values is what is made of it from others that agree. *)
LEMMA NodesAgree ==
    ASSUME NEW n \in Nat, NEW node \in NodesAfter(n), NEW v, NEW w, AgreeOn(1..n, v, w),
           NEW row, NEW full, DOMAIN full = DOMAIN row, AgreeOn(DOMAIN row, row, full),
           Sure(Interpreted(node, v, row))
    PROVE  Interpreted(node, w, full) = Interpreted(node, v, row)
<1> DEFINE vs == [i \in DOMAIN node.args |-> v[node.args[i]]]
           ws == [i \in DOMAIN node.args |-> w[node.args[i]]]
<1>1. CASE node.op = "constant"
  BY <1>1 DEF Interpreted
<1>2. CASE node.op = "column"
  <2>1. node.name \in DOMAIN row /\ row[node.name] # Text
    BY <1>2 DEF Interpreted, Sure
  <2>2. Interpreted(node, v, row) = row[node.name]
    BY <1>2, <2>1 DEF Interpreted
  <2>3. full[node.name] = row[node.name]
    BY <2>1, <2>2 DEF AgreeOn
  <2>4. QED
    BY <1>2, <2>1, <2>2, <2>3 DEF Interpreted
<1>3. CASE node.op \notin {"constant", "column"}
  <2>1. node.args \in Seq(1..n)
    <3>1. \A k \in 1..2 : \A a \in [1..k -> 1..n] : a \in Seq(1..n)
      BY LenFacts
    <3>2. QED
      BY <1>3, <3>1 DEF NodesAfter, Operands
  <2> DEFINE l == Len(node.args)
  <2>2. l \in Nat /\ DOMAIN node.args = 1..l /\ \A i \in 1..l : node.args[i] \in 1..n
    BY <2>1, LenProperties, ElementOfSeq
  <2>3. AgreeOn(1..l, vs, ws) /\ DOMAIN vs = 1..l /\ DOMAIN ws = 1..l
    BY <2>2 DEF AgreeOn
  <2>4. CASE node.op = "compare"
    <3>1. /\ node.ops \in Seq(Compares) /\ l = Len(node.ops) + 1
      BY <2>4 DEF NodesAfter, Unary, Binary, Logical
    <3>2. Len(node.ops) \in Nat /\ DOMAIN node.ops = 1..Len(node.ops)
      BY <3>1, LenProperties
    <3>3. Interpreted(node, v, row) = Chained(node.ops, vs) /\ Interpreted(node, w, full) = Chained(node.ops, ws)
      BY <1>3, <2>4 DEF Interpreted
    <3> HIDE DEF vs, ws, l
    <3>4. QED
      BY <2>3, <3>1, <3>2, <3>3, ChainsAgree
  <2>5. CASE node.op # "compare"
    <3>1. Len(vs) = l
      <4> DEFINE T == {v[k] : k \in 1..n}
      <4>1. vs \in [1..l -> T]
        BY <2>2
      <4> HIDE DEF vs, l, T
      <4>2. QED
        BY <2>2, <4>1, LenFacts
    <3>2. ~Failing(vs) /\ ~Unknown(vs)
      <4> HIDE DEF l
      <4>1. ~Failing(vs)
        BY <1>3, <2>5 DEF Interpreted, Sure
      <4>2. ~Unknown(vs)
        <5>1. CASE node.op \in Logical
          BY <1>3, <2>5, <4>1, <5>1 DEF Interpreted, Sure, Joined
        <5>2. CASE node.op \notin Logical
          BY <1>3, <2>5, <4>1, <5>2 DEF Interpreted, Sure
        <5>3. QED
          BY <5>1, <5>2
      <4>3. QED
        BY <4>1, <4>2
    <3> HIDE DEF l
    <3>3. \A i \in 1..l : ws[i] = vs[i]
      <4>1. \A i \in 1..l : Sure(vs[i])
        BY <3>1, <3>2 DEF Failing, Unknown, Contains, Sure
      <4>2. QED
        BY <2>3, <4>1 DEF AgreeOn
    <3>4. ws = vs
      BY <2>2, <3>3
    <3> DEFINE Made(x) == IF Failing(x) THEN Error
                          ELSE IF node.op \in Logical THEN Joined(node.op, x)
                          ELSE IF Unknown(x) THEN Null
                          ELSE IF node.op = "not" THEN Truth(x[1] = 0)
                          ELSE IF node.op = "-" THEN -x[1]
                          ELSE Operated(node.op, x[1], x[2])
    <3>5. Interpreted(node, v, row) = Made(vs) /\ Interpreted(node, w, full) = Made(ws)
      BY <1>3, <2>5 DEF Interpreted
    <3> HIDE DEF vs, ws, Made
    <3>6. QED
      BY <3>4, <3>5
  <2>6. QED
    BY <2>4, <2>5
<1>4. QED
  BY <1>1, <1>2, <1>3

(* The values of the nodes of an expression, one after the other. *)
LEMMA InterpretSteps ==
    ASSUME NEW nodes, NEW row, NEW m \in Nat, m = Len(nodes)
    PROVE  \E r : /\ r[0] = <<>> /\ Interpret(nodes, row) = Last(r[m])
                  /\ \A n \in 1..m : r[n] = Append(r[n - 1], Interpreted(nodes[n], r[n - 1], row))
<1> DEFINE After(before, n) == Append(before, Interpreted(nodes[n], before, row))
           Follows(f, n) == f = [k \in 0..n |-> IF k = 0 THEN <<>> ELSE After(f[k - 1], k)]
           Possible == {n \in Nat : \E f : Follows(f, n)}
<1>1. 0 \in Possible
  <2>1. Follows([k \in 0..0 |-> <<>>], 0)
    OBVIOUS
  <2>2. QED
    BY <2>1
<1>2. ASSUME NEW n \in Nat, n \in Possible PROVE n + 1 \in Possible
  <2>1. PICK f : Follows(f, n)
    BY <1>2
  <2> DEFINE g == [k \in 0..(n + 1) |-> IF k = n + 1 THEN After(f[n], n + 1) ELSE f[k]]
  <2>2. ASSUME NEW k \in 0..(n + 1)
        PROVE  g[k] = IF k = 0 THEN <<>> ELSE After(g[k - 1], k)
    <3>1. CASE k = n + 1
      <4>1. g[k] = After(f[n], n + 1) /\ g[k - 1] = f[n]
        BY <3>1
      <4> HIDE DEF g, After
      <4>2. QED
        BY <3>1, <4>1
    <3>2. CASE k # n + 1
      <4>1. k \in 0..n /\ (k # 0 => k - 1 \in 0..n)
        BY <3>2
      <4>2. f[k] = IF k = 0 THEN <<>> ELSE After(f[k - 1], k)
        BY <2>1, <4>1
      <4>3. g[k] = f[k] /\ (k # 0 => g[k - 1] = f[k - 1])
        BY <3>2, <4>1
      <4> HIDE DEF g, After
      <4>4. QED
        BY <4>2, <4>3
    <3>3. QED
      BY <3>1, <3>2
  <2>3. g = [k \in 0..(n + 1) |-> g[k]]
    OBVIOUS
  <2> HIDE DEF g
  <2>4. Follows(g, n + 1)
    BY <2>2, <2>3
  <2> HIDE DEF Follows
  <2>5. QED
    BY <2>4
<1>3. m \in Possible
  <2> HIDE DEF Possible
  <2>1. QED
    BY <1>1, <1>2, Induction
<1> DEFINE r == CHOOSE f : Follows(f, m)
<1>4. Follows(r, m)
  BY <1>3
<1>5. Interpret(nodes, row) = Last(r[m])
  BY DEF Interpret
<1> HIDE DEF r
<1>6. r[0] = <<>> /\ \A n \in 1..m : r[n] = After(r[n - 1], n)
  <2>1. 0 \in 0..m /\ \A n \in 1..m : n \in 0..m /\ n # 0
    OBVIOUS
  <2>2. QED
    BY <1>4, <2>1
<1>7. QED
  BY <1>5, <1>6

(* A sure result of an expression is its result in every row that agrees. *)
LEMMA ExpressionsAgree ==
    ASSUME NEW nodes, IsExpression(nodes), NEW row, NEW full,
           DOMAIN full = DOMAIN row, AgreeOn(DOMAIN row, row, full), Sure(Interpret(nodes, row))
    PROVE  Interpret(nodes, full) = Interpret(nodes, row)
<1> DEFINE m == Len(nodes)
<1>1. m \in Nat /\ m > 0 /\ DOMAIN nodes = 1..m
  <2>1. nodes \in Seq(ToSet(nodes)) /\ nodes # <<>>
    BY DEF IsExpression, IsSequence
  <2>2. QED
    BY <2>1, LenProperties, EmptySeq
<1>2. PICK r : /\ r[0] = <<>> /\ Interpret(nodes, row) = Last(r[m])
               /\ \A n \in 1..m : r[n] = Append(r[n - 1], Interpreted(nodes[n], r[n - 1], row))
  BY <1>1, InterpretSteps
<1>3. PICK q : /\ q[0] = <<>> /\ Interpret(nodes, full) = Last(q[m])
               /\ \A n \in 1..m : q[n] = Append(q[n - 1], Interpreted(nodes[n], q[n - 1], full))
  BY <1>1, InterpretSteps
<1> DEFINE U == {Interpreted(nodes[n], r[n - 1], row) : n \in 1..m}
           W == {Interpreted(nodes[n], q[n - 1], full) : n \in 1..m}
           Fine(n) == /\ r[n] \in Seq(U) /\ Len(r[n]) = n
                      /\ q[n] \in Seq(W) /\ Len(q[n]) = n
                      /\ AgreeOn(1..n, r[n], q[n])
           Good == {n \in Nat : n <= m => Fine(n)}
<1> HIDE DEF m
<1>4. 0 \in Good
  <2>1. Fine(0)
    BY <1>2, <1>3 DEF AgreeOn
  <2>2. QED
    BY <2>1
<1>5. ASSUME NEW n \in Nat, n \in Good PROVE n + 1 \in Good
  <2>1. SUFFICES ASSUME n + 1 <= m PROVE Fine(n + 1)
    OBVIOUS
  <2> DEFINE x == Interpreted(nodes[n + 1], r[n], row)
             y == Interpreted(nodes[n + 1], q[n], full)
  <2>2. n + 1 \in 1..m /\ (n + 1) - 1 = n /\ n <= m
    BY <1>1, <2>1
  <2>3. Fine(n)
    BY <1>5, <2>2
  <2>4. r[n + 1] = Append(r[n], x) /\ q[n + 1] = Append(q[n], y)
    BY <1>2, <1>3, <2>2
  <2>5. x \in U /\ y \in W
    BY <2>2
  <2>6. nodes[n + 1] \in NodesAfter(n)
    BY <1>1, <2>2 DEF IsExpression
  <2>7. ASSUME Sure(x) PROVE y = x
    <3>1. AgreeOn(1..n, r[n], q[n])
      BY <2>3
    <3>2. QED
      BY <2>6, <2>7, <3>1, NodesAgree
  <2> HIDE DEF x, y, U, W
  <2>8. /\ r[n + 1] \in Seq(U) /\ Len(r[n + 1]) = n + 1
        /\ \A i \in 1..(n + 1) : r[n + 1][i] = IF i = n + 1 THEN x ELSE r[n][i]
    BY <2>3, <2>4, <2>5, AppendProperties
  <2>9. /\ q[n + 1] \in Seq(W) /\ Len(q[n + 1]) = n + 1
        /\ \A i \in 1..(n + 1) : q[n + 1][i] = IF i = n + 1 THEN y ELSE q[n][i]
    BY <2>3, <2>4, <2>5, AppendProperties
  <2>10. AgreeOn(1..(n + 1), r[n + 1], q[n + 1])
    <3>1. ASSUME NEW i \in 1..(n + 1), Sure(r[n + 1][i]) PROVE q[n + 1][i] = r[n + 1][i]
      <4>1. CASE i = n + 1
        BY <2>7, <2>8, <2>9, <3>1, <4>1
      <4>2. CASE i # n + 1
        <5>1. i \in 1..n /\ r[n + 1][i] = r[n][i] /\ q[n + 1][i] = q[n][i]
          BY <2>8, <2>9, <4>2
        <5>2. QED
          BY <2>3, <3>1, <5>1 DEF AgreeOn
      <4>3. QED
        BY <4>1, <4>2
    <3>2. QED
      BY <3>1 DEF AgreeOn
  <2>11. QED
    BY <2>8, <2>9, <2>10
<1>6. Fine(m)
  <2> HIDE DEF Fine
  <2>1. m \in Good
    <3> HIDE DEF Good
    <3>1. QED
      BY <1>1, <1>4, <1>5, Induction
  <2>2. QED
    BY <1>1, <2>1
<1>7. Interpret(nodes, row) = r[m][m] /\ Interpret(nodes, full) = q[m][m]
  BY <1>2, <1>3, <1>6 DEF Last
<1>8. QED
  BY <1>1, <1>6, <1>7 DEF AgreeOn

(* A node made of anything that is not sure is not sure, if it is no chain. *)
LEMMA NodesSpread ==
    ASSUME NEW n \in Nat, NEW node \in NodesAfter(n), ~IsLeaf(node),
           node.op = "compare" => Len(node.ops) = 1,
           NEW v, NEW row, NEW a \in ToSet(node.args), ~Sure(v[a])
    PROVE  ~Sure(Interpreted(node, v, row))
<1> DEFINE vs == [i \in DOMAIN node.args |-> v[node.args[i]]]
           l  == Len(node.args)
<1>1. node.args \in Seq(1..n)
  <2>1. \A k \in 1..2 : \A b \in [1..k -> 1..n] : b \in Seq(1..n)
    BY LenFacts
  <2>2. QED
    BY <2>1 DEF NodesAfter, Operands, IsLeaf
<1>2. l \in Nat /\ DOMAIN node.args = 1..l
  BY <1>1, LenProperties
<1>3. PICK i \in 1..l : node.args[i] = a
  BY <1>2 DEF ToSet
<1>4. ~Sure(vs[i]) /\ Len(vs) = l
  <2> DEFINE T == {v[node.args[k]] : k \in 1..l}
  <2>1. vs \in [1..l -> T]
    BY <1>2
  <2>2. vs[i] = v[a]
    BY <1>2, <1>3
  <2> HIDE DEF vs, l, T
  <2>3. QED
    BY <1>2, <2>1, <2>2, LenFacts
<1>5. node.op \notin {"constant", "column"}
  BY DEF IsLeaf
<1>6. CASE node.op = "compare"
  <2>1. node.ops \in Seq(Compares) /\ l = Len(node.ops) + 1
    BY <1>6 DEF NodesAfter, Unary, Binary, Logical
  <2>2. l = 2 /\ DOMAIN node.ops = {1}
    <3>1. Len(node.ops) = 1
      BY <1>6
    <3>2. DOMAIN node.ops = 1..Len(node.ops)
      BY <2>1, LenProperties
    <3>3. l = 2
      BY <2>1, <3>1
    <3>4. 1..1 = {1}
      OBVIOUS
    <3>5. QED
      BY <3>1, <3>2, <3>3, <3>4
  <2>3. Interpreted(node, v, row) = Chained(node.ops, vs)
    BY <1>5, <1>6 DEF Interpreted
  <2> DEFINE bad(k) == \/ {vs[k], vs[k + 1]} \cap {Null, Error} # {}
                       \/ ~Compared(node.ops[k], vs[k], vs[k + 1])
             ends == {k \in DOMAIN node.ops : bad(k)}
             end == CHOOSE k \in ends : \A j \in ends : k <= j
  <2>4. vs[1] \in {Null, Error} \/ vs[2] \in {Null, Error}
    <3>1. i = 1 \/ i = 2
      BY <1>3, <2>2
    <3>2. QED
      BY <1>4, <3>1 DEF Sure
  <2> HIDE DEF vs, l
  <2>5. Chained(node.ops, vs) = IF ends = {} THEN 1
                                ELSE IF Error \in {vs[end], vs[end + 1]} THEN Error
                                ELSE IF Null \in {vs[end], vs[end + 1]} THEN Null
                                ELSE 0
    BY DEF Chained
  <2>6. ends = {1}
    <3>1. {vs[1], vs[2]} \cap {Null, Error} # {}
      <4> DEFINE left == vs[1]
                 right == vs[2]
      <4>1. left \in {Null, Error} \/ right \in {Null, Error}
        BY <2>4
      <4> HIDE DEF left, right
      <4>2. {left, right} \cap {Null, Error} # {}
        BY <4>1
      <4>3. QED
        BY <4>2 DEF left, right
    <3>2. bad(1)
      <4>1. 1 + 1 = 2
        OBVIOUS
      <4>2. QED
        BY <3>1, <4>1
    <3> HIDE DEF bad
    <3>3. QED
      BY <2>2, <3>2
  <2>7. end = 1
    <3> HIDE DEF ends
    <3>1. QED
      BY <2>6
  <2> HIDE DEF ends, end, bad
  <2>8. Chained(node.ops, vs) \in {Null, Error}
    BY <2>4, <2>5, <2>6, <2>7
  <2>9. QED
    BY <2>3, <2>8 DEF Sure
<1>7. CASE node.op # "compare"
  <2>1. Failing(vs) \/ Unknown(vs)
    <3> HIDE DEF vs, l
    <3>1. QED
      BY <1>2, <1>3, <1>4 DEF Failing, Unknown, Contains, Sure
  <2>2. Interpreted(node, v, row)
          = IF Failing(vs) THEN Error
            ELSE IF node.op \in Logical THEN Joined(node.op, vs)
            ELSE IF Unknown(vs) THEN Null
            ELSE IF node.op = "not" THEN Truth(vs[1] = 0)
            ELSE IF node.op = "-" THEN -vs[1]
            ELSE Operated(node.op, vs[1], vs[2])
    BY <1>5, <1>7 DEF Interpreted
  <2> HIDE DEF vs, l
  <2>3. Interpreted(node, v, row) \in {Null, Error}
    BY <2>1, <2>2 DEF Joined
  <2>4. QED
    BY <2>3 DEF Sure
<1>8. QED
  BY <1>6, <1>7

(* r[n] holds the values of the first n nodes of an expression. *)
AreSteps(nodes, row, m, r) ==
    /\ r[0] = <<>>
    /\ \A n \in 1..m : r[n] = Append(r[n - 1], Interpreted(nodes[n], r[n - 1], row))

StaysIn(nodes, row, m, r) ==
    \A n \in 0..m : /\ Len(r[n]) = n
                    /\ \A k \in 1..n : r[n][k] = Interpreted(nodes[k], r[k - 1], row)

(* What the steps of an expression have put at a position stays there. *)
LEMMA ValuesStay ==
    ASSUME NEW nodes, NEW row, NEW m \in Nat, NEW r, AreSteps(nodes, row, m, r)
    PROVE  StaysIn(nodes, row, m, r)
<1> USE DEF AreSteps, StaysIn
<1> DEFINE Val(k) == Interpreted(nodes[k], r[k - 1], row)
           U == {Val(k) : k \in 1..m}
           Fine(n) == r[n] \in Seq(U) /\ Len(r[n]) = n /\ \A k \in 1..n : r[n][k] = Val(k)
           Good == {n \in Nat : n <= m => Fine(n)}
<1>1. 0 \in Good
  <2>1. Fine(0)
    OBVIOUS
  <2>2. QED
    BY <2>1
<1>2. ASSUME NEW n \in Nat, n \in Good PROVE n + 1 \in Good
  <2>1. SUFFICES ASSUME n + 1 <= m PROVE Fine(n + 1)
    OBVIOUS
  <2>2. n + 1 \in 1..m /\ (n + 1) - 1 = n /\ n <= m
    BY <2>1
  <2>3. Fine(n)
    BY <1>2, <2>2
  <2>4. r[n + 1] = Append(r[n], Val(n + 1)) /\ Val(n + 1) \in U
    BY <2>2
  <2> HIDE DEF Val, U
  <2>5. /\ r[n + 1] \in Seq(U) /\ Len(r[n + 1]) = n + 1
        /\ \A i \in 1..(n + 1) : r[n + 1][i] = IF i = n + 1 THEN Val(n + 1) ELSE r[n][i]
    BY <2>3, <2>4, AppendProperties
  <2>6. ASSUME NEW k \in 1..(n + 1) PROVE r[n + 1][k] = Val(k)
    <3>1. k = n + 1 \/ k \in 1..n
      OBVIOUS
    <3>2. QED
      BY <2>3, <2>5, <3>1
  <2>7. QED
    BY <2>5, <2>6
<1> HIDE DEF Fine
<1>3. \A n \in Nat : n \in Good
  <2> HIDE DEF Good
  <2>1. QED
    BY <1>1, <1>2, Induction
<1>4. ASSUME NEW n \in 0..m PROVE Fine(n)
  BY <1>3
<1>5. QED
  BY <1>4 DEF Fine

(* ingestion/transforms.py:505, "any null operand gives null": an expression without     *)
(* chains gives null, or fails, for every row that has no value in one of the columns it *)
(* names, however deep the column is in it.                                              *)
THEOREM NullsSpread ==
    ASSUME NEW nodes, IsExpression(nodes), NEW row
    PROVE  MissingGivesNull(nodes, row)
<1> DEFINE m == Len(nodes)
<1>1. SUFFICES ASSUME ~HasChain(nodes),
                      \E n \in DOMAIN nodes : nodes[n].op = "column" /\ nodes[n].name \in DOMAIN row
                                              /\ row[nodes[n].name] = Null
               PROVE  Interpret(nodes, row) \in {Null, Error}
  BY DEF MissingGivesNull
<1>2. m \in Nat /\ m > 0 /\ DOMAIN nodes = 1..m
  <2>1. nodes \in Seq(ToSet(nodes)) /\ nodes # <<>>
    BY DEF IsExpression, IsSequence
  <2>2. QED
    BY <2>1, LenProperties, EmptySeq
<1>3. /\ \A n \in 1..m : nodes[n] \in NodesAfter(n - 1)
      /\ \A n \in 1..m : n = m \/ IsOperand(nodes, n)
  BY <1>2 DEF IsExpression
<1> HIDE DEF m
<1>4. PICK r : /\ r[0] = <<>> /\ Interpret(nodes, row) = Last(r[m])
               /\ \A n \in 1..m : r[n] = Append(r[n - 1], Interpreted(nodes[n], r[n - 1], row))
  BY <1>2, InterpretSteps DEF m
<1> DEFINE Val(k) == Interpreted(nodes[k], r[k - 1], row)
<1>5. \A n \in 0..m : Len(r[n]) = n /\ \A k \in 1..n : r[n][k] = Val(k)
  <2>1. AreSteps(nodes, row, m, r)
    BY <1>4 DEF AreSteps
  <2>2. StaysIn(nodes, row, m, r)
    BY <1>2, <2>1, ValuesStay
  <2>3. QED
    BY <2>2 DEF StaysIn
<1> HIDE DEF Val
<1> DEFINE Unsure == {k \in 1..m : ~Sure(Val(k))}
<1>6. Unsure # {}
  <2>1. PICK n \in 1..m : nodes[n].op = "column" /\ nodes[n].name \in DOMAIN row
                         /\ row[nodes[n].name] = Null
    BY <1>1, <1>2
  <2>2. Val(n) \in {Null, Error}
    BY <2>1 DEF Val, Interpreted
  <2>3. QED
    BY <2>1, <2>2 DEF Sure
<1>7. PICK n \in Unsure : \A k \in Unsure : k <= n
  <2>1. Unsure \in SUBSET (1..m)
    OBVIOUS
  <2> HIDE DEF Unsure
  <2>2. QED
    BY <1>2, <1>6, <2>1, Greatest
<1>8. ASSUME n # m PROVE FALSE
  <2>1. PICK k \in 1..m : ~IsLeaf(nodes[k]) /\ n \in ToSet(nodes[k].args)
    BY <1>2, <1>3, <1>7, <1>8 DEF IsOperand
  <2>2. k - 1 \in Nat /\ k - 1 \in 0..m /\ nodes[k] \in NodesAfter(k - 1)
    BY <1>2, <1>3
  <2>3. n \in 1..(k - 1)
    <3>1. nodes[k].args \in Seq(1..(k - 1))
      <4>1. \A j \in 1..2 : \A b \in [1..j -> 1..(k - 1)] : b \in Seq(1..(k - 1))
        BY LenFacts
      <4>2. QED
        BY <2>1, <2>2, <4>1 DEF NodesAfter, Operands, IsLeaf
    <3>2. QED
      BY <2>1, <3>1, LenProperties, ElementOfSeq DEF ToSet
  <2>4. r[k - 1][n] = Val(n) /\ ~Sure(Val(n))
    BY <1>5, <1>7, <2>2, <2>3
  <2>5. nodes[k].op = "compare" => Len(nodes[k].ops) = 1
    BY <1>1, <1>2 DEF HasChain
  <2>6. ~Sure(Val(k))
    BY <2>1, <2>2, <2>4, <2>5, NodesSpread DEF Val
  <2>7. k <= n
    BY <1>7, <2>6
  <2>8. QED
    BY <2>3, <2>7
<1>9. Interpret(nodes, row) = Val(m)
  <2>1. m \in 0..m /\ m \in 1..m
    BY <1>2
  <2>2. QED
    BY <1>4, <1>5, <2>1 DEF Last
<1>10. QED
  BY <1>7, <1>8, <1>9 DEF Sure

(* Rows with the same columns that agree where the first is sure. *)
StayAlike(row, full) == DOMAIN full = DOMAIN row /\ AgreeOn(DOMAIN row, row, full)

(* A derived column leaves rows alike. *)
LEMMA DerivedAlike ==
    ASSUME NEW column, IsExpression(column[2]), NEW row, NEW full, StayAlike(row, full)
    PROVE  StayAlike(Derived(row, column), Derived(full, column))
<1> DEFINE x == Interpret(column[2], row)
           y == Interpret(column[2], full)
           D == DOMAIN row \cup {column[1]}
<1>1. Sure(x) => y = x
  BY ExpressionsAgree DEF StayAlike
<1> HIDE DEF x, y
<1>2. /\ Derived(row, column) = [c \in D |-> IF c = column[1] THEN x ELSE row[c]]
      /\ Derived(full, column) = [c \in D |-> IF c = column[1] THEN y ELSE full[c]]
  BY DEF Derived, StayAlike, x, y
<1>3. QED
  BY <1>1, <1>2 DEF StayAlike, AgreeOn

(* The rows compute leaves after each column. *)
LEMMA ComputeSteps ==
    ASSUME NEW columns, NEW row, NEW m \in Nat, m = Len(columns)
    PROVE  \E r : /\ r[0] = row /\ Computed(columns, row) = r[m]
                  /\ \A n \in 1..m : r[n] = Derived(r[n - 1], columns[n])
<1> DEFINE After(before, n) == Derived(before, columns[n])
           Follows(f, n) == f = [k \in 0..n |-> IF k = 0 THEN row ELSE After(f[k - 1], k)]
           Possible == {n \in Nat : \E f : Follows(f, n)}
<1>1. 0 \in Possible
  <2>1. Follows([k \in 0..0 |-> row], 0)
    OBVIOUS
  <2>2. QED
    BY <2>1
<1>2. ASSUME NEW n \in Nat, n \in Possible PROVE n + 1 \in Possible
  <2>1. PICK f : Follows(f, n)
    BY <1>2
  <2> DEFINE g == [k \in 0..(n + 1) |-> IF k = n + 1 THEN After(f[n], n + 1) ELSE f[k]]
  <2>2. ASSUME NEW k \in 0..(n + 1)
        PROVE  g[k] = IF k = 0 THEN row ELSE After(g[k - 1], k)
    <3>1. CASE k = n + 1
      <4>1. g[k] = After(f[n], n + 1) /\ g[k - 1] = f[n]
        BY <3>1
      <4> HIDE DEF g, After
      <4>2. QED
        BY <3>1, <4>1
    <3>2. CASE k # n + 1
      <4>1. k \in 0..n /\ (k # 0 => k - 1 \in 0..n)
        BY <3>2
      <4>2. f[k] = IF k = 0 THEN row ELSE After(f[k - 1], k)
        BY <2>1, <4>1
      <4>3. g[k] = f[k] /\ (k # 0 => g[k - 1] = f[k - 1])
        BY <3>2, <4>1
      <4> HIDE DEF g, After
      <4>4. QED
        BY <4>2, <4>3
    <3>3. QED
      BY <3>1, <3>2
  <2>3. g = [k \in 0..(n + 1) |-> g[k]]
    OBVIOUS
  <2> HIDE DEF g
  <2>4. Follows(g, n + 1)
    BY <2>2, <2>3
  <2> HIDE DEF Follows
  <2>5. QED
    BY <2>4
<1>3. m \in Possible
  <2> HIDE DEF Possible
  <2>1. QED
    BY <1>1, <1>2, Induction
<1> DEFINE r == CHOOSE f : Follows(f, m)
<1>4. Follows(r, m)
  BY <1>3
<1>5. Computed(columns, row) = r[m]
  BY DEF Computed
<1> HIDE DEF r
<1>6. r[0] = row /\ \A n \in 1..m : r[n] = After(r[n - 1], n)
  <2>1. 0 \in 0..m /\ \A n \in 1..m : n \in 0..m /\ n # 0
    OBVIOUS
  <2>2. QED
    BY <1>4, <2>1
<1>7. QED
  BY <1>5, <1>6

(* ingestion/transforms.py, what compute makes of missing cells: a derived value that is *)
(* known would be the same whatever the missing cells of its row had been, for any       *)
(* expressions, one over the results of others, and any numbers.                         *)
THEOREM KnownIsCertain ==
    ASSUME NEW c, IsComputation(c), NEW row, NEW numbers
    PROVE  KnownResultsAreCertain(c.columns, row, numbers)
<1> DEFINE columns == c.columns
           m == Len(columns)
           result == Computed(columns, row)
<1>1. m \in Nat /\ m = Len(columns) /\ DOMAIN columns = 1..m
  BY LenProperties DEF IsComputation, IsSequence
<1>2. SUFFICES ASSUME Error \notin Range(result), NEW full \in Fillings(row, numbers),
                      NEW name \in DOMAIN result, result[name] # Null
               PROVE  Computed(columns, full)[name] = result[name]
  BY DEF KnownResultsAreCertain
<1>3. StayAlike(row, full)
  BY DEF Fillings, StayAlike, AgreeOn, Sure
<1> HIDE DEF m, columns, result
<1>4. PICK r : /\ r[0] = row /\ Computed(columns, row) = r[m]
               /\ \A n \in 1..m : r[n] = Derived(r[n - 1], columns[n])
  BY <1>1, ComputeSteps
<1>5. PICK q : /\ q[0] = full /\ Computed(columns, full) = q[m]
               /\ \A n \in 1..m : q[n] = Derived(q[n - 1], columns[n])
  BY <1>1, ComputeSteps
<1> DEFINE Good == {n \in Nat : n <= m => StayAlike(r[n], q[n])}
<1>6. 0 \in Good
  BY <1>3, <1>4, <1>5
<1>7. ASSUME NEW n \in Nat, n \in Good PROVE n + 1 \in Good
  <2>1. SUFFICES ASSUME n + 1 <= m PROVE StayAlike(r[n + 1], q[n + 1])
    OBVIOUS
  <2>2. n + 1 \in 1..m /\ (n + 1) - 1 = n /\ n <= m
    BY <1>1, <2>1
  <2>3. r[n + 1] = Derived(r[n], columns[n + 1]) /\ q[n + 1] = Derived(q[n], columns[n + 1])
    BY <1>4, <1>5, <2>2
  <2>4. IsExpression(columns[n + 1][2])
    BY <1>1, <2>2 DEF IsComputation, columns
  <2>5. StayAlike(r[n], q[n])
    BY <1>7, <2>2
  <2>6. QED
    BY <2>3, <2>4, <2>5, DerivedAlike
<1>8. m \in Good
  <2> HIDE DEF Good
  <2>1. QED
    BY <1>1, <1>6, <1>7, Induction
<1>9. StayAlike(result, Computed(columns, full))
  BY <1>1, <1>4, <1>5, <1>8 DEF result
<1>10. Sure(result[name])
  BY <1>2 DEF Sure, Range
<1>11. QED
  BY <1>2, <1>9, <1>10 DEF StayAlike, AgreeOn

-----------------------------------------------------------------------------
(* The names of the places on the way to one. *)
Spells(r, at, place) ==
    /\ r[0] = <<>> /\ Name(at, place) = r[Len(place)]
    /\ \A n \in 1..Len(place) : r[n] = r[n - 1] \o at[SubSeq(place, 1, n)].key

(* There are such names. *)
LEMMA NameSteps ==
    ASSUME NEW at, NEW place, Len(place) \in Nat
    PROVE  \E r : Spells(r, at, place)
<1> DEFINE m == Len(place)
<1> HIDE DEF m
<1> DEFINE After(before, n) == before \o at[SubSeq(place, 1, n)].key
           Follows(f, n) == f = [k \in 0..n |-> IF k = 0 THEN <<>> ELSE After(f[k - 1], k)]
           Possible == {n \in Nat : \E f : Follows(f, n)}
<1>1. 0 \in Possible
  <2>1. Follows([k \in 0..0 |-> <<>>], 0)
    OBVIOUS
  <2>2. QED
    BY <2>1
<1>2. ASSUME NEW n \in Nat, n \in Possible PROVE n + 1 \in Possible
  <2>1. PICK f : Follows(f, n)
    BY <1>2
  <2> DEFINE g == [k \in 0..(n + 1) |-> IF k = n + 1 THEN After(f[n], n + 1) ELSE f[k]]
  <2>2. ASSUME NEW k \in 0..(n + 1)
        PROVE  g[k] = IF k = 0 THEN <<>> ELSE After(g[k - 1], k)
    <3>1. CASE k = n + 1
      <4>1. g[k] = After(f[n], n + 1) /\ g[k - 1] = f[n]
        BY <3>1
      <4> HIDE DEF g, After
      <4>2. QED
        BY <3>1, <4>1
    <3>2. CASE k # n + 1
      <4>1. k \in 0..n /\ (k # 0 => k - 1 \in 0..n)
        BY <3>2
      <4>2. f[k] = IF k = 0 THEN <<>> ELSE After(f[k - 1], k)
        BY <2>1, <4>1
      <4>3. g[k] = f[k] /\ (k # 0 => g[k - 1] = f[k - 1])
        BY <3>2, <4>1
      <4> HIDE DEF g, After
      <4>4. QED
        BY <4>2, <4>3
    <3>3. QED
      BY <3>1, <3>2
  <2>3. g = [k \in 0..(n + 1) |-> g[k]]
    OBVIOUS
  <2> HIDE DEF g
  <2>4. Follows(g, n + 1)
    BY <2>2, <2>3
  <2> HIDE DEF Follows
  <2>5. QED
    BY <2>4
<1>3. m \in Possible
  <2>1. m \in Nat
    BY DEF m
  <2> HIDE DEF Possible
  <2>2. QED
    BY <1>1, <1>2, <2>1, Induction
<1> DEFINE r == CHOOSE f : Follows(f, m)
<1>4. Follows(r, m)
  BY <1>3
<1>5. Name(at, place) = r[m]
  BY DEF Name, m
<1> HIDE DEF r
<1>6. r[0] = <<>> /\ \A n \in 1..m : r[n] = After(r[n - 1], n)
  <2>1. 0 \in 0..m /\ \A n \in 1..m : n \in 0..m /\ n # 0
    BY DEF m
  <2>2. QED
    BY <1>4, <2>1
<1>7. Spells(r, at, place)
  BY <1>5, <1>6 DEF Spells, m
<1>8. QED
  BY <1>7

(* What stands at a place of an object and below it. *)
LEMMA PartFacts ==
    ASSUME NEW at, IsObject(at), NEW p \in DOMAIN at
    PROVE  /\ DOMAIN Part(at, p) = {q \in Seq(Nat) : p \o q \in DOMAIN at}
           /\ \A q \in DOMAIN Part(at, p) : Part(at, p)[q] = at[p \o q]
<1> DEFINE Rest(x) == SubSeq(x, Len(p) + 1, Len(x))
           D == {Rest(x) : x \in {x \in DOMAIN at : IsPrefix(p, x)}}
<1>1. DOMAIN at \subseteq Seq(Nat)
  BY DEF IsObject, IsTree
<1>2. ASSUME NEW q \in D PROVE q \in Seq(Nat) /\ p \o q \in DOMAIN at
  <2>1. PICK x \in DOMAIN at : IsPrefix(p, x) /\ q = Rest(x)
    OBVIOUS
  <2>2. Rest(x) \in Seq(Nat) /\ x = p \o Rest(x)
    <3>1. p \in Seq(Nat) /\ x \in Seq(Nat) /\ Under(x, p)
      BY <1>1, <2>1 DEF Under
    <3>2. QED
      BY <3>1, Splits
  <2> HIDE DEF Rest
  <2>3. QED
    BY <2>1, <2>2
<1>3. ASSUME NEW q \in Seq(Nat), p \o q \in DOMAIN at PROVE q \in D
  <2>1. IsPrefix(p, p \o q) /\ Rest(p \o q) = q
    BY <1>1, UnderFacts DEF Under
  <2> HIDE DEF Rest
  <2>2. QED
    BY <1>3, <2>1
<1>4. Part(at, p) = [q \in D |-> at[p \o q]]
  BY DEF Part
<1> HIDE DEF D
<1>5. QED
  BY <1>2, <1>3, <1>4

(* The beginnings of a place of an object are places of it, with names of parts. *)
LEMMA BeginningsStand ==
    ASSUME NEW at, IsObject(at), NEW p \in DOMAIN at, NEW n \in 0..Len(p)
    PROVE  SubSeq(p, 1, n) \in DOMAIN at /\ at[SubSeq(p, 1, n)].key \in Seq(STRING)
<1>1. p \in Seq(Nat) /\ Len(p) \in Nat /\ SubSeq(p, 1, Len(p)) = p
  <2>1. p \in Seq(Nat)
    BY DEF IsObject, IsTree
  <2>2. QED
    BY <2>1
<1>2. SubSeq(p, 1, n) \in DOMAIN at
  <2>1. CASE n = Len(p)
    BY <1>1, <2>1
  <2>2. CASE n # Len(p)
    <3>1. n \in 0..(Len(p) - 1)
      <4>1. \A l \in Nat : \A k \in 0..l : k # l => k \in 0..(l - 1)
        OBVIOUS
      <4>2. QED
        BY <1>1, <2>2, <4>1
    <3>2. QED
      BY <3>1 DEF IsObject, IsTree
  <2>3. QED
    BY <2>1, <2>2
<1>3. QED
  BY <1>2 DEF IsObject

(* The name of a place below another is that one's with its name from there. *)
LEMMA NamesJoin ==
    ASSUME NEW at, IsObject(at), NEW p \in DOMAIN at, NEW q \in DOMAIN Part(at, p)
    PROVE  Name(at, p \o q) = Name(at, p) \o Name(Part(at, p), q)
<1> DEFINE all == p \o q
           part == Part(at, p)
           lp == Len(p)
           lq == Len(q)
<1>1. p \in Seq(Nat) /\ q \in Seq(Nat) /\ all \in DOMAIN at
  <2>1. DOMAIN at \subseteq Seq(Nat)
    BY DEF IsObject, IsTree
  <2>2. QED
    BY <2>1, PartFacts
<1>2. /\ lp \in Nat /\ lq \in Nat /\ lp = Len(p) /\ lq = Len(q) /\ Len(all) = lp + lq
      /\ \A n \in 0..lp : SubSeq(all, 1, n) = SubSeq(p, 1, n)
      /\ \A n \in 0..lq : SubSeq(all, 1, lp + n) = p \o SubSeq(q, 1, n)
  BY <1>1, UnderFacts
<1>3. \A n \in 0..(lp + lq) : SubSeq(all, 1, n) \in DOMAIN at /\ at[SubSeq(all, 1, n)].key \in Seq(STRING)
  BY <1>1, <1>2, BeginningsStand
<1>4. ASSUME NEW n \in 0..lq PROVE part[SubSeq(q, 1, n)] = at[SubSeq(all, 1, lp + n)]
  <2>1. lp + n \in 0..(lp + lq)
    BY <1>2
  <2>2. SubSeq(q, 1, n) \in Seq(Nat) /\ SubSeq(all, 1, lp + n) = p \o SubSeq(q, 1, n)
    BY <1>1, <1>2, Starts
  <2>3. p \o SubSeq(q, 1, n) \in DOMAIN at
    BY <1>3, <2>1, <2>2
  <2>4. SubSeq(q, 1, n) \in DOMAIN Part(at, p)
    BY <2>2, <2>3, PartFacts
  <2>5. Part(at, p)[SubSeq(q, 1, n)] = at[p \o SubSeq(q, 1, n)]
    BY <2>4, PartFacts
  <2>6. QED
    BY <2>2, <2>5
<1> HIDE DEF all, part, lp, lq
<1>5. PICK r : /\ r[0] = <<>> /\ Name(at, all) = r[lp + lq]
               /\ \A n \in 1..(lp + lq) : r[n] = r[n - 1] \o at[SubSeq(all, 1, n)].key
  <2>1. Len(all) \in Nat
    BY <1>2
  <2>2. \E r : Spells(r, at, all)
    BY <2>1, NameSteps
  <2>3. QED
    BY <1>2, <2>2 DEF Spells
<1>6. PICK s : /\ s[0] = <<>> /\ Name(at, p) = s[lp]
               /\ \A n \in 1..lp : s[n] = s[n - 1] \o at[SubSeq(p, 1, n)].key
  <2>1. \E s : Spells(s, at, p)
    BY <1>2, NameSteps
  <2>2. QED
    BY <1>2, <2>1 DEF Spells
<1>7. PICK t : /\ t[0] = <<>> /\ Name(part, q) = t[lq]
               /\ \A n \in 1..lq : t[n] = t[n - 1] \o part[SubSeq(q, 1, n)].key
  <2>1. \E t : Spells(t, part, q)
    BY <1>2, NameSteps
  <2>2. QED
    BY <1>2, <2>1 DEF Spells
<1> DEFINE Same(n) == r[n] = s[n] /\ r[n] \in Seq(STRING)
           Longer(n) == r[lp + n] = s[lp] \o t[n] /\ t[n] \in Seq(STRING)
           Above == {n \in Nat : n <= lp => Same(n)}
           Below == {n \in Nat : n <= lq => Longer(n)}
<1>8. Same(lp)
  <2>1. 0 \in Above
    <3>1. <<>> \in Seq(STRING)
      OBVIOUS
    <3>2. Same(0)
      BY <1>5, <1>6, <3>1
    <3>3. QED
      BY <3>2
  <2>2. ASSUME NEW n \in Nat, n \in Above PROVE n + 1 \in Above
    <3>1. SUFFICES ASSUME n + 1 <= lp PROVE Same(n + 1)
      <4> HIDE DEF Same
      <4>1. QED
        OBVIOUS
    <3> DEFINE key == at[SubSeq(all, 1, n + 1)].key
    <3>2. /\ n + 1 \in 1..lp /\ n + 1 \in 1..(lp + lq) /\ n + 1 \in 0..lp /\ n + 1 \in 0..(lp + lq)
          /\ (n + 1) - 1 = n /\ n <= lp
      BY <1>2, <3>1
    <3>3. key \in Seq(STRING) /\ key = at[SubSeq(p, 1, n + 1)].key
      BY <1>2, <1>3, <3>2
    <3>4. r[n] = s[n] /\ r[n] \in Seq(STRING)
      BY <2>2, <3>2
    <3> HIDE DEF key
    <3>5. r[n + 1] = r[n] \o key
      BY <1>5, <3>2 DEF key
    <3>6. s[n + 1] = s[n] \o key
      BY <1>6, <3>2, <3>3
    <3>7. r[n] \o key \in Seq(STRING)
      BY <3>3, <3>4, ConcatProperties
    <3>8. QED
      BY <3>4, <3>5, <3>6, <3>7
  <2>3. lp \in Above
    <3> HIDE DEF Above
    <3>1. QED
      BY <1>2, <2>1, <2>2, Induction
  <2> HIDE DEF Same
  <2>4. QED
    BY <1>2, <2>3
<1>9. s[lp] = r[lp] /\ s[lp] \in Seq(STRING)
  BY <1>2, <1>8
<1>10. Longer(lq)
  <2>1. 0 \in Below
    <3>1. s[lp] \o <<>> = s[lp] /\ <<>> \in Seq(STRING)
      BY <1>9, ConcatEmptySeq
    <3>2. lp + 0 = lp
      BY <1>2
    <3>3. Longer(0)
      BY <1>7, <1>9, <3>1, <3>2
    <3> HIDE DEF Longer
    <3>4. QED
      BY <3>3
  <2>2. ASSUME NEW n \in Nat, n \in Below PROVE n + 1 \in Below
    <3>1. SUFFICES ASSUME n + 1 <= lq PROVE Longer(n + 1)
      <4> HIDE DEF Longer
      <4>1. QED
        OBVIOUS
    <3> DEFINE key == at[SubSeq(all, 1, lp + (n + 1))].key
    <3>2. /\ n + 1 \in 1..lq /\ n + 1 \in 0..lq /\ (n + 1) - 1 = n /\ n <= lq
          /\ lp + (n + 1) \in 1..(lp + lq) /\ lp + (n + 1) \in 0..(lp + lq)
          /\ (lp + (n + 1)) - 1 = lp + n
      BY <1>2, <3>1
    <3>3. key \in Seq(STRING) /\ key = part[SubSeq(q, 1, n + 1)].key
      BY <1>3, <1>4, <3>2
    <3>4. r[lp + n] = s[lp] \o t[n] /\ t[n] \in Seq(STRING)
      BY <2>2, <3>2
    <3> HIDE DEF key
    <3>5. r[lp + (n + 1)] = r[lp + n] \o key
      BY <1>5, <3>2 DEF key
    <3>6. t[n + 1] = t[n] \o key
      BY <1>7, <3>2, <3>3
    <3>7. t[n] \o key \in Seq(STRING)
      BY <3>3, <3>4, ConcatProperties
    <3>8. (s[lp] \o t[n]) \o key = s[lp] \o (t[n] \o key)
      <4>1. \A a, b, c \in Seq(STRING) : (a \o b) \o c = a \o (b \o c)
        BY ConcatAssociative
      <4>2. QED
        BY <1>9, <3>3, <3>4, <4>1
    <3>9. QED
      BY <3>4, <3>5, <3>6, <3>7, <3>8
  <2>3. lq \in Below
    <3> HIDE DEF Below
    <3>1. QED
      BY <1>2, <2>1, <2>2, Induction
  <2> HIDE DEF Longer
  <2>4. QED
    BY <1>2, <2>3
<1>11. r[lp + lq] = s[lp] \o t[lq]
  BY <1>2, <1>10
<1>12. QED
  BY <1>5, <1>6, <1>7, <1>11 DEF all, part

(* Every atom of an object stands at or below a place that is assigned. *)
LEMMA AtomsAreAssigned ==
    ASSUME NEW at, IsObject(at), NEW p \in DOMAIN at, at[p].kind = "atom"
    PROVE  \E a \in Assigned(at) : IsPrefix(a, p)
<1> DEFINE l == Len(p)
           Begin(n) == SubSeq(p, 1, n - 1)
           Ends == {n \in 1..(l + 1) : ~Expanded(at, Begin(n))}
<1>1. p \in Seq(Nat) /\ l \in Nat /\ l + 1 \in Nat /\ SubSeq(p, 1, l) = p
  <2>1. p \in Seq(Nat)
    BY DEF IsObject, IsTree
  <2>2. QED
    BY <2>1
<1> HIDE DEF l
<1>2. Ends # {}
  <2>1. l + 1 \in 1..(l + 1) /\ (l + 1) - 1 = l
    BY <1>1
  <2>2. ~Expanded(at, p)
    BY DEF Expanded
  <2>3. l + 1 \in Ends
    BY <1>1, <2>1, <2>2
  <2>4. QED
    BY <2>3
<1>3. PICK n \in Ends : \A k \in Ends : n <= k
  <2>1. Ends \in SUBSET (1..(l + 1))
    OBVIOUS
  <2> HIDE DEF Ends
  <2>2. QED
    BY <1>1, <1>2, <2>1, Least
<1> DEFINE a == Begin(n)
<1>4. n - 1 \in 0..l /\ n - 1 \in Nat
  BY <1>1, <1>3
<1>5. a \in DOMAIN at
  BY <1>4, BeginningsStand DEF l
<1>6. /\ Len(a) = n - 1 /\ SubSeq(a, 1, Len(a)) = a
      /\ \A k \in 0..(n - 1) : SubSeq(a, 1, k) = SubSeq(p, 1, k)
  <2>1. /\ a \in Seq(Nat) /\ Len(a) = n - 1
        /\ \A k \in 0..(n - 1) : SubSeq(a, 1, k) = SubSeq(p, 1, k)
    BY <1>1, <1>4, Starts DEF l
  <2>2. QED
    BY <2>1, SubSeqFull
<1>7. ASSUME NEW k \in 0..(Len(a) - 1) PROVE Expanded(at, SubSeq(a, 1, k))
  <2>1. k \in 0..(n - 1) /\ k + 1 \in 1..(l + 1) /\ (k + 1) - 1 = k /\ ~(n <= k + 1)
    BY <1>1, <1>4, <1>6
  <2>2. k + 1 \notin Ends
    BY <1>3, <2>1
  <2>3. Expanded(at, SubSeq(p, 1, k))
    BY <2>1, <2>2
  <2>4. QED
    BY <1>6, <2>1, <2>3
<1>8. ~Expanded(at, a)
  BY <1>3
<1>9. IsPrefix(a, p)
  <2>1. Len(a) <= Len(p)
    BY <1>1, <1>4, <1>6 DEF l
  <2>2. SubSeq(p, 1, Len(a)) = a
    BY <1>6
  <2> HIDE DEF a
  <2>3. QED
    BY <1>6, <2>1, <2>2 DEF IsPrefix
<1> HIDE DEF a
<1>10. a \in Assigned(at)
  BY <1>5, <1>7, <1>8 DEF Assigned
<1>11. QED
  BY <1>9, <1>10

(* The order of places, part by part. *)
LEMMA BeforeFacts ==
    ASSUME NEW p \in Seq(Nat), NEW q \in Seq(Nat)
    PROVE  Before(p, q) <=> \E n \in 1..Len(p) : /\ n <= Len(q) /\ p[n] < q[n]
                                                /\ \A k \in 1..(n - 1) : p[k] = q[k]
<1>1. /\ Len(p) \in Nat /\ DOMAIN p = 1..Len(p) /\ Len(q) \in Nat /\ DOMAIN q = 1..Len(q)
  BY LenProperties
<1>2. ASSUME NEW n \in 1..Len(p), n <= Len(q)
      PROVE  SubSeq(p, 1, n - 1) = SubSeq(q, 1, n - 1) <=> \A k \in 1..(n - 1) : p[k] = q[k]
  <2>1. n - 1 \in 0..Len(p) /\ n - 1 \in 0..Len(q) /\ n - 1 \in Nat
    BY <1>1, <1>2
  <2>2. /\ SubSeq(p, 1, n - 1) \in Seq(Nat) /\ Len(SubSeq(p, 1, n - 1)) = n - 1
        /\ \A k \in 1..(n - 1) : SubSeq(p, 1, n - 1)[k] = p[k]
    BY <2>1, Starts
  <2>3. /\ SubSeq(q, 1, n - 1) \in Seq(Nat) /\ Len(SubSeq(q, 1, n - 1)) = n - 1
        /\ \A k \in 1..(n - 1) : SubSeq(q, 1, n - 1)[k] = q[k]
    BY <2>1, Starts
  <2> DEFINE a == SubSeq(p, 1, n - 1)
             b == SubSeq(q, 1, n - 1)
  <2> HIDE DEF a, b
  <2>4. a = b <=> \A k \in 1..(n - 1) : a[k] = b[k]
    BY <2>1, <2>2, <2>3, SeqEqual DEF a, b
  <2>5. QED
    BY <2>2, <2>3, <2>4 DEF a, b
<1>3. Before(p, q) <=> \E n \in 1..Len(p) : /\ n <= Len(q) /\ p[n] < q[n]
                                            /\ SubSeq(p, 1, n - 1) = SubSeq(q, 1, n - 1)
  <2>1. DOMAIN p \cap DOMAIN q = {n \in 1..Len(p) : n <= Len(q)}
    <3>1. 1..Len(p) \cap 1..Len(q) = {n \in 1..Len(p) : n <= Len(q)}
      BY <1>1
    <3>2. QED
      BY <1>1, <3>1
  <2> DEFINE First(n) == p[n] < q[n] /\ SubSeq(p, 1, n - 1) = SubSeq(q, 1, n - 1)
  <2>2. Before(p, q) <=> \E n \in DOMAIN p \cap DOMAIN q : First(n)
    BY DEF Before
  <2> HIDE DEF First
  <2>3. Before(p, q) <=> \E n \in 1..Len(p) : n <= Len(q) /\ First(n)
    BY <2>1, <2>2
  <2>4. QED
    BY <2>3 DEF First
<1>4. QED
  BY <1>2, <1>3

(* It is an order, and of two assigned places one comes first. *)
LEMMA PlacesInOrder ==
    ASSUME NEW at, IsObject(at)
    PROVE  /\ \A p \in Assigned(at) : ~Before(p, p)
           /\ \A p, q, s \in Assigned(at) : Before(p, q) /\ Before(q, s) => Before(p, s)
           /\ \A p, q \in Assigned(at) : p = q \/ Before(p, q) \/ Before(q, p)
<1>1. Assigned(at) \subseteq DOMAIN at /\ DOMAIN at \subseteq Seq(Nat)
  BY DEF Assigned, IsObject, IsTree
<1>2. \A p \in Seq(Nat) : Len(p) \in Nat /\ \A n \in 1..Len(p) : p[n] \in Nat
  BY LenProperties, ElementOfSeq
<1>3. ASSUME NEW p \in Assigned(at) PROVE ~Before(p, p)
  <2>1. p \in Seq(Nat)
    BY <1>1
  <2>2. \A n \in 1..Len(p) : ~(p[n] < p[n])
    BY <1>2, <2>1
  <2>3. QED
    BY <2>1, <2>2, BeforeFacts
<1>4. ASSUME NEW p \in Assigned(at), NEW q \in Assigned(at), NEW s \in Assigned(at),
             Before(p, q), Before(q, s)
      PROVE  Before(p, s)
  <2>1. p \in Seq(Nat) /\ q \in Seq(Nat) /\ s \in Seq(Nat)
    BY <1>1
  <2>2. PICK n \in 1..Len(p) : n <= Len(q) /\ p[n] < q[n] /\ \A k \in 1..(n - 1) : p[k] = q[k]
    BY <1>4, <2>1, BeforeFacts
  <2>3. PICK m \in 1..Len(q) : m <= Len(s) /\ q[m] < s[m] /\ \A k \in 1..(m - 1) : q[k] = s[k]
    BY <1>4, <2>1, BeforeFacts
  <2>4. /\ Len(p) \in Nat /\ Len(q) \in Nat /\ Len(s) \in Nat
        /\ \A i \in 1..Len(p) : p[i] \in Nat
        /\ \A i \in 1..Len(q) : q[i] \in Nat
        /\ \A i \in 1..Len(s) : s[i] \in Nat
    BY <1>2, <2>1
  <2> DEFINE l == IF n <= m THEN n ELSE m
  <2>5. /\ l \in 1..Len(p) /\ l \in 1..Len(q) /\ l \in 1..Len(s)
        /\ \A k \in 1..(l - 1) : k \in 1..(n - 1) /\ k \in 1..(m - 1)
        /\ l = n \/ l \in 1..(n - 1)
        /\ l = m \/ l \in 1..(m - 1)
        /\ l = n \/ l = m
    BY <2>2, <2>3, <2>4
  <2> HIDE DEF l
  <2>6. p[l] < s[l]
    <3>1. l = n => p[l] < q[l]
      BY <2>2
    <3>2. l # n => p[l] = q[l]
      BY <2>2, <2>5
    <3>3. l = m => q[l] < s[l]
      BY <2>3
    <3>4. l # m => q[l] = s[l]
      BY <2>3, <2>5
    <3>5. p[l] \in Nat /\ q[l] \in Nat /\ s[l] \in Nat
      BY <2>4, <2>5
    <3>6. QED
      BY <2>5, <3>1, <3>2, <3>3, <3>4, <3>5
  <2>7. \A k \in 1..(l - 1) : p[k] = s[k]
    BY <2>2, <2>3, <2>5
  <2>8. l <= Len(s)
    BY <2>4, <2>5
  <2>9. QED
    BY <2>1, <2>5, <2>6, <2>7, <2>8, BeforeFacts
<1>5. ASSUME NEW p \in Assigned(at), NEW q \in Assigned(at), p # q,
             \A n \in 1..Len(p) : n <= Len(q) => p[n] = q[n]
      PROVE  Len(q) < Len(p)
  <2>1. p \in Seq(Nat) /\ q \in Seq(Nat) /\ Len(p) \in Nat /\ Len(q) \in Nat
    BY <1>1, <1>2
  <2>2. ASSUME Len(p) <= Len(q) PROVE FALSE
    <3>1. Len(p) \in 0..Len(q)
      BY <2>1, <2>2
    <3>2. /\ SubSeq(q, 1, Len(p)) \in Seq(Nat) /\ Len(SubSeq(q, 1, Len(p))) = Len(p)
          /\ \A k \in 1..Len(p) : SubSeq(q, 1, Len(p))[k] = q[k]
      BY <2>1, <3>1, Starts
    <3>3. \A k \in 1..Len(p) : p[k] = q[k]
      BY <1>5, <2>1, <2>2
    <3>4. SubSeq(q, 1, Len(p)) = p
      <4> DEFINE a == SubSeq(q, 1, Len(p))
      <4>1. a \in Seq(Nat) /\ Len(a) = Len(p) /\ \A k \in 1..Len(p) : a[k] = p[k]
        BY <3>2, <3>3
      <4> HIDE DEF a
      <4>2. a = p
        BY <2>1, <4>1, SeqEqual
      <4>3. QED
        BY <4>2 DEF a
    <3>5. Len(p) # Len(q)
      <4>1. ASSUME Len(p) = Len(q) PROVE FALSE
        <5>1. p = q
          BY <2>1, <3>3, <4>1, SeqEqual
        <5>2. QED
          BY <1>5, <5>1
      <4>2. QED
        BY <4>1
    <3>6. Len(p) \in 0..(Len(q) - 1)
      BY <2>1, <2>2, <3>5
    <3>7. Expanded(at, SubSeq(q, 1, Len(p)))
      BY <3>6 DEF Assigned
    <3>8. QED
      BY <3>4, <3>7 DEF Assigned
  <2>3. QED
    BY <2>1, <2>2
<1>6. ASSUME NEW p \in Assigned(at), NEW q \in Assigned(at), p # q
      PROVE  Before(p, q) \/ Before(q, p)
  <2>1. p \in Seq(Nat) /\ q \in Seq(Nat) /\ Len(p) \in Nat /\ Len(q) \in Nat
    BY <1>1, <1>2
  <2> DEFINE Differ == {n \in 1..Len(p) : n <= Len(q) /\ p[n] # q[n]}
  <2>2. Differ # {}
    <3>1. SUFFICES ASSUME Differ = {} PROVE FALSE
      OBVIOUS
    <3>2. \A n \in 1..Len(p) : n <= Len(q) => p[n] = q[n]
      BY <3>1
    <3>3. \A n \in 1..Len(q) : n <= Len(p) => q[n] = p[n]
      BY <2>1, <3>2
    <3>4. Len(q) < Len(p) /\ Len(p) < Len(q)
      BY <1>5, <1>6, <3>2, <3>3
    <3>5. QED
      BY <2>1, <3>4
  <2>3. PICK n \in Differ : \A k \in Differ : n <= k
    <3>1. Differ \in SUBSET (1..Len(p))
      OBVIOUS
    <3> HIDE DEF Differ
    <3>2. QED
      BY <2>1, <2>2, <3>1, Least
  <2>4. n \in 1..Len(p) /\ n \in 1..Len(q) /\ n <= Len(q) /\ n <= Len(p) /\ p[n] # q[n]
    BY <2>1
  <2>5. \A k \in 1..(n - 1) : p[k] = q[k]
    <3>1. ASSUME NEW k \in 1..(n - 1) PROVE p[k] = q[k]
      <4>1. k \in 1..Len(p) /\ k <= Len(q) /\ ~(n <= k)
        BY <2>1, <2>4
      <4>2. QED
        BY <2>3, <4>1
    <3>2. QED
      BY <3>1
  <2>6. p[n] < q[n] \/ q[n] < p[n]
    <3>1. p[n] \in Nat /\ q[n] \in Nat
      BY <1>2, <2>1, <2>4
    <3>2. QED
      BY <2>4, <3>1
  <2>7. QED
    BY <2>1, <2>4, <2>5, <2>6, BeforeFacts
<1>7. QED
  BY <1>3, <1>4, <1>6

(* Of some of the assigned places one is the last. *)
LEMMA LastPlace ==
    ASSUME NEW at, IsObject(at), NEW S \in SUBSET Assigned(at), S # {}
    PROVE  \E p \in S : \A q \in S : q = p \/ Before(q, p)
<1> DEFINE Earlier(p) == {q \in S : Before(q, p)}
           Counts == {Cardinality(Earlier(p)) + 1 : p \in S}
           n == Cardinality(S) + 1
<1>1. IsFiniteSet(S) /\ n \in Nat
  <2>1. IsFiniteSet(DOMAIN at) /\ S \in SUBSET DOMAIN at
    BY DEF IsObject, Assigned
  <2>2. IsFiniteSet(S)
    BY <2>1, FS_Subset
  <2>3. QED
    BY <2>2, FS_CardinalityType
<1>2. ASSUME NEW p \in S
      PROVE  /\ IsFiniteSet(Earlier(p)) /\ Cardinality(Earlier(p)) \in Nat
             /\ Cardinality(Earlier(p)) + 1 \in 1..n
  <2>1. Earlier(p) \in SUBSET S
    OBVIOUS
  <2>2. IsFiniteSet(Earlier(p)) /\ Cardinality(Earlier(p)) <= Cardinality(S)
    BY <1>1, <2>1, FS_Subset
  <2>3. Cardinality(Earlier(p)) \in Nat /\ Cardinality(S) \in Nat
    BY <1>1, <2>2, FS_CardinalityType
  <2>4. QED
    BY <2>2, <2>3
<1>3. PICK c \in Counts : \A d \in Counts : d <= c
  <2>1. Counts \in SUBSET (1..n) /\ Counts # {}
    BY <1>2
  <2> HIDE DEF Counts, n
  <2>2. QED
    BY <1>1, <2>1, Greatest
<1>4. PICK p \in S : c = Cardinality(Earlier(p)) + 1
  OBVIOUS
<1>5. ASSUME NEW q \in S, q # p, ~Before(q, p) PROVE FALSE
  <2>1. Before(p, q) /\ ~Before(p, p)
    BY <1>5, PlacesInOrder
  <2>2. Earlier(p) \cup {p} \in SUBSET Earlier(q)
    <3>1. \A s \in Earlier(p) : s \in S /\ Before(s, q)
      BY <2>1, PlacesInOrder
    <3>2. QED
      BY <2>1, <3>1
  <2>3. p \notin Earlier(p)
    BY <2>1
  <2>4. Cardinality(Earlier(p) \cup {p}) = Cardinality(Earlier(p)) + 1
    BY <1>2, <2>3, FS_AddElement
  <2>5. Cardinality(Earlier(p) \cup {p}) <= Cardinality(Earlier(q))
    BY <1>2, <2>2, FS_Subset
  <2>6. Cardinality(Earlier(q)) + 1 <= c
    BY <1>3
  <2>7. Cardinality(Earlier(p)) \in Nat /\ Cardinality(Earlier(q)) \in Nat
    BY <1>2
  <2> HIDE DEF Earlier, Counts
  <2>8. QED
    BY <1>4, <2>4, <2>5, <2>6, <2>7
<1>6. QED
  BY <1>5

(* ingestion/transforms.py, "Expand nested objects into columns": the cells of any object *)
(* hold only its atoms, each in the cell its path names or below that place, however deep *)
(* the object and whatever max_depth; and all of them, but those at or below a place      *)
(* after which another place has the same name.                                           *)
THEOREM FlatteningLosesNothing ==
    ASSUME NEW at, IsObject(at)
    PROVE  FlattenKeepsAtoms(at)
<1> DEFINE cells == FlatCell(at)
           all == Assigned(at)
           Paths == {Name(at, p) : p \in all}
           Moved == UNION {{<<name \o a[1], a[2]>> : a \in Atoms(cells[name])} : name \in DOMAIN cells}
<1>1. SUFFICES ASSUME at[<<>>].kind = "object"
               PROVE  /\ Moved \subseteq Atoms(at)
                      /\ \A p \in DOMAIN at :
                            at[p].kind = "atom" /\ <<Name(at, p), at[p].value>> \notin Moved
                                => \E q \in all : IsPrefix(q, p) /\ ReplacedLater(at, q)
  BY DEF FlattenKeepsAtoms, FlatAtoms
<1>2. all \subseteq DOMAIN at /\ all = Assigned(at)
  BY DEF Assigned
<1> HIDE DEF all
<1> DEFINE IsLast(p, name) == Name(at, p) = name /\ \A q \in all : Name(at, q) = name => q = p \/ Before(q, p)
           Chosen(name) == CHOOSE p \in all : IsLast(p, name)
<1>3. cells = [name \in Paths |-> Part(at, Chosen(name))]
  BY <1>1 DEF FlatCell, all
<1>4. ASSUME NEW name \in Paths PROVE Chosen(name) \in all /\ IsLast(Chosen(name), name)
  <2> DEFINE Same == {p \in all : Name(at, p) = name}
  <2>1. Same \in SUBSET Assigned(at) /\ Same # {}
    BY <1>2
  <2>2. PICK p \in Same : \A q \in Same : q = p \/ Before(q, p)
    <3> HIDE DEF Same
    <3>1. QED
      BY <2>1, LastPlace
  <2>3. p \in all /\ IsLast(p, name)
    BY <2>2
  <2> HIDE DEF IsLast
  <2>4. QED
    BY <2>3
<1>5. DOMAIN cells = Paths /\ \A name \in Paths : cells[name] = Part(at, Chosen(name))
  <2> HIDE DEF Paths, Chosen
  <2>1. QED
    BY <1>3
<1> HIDE DEF cells, Chosen
<1>6. ASSUME NEW x \in Moved PROVE x \in Atoms(at)
  <2>1. PICK name \in DOMAIN cells : \E a \in Atoms(cells[name]) : x = <<name \o a[1], a[2]>>
    BY <1>6
  <2>2. PICK a \in Atoms(cells[name]) : x = <<name \o a[1], a[2]>>
    BY <2>1
  <2> DEFINE p == Chosen(name)
  <2>3. p \in all /\ p \in DOMAIN at /\ name = Name(at, p)
    BY <1>2, <1>4, <1>5
  <2>4. a \in Atoms(Part(at, p))
    BY <1>5
  <2> HIDE DEF p
  <2>5. PICK q \in DOMAIN Part(at, p) :
            Part(at, p)[q].kind = "atom" /\ a = <<Name(Part(at, p), q), Part(at, p)[q].value>>
    BY <2>4 DEF Atoms
  <2>6. p \o q \in DOMAIN at /\ Part(at, p)[q] = at[p \o q]
    BY <2>3, PartFacts
  <2>7. Name(at, p \o q) = name \o Name(Part(at, p), q)
    BY <2>3, NamesJoin
  <2>8. a[1] = Name(Part(at, p), q) /\ a[2] = at[p \o q].value
    BY <2>5, <2>6
  <2>9. x = <<Name(at, p \o q), at[p \o q].value>>
    BY <2>2, <2>7, <2>8
  <2>10. QED
    BY <2>5, <2>6, <2>9 DEF Atoms
<1>7. ASSUME NEW p \in DOMAIN at, at[p].kind = "atom", <<Name(at, p), at[p].value>> \notin Moved
      PROVE  \E q \in all : IsPrefix(q, p) /\ ReplacedLater(at, q)
  <2>1. PICK a \in all : IsPrefix(a, p)
    BY <1>2, <1>7, AtomsAreAssigned
  <2> DEFINE q == SubSeq(p, Len(a) + 1, Len(p))
             part == Part(at, a)
             atom == <<Name(part, q), part[q].value>>
             name == Name(at, a)
  <2>2. name \in Paths /\ a \in DOMAIN at
    BY <1>2
  <2>3. q \in Seq(Nat) /\ p = a \o q
    <3>1. p \in Seq(Nat) /\ a \in Seq(Nat) /\ Under(p, a)
      BY <2>1, <2>2 DEF Under, IsObject, IsTree
    <3>2. QED
      BY <3>1, Splits
  <2> HIDE DEF q
  <2>4. q \in DOMAIN part /\ part[q] = at[p]
    BY <2>2, <2>3, PartFacts
  <2>5. Name(at, p) = name \o Name(part, q)
    BY <2>2, <2>3, <2>4, NamesJoin
  <2>6. ASSUME Chosen(name) = a PROVE <<Name(at, p), at[p].value>> \in Moved
    <3>1. cells[name] = part /\ name \in DOMAIN cells
      BY <1>5, <2>2, <2>6
    <3>2. atom \in Atoms(cells[name])
      BY <1>7, <2>4, <3>1 DEF Atoms
    <3>3. <<Name(at, p), at[p].value>> = <<name \o atom[1], atom[2]>>
      BY <2>4, <2>5
    <3> HIDE DEF atom, name, part
    <3>4. <<Name(at, p), at[p].value>> \in {<<name \o z[1], z[2]>> : z \in Atoms(cells[name])}
      BY <3>2, <3>3
    <3>5. QED
      BY <3>1, <3>4
  <2>7. Chosen(name) \in all /\ IsLast(Chosen(name), name) /\ Chosen(name) # a
    BY <1>4, <1>7, <2>2, <2>6
  <2>8. Before(a, Chosen(name)) /\ Name(at, Chosen(name)) = name
    BY <2>7
  <2>9. ReplacedLater(at, a)
    BY <1>2, <2>7, <2>8 DEF ReplacedLater
  <2>10. QED
    BY <2>1, <2>9
<1>8. QED
  BY <1>6, <1>7

-----------------------------------------------------------------------------
(* The algorithms have been given nothing yet, or one of the inputs of their kind.       *)
Given ==
    \/ input = Nothing
    \/ \E kind \in Kinds : \E i \in Inputs[kind] : input = [kind |-> kind, of |-> i]

(* That is so in every behaviour.                                                        *)
THEOREM InputsAreGiven == Spec => []Given
<1>1. Init => Given
  BY DEF Init, Given
<1>2. ASSUME Given, [Next]_input PROVE Given'
  <2>1. CASE UNCHANGED input
    BY <1>2, <2>1 DEF Given
  <2>2. CASE Next
    <3>1. PICK kind \in Kinds : Pick(kind)
      BY <2>2 DEF Next, ConvertDecimal, ConvertInteger, ConvertDate, CheckQuality,
                  PivotRows, CleanFrame, NameThings, Compute, FlattenObject, Schedule,
                  ReadEnvironment, Override, Suggest, CheckDestination, AskModels, Diagnose,
                  DraftConfig, Kinds
    <3>2. QED
      BY <3>1 DEF Pick, Given
  <2>3. QED
    BY <1>2, <2>1, <2>2
<1>3. QED
  BY <1>1, <1>2, PTL DEF Spec

(* What an input of a kind is made of.                                                   *)
LEMMA GivenFacts ==
    ASSUME Given, NEW kind \in Kinds, input.kind = kind
    PROVE  input.of \in Inputs[kind]
<1>1. input # Nothing
  BY DEF Nothing, Kinds
<1>2. PICK k \in Kinds : \E i \in Inputs[k] : input = [kind |-> k, of |-> i]
  BY <1>1 DEF Given
<1>3. QED
  BY <1>2

(* The rows and columns of a frame are at the positions from 1 to their number.          *)
LEMMA FrameFacts ==
    ASSUME NEW T, NEW frame \in Seq(T)
    PROVE  Len(frame) \in Nat /\ frame \in [1..Len(frame) -> T]
  BY LenProperties

(* CellsAreConverted: no decimal, integer or date of any column is changed silently; what *)
(* is not let through is rejected or, exactly if the decimal context has no room for it,  *)
(* ends the run.                                                                         *)
THEOREM AllCellsAreConverted == Spec => []CellsAreConverted
<1> DEFINE i == input.of
<1>1. ASSUME Given PROVE CellsAreConverted
  <2>1. ASSUME input.kind = "decimal" PROVE DecimalFits(i.number, i.precision, i.scale)
    <3>1. i \in [number : Int, precision : Nat, scale : 0..Fraction]
      BY <1>1, <2>1, GivenFacts, InputsAssumption DEF Kinds
    <3>2. QED
      BY <3>1, DecimalsAreKept
  <2>2. ASSUME input.kind = "integer" PROVE IntegerFits(i.number, i.bits, i.signed)
    <3>1. i \in [number : Int, bits : Nat \ {0}, signed : BOOLEAN]
      BY <1>1, <2>2, GivenFacts, InputsAssumption DEF Kinds
    <3>2. QED
      BY <3>1, IntegersAreKept
  <2>3. ASSUME input.kind = "date" PROVE DateFits(i)
    <3>1. i \in Int
      BY <1>1, <2>3, GivenFacts, InputsAssumption DEF Kinds
    <3>2. QED
      BY <3>1, DatesAreKept
  <2>4. QED
    BY <2>1, <2>2, <2>3 DEF CellsAreConverted
<1>2. QED
  BY <1>1, InputsAreGiven, PTL

(* RowsAreAccountedFor: no report loses a row in the quality stage, or is refused for    *)
(* rows that are not at fault.                                                           *)
THEOREM AllRowsAreAccountedFor == Spec => []RowsAreAccountedFor
<1> DEFINE i == input.of
<1>1. ASSUME Given PROVE RowsAreAccountedFor
  <2>1. ASSUME input.kind = "quality"
        PROVE  /\ AccountsForRows(i.frame, i.columns, i.config, i.key)
               /\ NamesTheCulprits(i.frame, i.columns, i.config, i.key)
    <3>1. i.frame \in FrameOf(i.columns) /\ i.key \in SUBSET DOMAIN i.columns
      BY <1>1, <2>1, GivenFacts, InputsAssumption DEF Kinds, IsReport
    <3>2. QED
      BY <3>1, RowsAreAccounted, CulpritsAreNamed
  <2>2. QED
    BY <2>1 DEF RowsAreAccountedFor
<1>2. QED
  BY <1>1, InputsAreGiven, PTL

(* TransformsLoseNothing: no frame loses, misplaces or gains a value in a transform step *)
(* that does not refuse it.                                                              *)
THEOREM NoTransformLosesAnything == Spec => []TransformsLoseNothing
<1> DEFINE i == input.of
<1>1. ASSUME Given PROVE TransformsLoseNothing
  <2>1. ASSUME input.kind = "pivot"
        PROVE  PivotIsLossless(i.rows, i.aggregate, i.fill)
    <3>1. i.rows \in Seq(LongRows)
      BY <1>1, <2>1, GivenFacts, InputsAssumption DEF Kinds
    <3>2. Len(i.rows) \in Nat /\ i.rows \in [1..Len(i.rows) -> LongRows]
      BY <3>1, FrameFacts
    <3>3. QED
      BY <3>2, PivotLosesNothing
  <2>2. ASSUME input.kind = "clean" PROVE CleaningCommutes(i.rows, i.subset, i.keep, i.exclude)
    <3>1. i.rows \in Seq(ToSet(i.rows))
      BY <1>1, <2>2, GivenFacts, InputsAssumption DEF Kinds, IsSequence
    <3>2. Len(i.rows) \in Nat /\ i.rows \in [1..Len(i.rows) -> ToSet(i.rows)]
      BY <3>1, FrameFacts
    <3>3. QED
      BY <3>2, CleaningStepsCommute
  <2>3. ASSUME input.kind = "names" PROVE NamesStayApart(i.frame, i.names)
    <3>1. i.frame \in Seq(NamedColumns) /\ Cardinality(ColumnNames(i.frame)) = Len(i.frame)
      BY <1>1, <2>3, GivenFacts, InputsAssumption DEF Kinds
    <3>2. Len(i.frame) \in Nat /\ i.frame \in [1..Len(i.frame) -> NamedColumns]
      BY <3>1, FrameFacts
    <3> DEFINE normal  == NormalizeColumns(i.frame)
               renamed == RenameColumns(i.frame, i.names)
               undone  == [new \in Range(i.names) |->
                              CHOOSE old \in DOMAIN i.names : i.names[old] = new]
    <3>3. normal # Refusal =>
              /\ Cardinality(ColumnNames(normal)) = Len(i.frame)
              /\ NormalizeColumns(normal) = normal
              /\ \A k \in DOMAIN i.frame : normal[k].cells = i.frame[k].cells
      BY <3>2, NormalNamesStayApart
    <3>4. renamed # Refusal /\ ~Overwrites(i.frame, i.names) =>
              /\ Cardinality(ColumnNames(renamed)) = Len(i.frame)
              /\ RenameColumns(renamed, undone) = i.frame
              /\ DropColumns(renamed, Range(i.names)) = DropColumns(i.frame, DOMAIN i.names)
      BY <3>1, <3>2, RenamesStayApart
    <3>5. renamed # Refusal =>
              \A k \in DOMAIN i.frame :
                  Loadable(renamed, renamed[k].name) =>
                      LoadedCells(renamed, renamed[k].name) = i.frame[k].cells
      BY <3>2, RenamedColumnsKeepCells
    <3>6. QED
      BY <3>3, <3>4, <3>5 DEF NamesStayApart
  <2>4. QED
    BY <2>1, <2>2, <2>3 DEF TransformsLoseNothing
<1>2. QED
  BY <1>1, InputsAreGiven, PTL

(* ResultsAreCertain: no derived value that is known hangs on a missing cell, which any   *)
(* expression without chains makes null; no object gains an atom when it is flattened, or *)
(* loses one that no other path of the same name replaces.                               *)
THEOREM AllResultsAreCertain == Spec => []ResultsAreCertain
<1> DEFINE i == input.of
<1>1. ASSUME Given PROVE ResultsAreCertain
  <2>1. ASSUME input.kind = "compute"
        PROVE  /\ KnownResultsAreCertain(i.columns, i.row, i.numbers)
               /\ \A n \in DOMAIN i.columns : MissingGivesNull(i.columns[n][2], i.row)
    <3>1. IsComputation(i)
      BY <1>1, <2>1, GivenFacts, InputsAssumption DEF Kinds
    <3>2. \A n \in DOMAIN i.columns : IsExpression(i.columns[n][2])
      BY <3>1 DEF IsComputation
    <3>3. QED
      BY <3>1, <3>2, KnownIsCertain, NullsSpread
  <2>2. ASSUME input.kind = "object" PROVE FlattenKeepsAtoms(i)
    <3>1. IsObject(i)
      BY <1>1, <2>2, GivenFacts, InputsAssumption DEF Kinds
    <3>2. QED
      BY <3>1, FlatteningLosesNothing
  <2>3. QED
    BY <2>1, <2>2 DEF ResultsAreCertain
<1>2. QED
  BY <1>1, InputsAreGiven, PTL

(* SchedulesAreStandard: no accepted schedule fires on other days than standard cron.    *)
THEOREM AllSchedulesAreStandard == Spec => []SchedulesAreStandard
<1>1. ASSUME Given PROVE SchedulesAreStandard
  <2>1. input.kind = "cron" => input.of \in SUBSET Items
    BY <1>1, GivenFacts, InputsAssumption DEF Kinds
  <2>2. QED
    BY <2>1, SchedulesAreCron DEF SchedulesAreStandard
<1>2. QED
  BY <1>1, InputsAreGiven, PTL

(* ConfigsMeanWhatTheySay: an override is an edit of the file, and no suggestion a retry  *)
(* takes from a diagnosis reaches a protected setting.                                   *)
THEOREM AllConfigsMeanWhatTheySay == Spec => []ConfigsMeanWhatTheySay
<1> DEFINE i == input.of
<1>1. ASSUME Given PROVE ConfigsMeanWhatTheySay
  <2>1. ASSUME input.kind = "override" PROVE OverridesAreEdits(i.raw, i.change)
    <3>1. IsRaw(i.raw) /\ IsChange(i.change)
      BY <1>1, <2>1, GivenFacts, InputsAssumption DEF Kinds
    <3>2. QED
      BY <3>1, OverridesEditTheFile
  <2>2. ASSUME input.kind = "suggestion" PROVE SuggestionsAreSafe(i.raw, i.changes, i.env, i.name)
    <3>1. /\ IsRaw(i.raw) /\ IsSequence(i.changes)
          /\ \A n \in DOMAIN i.changes : IsChange(i.changes[n])
      BY <1>1, <2>2, GivenFacts, InputsAssumption DEF Kinds
    <3>2. QED
      BY <3>1, SuggestionsLeaveProtectedAlone
  <2>3. QED
    BY <2>1, <2>2 DEF ConfigsMeanWhatTheySay
<1>2. QED
  BY <1>1, InputsAreGiven, PTL

(* ConfigsAreVetted: no config reads a variable it may not, and the warehouse has nothing *)
(* against an accepted table but, perhaps, a type or the partition expression.           *)
THEOREM AllConfigsAreVetted == Spec => []ConfigsAreVetted
<1> DEFINE i == input.of
<1>1. ASSUME Given PROVE ConfigsAreVetted
  <2>1. ASSUME input.kind = "environment"
        PROVE  OnlyAllowedVariablesMatter(i.scalars, i.env, i.other, i.name)
    <3>1. IsReading(i)
      BY <1>1, <2>1, GivenFacts, InputsAssumption DEF Kinds
    <3> DEFINE variables == DOMAIN i.env.values
    <3>2. /\ "METABASE_URL" \in variables /\ i.scalars \in SUBSET ScalarsOver(variables)
          /\ i.env \in EnvironmentsOf(variables) /\ i.other \in [variables -> STRING]
      BY <3>1 DEF IsReading
    <3> HIDE DEF variables
    <3>3. QED
      BY <3>2, OnlyTheAllowedMatter
  <2>2. ASSUME input.kind = "destination" PROVE AcceptedTablesStand(i)
    <3>1. i \in Destinations
      BY <1>1, <2>2, GivenFacts, InputsAssumption DEF Kinds
    <3>2. QED
      BY <3>1, AcceptedTablesHold
  <2>3. QED
    BY <2>1, <2>2 DEF ConfigsAreVetted
<1>2. QED
  BY <1>1, InputsAreGiven, PTL

(* AssistantAnswersAreSound: whatever the models answer, they are asked in order, and    *)
(* diagnoses and drafts fit what was asked for.                                          *)
THEOREM AllAnswersAreSound == Spec => []AssistantAnswersAreSound
<1> DEFINE i == input.of
<1>1. ASSUME Given PROVE AssistantAnswersAreSound
  <2>1. ASSUME input.kind = "request" PROVE FallsBackInOrder(i)
    <3>1. i \in Seq(Calls)
      BY <1>1, <2>1, GivenFacts, InputsAssumption DEF Kinds
    <3>2. QED
      BY <3>1, ModelsAreAskedInOrder
  <2>2. ASSUME input.kind = "diagnosis"
        PROVE  DiagnosesAreSound(i.enabled, i.run, i.answers, i.reply)
    <3>1. i.reply.confidence \in Confidences
      BY <1>1, <2>2, GivenFacts, InputsAssumption DEF Kinds
    <3>2. QED
      BY <3>1, DiagnosesFitTheirRun
  <2>3. ASSUME input.kind = "draft"
        PROVE  DraftsAreSound(i.enabled, i.flaw, i.worded, i.outcomes, i.replies, i.problems)
    <3>1. i.flaw \in Flaws \cup {"none"} /\ i.replies \in [1..2 -> Replies]
      BY <1>1, <2>3, GivenFacts, InputsAssumption DEF Kinds, IsDraft
    <3>2. QED
      BY <3>1, DraftsSpeakForThemselves
  <2>4. QED
    BY <2>1, <2>2, <2>3 DEF AssistantAnswersAreSound
<1>2. QED
  BY <1>1, InputsAreGiven, PTL

=============================================================================
