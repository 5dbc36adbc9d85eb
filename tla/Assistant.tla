----------------------------- MODULE Assistant ------------------------------
(***************************************************************************)
(* The AI assistant: the client that asks one model after the other        *)
(* (ai/client.py), the drafts and diagnoses made of the replies            *)
(* (ai/assistant.py) and the answers of their endpoints                    *)
(* (distribution/ai_api.py).  Prompts are left out: a call to the provider *)
(* is one of the Answers, a reply holds what is made of it.                *)
(***************************************************************************)
EXTENDS Integers, Sequences, FiniteSets, SequencesExt, Positions

CONSTANT Attempts   \* attempts per model

ASSUME AttemptsAssumption == Attempts \in Nat \ {0}

(* What a call gives: a JSON object, another text with status 200, a       *)
(* status that no other model or attempt helps with, 404, a status to try  *)
(* again after (429, 500, 502, 503, 504), or no response.                  *)
Answers == {"object", "garbage", "refused", "gone", "busy", "silent"}
Retried == {"busy", "silent"}

-----------------------------------------------------------------------------
(***************************************************************************)
(* OpenAICompatibleClient.  answers[m][k] is what the k-th call to the     *)
(* m-th model would give.                                                  *)
(***************************************************************************)
(* _complete: how often a model is asked; it waits before it asks again.   *)
Asked(answers) ==
    CHOOSE n \in 1..Attempts :
        /\ \A k \in 1..(n - 1) : answers[k] \in Retried
        /\ answers[n] \notin Retried \/ n = Attempts

(* Mutant: an unusable answer sends the request on, as 404 does. *)
GivenUpForGarbage(answers) == answers[Asked(answers)] \in Retried \cup {"gone", "garbage"}

(* _TryNextModelError *)
GivenUp(answers) == answers[Asked(answers)] \in Retried \cup {"gone"}

(* complete_json: the first model that is not given up decides. *)
CompleteJson(answers) ==
    LET left == {m \in DOMAIN answers : ~GivenUp(answers[m])}
        last == IF left = {} THEN Len(answers) ELSE CHOOSE m \in left : \A n \in left : m <= n
    IN  [outcome   |-> IF left = {} THEN "nobody" ELSE answers[last][Asked(answers[last])],
         calls     |-> [m \in DOMAIN answers |-> IF m <= last THEN Asked(answers[m]) ELSE 0],
         retryable |-> left = {}]

-----------------------------------------------------------------------------
(***************************************************************************)
(* diagnose.  A reply has a category, a confidence (a number in tenths,    *)
(* "nan", or a text that is none) and what becomes of its suggested        *)
(* changes: "kept", "withheld", or "raised" when a value is not YAML.      *)
(***************************************************************************)
Categories == {"login", "unknown"}

Clamped(c) ==
    IF c.kind = "text" THEN 5
    ELSE IF c.value < 0 THEN 0
    ELSE IF c.value > 10 THEN 10
    ELSE c.value

(* _diagnosis; NaN passes min and max, and then Diagnosis refuses it.      *)
Diagnosis(reply) ==
    [category   |-> IF reply.category \in Categories THEN reply.category ELSE "unknown",
     confidence |-> Clamped(reply.confidence),
     changed    |-> reply.changes = "kept"]

Unforeseen(reply) == reply.confidence.kind = "nan" \/ reply.changes = "raised"

(* POST /api/runs/{run_id}/diagnose; run is the status of the run. *)
DiagnoseResponse(enabled, run, answers, reply) ==
    IF ~enabled THEN 503
    ELSE IF run = "none" THEN 404
    ELSE IF run # "FAILED" THEN 409
    ELSE IF CompleteJson(answers).outcome # "object" THEN 502
    ELSE IF Unforeseen(reply) THEN 500
    ELSE 200

-----------------------------------------------------------------------------
(***************************************************************************)
(* draft.  A sample is read or has a flaw; a reply has a text (or none)    *)
(* and notes; problems[t] is what the validator finds in the text t.       *)
(***************************************************************************)
Flaws == {"name", "base64", "size", "format", "unreadable", "empty", "reference"}

NoText == "no text"

Merged(notes, more) ==
    notes \o Selected(more, {i \in DOMAIN more : ~Contains(notes, more[i])})

Draft(text, notes, found) == [kind |-> "draft", text |-> text, notes |-> notes, problems |-> found]
Failed == [kind |-> "failed"]

(* Mutant: the repaired text keeps the problems of the first. *)
DraftedStale(outcomes, replies, problems) ==
    IF outcomes[1] # "object" \/ replies[1].text = NoText THEN Failed
    ELSE IF problems[replies[1].text] = {}
         THEN Draft(replies[1].text, replies[1].notes, {})
    ELSE IF outcomes[2] # "object" \/ replies[2].text = NoText THEN Failed
    ELSE Draft(replies[2].text, Merged(replies[1].notes, replies[2].notes),
               problems[replies[1].text])

(* One request, and one repair round if its text has problems. *)
Drafted(outcomes, replies, problems) ==
    IF outcomes[1] # "object" \/ replies[1].text = NoText THEN Failed
    ELSE IF problems[replies[1].text] = {}
         THEN Draft(replies[1].text, replies[1].notes, {})
    ELSE IF outcomes[2] # "object" \/ replies[2].text = NoText THEN Failed
    ELSE Draft(replies[2].text, Merged(replies[1].notes, replies[2].notes),
               problems[replies[2].text])

(* draft_config tells the caller's faults from the provider's by words of  *)
(* the message.  That of an empty file has them only if the name of the    *)
(* file does, that of the provider if its own text does (worded).          *)
DraftResponse(enabled, flaw, worded, draft) ==
    IF ~enabled THEN 503
    ELSE IF flaw \in Flaws \ {"empty"} THEN 422
    ELSE IF flaw = "empty" \/ draft.kind = "failed" THEN IF worded THEN 422 ELSE 502
    ELSE 200

-----------------------------------------------------------------------------
(***************************************************************************)
(* What the assistant must do.                                             *)
(***************************************************************************)
(* "Models are tried in order": no model is asked before all in front of   *)
(* it were given up for cause, none is asked once one has answered, and    *)
(* the request may be repeated only if nobody answered it.                 *)
FallsBackInOrder(answers) ==
    LET result   == CompleteJson(answers)
        answered == {m \in DOMAIN answers : \E k \in 1..result.calls[m] :
                        answers[m][k] \in {"object", "garbage", "refused"}}
    IN  /\ \A m \in DOMAIN answers : result.calls[m] > 0 =>
              \A n \in 1..(m - 1) :
                 \/ result.calls[n] = Attempts
                 \/ answers[n][result.calls[n]] = "gone"
        /\ \A m \in answered, n \in DOMAIN answers : n > m => result.calls[n] = 0
        /\ result.retryable <=> answered = {}
        /\ result.outcome = "object" =>
              \E m \in answered : answers[m][result.calls[m]] = "object"

(* A diagnosis answers a failed run and can be stored; a request for one   *)
(* ends unforeseen only for the two kinds of reply known to do that.       *)
DiagnosesAreSound(enabled, run, answers, reply) ==
    LET response == DiagnoseResponse(enabled, run, answers, reply)
    IN  /\ response = 200 =>
              /\ enabled /\ run = "FAILED"
              /\ Diagnosis(reply).category \in Categories
              /\ Diagnosis(reply).confidence \in 0..10
        /\ response = 500 => reply.confidence.kind = "nan" \/ reply.changes = "raised"

(* A draft is shown with the problems of its own text, with every note of  *)
(* the replies it comes from, none twice unless one reply has it twice;    *)
(* the caller is blamed exactly for a fault of the request, where the      *)
(* words of the message do not mislead.                                    *)
DraftsAreSound(enabled, flaw, worded, outcomes, replies, problems) ==
    LET draft    == Drafted(outcomes, replies, problems)
        response == DraftResponse(enabled, flaw, worded, draft)
        misled   == IF flaw = "none" THEN worded ELSE flaw = "empty" /\ ~worded
        used     == {i \in {1, 2} : i = 1 \/ problems[replies[1].text] # {}}
    IN  /\ response = 200 =>
              /\ draft.problems = problems[draft.text]
              /\ \A i \in used : ToSet(replies[i].notes) \subseteq ToSet(draft.notes)
              /\ (\A i \in used : IsInjective(replies[i].notes)) => IsInjective(draft.notes)
        /\ enabled /\ ~misled => (response = 422 <=> flaw # "none")

=============================================================================
