-------------------------- MODULE ExtractionRequest ---------------------------
(***************************************************************************)
(* One extraction, from the selectors the worker knows to the status the   *)
(* gateway gives the job: ExtractDataUseCase, ExtractionValidator, the     *)
(* HTTP answer as HttpExtractionService reads it, RecoveryDecisionPolicy.  *)
(***************************************************************************)
EXTENDS Naturals, Sequences, SequencesExt

CONSTANTS Fields,      \* field names a client may require
          MaxRequired  \* bound on the length of required_fields

ASSUME RequestAssumption == MaxRequired \in Nat \ {0}

VARIABLES
    required,   \* required_fields, a list: it may name a field twice
    known,      \* the fields the selector repository has a selector for
    data,       \* extracted_data: field |-> "text" or "blank"
    response,   \* what the worker answers, then what the gateway understands
    status,     \* the status of the Job
    stage

vars == <<required, known, data, response, status, stage>>
-------------------------------------------------------------------------------
NoData == [f \in {} |-> "blank"]
Data(fields) == UNION {[S -> {"text", "blank"}] : S \in SUBSET fields}

Answer(success, reason) == [success |-> success, reason |-> reason]

\* Mutant of HttpError: a failure of the transport without its reason.
NoReason == Answer(FALSE, "none")

\* HttpExtractionService, for an answer it does not get or cannot read.
HttpError == Answer(FALSE, "http_error")

\* _is_missing_or_empty
IsBroken(f, d) == f \notin DOMAIN d \/ d[f] = "blank"

\* missing_fields, the list comprehension over the required fields.
MissingFields(fields, d) ==
    LET missing[n \in 0..Len(fields)] ==
            IF n = 0 THEN <<>>
            ELSE IF IsBroken(fields[n], d) THEN Append(missing[n - 1], fields[n])
            ELSE missing[n - 1]
    IN missing[Len(fields)]

Reason(f, d) == IF f \in DOMAIN d THEN "empty_required_field" ELSE "missing_required_field"

\* Mutant of Validate: the reason is that of the last missing field.
ValidateLast(fields, d) ==
    LET missing == MissingFields(fields, d) IN
    IF missing = <<>> THEN Answer(TRUE, "none")
    ELSE Answer(FALSE, Reason(missing[Len(missing)], d))

\* _determine_failure_reason looks at the first missing field of the list.
Validate(fields, d) ==
    LET missing == MissingFields(fields, d) IN
    IF missing = <<>> THEN Answer(TRUE, "none")
    ELSE Answer(FALSE, Reason(Head(missing), d))

\* Mutant of ShouldTriggerRecovery: an empty field is not recoverable.
OnlyMissingTriggers(reason) == reason = "missing_required_field"

\* RecoveryDecisionPolicy.should_trigger_recovery
ShouldTriggerRecovery(reason) ==
    reason \in {"missing_required_field", "empty_required_field"}

\* _apply_extraction_result; the last branch is the failed assertion.
Decide(answer) ==
    IF answer.success                             THEN "success"
    ELSE IF ShouldTriggerRecovery(answer.reason)  THEN "recovery_pending"
    ELSE IF answer.reason # "none"                THEN "failed"
    ELSE "assertion"
-------------------------------------------------------------------------------
Init ==
    /\ required \in SeqOf(Fields, MaxRequired) \ {<<>>}
    /\ known \in SUBSET Fields
    /\ data = NoData
    /\ response = Answer(FALSE, "none")
    /\ status = "pending"
    /\ stage = "extract"

\* _resolve_known_selectors, then the browser: a field without a selector is
\* not looked for, one whose selector matches nothing is left out.
Extract ==
    /\ stage = "extract"
    /\ data' \in Data(ToSet(required) \cap known)
    /\ response' = Validate(required, data')
    /\ stage' = "respond"
    /\ UNCHANGED <<required, known, status>>

\* The answer arrives as it was sent.
Respond ==
    /\ stage = "respond"
    /\ stage' = "decide"
    /\ UNCHANGED <<required, known, data, response, status>>

\* No answer, an error status, or a reason this gateway does not know.
TransportFails ==
    /\ stage \in {"extract", "respond"}
    /\ response' = HttpError
    /\ stage' = "decide"
    /\ UNCHANGED <<required, known, data, status>>

ApplyAnswer ==
    /\ stage = "decide"
    /\ status' = Decide(response)
    /\ stage' = "done"
    /\ UNCHANGED <<required, known, data, response>>

Next == Extract \/ Respond \/ TransportFails \/ ApplyAnswer

Spec == Init /\ [][Next]_vars
-------------------------------------------------------------------------------
Reasons == {"none", "missing_required_field", "empty_required_field", "http_error"}

\* Every variable stays in its type: the browser is asked only for required
\* fields with a selector, and no answer makes the assertion of the use case fail.
TypeOK == /\ required \in SeqOf(Fields, MaxRequired) \ {<<>>}
          /\ known \subseteq Fields
          /\ data \in Data(ToSet(required) \cap known)
          /\ response \in [success : BOOLEAN, reason : Reasons]
          /\ status \in {"pending", "success", "recovery_pending", "failed"}
          /\ stage \in {"extract", "respond", "decide", "done"}

\* The first position of a list whose field is broken, as the reference.
FirstBroken == CHOOSE n \in 1..Len(required) :
                  /\ IsBroken(required[n], data)
                  /\ \A m \in 1..(n - 1) : ~ IsBroken(required[m], data)
SomeBroken == \E f \in ToSet(required) : IsBroken(f, data)

\* A job is a success only with text for every required field, waits for a
\* recovery exactly when the worker answered and some field has none, and
\* fails only for a failure of the infrastructure (deterministic first,
\* recovery_decision_policy.py:5-8).  The assertion of the use case holds.
StatusSaysWhatHappened ==
    stage = "done" =>
        /\ status = "success"          <=> response.success /\ ~ SomeBroken
        /\ status = "recovery_pending" <=> response # HttpError /\ SomeBroken
        /\ status = "failed"           <=> response = HttpError

\* The reason the worker gives is that of the first broken field of the list.
ReasonIsThatOfTheFirst ==
    stage # "extract" /\ SomeBroken /\ response # HttpError =>
        response.reason = Reason(required[FirstBroken], data)
===============================================================================
