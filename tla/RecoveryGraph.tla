----------------------------- MODULE RecoveryGraph ----------------------------
(***************************************************************************)
(* One graph.ainvoke of the Recovery Engine: the LangGraph nodes, their    *)
(* routing and the state they share.  A step is one node, except           *)
(* persist_selector, which is one step per HTTP call.                      *)
(*                                                                         *)
(* The text a selector finds is represented by that selector, so what was  *)
(* extracted says what it was extracted with.                              *)
(***************************************************************************)
EXTENDS Integers, Sequences, FiniteSets

CONSTANTS Fields,          \* the required fields of the job
          Selectors,       \* values a proposal may give a field
          AttemptLimits,   \* values RECOVERY_MAX_ATTEMPTS may have
          RecursionLimit   \* supersteps LangGraph allows one invocation

ASSUME GraphAssumption ==
    /\ IsFiniteSet(Fields)          \* required_fields is a list
    /\ AttemptLimits \subseteq Int
    /\ RecursionLimit \in Nat \ {0}

CONSTANT Empty             \* the empty text a selector may also find

ASSUME EmptyAssumption == Empty \notin Selectors

VARIABLES
    node,                \* the node that runs next, "END", "raised", "out_of_steps"
    screenshot_base64,   \* whether the screenshot is in the state
    attempt_number,
    max_attempts,
    proposed_selectors,
    recovered_data,
    rejection_history,
    validation_result,
    final_status,
    saved,               \* <<field, selector>> pairs the worker has stored
    proposals,           \* history: the answers of the model, one per call
    supersteps           \* supersteps LangGraph has run

loopVars  == <<attempt_number, max_attempts, rejection_history>>
stateVars == <<screenshot_base64, loopVars, proposed_selectors, recovered_data,
               validation_result, final_status>>
vars == <<node, stateVars, saved, proposals, supersteps>>
-------------------------------------------------------------------------------
Ends == {"END", "raised", "out_of_steps"}

\* A Python dict from some of the fields; None is the empty one, which no
\* confident proposal is.
Maps(values) == UNION {[S -> values] : S \in SUBSET Fields}
None == [f \in {} |-> f]
Pairs(m) == {<<f, m[f]>> : f \in DOMAIN m}

\* _parse_response keeps the fields of the schema, and is not confident when
\* nothing is left.
Answers == Maps(Selectors)

\* extract_fields: a selector that matches nothing leaves its field out.
Extractions(selectors) ==
    {data \in Maps(Selectors \cup {Empty}) :
        \A f \in DOMAIN data : /\ f \in DOMAIN selectors
                               /\ data[f] \in {selectors[f], Empty}}

\* Mutant of IsSuccess: only the fields that were found are looked at.
FoundIsSuccess(data) == data # None /\ \A f \in DOMAIN data : data[f] # Empty

\* ExtractionValidator.validate: every required field is there and not blank.
IsSuccess(data) == \A f \in Fields : f \in DOMAIN data /\ data[f] # Empty

Rejection(selectors) == [attempt |-> attempt_number, selectors |-> selectors]

\* Mutants of DecideNextStep: one attempt too few, one too many.
DecideTooEarly(result, attempt) ==
    IF result = "valid"                THEN "persist_selector"
    ELSE IF attempt < max_attempts     THEN "analyze_and_propose"
    ELSE "escalate_human"

DecideTooLate(result, attempt) ==
    IF result = "valid"                THEN "persist_selector"
    ELSE IF attempt <= max_attempts + 1 THEN "analyze_and_propose"
    ELSE "escalate_human"

\* The conditional edges leave decide_next_step with the merged state.
DecideNextStep(result, attempt) ==
    IF result = "valid"                THEN "persist_selector"
    ELSE IF attempt <= max_attempts    THEN "analyze_and_propose"
    ELSE "escalate_human"
-------------------------------------------------------------------------------
\* The first attempt has number one; its mutant counts from zero.
FromZero == 0
FirstAttempt == 1

\* _build_initial_state.
Init ==
    /\ node = "capture_screenshot"
    /\ screenshot_base64 = FALSE
    /\ attempt_number = FirstAttempt
    /\ max_attempts \in AttemptLimits
    /\ proposed_selectors = None
    /\ recovered_data = None
    /\ rejection_history = <<>>
    /\ validation_result = "pending"
    /\ final_status = "none"
    /\ saved = {}
    /\ proposals = <<>>
    /\ supersteps = 0

\* LangGraph runs a node as a superstep of its own, while it may.
Runs(n) == /\ node = n
           /\ supersteps < RecursionLimit
           /\ supersteps' = supersteps + 1

CaptureScreenshot ==
    /\ Runs("capture_screenshot")
    /\ screenshot_base64' = TRUE
    /\ node' = "analyze_and_propose"
    /\ UNCHANGED <<loopVars, proposed_selectors, recovered_data,
                   validation_result, final_status, saved, proposals>>

\* A proposal that is not confident replaces the last one by None.
AnalyzeAndPropose(answer) ==
    /\ Runs("analyze_and_propose")
    /\ screenshot_base64
    /\ proposals' = Append(proposals, answer)
    /\ proposed_selectors' = answer
    /\ node' = IF answer = None THEN "handle_no_confident_proposal"
               ELSE "validate_selectors_live"
    /\ UNCHANGED <<screenshot_base64, loopVars, recovered_data,
                   validation_result, final_status, saved>>

\* Mutants of HandleNoConfidentProposal: it leaves no trace in the history;
\* it does not count as an attempt.
HandleWithoutHistory ==
    /\ Runs("handle_no_confident_proposal")
    /\ validation_result' = "invalid"
    /\ attempt_number' = attempt_number + 1
    /\ node' = DecideNextStep("invalid", attempt_number + 1)
    /\ UNCHANGED <<screenshot_base64, max_attempts, proposed_selectors, rejection_history,
                   recovered_data, final_status, saved, proposals>>

HandleWithoutCounting ==
    /\ Runs("handle_no_confident_proposal")
    /\ validation_result' = "invalid"
    /\ rejection_history' = Append(rejection_history, Rejection(None))
    /\ node' = DecideNextStep("invalid", attempt_number)
    /\ UNCHANGED <<screenshot_base64, attempt_number, max_attempts, proposed_selectors,
                   recovered_data, final_status, saved, proposals>>

HandleNoConfidentProposal ==
    /\ Runs("handle_no_confident_proposal")
    /\ validation_result' = "invalid"
    /\ rejection_history' = Append(rejection_history, Rejection(None))
    /\ attempt_number' = attempt_number + 1
    /\ node' = DecideNextStep("invalid", attempt_number + 1)
    /\ UNCHANGED <<screenshot_base64, max_attempts, proposed_selectors,
                   recovered_data, final_status, saved, proposals>>

\* The worker tries the candidate selectors alone: fields it has a stored
\* selector for are not filled in.
ValidateSelectorsLive(data) ==
    /\ Runs("validate_selectors_live")
    /\ IF IsSuccess(data)
       THEN /\ validation_result' = "valid"
            /\ recovered_data' = data
            /\ node' = DecideNextStep("valid", attempt_number)
            /\ UNCHANGED <<attempt_number, rejection_history, proposed_selectors>>
       ELSE /\ validation_result' = "invalid"
            /\ rejection_history' = Append(rejection_history, Rejection(proposed_selectors))
            /\ proposed_selectors' = None
            /\ attempt_number' = attempt_number + 1
            /\ node' = DecideNextStep("invalid", attempt_number + 1)
            /\ UNCHANGED recovered_data
    /\ UNCHANGED <<screenshot_base64, max_attempts, final_status, saved, proposals>>

\* persist_selector: one save_approved_selector call, in the order of the dict.
SaveApprovedSelector(f) ==
    /\ node = "persist_selector"
    /\ supersteps < RecursionLimit
    /\ f \in DOMAIN proposed_selectors
    /\ <<f, proposed_selectors[f]>> \notin saved
    /\ saved' = saved \cup {<<f, proposed_selectors[f]>>}
    /\ UNCHANGED <<node, stateVars, proposals, supersteps>>

\* persist_selector returns.
PersistSelector ==
    /\ Runs("persist_selector")
    /\ Pairs(proposed_selectors) \subseteq saved
    /\ final_status' = "success"
    /\ node' = "END"
    /\ UNCHANGED <<screenshot_base64, loopVars, proposed_selectors, recovered_data,
                   validation_result, saved, proposals>>

EscalateHuman ==
    /\ Runs("escalate_human")
    /\ final_status' = "needs_human_review"
    /\ node' = "END"
    /\ UNCHANGED <<screenshot_base64, loopVars, proposed_selectors, recovered_data,
                   validation_result, saved, proposals>>

\* ainvoke raises: a call to the worker or the model failed.
CallFails ==
    /\ node \in {"capture_screenshot", "analyze_and_propose",
                 "validate_selectors_live", "persist_selector"}
    /\ node' = "raised"
    /\ UNCHANGED <<stateVars, saved, proposals, supersteps>>

\* ainvoke raises GraphRecursionError.
RecursionExhausted ==
    /\ node \notin Ends
    /\ supersteps = RecursionLimit
    /\ node' = "out_of_steps"
    /\ UNCHANGED <<stateVars, saved, proposals, supersteps>>
-------------------------------------------------------------------------------
Step ==
    \/ CaptureScreenshot
    \/ \E answer \in Answers : AnalyzeAndPropose(answer)
    \/ HandleNoConfidentProposal
    \/ \E data \in Extractions(proposed_selectors) : ValidateSelectorsLive(data)
    \/ \E f \in Fields : SaveApprovedSelector(f)
    \/ PersistSelector
    \/ EscalateHuman
    \/ RecursionExhausted

Next == Step \/ CallFails

\* ainvoke runs until the graph ends; the calls it awaits have timeouts.
Spec == Init /\ [][Next]_vars /\ WF_vars(Step)
-------------------------------------------------------------------------------
Nodes == {"capture_screenshot", "analyze_and_propose", "validate_selectors_live",
          "handle_no_confident_proposal", "persist_selector", "escalate_human"}

\* Every variable stays in its type.
TypeOK ==
    /\ node \in Nodes \cup Ends
    /\ screenshot_base64 \in BOOLEAN
    /\ attempt_number \in Nat \ {0}
    /\ max_attempts \in AttemptLimits
    /\ proposed_selectors \in Answers
    /\ recovered_data \in Maps(Selectors \cup {Empty})
    /\ rejection_history \in Seq([attempt : Nat, selectors : Answers])
    /\ validation_result \in {"pending", "valid", "invalid"}
    /\ final_status \in {"none", "success", "needs_human_review"}
    /\ saved \subseteq Fields \X Selectors
    /\ proposals \in Seq(Answers)
    /\ supersteps \in 0..RecursionLimit

\* The calls of the model one run may pay for: a limit below one still pays
\* for the first.
Budget == IF max_attempts < 1 THEN 1 ELSE max_attempts

\* The model is never asked more often than the budget allows, and a job is
\* escalated only once the budget is spent (decide_next_step.py:21).
AttemptsAreBounded ==
    /\ Len(proposals) <= Budget
    /\ final_status = "needs_human_review" => Len(proposals) = Budget

\* When the model is asked, the history it is shown is every answer it gave
\* before, in order, under the number of its attempt (recovery_state.py:7-8).
HistoryIsExact ==
    node = "analyze_and_propose" =>
        /\ Len(rejection_history) = Len(proposals)
        /\ \A n \in 1..Len(proposals) :
               rejection_history[n] = [attempt |-> n, selectors |-> proposals[n]]

\* LangGraph gives up only on a limit below the two supersteps of each
\* attempt, the first and the last.
StepsSuffice == RecursionLimit >= 4 /\ RecursionLimit >= 2 * max_attempts + 2
OutOfStepsOnlyWhenTooFew == node = "out_of_steps" => ~ StepsSuffice

\* With enough supersteps every run ends in a node of the graph or in the
\* exception of a call.
Terminates == <>(node \in IF StepsSuffice THEN {"END", "raised"} ELSE Ends)

\* What a run may still do at most: two nodes for each attempt left, then a
\* save for each field and the node that ends it.
Left ==
    LET loop == 2 * (Budget - attempt_number) + Cardinality(Fields)
    IN IF node = "capture_screenshot"       THEN loop + 5
       ELSE IF node = "analyze_and_propose" THEN loop + 4
       ELSE IF node \in {"validate_selectors_live", "handle_no_confident_proposal"}
                                            THEN loop + 3
       ELSE IF node = "persist_selector"
            THEN Cardinality(Pairs(proposed_selectors) \ saved) + 1
       ELSE IF node = "escalate_human"      THEN 1
       ELSE 0

\* Every step, also one that fails, leaves less to do: the loop of the graph
\* ends by its own count of attempts, not by LangGraph's limit.
StepsRunOut == [][Left' < Left /\ {Left, Left'} \subseteq Nat]_vars

\* A run keeps the promise of RecoveryOutcome.
Outcome == INSTANCE RecoveryOutcome WITH
    outcome <- IF node = "END" THEN final_status
               ELSE IF node \in Ends THEN "raised" ELSE "running",
    approved <- recovered_data

RefinesOutcome == Outcome!Spec
===============================================================================
