-------------------------- MODULE RecoveryGraphProofs -------------------------
(***************************************************************************)
(* Safety of RecoveryGraph for any fields, selectors, attempt limits and   *)
(* recursion limit: how often the model is asked, what it is shown, when   *)
(* LangGraph gives up, and that a run keeps RecoveryOutcome's promise.     *)
(***************************************************************************)
EXTENDS RecoveryGraph, FiniteSetTheorems, TLAPS

Calls == Len(proposals)
Rejecting == {"handle_no_confident_proposal", "validate_selectors_live"}

\* Where the run is says how many calls it has made, which attempt it is in
\* and how many supersteps it has used.
CountInv ==
    /\ node = "capture_screenshot" =>
           Calls = 0 /\ attempt_number = 1 /\ supersteps = 0
    /\ node = "analyze_and_propose" =>
           Calls < Budget /\ attempt_number = Calls + 1 /\ supersteps = 2 * Calls + 1
    /\ node \in Rejecting =>
           Calls \in 1..Budget /\ attempt_number = Calls /\ supersteps = 2 * Calls
    /\ node = "persist_selector" =>
           Calls \in 1..Budget /\ supersteps = 2 * Calls + 1
    /\ node = "escalate_human" =>
           Calls = Budget /\ supersteps = 2 * Calls + 1
    /\ node \in Ends => Calls <= Budget
    /\ final_status = "needs_human_review" => Calls = Budget
    /\ node = "out_of_steps" => ~ StepsSuffice

\* The history is the answers so far; the last one is missing while it is
\* being rejected.
HistoryInv ==
    /\ node \in {"capture_screenshot", "analyze_and_propose"} =>
           Len(rejection_history) = Calls
    /\ node \in Rejecting => Len(rejection_history) = Calls - 1
    /\ \A n \in 1..Len(rejection_history) :
           rejection_history[n] = [attempt |-> n, selectors |-> proposals[n]]
    /\ node = "handle_no_confident_proposal" => proposals[Calls] = None
    /\ node = "validate_selectors_live" =>
           proposals[Calls] = proposed_selectors /\ proposed_selectors # None

\* Nothing is stored before the validation, and what is validated is exactly
\* the proposal: every field of it, each with the text its selector found.
StorageInv ==
    /\ node \in Nodes \ {"persist_selector"} => saved = {} /\ recovered_data = None
    /\ node = "persist_selector" =>
           /\ recovered_data = proposed_selectors
           /\ recovered_data \in [Fields -> Selectors]
           /\ recovered_data # None
           /\ saved \subseteq Pairs(proposed_selectors)
    /\ node = "END" <=> final_status # "none"

IndInv == TypeOK /\ CountInv /\ HistoryInv /\ StorageInv
-------------------------------------------------------------------------------
\* The attempts a run may make.
LEMMA BudgetType ==
    ASSUME TypeOK
    PROVE  /\ max_attempts \in Int /\ Budget \in Nat \ {0}
           /\ max_attempts <= Budget
           /\ Budget = max_attempts \/ Budget = 1
BY GraphAssumption DEF TypeOK, Budget

\* The attempts it has made.
LEMMA CallsType ==
    ASSUME TypeOK
    PROVE  /\ Calls \in Nat /\ Len(rejection_history) \in Nat
           /\ attempt_number \in Nat /\ supersteps \in Nat
           /\ RecursionLimit \in Nat \ {0}
BY GraphAssumption DEF TypeOK, Calls

\* A map gives values to some of the fields.
LEMMA MapType ==
    ASSUME NEW V
    PROVE  /\ None \in Maps(V)
           /\ \A m \in Maps(V) : DOMAIN m \subseteq Fields /\ m \in [DOMAIN m -> V]
           /\ \A S \in SUBSET Fields : [S -> V] \subseteq Maps(V)
<1>1. \A S \in SUBSET Fields : [S -> V] \subseteq Maps(V)
  BY DEF Maps
<1>2. None \in [{} -> V]
  BY DEF None
<1>3. None \in Maps(V)
  BY <1>1, <1>2
<1> QED
  BY <1>1, <1>3 DEF Maps

\* When the live extraction passes the validation it gave every required
\* field, and no other, the value of the proposal.
LEMMA ValidatedIsProposed ==
    ASSUME NEW m \in Answers, NEW data \in Extractions(m), IsSuccess(data)
    PROVE  data = m /\ data \in [Fields -> Selectors]
<1>1. DOMAIN m \subseteq Fields /\ m \in [DOMAIN m -> Selectors]
  BY MapType DEF Answers
<1>2. data \in Maps(Selectors \cup {Empty})
  BY DEF Extractions
<1>3. DOMAIN data \subseteq Fields /\ data \in [DOMAIN data -> Selectors \cup {Empty}]
  BY <1>2, MapType
<1>4. DOMAIN data = Fields /\ DOMAIN m = Fields
  BY <1>1, <1>3 DEF IsSuccess, Extractions
<1>5. \A f \in Fields : data[f] = m[f]
  BY <1>4 DEF IsSuccess, Extractions
<1> QED
  BY <1>1, <1>3, <1>4, <1>5

\* What is asked next: a proposal that is not valid leads to another attempt
\* or, with the budget spent, to a human.
LEMMA AfterRejection ==
    ASSUME TypeOK, CountInv, node \in Rejecting, NEW next,
           next = DecideNextStep("invalid", attempt_number + 1)
    PROVE  \/ next = "analyze_and_propose" /\ Calls < Budget
           \/ next = "escalate_human" /\ Calls = Budget
BY BudgetType, CallsType DEF CountInv, DecideNextStep

\* One more entry in the history, under the number of its attempt.
LEMMA Rejected ==
    ASSUME TypeOK, CountInv, HistoryInv, node \in Rejecting,
           NEW m \in Answers, m = proposals[Calls],
           NEW h, h = Append(rejection_history, Rejection(m))
    PROVE  /\ h \in Seq([attempt : Nat, selectors : Answers])
           /\ Len(h) = Calls
           /\ \A n \in 1..Len(h) : h[n] = [attempt |-> n, selectors |-> proposals[n]]
<1>1. rejection_history \in Seq([attempt : Nat, selectors : Answers])
  BY DEF TypeOK
<1>2. Len(rejection_history) = Calls - 1 /\ attempt_number = Calls /\ Calls \in Nat \ {0}
  BY CallsType, BudgetType DEF HistoryInv, CountInv
<1>3. Rejection(m) = [attempt |-> Calls, selectors |-> proposals[Calls]]
  BY <1>2 DEF Rejection
<1>4. Rejection(m) \in [attempt : Nat, selectors : Answers]
  BY <1>2 DEF Rejection
<1>5. \A n \in 1..(Calls - 1) :
         rejection_history[n] = [attempt |-> n, selectors |-> proposals[n]]
  BY <1>2 DEF HistoryInv
<1> QED
  BY <1>1, <1>2, <1>3, <1>4, <1>5
-------------------------------------------------------------------------------
\* The invariant holds when the graph is invoked.
LEMMA InitInv == Init => IndInv
<1> SUFFICES ASSUME Init PROVE IndInv
  OBVIOUS
<1>0. None \in Answers /\ None \in Maps(Selectors \cup {Empty})
  BY MapType DEF Answers
<1>a. <<>> \in Seq([attempt : Nat, selectors : Answers]) /\ <<>> \in Seq(Answers)
  OBVIOUS
<1>b. 0 \in 0..RecursionLimit
  BY GraphAssumption
<1>1. TypeOK
  <2>1. /\ proposed_selectors \in Answers
        /\ recovered_data \in Maps(Selectors \cup {Empty})
    BY <1>0 DEF Init
  <2>2. /\ rejection_history \in Seq([attempt : Nat, selectors : Answers])
        /\ proposals \in Seq(Answers)
        /\ supersteps \in 0..RecursionLimit
    BY <1>a, <1>b DEF Init
  <2>3. screenshot_base64 \in BOOLEAN
    BY DEF Init
  <2>4. attempt_number \in Nat \ {0} /\ saved \subseteq Fields \X Selectors
    BY DEF Init, FirstAttempt
  <2>5. node \in Nodes \cup Ends /\ max_attempts \in AttemptLimits
    BY DEF Init, Nodes
  <2>6. /\ validation_result \in {"pending", "valid", "invalid"}
        /\ final_status \in {"none", "success", "needs_human_review"}
    BY DEF Init
  <2> QED
    BY <2>1, <2>2, <2>3, <2>4, <2>5, <2>6 DEF TypeOK
<1>2. CountInv /\ HistoryInv /\ StorageInv
  BY BudgetType, <1>1
     DEF Init, FirstAttempt, Calls, Rejecting, Ends, CountInv, HistoryInv, StorageInv
<1> QED
  BY <1>1, <1>2 DEF IndInv

\* The screenshot changes nothing the invariant counts.
LEMMA CaptureStep == IndInv /\ CaptureScreenshot => IndInv'
<1> SUFFICES ASSUME IndInv, CaptureScreenshot PROVE IndInv'
  OBVIOUS
<1> USE DEF IndInv, CaptureScreenshot, Runs, loopVars
<1>0. TypeOK /\ Budget \in Nat \ {0} /\ UNCHANGED <<Calls, Budget, StepsSuffice>>
  BY BudgetType DEF Calls, Budget, StepsSuffice
<1>1. TypeOK'
  BY <1>0, CallsType DEF TypeOK, Nodes
<1>2. CountInv'
  BY <1>0, CallsType DEF CountInv, Rejecting, Ends
<1>3. HistoryInv'
  BY <1>0 DEF HistoryInv, Rejecting
<1>4. StorageInv'
  BY DEF StorageInv, Nodes
<1> QED
  BY <1>1, <1>2, <1>3, <1>4

\* A call of the model is an attempt, its answer not yet in the history.
LEMMA AnalyzeStep ==
    ASSUME IndInv, NEW answer \in Answers, AnalyzeAndPropose(answer)
    PROVE  IndInv'
<1> USE DEF IndInv, AnalyzeAndPropose, Runs, loopVars
<1>0. /\ TypeOK /\ Budget \in Nat \ {0} /\ UNCHANGED <<Budget, StepsSuffice>>
      /\ node' \in Rejecting
  BY BudgetType DEF Budget, StepsSuffice, Rejecting
<1>a. /\ proposals' \in Seq(Answers) /\ Calls' = Calls + 1
      /\ \A n \in 1..Calls : proposals'[n] = proposals[n]
      /\ proposals'[Calls + 1] = answer
  BY DEF TypeOK, Calls
<1>1. TypeOK'
  BY <1>0, <1>a, CallsType DEF TypeOK, Nodes, Rejecting
<1>2. CountInv'
  BY <1>0, <1>a, CallsType DEF CountInv, Rejecting, Ends
<1>3. HistoryInv'
  <2>1. Len(rejection_history') = Calls' - 1 /\ Calls' - 1 = Calls /\ Calls \in Nat
    BY <1>a, CallsType DEF HistoryInv
  <2>2. \A n \in 1..Calls :
           rejection_history'[n] = [attempt |-> n, selectors |-> proposals'[n]]
    BY <1>a, <2>1 DEF HistoryInv
  <2> QED
    BY <1>0, <1>a, <2>1, <2>2 DEF HistoryInv, Rejecting
<1>4. StorageInv'
  BY <1>0 DEF StorageInv, Nodes, Rejecting
<1> QED
  BY <1>1, <1>2, <1>3, <1>4

\* A rejected answer enters the history, then the next attempt is decided.
LEMMA HandleStep == IndInv /\ HandleNoConfidentProposal => IndInv'
<1> SUFFICES ASSUME IndInv, HandleNoConfidentProposal PROVE IndInv'
  OBVIOUS
<1> USE DEF IndInv, HandleNoConfidentProposal, Runs
<1>0. /\ TypeOK /\ Budget \in Nat \ {0} /\ UNCHANGED <<Calls, Budget, StepsSuffice>>
      /\ node \in Rejecting
  BY BudgetType DEF Calls, Budget, StepsSuffice, Rejecting
<1>a. \/ node' = "analyze_and_propose" /\ Calls < Budget
      \/ node' = "escalate_human" /\ Calls = Budget
  BY <1>0, AfterRejection
<1>b. /\ rejection_history' \in Seq([attempt : Nat, selectors : Answers])
      /\ Len(rejection_history') = Calls
      /\ \A n \in 1..Len(rejection_history') :
             rejection_history'[n] = [attempt |-> n, selectors |-> proposals[n]]
  BY <1>0, Rejected, MapType DEF HistoryInv, Answers
<1>1. TypeOK'
  BY <1>0, <1>a, <1>b, CallsType DEF TypeOK, Nodes
<1>2. CountInv'
  BY <1>0, <1>a, CallsType DEF CountInv, Rejecting, Ends
<1>3. HistoryInv'
  BY <1>0, <1>a, <1>b DEF HistoryInv, Rejecting
<1>4. StorageInv'
  BY <1>0, <1>a DEF StorageInv, Nodes, Rejecting
<1> QED
  BY <1>1, <1>2, <1>3, <1>4

\* A validation approves the whole proposal, or rejects it in the same way.
LEMMA ValidateStep ==
    ASSUME IndInv, NEW data \in Extractions(proposed_selectors), ValidateSelectorsLive(data)
    PROVE  IndInv'
<1> USE DEF IndInv, Runs
<1>0. /\ TypeOK /\ Budget \in Nat \ {0} /\ UNCHANGED <<Calls, Budget, StepsSuffice>>
      /\ node = "validate_selectors_live" /\ node \in Rejecting
      /\ proposed_selectors \in Answers
      /\ supersteps < RecursionLimit /\ supersteps' = supersteps + 1
      /\ UNCHANGED <<screenshot_base64, max_attempts, final_status, saved, proposals>>
  BY BudgetType DEF ValidateSelectorsLive, Calls, Budget, StepsSuffice, Rejecting, TypeOK
<1>1. CASE IsSuccess(data)
  <2>1. /\ validation_result' = "valid" /\ recovered_data' = data
        /\ node' = "persist_selector"
        /\ UNCHANGED <<attempt_number, rejection_history, proposed_selectors>>
    BY <1>1 DEF ValidateSelectorsLive, DecideNextStep
  <2>2. data = proposed_selectors /\ data \in [Fields -> Selectors]
    BY <1>0, <1>1, ValidatedIsProposed
  <2>3. data \in Maps(Selectors \cup {Empty})
    BY DEF Extractions
  <2>4. TypeOK'
    BY <1>0, <2>1, <2>3, CallsType DEF TypeOK, Nodes
  <2>5. CountInv'
    BY <1>0, <2>1, CallsType DEF CountInv, Rejecting, Ends
  <2>6. HistoryInv'
    BY <1>0, <2>1 DEF HistoryInv, Rejecting
  <2>7. StorageInv'
    BY <1>0, <2>1, <2>2 DEF StorageInv, Nodes, HistoryInv
  <2> QED
    BY <2>4, <2>5, <2>6, <2>7
<1>2. CASE ~ IsSuccess(data)
  <2>1. /\ validation_result' = "invalid"
        /\ rejection_history' = Append(rejection_history, Rejection(proposed_selectors))
        /\ proposed_selectors' = None
        /\ attempt_number' = attempt_number + 1
        /\ node' = DecideNextStep("invalid", attempt_number + 1)
        /\ UNCHANGED recovered_data
    BY <1>2 DEF ValidateSelectorsLive
  <2>2. \/ node' = "analyze_and_propose" /\ Calls < Budget
        \/ node' = "escalate_human" /\ Calls = Budget
    BY <1>0, <2>1, AfterRejection
  <2>3. /\ rejection_history' \in Seq([attempt : Nat, selectors : Answers])
        /\ Len(rejection_history') = Calls
        /\ \A n \in 1..Len(rejection_history') :
               rejection_history'[n] = [attempt |-> n, selectors |-> proposals[n]]
    BY <1>0, <2>1, Rejected DEF HistoryInv
  <2>4. TypeOK'
    BY <1>0, <2>1, <2>2, <2>3, MapType, CallsType DEF TypeOK, Nodes, Answers
  <2>5. CountInv'
    BY <1>0, <2>1, <2>2, CallsType DEF CountInv, Rejecting, Ends
  <2>6. HistoryInv'
    BY <1>0, <2>2, <2>3 DEF HistoryInv, Rejecting
  <2>7. StorageInv'
    BY <1>0, <2>1, <2>2 DEF StorageInv, Nodes
  <2> QED
    BY <2>4, <2>5, <2>6, <2>7
<1> QED
  BY <1>1, <1>2

\* Only approved selectors are saved.
LEMMA SaveStep ==
    ASSUME IndInv, NEW f \in Fields, SaveApprovedSelector(f)
    PROVE  IndInv'
<1> USE DEF IndInv, SaveApprovedSelector, stateVars, loopVars
<1>0. UNCHANGED <<Calls, Budget, StepsSuffice>>
  BY DEF Calls, Budget, StepsSuffice
<1>1. proposed_selectors[f] \in Selectors
  BY DEF StorageInv
<1>2. TypeOK'
  BY <1>1 DEF TypeOK
<1>3. CountInv' /\ HistoryInv'
  BY <1>0 DEF CountInv, HistoryInv
<1>4. StorageInv'
  BY DEF StorageInv, Nodes, Pairs
<1> QED
  BY <1>2, <1>3, <1>4

\* The two nodes that end a run.
LEMMA FinalStep == IndInv /\ (PersistSelector \/ EscalateHuman) => IndInv'
<1> SUFFICES ASSUME IndInv, PersistSelector \/ EscalateHuman PROVE IndInv'
  OBVIOUS
<1> USE DEF IndInv, PersistSelector, EscalateHuman, Runs, loopVars
<1>0. /\ TypeOK /\ Budget \in Nat \ {0} /\ UNCHANGED <<Calls, Budget, StepsSuffice>>
      /\ node' = "END" /\ final_status' \in {"success", "needs_human_review"}
      /\ final_status' = "needs_human_review" => Calls = Budget
  BY BudgetType DEF Calls, Budget, StepsSuffice, CountInv
<1>1. TypeOK'
  BY <1>0, CallsType DEF TypeOK, Ends
<1>2. CountInv'
  BY <1>0, CallsType DEF CountInv, Rejecting, Ends
<1>3. HistoryInv'
  BY <1>0 DEF HistoryInv, Rejecting
<1>4. StorageInv'
  BY <1>0 DEF StorageInv, Nodes
<1> QED
  BY <1>1, <1>2, <1>3, <1>4

\* The exceptions: LangGraph's own only when the steps cannot suffice, since
\* no node comes later than superstep 2 * Budget + 1.
LEMMA ExceptionStep == IndInv /\ (CallFails \/ RecursionExhausted) => IndInv'
<1> SUFFICES ASSUME IndInv, CallFails \/ RecursionExhausted PROVE IndInv'
  OBVIOUS
<1> USE DEF IndInv, CallFails, RecursionExhausted, stateVars, loopVars
<1>a. /\ TypeOK /\ Budget \in Nat \ {0} /\ Calls \in Nat
      /\ UNCHANGED <<Calls, Budget, StepsSuffice>>
      /\ node' \in {"raised", "out_of_steps"}
  BY BudgetType, CallsType DEF Calls, Budget, StepsSuffice
<1>b. node \in Nodes
  BY DEF TypeOK, Nodes, Ends
<1>c. Calls <= Budget
  BY <1>a, <1>b DEF CountInv, Nodes, Rejecting
<1>0. /\ TypeOK /\ Budget \in Nat \ {0} /\ UNCHANGED <<Calls, Budget, StepsSuffice>>
      /\ node \in Nodes /\ node' \in {"raised", "out_of_steps"}
      /\ Calls <= Budget
  BY <1>a, <1>b, <1>c
<1>1. TypeOK'
  BY <1>0 DEF TypeOK, Ends
<1>2. CountInv'
  <2>1. CASE CallFails
    BY <1>0, <2>1 DEF CountInv, Rejecting, Ends
  <2>2. CASE RecursionExhausted
    <3>1. supersteps <= 2 * Budget + 1 /\ supersteps = RecursionLimit
      BY <1>0, <2>2, CallsType DEF CountInv, Nodes, Rejecting
    <3>2. ~ StepsSuffice
      BY <1>0, <3>1, BudgetType, CallsType DEF StepsSuffice
    <3> QED
      BY <1>0, <2>2, <3>2 DEF CountInv, Rejecting, Ends
  <2> QED
    BY <2>1, <2>2
<1>3. HistoryInv'
  BY <1>0 DEF HistoryInv, Rejecting
<1>4. StorageInv'
  BY <1>0 DEF StorageInv, Nodes, Ends
<1> QED
  BY <1>1, <1>2, <1>3, <1>4

\* The invariant is inductive.
LEMMA NextInv == IndInv /\ [Next]_vars => IndInv'
<1> SUFFICES ASSUME IndInv, [Next]_vars PROVE IndInv'
  OBVIOUS
<1>1. CASE UNCHANGED vars
  BY <1>1 DEF vars, stateVars, loopVars, IndInv, TypeOK, CountInv, HistoryInv, StorageInv,
     Calls, Budget, StepsSuffice
<1> QED
  BY <1>1, CaptureStep, AnalyzeStep, HandleStep, ValidateStep, SaveStep, FinalStep,
     ExceptionStep DEF Next, Step
-------------------------------------------------------------------------------
\* The inductive invariant of a run holds in every state it reaches.
THEOREM Invariance == Spec => []IndInv
BY InitInv, NextInv, PTL DEF Spec

\* Every variable keeps its type.
THEOREM TypeCorrect == Spec => []TypeOK
<1>1. IndInv => TypeOK
  BY DEF IndInv
<1> QED
  BY <1>1, Invariance, PTL

\* For any attempt limit, also one below one, the model is asked at most
\* Budget times, and exactly so often before a human is.
THEOREM CallsAreBounded == Spec => []AttemptsAreBounded
<1>1. IndInv => AttemptsAreBounded
  <2> SUFFICES ASSUME IndInv PROVE AttemptsAreBounded
    OBVIOUS
  <2>1. Calls \in Nat /\ Budget \in Nat \ {0} /\ node \in Nodes \cup Ends
    BY CallsType, BudgetType DEF IndInv, TypeOK
  <2>2. Calls <= Budget
    BY <2>1 DEF IndInv, CountInv, Nodes, Rejecting
  <2> QED
    BY <2>2 DEF IndInv, CountInv, AttemptsAreBounded, Calls
<1> QED
  BY <1>1, Invariance, PTL

\* Each time the model is asked it is shown every answer it has given.
THEOREM HistoryShown == Spec => []HistoryIsExact
<1>1. IndInv => HistoryIsExact
  BY DEF IndInv, HistoryInv, HistoryIsExact, Calls
<1> QED
  BY <1>1, Invariance, PTL

\* LangGraph's own limit is met only if it is below two supersteps for each
\* attempt, one before and one after.
THEOREM StepsAreEnough == Spec => []OutOfStepsOnlyWhenTooFew
<1>1. IndInv => OutOfStepsOnlyWhenTooFew
  BY DEF IndInv, CountInv, OutOfStepsOnlyWhenTooFew
<1> QED
  BY <1>1, Invariance, PTL
-------------------------------------------------------------------------------
\* A job names finitely many fields.
LEMMA FieldsFinite == Cardinality(Fields) \in Nat
BY GraphAssumption, FS_CardinalityType

\* A selector for every field is that many pairs at most.
LEMMA PairsFinite ==
    ASSUME NEW m \in [Fields -> Selectors]
    PROVE  IsFiniteSet(Pairs(m)) /\ Cardinality(Pairs(m)) <= Cardinality(Fields)
<1> DEFINE pair == [f \in Fields |-> <<f, m[f]>>]
<1>1. pair \in Surjection(Fields, Pairs(m))
  BY DEF Surjection, Pairs
<1> QED BY <1>1, FS_Surjection, GraphAssumption

\* The saves that are left, before and after one of them.
LEMMA UnsavedFinite ==
    ASSUME NEW m \in [Fields -> Selectors], NEW S
    PROVE  /\ Cardinality(Pairs(m) \ S) \in 0..Cardinality(Fields)
           /\ \A p \in Pairs(m) \ S :
                 Cardinality(Pairs(m) \ (S \cup {p})) = Cardinality(Pairs(m) \ S) - 1
<1>1. /\ IsFiniteSet(Pairs(m)) /\ Cardinality(Pairs(m)) <= Cardinality(Fields)
      /\ Cardinality(Fields) \in Nat /\ Cardinality(Pairs(m)) \in Nat
  BY PairsFinite, FieldsFinite, FS_CardinalityType
<1>2. Pairs(m) \ S \in SUBSET Pairs(m)
  OBVIOUS
<1>3. IsFiniteSet(Pairs(m) \ S) /\ Cardinality(Pairs(m) \ S) <= Cardinality(Pairs(m))
  BY <1>1, <1>2, FS_Subset
<1>4. Cardinality(Pairs(m) \ S) \in Nat
  BY <1>3, FS_CardinalityType
<1>5. ASSUME NEW p \in Pairs(m) \ S
      PROVE  Cardinality(Pairs(m) \ (S \cup {p})) = Cardinality(Pairs(m) \ S) - 1
  <2>1. Pairs(m) \ (S \cup {p}) = (Pairs(m) \ S) \ {p}
    OBVIOUS
  <2> QED BY <1>3, <2>1, FS_RemoveElement
<1> QED BY <1>1, <1>3, <1>4, <1>5

\* The attempts a run has left inside the loop.
LEMMA AttemptsLeft ==
    ASSUME IndInv
    PROVE  /\ Budget \in Nat \ {0} /\ attempt_number \in Nat
           /\ node \in Rejecting \cup {"capture_screenshot", "analyze_and_propose"} =>
                 attempt_number <= Budget
<1>1. Budget \in Nat \ {0} /\ attempt_number \in Nat /\ Calls \in Nat
  BY BudgetType, CallsType DEF IndInv
<1> QED BY <1>1 DEF IndInv, CountInv, Rejecting

\* A run that is not over has something left.
LEMMA LeftType ==
    ASSUME IndInv
    PROVE  /\ Left \in Nat
           /\ node \in Nodes => Left > 0
<1>1. node \in Nodes \cup Ends
  BY DEF IndInv, TypeOK
<1>2. /\ Cardinality(Fields) \in Nat /\ Budget \in Nat \ {0} /\ attempt_number \in Nat
      /\ node \in Rejecting \cup {"capture_screenshot", "analyze_and_propose"} =>
            attempt_number <= Budget
  BY FieldsFinite, AttemptsLeft
<1>3. CASE node = "persist_selector"
  <2>1. proposed_selectors \in [Fields -> Selectors]
    BY <1>3 DEF IndInv, StorageInv
  <2>2. Cardinality(Pairs(proposed_selectors) \ saved) \in Nat
    BY <1>2, <2>1, UnsavedFinite
  <2> QED BY <1>3, <2>2 DEF Left
<1>4. CASE node # "persist_selector"
  BY <1>1, <1>2, <1>4 DEF Left, Nodes, Ends, Rejecting
<1> QED BY <1>3, <1>4

\* Each step leaves less to do than there was before it.
LEMMA StepSpends == IndInv /\ IndInv' /\ Next => Left' < Left
<1> SUFFICES ASSUME IndInv, IndInv', Next PROVE Left' < Left
  OBVIOUS
<1>1. /\ Cardinality(Fields) \in Nat /\ Budget \in Nat \ {0} /\ attempt_number \in Nat
      /\ node \in Rejecting \cup {"capture_screenshot", "analyze_and_propose"} =>
            attempt_number <= Budget
      /\ Left \in Nat /\ (node \in Nodes => Left > 0)
  BY FieldsFinite, AttemptsLeft, LeftType
<1>2. CASE CaptureScreenshot
  <2>1. /\ node = "capture_screenshot" /\ node' = "analyze_and_propose"
        /\ attempt_number' = attempt_number /\ Budget' = Budget
    BY <1>2 DEF CaptureScreenshot, Runs, loopVars, Budget
  <2> QED BY <1>1, <2>1 DEF Left, Rejecting
<1>3. CASE \E answer \in Answers : AnalyzeAndPropose(answer)
  <2>1. /\ node = "analyze_and_propose" /\ node' \in Rejecting
        /\ attempt_number' = attempt_number /\ Budget' = Budget
    BY <1>3 DEF AnalyzeAndPropose, Runs, loopVars, Budget, Rejecting
  <2> QED BY <1>1, <2>1 DEF Left, Rejecting
<1>4. ASSUME node \in Rejecting, attempt_number' = attempt_number + 1, Budget' = Budget,
             node' \in {"analyze_and_propose", "escalate_human"}
      PROVE  Left' < Left
  BY <1>1, <1>4 DEF Left, Rejecting
<1>5. CASE HandleNoConfidentProposal
  <2>1. /\ node \in Rejecting /\ attempt_number' = attempt_number + 1 /\ Budget' = Budget
        /\ node' \in {"analyze_and_propose", "escalate_human"}
    BY <1>5 DEF HandleNoConfidentProposal, Runs, Rejecting, Budget, DecideNextStep
  <2> QED BY <1>4, <2>1
<1>6. ASSUME NEW data \in Extractions(proposed_selectors), ValidateSelectorsLive(data)
      PROVE  Left' < Left
  <2>0. node \in Rejecting /\ Budget' = Budget
    BY <1>6 DEF ValidateSelectorsLive, Runs, Rejecting, Budget
  <2>1. CASE ~ IsSuccess(data)
    <3>1. /\ attempt_number' = attempt_number + 1
          /\ node' \in {"analyze_and_propose", "escalate_human"}
      BY <1>6, <2>1 DEF ValidateSelectorsLive, DecideNextStep
    <3> QED BY <1>4, <2>0, <3>1
  <2>2. CASE IsSuccess(data)
    <3>1. node' = "persist_selector"
      BY <1>6, <2>2 DEF ValidateSelectorsLive, DecideNextStep
    <3>2. proposed_selectors' \in [Fields -> Selectors]
      BY <3>1 DEF IndInv, StorageInv
    <3>3. Cardinality(Pairs(proposed_selectors') \ saved') \in 0..Cardinality(Fields)
      BY <3>2, UnsavedFinite
    <3>4. Left' = Cardinality(Pairs(proposed_selectors') \ saved') + 1
      BY <3>1 DEF Left
    <3>5. Left >= Cardinality(Fields) + 3
      BY <1>1, <2>0 DEF Left, Rejecting
    <3> QED BY <1>1, <3>3, <3>4, <3>5
  <2> QED BY <2>1, <2>2
<1>7. ASSUME NEW f \in Fields, SaveApprovedSelector(f)
      PROVE  Left' < Left
  <2> DEFINE p == <<f, proposed_selectors[f]>>
  <2>1. /\ node = "persist_selector" /\ node' = "persist_selector"
        /\ proposed_selectors' = proposed_selectors
        /\ saved' = saved \cup {p} /\ p \notin saved /\ f \in DOMAIN proposed_selectors
    BY <1>7 DEF SaveApprovedSelector, stateVars
  <2>2. proposed_selectors \in [Fields -> Selectors] /\ p \in Pairs(proposed_selectors) \ saved
    BY <2>1 DEF IndInv, StorageInv, Pairs
  <2> HIDE DEF p
  <2>3. /\ Cardinality(Pairs(proposed_selectors) \ saved) \in Nat
        /\ Cardinality(Pairs(proposed_selectors) \ saved') =
              Cardinality(Pairs(proposed_selectors) \ saved) - 1
    BY <1>1, <2>1, <2>2, UnsavedFinite
  <2>4. /\ Left = Cardinality(Pairs(proposed_selectors) \ saved) + 1
        /\ Left' = Cardinality(Pairs(proposed_selectors) \ saved') + 1
    BY <2>1 DEF Left
  <2> QED BY <2>3, <2>4
<1>8. CASE PersistSelector \/ EscalateHuman \/ RecursionExhausted \/ CallFails
  <2>1. node \in Nodes /\ node' \in Ends
    BY <1>8 DEF PersistSelector, EscalateHuman, RecursionExhausted, CallFails, Runs, Nodes,
       Ends, IndInv, TypeOK
  <2>2. Left' = 0
    BY <2>1 DEF Left, Ends
  <2> QED BY <1>1, <2>1, <2>2
<1> QED BY <1>2, <1>3, <1>5, <1>6, <1>7, <1>8 DEF Next, Step

\* A run of the graph is over after a number of steps that its attempt limit
\* and the number of its fields fix in advance, whatever the model answers.
THEOREM RunsOut == Spec => StepsRunOut
<1>1. IndInv => Left \in Nat
  BY LeftType
<1>2. ASSUME IndInv, IndInv', Left \in Nat, (Left \in Nat)', [Next]_vars
      PROVE  [Left' < Left /\ {Left, Left'} \subseteq Nat]_vars
  <2>1. ASSUME Next PROVE Left' < Left /\ {Left, Left'} \subseteq Nat
    BY <1>2, <2>1, StepSpends
  <2> QED BY <1>2, <2>1
<1> QED BY <1>1, <1>2, Invariance, PTL DEF Spec, StepsRunOut
-------------------------------------------------------------------------------
\* A run starts as RecoveryOutcome does.
LEMMA OutcomeInit == Init => Outcome!Init
BY DEF Init, Outcome!Init, Outcome!NoMap, None, Ends

\* A step of the graph is an approval, a save, the end, or invisible.
LEMMA OutcomeStep == IndInv /\ IndInv' /\ [Next]_vars => [Outcome!Next]_(Outcome!vars)
<1> DEFINE outcome == IF node = "END" THEN final_status
                      ELSE IF node \in Ends THEN "raised" ELSE "running"
<1> SUFFICES ASSUME IndInv, IndInv', [Next]_vars
             PROVE  Outcome!Next \/ UNCHANGED <<outcome, recovered_data, saved>>
  BY DEF Outcome!vars
<1>a. Outcome!NoMap = None
  BY DEF Outcome!NoMap, None
<1>1. CASE CaptureScreenshot \/ HandleNoConfidentProposal
           \/ \E answer \in Answers : AnalyzeAndPropose(answer)
  <2>1. UNCHANGED <<recovered_data, saved>> /\ node \notin Ends /\ node' \notin Ends
    BY <1>1 DEF CaptureScreenshot, HandleNoConfidentProposal, AnalyzeAndPropose, Runs, Ends,
       DecideNextStep
  <2> QED
    BY <2>1 DEF Ends
<1>2. ASSUME NEW data \in Extractions(proposed_selectors), ValidateSelectorsLive(data)
      PROVE  Outcome!Next \/ UNCHANGED <<outcome, recovered_data, saved>>
  <2>1. UNCHANGED saved /\ node = "validate_selectors_live" /\ node' \notin Ends
    BY <1>2 DEF ValidateSelectorsLive, Runs, Ends, DecideNextStep
  <2>2. CASE IsSuccess(data)
    <3>1. recovered_data' = data /\ data \in [Fields -> Selectors]
      BY <1>2, <2>2, ValidatedIsProposed DEF ValidateSelectorsLive, IndInv, TypeOK
    <3>2. recovered_data = None
      BY <2>1 DEF IndInv, StorageInv, Nodes
    <3>3. Outcome!Approve
      BY <1>a, <2>1, <3>1, <3>2 DEF Outcome!Approve, Ends
    <3> QED
      BY <3>3 DEF Outcome!Next
  <2>3. CASE ~ IsSuccess(data)
    BY <1>2, <2>1, <2>3 DEF ValidateSelectorsLive, Ends
  <2> QED
    BY <2>2, <2>3
<1>3. ASSUME NEW f \in Fields, SaveApprovedSelector(f)
      PROVE  Outcome!Next \/ UNCHANGED <<outcome, recovered_data, saved>>
  <2>1. recovered_data = proposed_selectors
    BY <1>3 DEF SaveApprovedSelector, IndInv, StorageInv
  <2>2. <<f, recovered_data[f]>> \in Outcome!Pairs(recovered_data) \ saved
    BY <1>3, <2>1 DEF SaveApprovedSelector, Outcome!Pairs
  <2>3. Outcome!Save
    BY <1>3, <2>1, <2>2 DEF SaveApprovedSelector, stateVars, Outcome!Save, Ends
  <2> QED
    BY <2>3 DEF Outcome!Next
<1>4. CASE PersistSelector
  <2>1. /\ recovered_data = proposed_selectors /\ recovered_data # None
        /\ saved = Pairs(proposed_selectors)
    BY <1>4 DEF PersistSelector, Runs, IndInv, StorageInv
  <2>2. Outcome!Finish
    BY <1>a, <1>4, <2>1 DEF PersistSelector, Runs, Outcome!Finish, Outcome!Pairs, Pairs, Ends
  <2> QED
    BY <2>2 DEF Outcome!Next
<1>5. CASE EscalateHuman
  <2>1. recovered_data = None
    BY <1>5 DEF EscalateHuman, Runs, IndInv, StorageInv, Nodes
  <2>2. Outcome!Finish
    BY <1>a, <1>5, <2>1 DEF EscalateHuman, Runs, Outcome!Finish, Ends
  <2> QED
    BY <2>2 DEF Outcome!Next
<1>6. CASE CallFails \/ RecursionExhausted
  <2>1. Outcome!Finish
    BY <1>6 DEF CallFails, RecursionExhausted, stateVars, Outcome!Finish, Ends
  <2> QED
    BY <2>1 DEF Outcome!Next
<1>7. CASE UNCHANGED vars
  BY <1>7 DEF vars, stateVars
<1> QED
  BY <1>1, <1>2, <1>3, <1>4, <1>5, <1>6, <1>7 DEF Next, Step

\* A run keeps the promise of RecoveryOutcome: success means that exactly the
\* validated selectors are stored, review that none is.
THEOREM Implements == Spec => RefinesOutcome
<1>1. IndInv /\ IndInv' /\ [Next]_vars => [Outcome!Next]_(Outcome!vars)
  BY OutcomeStep
<1> QED
  BY <1>1, OutcomeInit, Invariance, PTL DEF Spec, RefinesOutcome, Outcome!Spec
-------------------------------------------------------------------------------
\* What RecoveryOutcome comes to when a run is over: a success has stored a
\* selector for every field and no other, a review has stored nothing.
StoredAtEnd ==
    /\ final_status = "success" =>
           /\ recovered_data \in [Fields -> Selectors]
           /\ saved = Pairs(recovered_data)
    /\ final_status = "needs_human_review" => saved = {}

\* The same, as an invariant of the abstract specification.
Promise ==
    LET outcome == IF node = "END" THEN final_status
                   ELSE IF node \in Ends THEN "raised" ELSE "running"
    IN /\ recovered_data # None => recovered_data \in [Fields -> Selectors]
       /\ saved \subseteq Pairs(recovered_data)
       /\ outcome = "success" =>
              recovered_data # None /\ saved = Pairs(recovered_data)
       /\ outcome = "needs_human_review" => recovered_data = None

\* The abstract run keeps the promise.
LEMMA PromiseKept == Outcome!Spec => []Promise
<1> DEFINE outcome == IF node = "END" THEN final_status
                      ELSE IF node \in Ends THEN "raised" ELSE "running"
<1>a. Outcome!NoMap = None /\ \A m : Outcome!Pairs(m) = Pairs(m)
  BY DEF Outcome!NoMap, None, Outcome!Pairs, Pairs
<1>b. Promise <=> /\ recovered_data # None => recovered_data \in [Fields -> Selectors]
                  /\ saved \subseteq Pairs(recovered_data)
                  /\ outcome = "success" =>
                        recovered_data # None /\ saved = Pairs(recovered_data)
                  /\ outcome = "needs_human_review" => recovered_data = None
  BY DEF Promise
<1>1. Outcome!Init => Promise
  BY <1>a, <1>b DEF Outcome!Init
<1>2. ASSUME Promise, [Outcome!Next]_(Outcome!vars) PROVE Promise'
  <2>1. CASE Outcome!Approve
    <3>1. /\ outcome = "running" /\ outcome' = "running" /\ recovered_data = None
          /\ saved' = saved /\ recovered_data' \in [Fields -> Selectors]
      BY <1>a, <2>1 DEF Outcome!Approve
    <3>2. saved = {}
      BY <1>2, <1>b, <3>1 DEF Pairs, None
    <3> QED BY <3>1, <3>2 DEF Promise
  <2>2. CASE Outcome!Save
    <3>1. /\ outcome = "running" /\ outcome' = "running"
          /\ recovered_data' = recovered_data /\ saved' \subseteq Pairs(recovered_data)
      BY <1>2, <1>a, <1>b, <2>2 DEF Outcome!Save
    <3>2. recovered_data # None => recovered_data \in [Fields -> Selectors]
      BY <1>2, <1>b
    <3> QED BY <3>1, <3>2 DEF Promise
  <2>3. CASE Outcome!Finish
    <3>1. recovered_data' = recovered_data /\ saved' = saved
      BY <2>3 DEF Outcome!Finish
    <3>2. \/ outcome' = "success" /\ recovered_data # None /\ saved = Pairs(recovered_data)
          \/ outcome' = "needs_human_review" /\ recovered_data = None
          \/ outcome' = "raised"
      BY <1>a, <2>3 DEF Outcome!Finish
    <3>3. /\ recovered_data # None => recovered_data \in [Fields -> Selectors]
          /\ saved \subseteq Pairs(recovered_data)
      BY <1>2, <1>b
    <3> QED BY <3>1, <3>2, <3>3 DEF Promise
  <2>4. CASE UNCHANGED Outcome!vars
    <3>1. outcome' = outcome /\ recovered_data' = recovered_data /\ saved' = saved
      BY <2>4 DEF Outcome!vars
    <3> QED BY <1>2, <3>1 DEF Promise
  <2> QED BY <1>2, <2>1, <2>2, <2>3, <2>4 DEF Outcome!Next
<1> QED BY <1>1, <1>2, PTL DEF Outcome!Spec

\* Whatever the model answered on the way, a run that ends in success has
\* stored a selector for each required field, and one that asks for a human
\* has stored none.
THEOREM AllOrNothing == Spec => []StoredAtEnd
<1>1. IndInv /\ Promise => StoredAtEnd
  <2> SUFFICES ASSUME IndInv, Promise PROVE StoredAtEnd
    OBVIOUS
  <2>1. final_status # "none" => node = "END"
    BY DEF IndInv, StorageInv
  <2> QED BY <2>1 DEF Promise, StoredAtEnd, Pairs, None
<1> QED BY <1>1, Implements, Invariance, PromiseKept, PTL DEF RefinesOutcome
===============================================================================
