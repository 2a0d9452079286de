------------------------- MODULE ExtractionRequestProofs ------------------------
(***************************************************************************)
(* Theorems of ExtractionRequest, for any fields, any list of required     *)
(* fields, with repetitions, and any answer of the browser.                *)
(***************************************************************************)
EXTENDS ExtractionRequest, Induction

\* The list comprehension of MissingFields, at each of its steps.
IsMissing(g, fields, d) ==
    g = [n \in 0..Len(fields) |->
            IF n = 0 THEN <<>>
            ELSE IF IsBroken(fields[n], d) THEN Append(g[n - 1], fields[n])
            ELSE g[n - 1]]

\* A list of missing fields exists, whatever the list of required ones.
LEMMA MissingExists ==
    ASSUME NEW fields \in Seq(Fields), NEW d
    PROVE  \E g : IsMissing(g, fields, d)
<1> DEFINE Step(g, n) == IF n = 0 THEN <<>>
                         ELSE IF IsBroken(fields[n], d) THEN Append(g[n - 1], fields[n])
                         ELSE g[n - 1]
           S == {m \in 0..Len(fields) : \E g : g = [n \in 0..m |-> Step(g, n)]}
<1>1. 0 \in S
  <2> DEFINE g == [n \in 0..0 |-> <<>>]
  <2>1. g = [n \in 0..0 |-> Step(g, n)]
    OBVIOUS
  <2> HIDE DEF Step, g
  <2> QED BY <2>1
<1>2. ASSUME NEW m \in 0..Len(fields), m # Len(fields), m \in S
      PROVE  m + 1 \in S
  <2>1. PICK g : g = [n \in 0..m |-> Step(g, n)]
    BY <1>2
  <2> DEFINE h == [n \in 0..(m + 1) |->
                     IF n = m + 1
                     THEN IF IsBroken(fields[m + 1], d) THEN Append(g[m], fields[m + 1])
                          ELSE g[m]
                     ELSE g[n]]
  <2>2. \A n \in 0..(m + 1) : h[n] = Step(h, n)
    <3> TAKE n \in 0..(m + 1)
    <3>1. CASE n = m + 1
      BY <3>1
    <3>2. CASE n # m + 1
      <4>1. n \in 0..m
        BY <3>2
      <4>2. g[n] = Step(g, n)
        <5> HIDE DEF Step
        <5> QED BY <2>1, <4>1
      <4>3. n = 0 \/ (n - 1 \in 0..(m + 1) /\ n - 1 # m + 1)
        BY <4>1
      <4> QED BY <3>2, <4>2, <4>3
    <3> QED BY <3>1, <3>2
  <2>3. h = [n \in 0..(m + 1) |-> h[n]]
    OBVIOUS
  <2> HIDE DEF h, Step
  <2>4. h = [n \in 0..(m + 1) |-> Step(h, n)]
    BY <2>2, <2>3
  <2>5. m + 1 \in 0..Len(fields)
    BY <1>2
  <2> QED BY <2>4, <2>5
<1>3. Len(fields) \in Nat
  OBVIOUS
<1> HIDE DEF S
<1>4. \A k \in 0..Len(fields) : k \in S
  BY <1>1, <1>2, <1>3, UpTo
<1>5. Len(fields) \in S
  BY <1>3, <1>4
<1> QED BY <1>5 DEF S, IsMissing

\* Nothing is missing, or the list of what is starts at the first broken field.
FirstIs(g, fields, d, n) ==
    \/ g = <<>> /\ \A m \in 1..n : ~ IsBroken(fields[m], d)
    \/ /\ g \in Seq(Fields) /\ g # <<>>
       /\ \E i \in 1..n : /\ Head(g) = fields[i] /\ IsBroken(fields[i], d)
                          /\ \A m \in 1..(i - 1) : ~ IsBroken(fields[m], d)

\* What the list comprehension returns, as far as the reason depends on it.
LEMMA MissingStartsAtFirst ==
    ASSUME NEW fields \in Seq(Fields), NEW d
    PROVE  FirstIs(MissingFields(fields, d), fields, d, Len(fields))
<1>1. PICK g : /\ IsMissing(g, fields, d)
               /\ MissingFields(fields, d) = g[Len(fields)]
  BY MissingExists DEF MissingFields, IsMissing
<1>2. \A n \in 0..Len(fields) : g[n] = IF n = 0 THEN <<>>
          ELSE IF IsBroken(fields[n], d) THEN Append(g[n - 1], fields[n])
          ELSE g[n - 1]
  BY <1>1 DEF IsMissing
<1> DEFINE S == {n \in 0..Len(fields) : FirstIs(g[n], fields, d, n)}
<1>3. 0 \in S
  BY <1>2 DEF FirstIs
<1>4. ASSUME NEW n \in 0..Len(fields), n # Len(fields), n \in S
      PROVE  n + 1 \in S
  <2>1. n + 1 \in 1..Len(fields) /\ n + 1 \in 0..Len(fields) /\ (n + 1) - 1 = n
    BY <1>4
  <2>2. fields[n + 1] \in Fields
    BY <2>1
  <2>3. g[n + 1] = IF IsBroken(fields[n + 1], d) THEN Append(g[n], fields[n + 1]) ELSE g[n]
    BY <1>2, <2>1
  <2>4. FirstIs(g[n], fields, d, n)
    BY <1>4
  <2>5. CASE g[n] = <<>>
    <3>1. \A m \in 1..n : ~ IsBroken(fields[m], d)
      BY <2>4, <2>5 DEF FirstIs
    <3>2. CASE IsBroken(fields[n + 1], d)
      <4>1. g[n + 1] = Append(<<>>, fields[n + 1])
        BY <2>3, <2>5, <3>2
      <4>2. g[n + 1] \in Seq(Fields) /\ g[n + 1] # <<>> /\ Head(g[n + 1]) = fields[n + 1]
        BY <4>1, <2>2
      <4>3. n + 1 \in 1..(n + 1) /\ (n + 1) - 1 = n
        BY <2>1
      <4>4. FirstIs(g[n + 1], fields, d, n + 1)
        BY <3>1, <3>2, <4>2, <4>3 DEF FirstIs
      <4> QED BY <4>4, <2>1
    <3>3. CASE ~ IsBroken(fields[n + 1], d)
      <4>1. \A m \in 1..(n + 1) : ~ IsBroken(fields[m], d)
        <5> TAKE m \in 1..(n + 1)
        <5>1. m \in 1..n \/ m = n + 1
          BY <2>1
        <5> QED BY <5>1, <3>1, <3>3
      <4>2. FirstIs(g[n + 1], fields, d, n + 1)
        BY <2>3, <2>5, <3>3, <4>1 DEF FirstIs
      <4> QED BY <4>2, <2>1
    <3> QED BY <3>2, <3>3
  <2>6. CASE g[n] # <<>>
    <3>1. g[n] \in Seq(Fields)
      BY <2>4, <2>6 DEF FirstIs
    <3>2. PICK i \in 1..n : /\ Head(g[n]) = fields[i] /\ IsBroken(fields[i], d)
                            /\ \A m \in 1..(i - 1) : ~ IsBroken(fields[m], d)
      BY <2>4, <2>6 DEF FirstIs
    <3>3. /\ g[n + 1] \in Seq(Fields) /\ g[n + 1] # <<>>
          /\ Head(g[n + 1]) = Head(g[n])
      <4>1. Len(g[n]) > 0
        BY <3>1, <2>6
      <4> QED BY <2>2, <2>3, <2>6, <3>1, <4>1
    <3>4. i \in 1..(n + 1)
      BY <2>1
    <3>5. FirstIs(g[n + 1], fields, d, n + 1)
      BY <3>2, <3>3, <3>4 DEF FirstIs
    <3> QED BY <3>5, <2>1
  <2> QED BY <2>5, <2>6
<1>5. Len(fields) \in Nat
  OBVIOUS
<1> HIDE DEF S
<1>6. \A k \in 0..Len(fields) : k \in S
  BY <1>3, <1>4, <1>5, UpTo
<1>7. Len(fields) \in S
  BY <1>5, <1>6
<1> QED BY <1>1, <1>7 DEF S
--------------------------------------------------------------------------------
\* What the validator answers: a success without a broken field, and otherwise
\* the reason of the first one.
LEMMA ValidateAnswers ==
    ASSUME NEW fields \in Seq(Fields), NEW d
    PROVE  \/ /\ \A m \in 1..Len(fields) : ~ IsBroken(fields[m], d)
              /\ Validate(fields, d) = Answer(TRUE, "none")
           \/ \E i \in 1..Len(fields) :
                 /\ IsBroken(fields[i], d)
                 /\ \A m \in 1..(i - 1) : ~ IsBroken(fields[m], d)
                 /\ Validate(fields, d) = Answer(FALSE, Reason(fields[i], d))
<1>1. FirstIs(MissingFields(fields, d), fields, d, Len(fields))
  BY MissingStartsAtFirst
<1> DEFINE missing == MissingFields(fields, d)
<1>2. Validate(fields, d) = IF missing = <<>> THEN Answer(TRUE, "none")
                            ELSE Answer(FALSE, Reason(Head(missing), d))
  BY DEF Validate
<1> HIDE DEF missing
<1>3. CASE missing = <<>>
  BY <1>1, <1>2, <1>3 DEF FirstIs, missing
<1>4. CASE missing # <<>>
  <2>1. PICK i \in 1..Len(fields) :
              /\ Head(missing) = fields[i] /\ IsBroken(fields[i], d)
              /\ \A m \in 1..(i - 1) : ~ IsBroken(fields[m], d)
    BY <1>1, <1>4 DEF FirstIs, missing
  <2> QED BY <1>2, <1>4, <2>1
<1> QED BY <1>3, <1>4

\* required_fields is a list of fields that is not empty.
LEMMA RequiredIsList ==
    ASSUME TypeOK
    PROVE  required \in Seq(Fields) /\ ToSet(required) = {required[n] : n \in 1..Len(required)}
<1>1. PICK m \in 0..MaxRequired : required \in [1..m -> Fields]
  BY DEF TypeOK, SeqOf
<1>2. m \in Nat
  BY RequestAssumption
<1>3. required \in Seq(Fields)
  BY <1>1, <1>2
<1> QED BY <1>3 DEF ToSet

\* Whether some field is broken, and which is the first, as the reference says.
LEMMA ReferenceAgrees ==
    ASSUME TypeOK
    PROVE  /\ ~ SomeBroken => Validate(required, data) = Answer(TRUE, "none")
           /\ SomeBroken => Validate(required, data) =
                               Answer(FALSE, Reason(required[FirstBroken], data))
<1>1. required \in Seq(Fields) /\ Len(required) \in Nat
  BY RequiredIsList
<1>2. SomeBroken <=> \E n \in 1..Len(required) : IsBroken(required[n], data)
  BY RequiredIsList DEF SomeBroken
<1>3. CASE ~ SomeBroken
  BY <1>1, <1>2, <1>3, ValidateAnswers
<1>4. CASE SomeBroken
  <2>1. PICK i \in 1..Len(required) :
              /\ IsBroken(required[i], data)
              /\ \A m \in 1..(i - 1) : ~ IsBroken(required[m], data)
              /\ Validate(required, data) = Answer(FALSE, Reason(required[i], data))
    BY <1>1, <1>2, <1>4, ValidateAnswers
  <2> DEFINE First(n) == /\ IsBroken(required[n], data)
                         /\ \A m \in 1..(n - 1) : ~ IsBroken(required[m], data)
  <2>2. FirstBroken = CHOOSE n \in 1..Len(required) : First(n)
    BY DEF FirstBroken
  <2>3. First(i)
    BY <2>1
  <2>4. FirstBroken \in 1..Len(required) /\ First(FirstBroken)
    <3> HIDE DEF First
    <3> QED BY <2>2, <2>3
  <2>5. FirstBroken = i
    <3>1. ~ (i < FirstBroken) /\ ~ (FirstBroken < i)
      BY <1>1, <2>3, <2>4
    <3> QED BY <1>1, <2>4, <3>1
  <2> QED BY <1>4, <2>1, <2>5
<1> QED BY <1>3, <1>4
--------------------------------------------------------------------------------
\* The answer is the validator's, or the transport's; the status is what the
\* policy makes of it.
AnswerIsKept == /\ stage = "respond" => response = Validate(required, data)
                /\ stage \in {"decide", "done"} =>
                      response \in {Validate(required, data), HttpError}
                /\ stage = "done" => status = Decide(response)

IInv == TypeOK /\ AnswerIsKept

\* The validator answers with one of its reasons.
LEMMA ValidateTyped ==
    ASSUME NEW fields \in Seq(Fields), NEW d
    PROVE  /\ Validate(fields, d) \in [success : BOOLEAN, reason : Reasons]
           /\ Validate(fields, d).success <=> Validate(fields, d) = Answer(TRUE, "none")
           /\ ~ Validate(fields, d).success =>
                 ShouldTriggerRecovery(Validate(fields, d).reason)
<1> USE DEF Answer, Reasons, Reason, ShouldTriggerRecovery
<1>1. CASE Validate(fields, d) = Answer(TRUE, "none")
  BY <1>1
<1>2. CASE \E f : Validate(fields, d) = Answer(FALSE, Reason(f, d))
  BY <1>2
<1> QED BY <1>1, <1>2, ValidateAnswers

\* The status the gateway gives, for each answer.
LEMMA DecideTyped ==
    ASSUME TypeOK, response \in {Validate(required, data), HttpError}
    PROVE  /\ Decide(response) \in {"success", "recovery_pending", "failed"}
           /\ Decide(response) = "success" <=> response.success
           /\ Decide(response) = "failed" <=> response = HttpError
<1>1. CASE response = HttpError
  BY <1>1 DEF Decide, HttpError, Answer, ShouldTriggerRecovery
<1>2. CASE response # HttpError
  <2>1. response = Validate(required, data) /\ required \in Seq(Fields)
    BY <1>2, RequiredIsList
  <2>2. /\ response.success \in BOOLEAN
        /\ ~ response.success => ShouldTriggerRecovery(response.reason)
    BY <2>1, ValidateTyped
  <2> QED BY <1>2, <2>2 DEF Decide
<1> QED BY <1>1, <1>2

\* The invariant holds before the extraction.
LEMMA InitInv == Init => IInv
<1> SUFFICES ASSUME Init PROVE IInv
  OBVIOUS
<1>1. NoData \in Data(ToSet(required) \cap known)
  <2>1. NoData \in [{} -> {"text", "blank"}]
    BY DEF NoData
  <2>2. {} \in SUBSET (ToSet(required) \cap known)
    OBVIOUS
  <2> QED BY <2>1, <2>2 DEF Data
<1>2. Answer(FALSE, "none") \in [success : BOOLEAN, reason : Reasons]
  BY DEF Answer, Reasons
<1> QED BY <1>1, <1>2 DEF Init, IInv, TypeOK, AnswerIsKept

\* No step of a request leaves it.
LEMMA Inductive ==
    ASSUME IInv, [Next]_vars
    PROVE  IInv'
<1>1. TypeOK /\ AnswerIsKept
  BY DEF IInv
<1>2. CASE Extract
  <2>1. /\ data' \in Data(ToSet(required) \cap known)
        /\ response' = Validate(required, data') /\ stage' = "respond"
        /\ UNCHANGED <<required, known, status>>
    BY <1>2 DEF Extract
  <2>2. response' \in [success : BOOLEAN, reason : Reasons]
    BY <1>1, <2>1, RequiredIsList, ValidateTyped
  <2> QED BY <1>1, <2>1, <2>2 DEF IInv, TypeOK, AnswerIsKept
<1>3. CASE Respond
  BY <1>1, <1>3 DEF Respond, IInv, TypeOK, AnswerIsKept
<1>4. CASE TransportFails
  <2>1. HttpError \in [success : BOOLEAN, reason : Reasons]
    BY DEF HttpError, Answer, Reasons
  <2> QED BY <1>1, <1>4, <2>1 DEF TransportFails, IInv, TypeOK, AnswerIsKept
<1>5. CASE ApplyAnswer
  <2>1. status' = Decide(response) /\ response \in {Validate(required, data), HttpError}
    BY <1>1, <1>5 DEF ApplyAnswer, AnswerIsKept
  <2>2. status' \in {"success", "recovery_pending", "failed"}
    BY <1>1, <2>1, DecideTyped
  <2> QED BY <1>1, <1>5, <2>1, <2>2 DEF ApplyAnswer, IInv, TypeOK, AnswerIsKept
<1>6. CASE UNCHANGED vars
  BY <1>1, <1>6 DEF vars, IInv, TypeOK, AnswerIsKept
<1> QED BY <1>2, <1>3, <1>4, <1>5, <1>6 DEF Next

\* The answer of the worker and the status made of it are kept as they were
\* computed, from the extraction to the row of the job.
THEOREM Invariance == Spec => []IInv
BY InitInv, Inductive, PTL DEF Spec

\* Every variable keeps its type; in particular no answer reaches the failed
\* assertion of _apply_extraction_result.
THEOREM TypeCorrect == Spec => []TypeOK
<1>1. IInv => TypeOK
  BY DEF IInv
<1> QED BY <1>1, Invariance, PTL

\* The status of a job follows from what happened to its fields: a success has
\* them all, a recovery is asked for exactly when one is broken, and a failure
\* is the transport's.
THEOREM StatusIsRight == Spec => []StatusSaysWhatHappened
<1>1. IInv => StatusSaysWhatHappened
  <2> SUFFICES ASSUME IInv, stage = "done"
               PROVE  /\ status = "success"          <=> response.success /\ ~ SomeBroken
                      /\ status = "recovery_pending" <=> response # HttpError /\ SomeBroken
                      /\ status = "failed"           <=> response = HttpError
    BY DEF StatusSaysWhatHappened
  <2>1. /\ TypeOK /\ status = Decide(response)
        /\ response \in {Validate(required, data), HttpError}
    BY DEF IInv, AnswerIsKept
  <2>2. /\ status \in {"success", "recovery_pending", "failed"}
        /\ status = "success" <=> response.success
        /\ status = "failed" <=> response = HttpError
    BY <2>1, DecideTyped
  <2>3. CASE response = HttpError
    <3>1. status = "failed"
      BY <2>2, <2>3
    <3> QED BY <2>2, <2>3, <3>1
  <2>4. CASE response # HttpError
    <3>1. response = Validate(required, data)
      BY <2>1, <2>4
    <3>2. CASE SomeBroken
      <4>1. response.success = FALSE
        BY <2>1, <3>1, <3>2, ReferenceAgrees DEF Answer
      <4> QED BY <2>2, <2>4, <3>2, <4>1
    <3>3. CASE ~ SomeBroken
      <4>1. response.success = TRUE
        BY <2>1, <3>1, <3>3, ReferenceAgrees DEF Answer
      <4> QED BY <2>2, <2>4, <3>3, <4>1
    <3> QED BY <3>2, <3>3
  <2> QED BY <2>3, <2>4
<1> QED BY <1>1, Invariance, PTL

\* The reason given is that of the first broken field of the list, whatever the
\* list, its repetitions and the page.
THEOREM ReasonIsRight == Spec => []ReasonIsThatOfTheFirst
<1>1. IInv => ReasonIsThatOfTheFirst
  <2> SUFFICES ASSUME IInv, stage # "extract", SomeBroken, response # HttpError
               PROVE  response.reason = Reason(required[FirstBroken], data)
    BY DEF ReasonIsThatOfTheFirst
  <2>1. TypeOK /\ response = Validate(required, data)
    BY DEF IInv, AnswerIsKept, TypeOK
  <2>2. response = Answer(FALSE, Reason(required[FirstBroken], data))
    BY <2>1, ReferenceAgrees
  <2> QED BY <2>2 DEF Answer
<1> QED BY <1>1, Invariance, PTL
================================================================================
