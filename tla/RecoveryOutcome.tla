---------------------------- MODULE RecoveryOutcome ---------------------------
(***************************************************************************)
(* What one run of the recovery graph promises to the consumer that calls  *)
(* it: a success has stored exactly the selectors whose live extraction it *)
(* returns, a review has stored none, and only an exception can leave some *)
(* of them.  RecoveryGraph implements it.                                  *)
(***************************************************************************)
CONSTANTS Fields, Selectors

VARIABLES outcome,    \* "running", "success", "needs_human_review" or "raised"
          approved,   \* the field |-> selector map that is validated, or none
          saved       \* the <<field, selector>> pairs the worker stored

vars == <<outcome, approved, saved>>

Pairs(m) == {<<f, m[f]>> : f \in DOMAIN m}
NoMap == [f \in {} |-> f]
-------------------------------------------------------------------------------
Init == /\ outcome = "running"
        /\ approved = NoMap
        /\ saved = {}

Approve == /\ outcome = "running" /\ approved = NoMap
           /\ approved' \in [Fields -> Selectors]
           /\ UNCHANGED <<outcome, saved>>

Save == /\ outcome = "running"
        /\ \E p \in Pairs(approved) \ saved : saved' = saved \cup {p}
        /\ UNCHANGED <<outcome, approved>>

Finish == /\ outcome = "running"
          /\ \/ /\ approved # NoMap /\ saved = Pairs(approved)
                /\ outcome' = "success"
             \/ /\ approved = NoMap
                /\ outcome' = "needs_human_review"
             \/ outcome' = "raised"
          /\ UNCHANGED <<approved, saved>>

Next == Approve \/ Save \/ Finish

Spec == Init /\ [][Next]_vars
===============================================================================
