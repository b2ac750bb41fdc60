-------------------------- MODULE MCPlanExecution --------------------------
(***************************************************************************)
(* Small instances of the plan executions.                                 *)
(***************************************************************************)
EXTENDS PlanExecution

CONSTANTS e1, e2, s1, s2

TwoExecutions == {e1, e2}
TwoTargets == {s1, s2}

Always == [type |-> "always", ref |-> 0]

(* createPlanStep: no retries, no verification, abort on failure.          *)
Basic ==
  [targets |-> <<>>, depends |-> {}, condition |-> Always, approval |-> FALSE,
   timeout |-> 1, attempts |-> 1, delay |-> 0, verified |-> FALSE, onFailure |-> "abort"]

(* One plan restarts s1 and s2 together, retrying once, and repairs s2     *)
(* after an approval if that failed; the other takes the two in the        *)
(* opposite order, and reports what happened.                              *)
Restart ==
  [Basic EXCEPT !.targets = <<s1, s2>>, !.attempts = 2, !.onFailure = "continue"]

Repair ==
  [Basic EXCEPT !.targets = <<s2>>, !.approval = TRUE, !.verified = TRUE,
                !.condition = [type |-> "if_failed", ref |-> 1]]

Rotate == [Basic EXCEPT !.targets = <<s2, s1>>]

Report ==
  [Basic EXCEPT !.depends = {1}, !.condition = [type |-> "custom", ref |-> 1]]

CrossingPlans ==
  [e \in Executions |-> IF e = e1 THEN <<Restart, Repair>> ELSE <<Rotate, Report>>]

AnyResolution == {"granted", "refused"}
=============================================================================
