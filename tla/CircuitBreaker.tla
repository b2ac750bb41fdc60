-------------------------- MODULE CircuitBreaker --------------------------
(***************************************************************************)
(* What the reconciliation loop promises about one objective's circuit     *)
(* breaker, without evaluators, leases, deadlines, crashes or late         *)
(* results: an admission opens a new generation, and that generation is    *)
(* settled once, as one counted failure, as a recovery, or by giving up on *)
(* a missing plan.  Degraded is left only by a reset.                      *)
(***************************************************************************)
EXTENDS FailurePolicy

CONSTANTS Objectives, PolicyOf

VARIABLE breaker   \* each objective's status, generation and failure counts

Breaker == [status : {"idle", "reconciling", "cooldown", "degraded", "safe_mode"},
            generation : Nat, consecutive : Nat, total : Nat]

Init ==
  breaker = [o \in Objectives |->
               [status |-> "idle", generation |-> 0, consecutive |-> 0, total |-> 0]]

(* Each operator is the set of breakers that one event can lead b to.      *)
Admit(b, policy) ==
  IF b.status \in {"idle", "cooldown"} /\ ~MaxFailuresReached(policy, b.consecutive)
  THEN {[b EXCEPT !.status = "reconciling", !.generation = @ + 1]}
  ELSE {}

AfterFailure(policy, failures) ==
  IF ShouldEnterDegraded(policy, failures) THEN "degraded" ELSE "cooldown"

Fail(b, policy) ==
  IF b.status = "reconciling"
  THEN {[b EXCEPT !.status = AfterFailure(policy, b.consecutive + 1),
                  !.consecutive = @ + 1, !.total = @ + 1]}
  ELSE {}

Recover(b, policy) ==
  IF b.status = "reconciling"
  THEN {[b EXCEPT !.status = "idle",
                  !.consecutive = IF ShouldResetOnRecovery(policy) THEN 0 ELSE @]}
  ELSE {}

GiveUp(b) == IF b.status = "reconciling" THEN {[b EXCEPT !.status = "degraded"]} ELSE {}

RecoverPassively(b) == IF b.status = "cooldown" THEN {[b EXCEPT !.status = "idle"]} ELSE {}

Reset(b, policy) ==
  IF b.status # "reconciling"
  THEN {[b EXCEPT !.status = "idle",
                  !.consecutive = IF ShouldResetOnManualReset(policy) THEN 0 ELSE @]}
  ELSE {}

Successors(b, policy) ==
  Admit(b, policy) \cup Fail(b, policy) \cup Recover(b, policy)
    \cup GiveUp(b) \cup RecoverPassively(b) \cup Reset(b, policy)

(* The watchdog settles several objectives in one step.                    *)
Next ==
  /\ breaker' = [o \in Objectives |-> breaker'[o]]
  /\ \A o \in Objectives :
       breaker'[o] \in {breaker[o]} \cup Successors(breaker[o], PolicyOf[o])

Spec == Init /\ [][Next]_breaker
=============================================================================
