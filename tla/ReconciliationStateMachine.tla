-------------------- MODULE ReconciliationStateMachine --------------------
(***************************************************************************)
(* core/reconciliation-state-machine.js: the statuses of the control loop  *)
(* of a managed objective, the table of legal transitions, and who may     *)
(* start reconciling.  Pure: no state of its own.                          *)
(***************************************************************************)
EXTENDS Integers

Statuses == {"idle", "reconciling", "cooldown", "degraded", "safe_mode"}

(* TransitionTable, as the set of <<from, to, reason>> it allows.          *)
TransitionTable ==
  {<<"idle", "reconciling", "drift_detected">>,
   <<"idle", "reconciling", "cooldown_expired">>,
   <<"idle", "safe_mode", "safe_mode_entered">>,
   <<"idle", "degraded", "manual_escalation">>,
   <<"reconciling", "idle", "verification_success">>,
   <<"reconciling", "idle", "passive_recovery">>,
   <<"reconciling", "cooldown", "execution_failed">>,
   <<"reconciling", "cooldown", "verification_failed">>,
   <<"reconciling", "cooldown", "timeout">>,
   <<"reconciling", "degraded", "attempts_exhausted">>,
   <<"reconciling", "degraded", "timeout">>,
   <<"reconciling", "degraded", "manual_escalation">>,
   <<"reconciling", "degraded", "stale_reconciliation">>,
   <<"reconciling", "safe_mode", "safe_mode_entered">>,
   <<"cooldown", "reconciling", "cooldown_expired">>,
   <<"cooldown", "idle", "passive_recovery">>,
   <<"cooldown", "degraded", "manual_escalation">>,
   <<"cooldown", "degraded", "attempts_exhausted">>,
   <<"cooldown", "safe_mode", "safe_mode_entered">>,
   <<"degraded", "idle", "manual_reset">>,
   <<"degraded", "safe_mode", "safe_mode_entered">>,
   <<"safe_mode", "idle", "safe_mode_released">>,
   <<"safe_mode", "idle", "manual_reset">>,
   <<"safe_mode", "degraded", "safe_mode_released">>}

CanTransition(from, to, reason) == from # to /\ <<from, to, reason>> \in TransitionTable

(* A cooldown deadline is compared with the caller's clock as JavaScript   *)
(* compares them: an ISO string against an ISO string orders by time, a    *)
(* number against an ISO string is a comparison with NaN, always false.    *)
Clocks == {"iso", "number"}

CooldownActive(cooldownLeft, clock) == clock = "iso" /\ cooldownLeft > 0

(* Mutant: an objective in cooldown is never eligible again.               *)
EligibleOnlyWhenIdle(r, globalSafeMode, clock) ==
  ~globalSafeMode /\ ~r.hold /\ r.status = "idle"

(* isEligibleForReconciliation; r is an objective's row.                   *)
EligibleForReconciliation(r, globalSafeMode, clock) ==
  /\ ~globalSafeMode
  /\ ~r.hold
  /\ \/ r.status = "idle"
     \/ r.status = "cooldown" /\ ~CooldownActive(r.cooldown, clock)

(* The reason the gate gives for entering reconciling from a status.       *)
AdmissionReason(status) == IF status = "idle" THEN "drift_detected" ELSE "cooldown_expired"
=============================================================================
