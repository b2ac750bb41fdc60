------------------------- MODULE MCReconciliation -------------------------
(***************************************************************************)
(* Small instances of the reconciliation loop.                             *)
(***************************************************************************)
EXTENDS Reconciliation

CONSTANTS o1, o2

(* createDefaultPolicy scaled down: two failures instead of three, and one *)
(* time unit for its 300 seconds, so that the cap still bites.             *)
SmallDefault ==
  [maxConsecutive |-> 2, mode |-> "exponential", base |-> 1, multiplier |-> 2,
   cap |-> 2, degradeAfter |-> 2, resetOnRecovery |-> TRUE, resetOnManual |-> TRUE]

(* As in createDefaultPolicy: three failures degrade.                      *)
ThreeStrikes ==
  [SmallDefault EXCEPT !.maxConsecutive = 3, !.degradeAfter = 3]

(* A policy that keeps its counters across resets and recoveries.          *)
KeepsCounters ==
  [SmallDefault EXCEPT !.resetOnRecovery = FALSE, !.resetOnManual = FALSE]

(* A stored policy without a cooldown mode: computing a cooldown throws.   *)
NoCooldownMode == [SmallDefault EXCEPT !.mode = "unset", !.base = 0, !.cap = 0]

PolicyUnusual == [o \in Objectives |-> IF o = o1 THEN KeepsCounters ELSE NoCooldownMode]

OneObjective == {o1}
TwoObjectives == {o1, o2}
OneEvaluator == {1}
TwoEvaluators == {1, 2}

PolicyDefault == [o \in Objectives |-> SmallDefault]
PolicyThreeStrikes == [o \in Objectives |-> ThreeStrikes]

Healthy == [status |-> "success", success |-> TRUE, achieved |-> TRUE]
Unverified == [status |-> "success", success |-> TRUE, achieved |-> FALSE]
Failing == [status |-> "failed", success |-> FALSE, achieved |-> FALSE]

AnyResult == {Healthy, Unverified, Failing}
HealthyOrFailing == {Healthy, Failing}

AnyObservation == BOOLEAN
AlwaysDrift == {FALSE}

Ready == {"ready"}
AnyEnvironment == Environments

NoOperations == {}
EveryOperation == OperationNames
ResetAndCrashes == {"reset", "crash", "crash_in_handler"}
RaceOperations == {"enable", "reset", "crash", "crash_before_lease"}

FromDegraded == {"degraded"}
FromSettled == {"idle", "cooldown", "degraded"}
-----------------------------------------------------------------------------
(***************************************************************************)
(* Every declarable policy with a cap, over small numbers.                 *)
(***************************************************************************)
Numbers == {Undefined} \cup 0..4

CappedPolicies ==
  {d \in [maxConsecutive : {2}, mode : CooldownModes,
          base : Numbers, multiplier : Numbers, cap : Numbers \ {Undefined},
          degradeAfter : {2}, resetOnRecovery : {"undefined"},
          resetOnManual : {"undefined"}] : IsDeclarable(d)}

NoDeclarations == {}
=============================================================================
