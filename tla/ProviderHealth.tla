--------------------------- MODULE ProviderHealth ---------------------------
(***************************************************************************)
(* Provider health and the runtime mode that follows it:                   *)
(* core/provider-health-manager.js, core/provider-health-bridge.js and     *)
(* core/runtime-modes.js, once both are started.                           *)
(*                                                                         *)
(* A scan is one runHealthChecks or one reconcileStateGraph: it visits the *)
(* providers in the order of their registration and waits for the answer   *)
(* of each it probes.  The interval timer starts a scan whether or not the *)
(* last one has ended, so scans overlap; everything between two waits is   *)
(* one step.                                                               *)
(*                                                                         *)
(* A deadline is ahead, or it is past or was never set, which the code     *)
(* does not tell apart, and passes when it likes: the three durations are  *)
(* options, and no order between them is assumed.  The writes to the state *)
(* graph are synchronous, and never fail their caller.                     *)
(***************************************************************************)
EXTENDS Naturals, Sequences

CONSTANTS
  Order,        \* the providers, as registered
  Local,        \* those always available, the registry's alwaysAvailable
  Scans,        \* the health checks that may be under way together
  MaxFailures,  \* maxConsecutiveFailures
  Forced        \* the modes an operator may force

Providers == {Order[k] : k \in DOMAIN Order}

ASSUME HealthAssumption ==
  /\ Order \in Seq(Providers) /\ Order # <<>>
  /\ Local \subseteq Providers
  /\ MaxFailures \in Nat \ {0}
  /\ Forced \subseteq {"normal", "degraded", "local-only", "operator-only"}

VARIABLES
  health,    \* the record of each provider, with its membership of quarantined
  scan,      \* where each scan is in the order, and what it waits for
  mode,      \* the runtime mode
  gateway,   \* gatewayConnected, as the bridge last found it
  calm       \* environment: from now on whatever is asked is well

vars == <<health, scan, mode, gateway, calm>>

Statuses == {"unknown", "healthy", "degraded", "unhealthy", "quarantined"}
Modes == {"normal", "degraded", "local-only", "operator-only"}

(* registerProvider, once for each provider.                               *)
Registered ==
  [status |-> "unknown", failures |-> 0, quarantined |-> FALSE,
   until |-> FALSE, cooldown |-> FALSE, fresh |-> FALSE]

Idle == [at |-> 0, waits |-> "next"]
Starting == [at |-> 1, waits |-> "reconciling"]

Init ==
  /\ health = [p \in Providers |-> Registered]
  /\ scan \in [Scans -> {Idle, Starting}]
  /\ mode = "normal"
  /\ gateway = TRUE
  /\ calm = FALSE
-----------------------------------------------------------------------------
(***************************************************************************)
(* What is recorded of a provider.                                         *)
(***************************************************************************)
Shut(h) == h.quarantined /\ h.until

(* checkAvailability                                                       *)
Available(p) ==
  LET h == health[p] IN
  /\ ~Shut(h)
  /\ ~h.cooldown
  /\ h.status # "unhealthy"
  /\ h.fresh

LeavesQuarantine(h) == [h EXCEPT !.quarantined = FALSE, !.until = FALSE]

RecordSuccess(h) ==
  [(IF h.quarantined THEN LeavesQuarantine(h) ELSE h)
     EXCEPT !.failures = 0, !.status = "healthy", !.cooldown = FALSE, !.fresh = TRUE]

Quarantine(h) == [h EXCEPT !.status = "quarantined", !.quarantined = TRUE, !.until = TRUE]

(* Mutant: a degraded provider is marked, and not rested.                  *)
DegradeOnly(h) == [h EXCEPT !.status = "degraded"]

Degrade(h) == [h EXCEPT !.status = "degraded", !.cooldown = TRUE]

(* consecutiveFailures saturates at the threshold, past which it only ever *)
(* compares as reached.                                                    *)
Counted(h) ==
  [h EXCEPT !.failures = IF @ = MaxFailures THEN @ ELSE @ + 1, !.fresh = TRUE]

RecordFailure(h) ==
  IF Counted(h).failures >= MaxFailures THEN Quarantine(Counted(h)) ELSE Degrade(Counted(h))

(* attemptRecovery after the wait: the quarantine it extends or ends may   *)
(* be another than the one whose expiry made it ask.                       *)
Extend(h) == [h EXCEPT !.until = TRUE]

(* Mutant: the failures that led to the quarantine stay counted.           *)
RecoverCounted(h) == [LeavesQuarantine(h) EXCEPT !.status = "healthy"]

Recover(h) == [LeavesQuarantine(h) EXCEPT !.status = "healthy", !.failures = 0]

Becomes(p, h) == health' = [health EXCEPT ![p] = h]
-----------------------------------------------------------------------------
(***************************************************************************)
(* runHealthChecks                                                         *)
(***************************************************************************)
(* Mutant: a quarantined provider is left alone, expired or not.           *)
SkipsQuarantined(h) == h.quarantined \/ h.cooldown

(* Passed over without a wait.                                             *)
Skipped(h) == IF h.quarantined THEN h.until ELSE h.cooldown

Turn(h) == IF h.quarantined THEN "recovering" ELSE "probing"

Goes(s, k, waits) == scan' = [scan EXCEPT ![s] = [at |-> k, waits |-> waits]]

(* A new scan, or one whose provider is done with, goes to the next        *)
(* provider it does not skip, or ends.                                     *)
Advance(s) ==
  LET due == {k \in DOMAIN Order : k > scan[s].at /\ ~Skipped(health[Order[k]])} IN
  /\ scan[s].waits = "next"
  /\ \/ \E k \in due :
          /\ \A j \in due : k <= j
          /\ Goes(s, k, Turn(health[Order[k]]))
     \/ due = {} /\ scan' = [scan EXCEPT ![s] = Idle]
  /\ UNCHANGED <<health, mode, gateway, calm>>

(* Whatever its recovery came to, the provider is probed again at once,    *)
(* unless it is cooling down.                                              *)
ProbeAfterRecovery(s) ==
  LET k == scan[s].at IN
  /\ scan[s].waits = "recovered"
  /\ Goes(s, k, IF health[Order[k]].cooldown THEN "next" ELSE "probing")
  /\ UNCHANGED <<health, mode, gateway, calm>>

RecoveryAnswered(s, well) ==
  LET p == Order[scan[s].at] IN
  /\ scan[s].waits = "recovering"
  /\ well \/ ~calm
  /\ Becomes(p, IF well THEN Recover(health[p]) ELSE Extend(health[p]))
  /\ Goes(s, scan[s].at, "recovered")
  /\ UNCHANGED <<mode, gateway, calm>>

ProbeAnswered(s, well) ==
  LET p == Order[scan[s].at] IN
  /\ scan[s].waits = "probing"
  /\ well \/ ~calm
  /\ Becomes(p, IF well THEN RecordSuccess(health[p]) ELSE RecordFailure(health[p]))
  /\ Goes(s, scan[s].at, "next")
  /\ UNCHANGED <<mode, gateway, calm>>

(* recordSuccess or recordFailure by whoever used the provider, whenever   *)
(* its request was sent.                                                   *)
Report(p, well) ==
  /\ well \/ ~calm
  /\ Becomes(p, IF well THEN RecordSuccess(health[p]) ELSE RecordFailure(health[p]))
  /\ UNCHANGED <<scan, mode, gateway, calm>>
-----------------------------------------------------------------------------
(***************************************************************************)
(* reconcileStateGraph: it asks each provider in turn and sets its status, *)
(* without regard to quarantine, and without the date of the check when    *)
(* the asking itself threw.                                                *)
(***************************************************************************)
(* Mutant: the loop ends one provider too late.                            *)
PastTheLast(k) == k > Len(Order)

TheLast(k) == k = Len(Order)

ReconcileAnswered(s, answer) ==
  LET k == scan[s].at
      p == Order[k]
      asked == [health[p] EXCEPT !.status = "unhealthy"] IN
  /\ scan[s].waits = "reconciling"
  /\ answer = "well" \/ ~calm
  /\ Becomes(p,
       CASE answer = "well"  -> [asked EXCEPT !.status = "healthy", !.failures = 0, !.fresh = TRUE]
         [] answer = "sick"  -> [asked EXCEPT !.fresh = TRUE]
         [] answer = "throw" -> asked)
  /\ IF TheLast(k) THEN scan' = [scan EXCEPT ![s] = Idle] ELSE Goes(s, k + 1, "reconciling")
  /\ UNCHANGED <<mode, gateway, calm>>
-----------------------------------------------------------------------------
(***************************************************************************)
(* The bridge and the runtime mode.                                        *)
(***************************************************************************)
InStatus(S) == {p \in Providers : health[p].status \in S}

(* determineRuntimeMode over convertProviderHealth, which knows nothing of *)
(* a quarantine and reports it as unknown.                                 *)
RuntimeMode(connected) ==
  CASE InStatus({"healthy"}) = {} -> "operator-only"
    [] InStatus({"healthy"}) # {} /\ ~connected -> "local-only"
    [] InStatus({"healthy"}) # {} /\ connected ->
         IF InStatus({"degraded", "unhealthy"}) # {} \/ InStatus({"healthy"}) \subseteq Local
         THEN "degraded" ELSE "normal"

UpdateMode ==
  /\ mode' = RuntimeMode(gateway)
  /\ UNCHANGED <<health, scan, gateway, calm>>

(* checkGateway                                                            *)
CheckGateway(connected) ==
  /\ connected # gateway
  /\ connected \/ ~calm
  /\ gateway' = connected
  /\ mode' = RuntimeMode(connected)
  /\ UNCHANGED <<health, scan, calm>>

(* forceMode: it lasts until the next update finds another mode.           *)
ForceMode(m) ==
  /\ ~calm
  /\ mode' = m
  /\ UNCHANGED <<health, scan, gateway, calm>>
-----------------------------------------------------------------------------
(***************************************************************************)
(* Time and the environment.                                               *)
(***************************************************************************)
QuarantineRunsOut(p) ==
  /\ health[p].until
  /\ Becomes(p, [health[p] EXCEPT !.until = FALSE])
  /\ UNCHANGED <<scan, mode, gateway, calm>>

CooldownRunsOut(p) ==
  /\ health[p].cooldown
  /\ Becomes(p, [health[p] EXCEPT !.cooldown = FALSE])
  /\ UNCHANGED <<scan, mode, gateway, calm>>

TelemetryGrowsStale(p) ==
  /\ health[p].fresh
  /\ Becomes(p, [health[p] EXCEPT !.fresh = FALSE])
  /\ UNCHANGED <<scan, mode, gateway, calm>>

GrowsCalm == calm' = TRUE /\ UNCHANGED <<health, scan, mode, gateway>>

ScanStep(s) ==
  \/ Advance(s)
  \/ ProbeAfterRecovery(s)
  \/ \E well \in BOOLEAN : RecoveryAnswered(s, well) \/ ProbeAnswered(s, well)
  \/ \E answer \in {"well", "sick", "throw"} : ReconcileAnswered(s, answer)

Next ==
  \/ \E s \in Scans : ScanStep(s)
  \/ \E p \in Providers, well \in BOOLEAN : Report(p, well)
  \/ UpdateMode
  \/ \E connected \in BOOLEAN : CheckGateway(connected)
  \/ \E m \in Forced : ForceMode(m)
  \/ \E p \in Providers :
       QuarantineRunsOut(p) \/ CooldownRunsOut(p) \/ TelemetryGrowsStale(p)
  \/ GrowsCalm

(* The timers fire, every probe answers (one provider's has a timeout, the *)
(* other's client its own), and deadlines pass.                            *)
Fairness ==
  /\ \A s \in Scans : WF_vars(ScanStep(s))
  /\ WF_vars(UpdateMode)
  /\ WF_vars(CheckGateway(TRUE))
  /\ \A p \in Providers : WF_vars(QuarantineRunsOut(p) \/ CooldownRunsOut(p))

Spec == Init /\ [][Next]_vars
FairSpec == Spec /\ Fairness
-----------------------------------------------------------------------------
TypeOK ==
  /\ health \in [Providers ->
       [status : Statuses, failures : 0..MaxFailures, quarantined : BOOLEAN,
        until : BOOLEAN, cooldown : BOOLEAN, fresh : BOOLEAN]]
  /\ scan \in [Scans -> [at : 0..Len(Order), waits : {"next", "recovering", "recovered", "probing", "reconciling"}]]
  /\ mode \in Modes
  /\ gateway \in BOOLEAN /\ calm \in BOOLEAN

(* A provider that has failed as often as is allowed is in quarantine,     *)
(* whatever scans, reports and recoveries have done to its count since.    *)
ThresholdQuarantines ==
  \A p \in Providers : health[p].failures >= MaxFailures => health[p].quarantined

(* A provider that may not be used becomes usable only as a deadline of    *)
(* its own passes, or on a healthy answer, which leaves no failure         *)
(* counted: no failure and no stale mark opens it.  A healthy answer does, *)
(* also one to a probe sent before the quarantine began.                   *)
OpensWhenDue ==
  [][\A p \in Providers :
       ~Available(p) /\ Available(p)' =>
         QuarantineRunsOut(p) \/ CooldownRunsOut(p) \/ health'[p].failures = 0]_vars

(* When the environment grows well, every provider leaves quarantine and   *)
(* is found healthy for good, whatever scan it was caught in, and the      *)
(* runtime mode comes back to normal and stays there.                      *)
Settles ==
  calm ~> [](/\ mode = "normal"
             /\ \A p \in Providers : health[p].status = "healthy" /\ ~health[p].quarantined)
=============================================================================
