-------------------------- MODULE Reconciliation --------------------------
(***************************************************************************)
(* The reconciliation control loop of managed objectives:                  *)
(*                                                                         *)
(*   evaluator --drift--> gate --admits--> trigger --lease--> bridge       *)
(*       ^                                    |  result          |         *)
(*       +---- cooldown / idle / degraded <---+<-----------------+         *)
(*                         ^                                               *)
(*                         +---- watchdog (expired leases), operator       *)
(*                                                                         *)
(* core/objective-evaluator-integrated.js, core/reconciliation-gate.js,    *)
(* core/remediation-trigger-integrated.js, core/execution-watchdog.js and  *)
(* the rows of managed_objectives they share through state/state-graph.js. *)
(*                                                                         *)
(* Node.js runs each handler to its next wait for I/O without interruption *)
(* and SQLite calls are synchronous, so a handler between two such waits   *)
(* is one action.  The waits are: the evaluator's observation, the         *)
(* admission handed to the trigger (another process sharing the database   *)
(* or a crash may act there, see RunToCompletion), and the bridge's run of *)
(* the plan.                                                               *)
(*                                                                         *)
(* Time is relative: every deadline is kept as the time left until it, and *)
(* Tick lets one unit of time pass.                                        *)
(***************************************************************************)
EXTENDS FailurePolicy, ReconciliationStateMachine

CONSTANTS
  Objectives,         \* objective ids
  Evaluators,         \* concurrent evaluateObjective calls
  PolicyOf,           \* the policy each objective's policy_ref leads to
  DefaultPolicy,      \* createDefaultPolicy()
  Declarations,       \* the policies users may declare
  Timeout, Grace,     \* of the default execution policy, in time units
  Observations,       \* what an observation may find: satisfied or not
  Results,            \* what the bridge may return, see BridgeResult
  StartEnvironments,  \* what the trigger may find when it starts
  Operations,         \* which operator actions and crashes may happen
  ResetFrom,          \* statuses from which an operator resets
  LateErrors,         \* may an execution raise after its lease has ended?
  RunToCompletion,    \* does nothing run between an admission and its start?
  MaxGeneration       \* bound: no admission beyond this generation

Environments == {"ready", "no_plan", "no_bridge", "safe_mode"}

OperationNames == {"hold", "enable", "safe_mode", "gate_safe_mode", "reset",
                   "crash", "crash_in_handler", "crash_before_lease"}

(* What the trigger reads of a bridge result: its status, whether it has a *)
(* truthy success field, and whether its verification achieved the goal.   *)
BridgeResults == [status : {"success", "failed"}, success : BOOLEAN, achieved : BOOLEAN]

ASSUME PoliciesAssumption ==
  /\ PolicyOf \in [Objectives -> AnyPolicy]
  /\ DefaultPolicy \in Policy

ASSUME BoundsAssumption ==
  /\ Timeout \in Nat \ {0}
  /\ Grace \in Nat
  /\ MaxGeneration \in Nat \ {0}

ASSUME EnvironmentAssumption ==
  /\ Observations \subseteq BOOLEAN
  /\ Results \subseteq BridgeResults
  /\ StartEnvironments \subseteq Environments
  /\ Operations \subseteq OperationNames
  /\ ResetFrom \subseteq Statuses
  /\ LateErrors \in BOOLEAN
  /\ RunToCompletion \in BOOLEAN

ASSUME SomeObjective == Objectives # {}

ASSUME DeclarationsAssumption == \A d \in Declarations : d \in Declaration /\ IsDeclarable(d)

ASSUME DefaultHasCooldown == DefaultPolicy.mode # "unset"

VARIABLES
  obj,           \* managed_objectives: one row per objective
  lane,          \* each evaluator's progress through evaluateObjective
  flights,       \* remediation executions awaiting the bridge
  safeMode,      \* runtime_context safe_mode_active (persisted)
  gateSafeMode,  \* the gate's options.global_safe_mode (in memory)
  running        \* is the process up?

vars == <<obj, lane, flights, safeMode, gateSafeMode, running>>

-----------------------------------------------------------------------------
(* Rows                                                                    *)

TerminalReasons == {"none", "completed", "timed_out"}

(* attempt is active_attempt_id: ids are never reused and each admission   *)
(* gets one lease, so the admission's generation serves as the id; 0 is    *)
(* null.  cooldown, deadline and grace are the units left until            *)
(* reconciliation_cooldown_until, execution_deadline_at and the end of the *)
(* grace period after cancel_requested_at (cancelling: it is set).         *)
Row == [status      : Statuses,
        generation  : Nat,
        consecutive : Nat,
        total       : Nat,
        cooldown    : Nat,
        hold        : BOOLEAN,
        enabled     : BOOLEAN,
        attempt     : Nat,
        deadline    : Nat,
        cancelling  : BOOLEAN,
        grace       : Nat,
        terminal    : TerminalReasons]

CreatedRow ==
  [status |-> "idle", generation |-> 0, consecutive |-> 0, total |-> 0,
   cooldown |-> 0, hold |-> FALSE, enabled |-> TRUE, attempt |-> 0,
   deadline |-> 0, cancelling |-> FALSE, grace |-> 0, terminal |-> "none"]

(* An execution in flight and what its closure captured: the objective as  *)
(* it was when the trigger started it, and its own attempt id, which is    *)
(* the generation.                                                         *)
Flight == [objective : Objectives, generation : Nat, consecutive : Nat, total : Nat]

(* An evaluator is idle, observes (having read the row's status), or has   *)
(* been admitted with a generation and hands over to the trigger.          *)
Lane == [pc : {"idle", "observing", "admitted"}, target : Objectives,
         seen : Statuses, generation : Nat]

IdleLane == [pc |-> "idle", target |-> CHOOSE o \in Objectives : TRUE,
             seen |-> "idle", generation |-> 0]

(* The event loop serves timers, requests and I/O only after the           *)
(* microtasks of an admission have run.                                    *)
EventLoopFree == RunToCompletion => \A e \in Evaluators : lane[e].pc # "admitted"

-----------------------------------------------------------------------------
(* What each handler does to a row                                         *)

(* Mutant: a new admission keeps the generation.                           *)
AdmittedAgain(r) == [r EXCEPT !.status = "reconciling", !.cooldown = 0]

Admitted(r) == [r EXCEPT !.status = "reconciling", !.generation = @ + 1, !.cooldown = 0]

LeaseStarted(r) ==
  [r EXCEPT !.attempt = r.generation, !.deadline = Timeout, !.cancelling = FALSE, !.grace = 0]

AttemptCleared(r) ==
  [r EXCEPT !.attempt = 0, !.deadline = 0, !.cancelling = FALSE, !.grace = 0]

PlanNotFound(r) == [r EXCEPT !.status = "degraded"]

(* One failure accounted from the counters of a snapshot: the execution's  *)
(* captured objective, or the row itself for the watchdog.                 *)
FailureAccounted(r, policy, snapshot) ==
  LET counted == [r EXCEPT !.consecutive = snapshot.consecutive + 1,
                           !.total = snapshot.total + 1]
  IN  IF ShouldEnterDegraded(policy, snapshot.consecutive + 1)
      THEN [counted EXCEPT !.status = "degraded"]
      ELSE [counted EXCEPT !.status = "cooldown",
                           !.cooldown = CalculateCooldownDuration(policy, snapshot.consecutive + 1)]

(* new Date(NaN).toISOString() throws: a policy without a cooldown mode.   *)
AccountingThrows(policy, snapshot) ==
  /\ ~ShouldEnterDegraded(policy, snapshot.consecutive + 1)
  /\ CalculateCooldownDuration(policy, snapshot.consecutive + 1) = NotANumber

(* handleExecutionFailure and handleVerificationFailure account alike.     *)
(* When the accounting throws nothing is written; the catch block accounts *)
(* again and throws again, so the attempt is not cleared either.           *)
FailureWritten(r, policy, snapshot) ==
  IF AccountingThrows(policy, snapshot) THEN r ELSE FailureAccounted(r, policy, snapshot)

AttemptFailed(r, policy, snapshot) ==
  IF AccountingThrows(policy, snapshot) THEN r
  ELSE AttemptCleared(FailureAccounted(r, policy, snapshot))

VerifiedRecovery(r, policy) ==
  [r EXCEPT !.status = "idle", !.cooldown = 0,
            !.consecutive = IF ShouldResetOnRecovery(policy) THEN 0 ELSE @]

PassivelyRecovered(r) == [r EXCEPT !.status = "idle", !.cooldown = 0]

ManuallyReset(r, policy) ==
  [r EXCEPT !.status = "idle", !.cooldown = 0,
            !.consecutive = IF ShouldResetOnManualReset(policy) THEN 0 ELSE @]

ResultRecorded(r) == [r EXCEPT !.terminal = "completed"]

CancelRequested(r) == [r EXCEPT !.cancelling = TRUE, !.grace = Grace]

ForceTerminated(r) == [r EXCEPT !.terminal = "timed_out"]

(* Mutant: the timeout is counted, but the attempt is neither marked nor   *)
(* cleared.                                                                *)
TimedOutKeepsLease(r) == FailureAccounted(r, DefaultPolicy, r)

TimedOut(r) ==
  AttemptCleared(FailureAccounted(ForceTerminated(r), DefaultPolicy, r))

-----------------------------------------------------------------------------
(* Evaluator and gate                                                      *)

Init ==
  /\ obj = [o \in Objectives |-> CreatedRow]
  /\ lane = [e \in Evaluators |-> IdleLane]
  /\ flights = {}
  /\ safeMode = FALSE
  /\ gateSafeMode = FALSE
  /\ running = TRUE

(* evaluateObjective up to "await observer(objective)".                    *)
EvaluatorRead(e, o) ==
  /\ running /\ EventLoopFree
  /\ lane[e].pc = "idle"
  /\ obj[o].enabled
  /\ obj[o].status # "reconciling"
  /\ lane' = [lane EXCEPT ![e] = [pc |-> "observing", target |-> o,
                                  seen |-> obj[o].status, generation |-> 0]]
  /\ UNCHANGED <<obj, flights, safeMode, gateSafeMode, running>>

(* The evaluator hands the gate Date.now(), a number, as its clock.        *)
EvaluatorClock == "number"

PolicyAllows(r, policy, clock) ==
  /\ ~MaxFailuresReached(policy, r.consecutive)
  /\ policy # NoPolicy => ~CooldownActive(r.cooldown, clock)

(* Mutant: the gate trusts the status the evaluator read.                  *)
AdmissibleAsRead(o, clock) ==
  /\ ~safeMode /\ ~gateSafeMode
  /\ ~obj[o].hold
  /\ PolicyAllows(obj[o], PolicyOf[o], clock)

(* requestAdmission would admit the objective.                             *)
Admissible(o, clock) ==
  /\ ~safeMode
  /\ EligibleForReconciliation(obj[o], gateSafeMode, clock)
  /\ CanTransition(obj[o].status, "reconciling", AdmissionReason(obj[o].status))
  /\ PolicyAllows(obj[o], PolicyOf[o], clock)

EvaluationDone(e) == lane' = [lane EXCEPT ![e] = IdleLane]

(* Mutant: whatever the row was, a healthy observation resets it.          *)
PassiveRecoveryAnyStatus(e) ==
  LET o == lane[e].target IN
  /\ obj' = [obj EXCEPT ![o] = PassivelyRecovered(@)]
  /\ EvaluationDone(e)

(* _determineAction, case 1: healthy, and the row read before the          *)
(* observation was in cooldown.                                            *)
PassiveRecovery(e) ==
  LET o == lane[e].target IN
  /\ lane[e].seen = "cooldown"
  /\ obj' = [obj EXCEPT ![o] = PassivelyRecovered(@)]
  /\ EvaluationDone(e)

(* Case 2: healthy, nothing to do.                                         *)
Monitoring(e) ==
  /\ lane[e].seen # "cooldown"
  /\ EvaluationDone(e)
  /\ UNCHANGED obj

(* Case 3, denied: the skip is recorded and the row is left alone.         *)
AdmissionDenied(e) ==
  /\ ~Admissible(lane[e].target, EvaluatorClock)
  /\ EvaluationDone(e)
  /\ UNCHANGED obj

(* Case 3, admitted: requestAdmission, then admitAndTransition, which asks *)
(* again and compares the status before it writes.                         *)
AdmitAndTransition(e) ==
  LET o == lane[e].target IN
  /\ Admissible(o, EvaluatorClock)
  /\ obj[o].generation < MaxGeneration
  /\ obj' = [obj EXCEPT ![o] = Admitted(@)]
  /\ lane' = [lane EXCEPT ![e].pc = "admitted", ![e].generation = obj[o].generation + 1]

(* evaluateObjective from the observation's answer on.                     *)
EvaluatorResume(e) ==
  /\ running /\ EventLoopFree
  /\ lane[e].pc = "observing"
  /\ \/ TRUE \in Observations /\ (PassiveRecovery(e) \/ Monitoring(e))
     \/ FALSE \in Observations /\ (AdmissionDenied(e) \/ AdmitAndTransition(e))
  /\ UNCHANGED <<flights, safeMode, gateSafeMode, running>>

-----------------------------------------------------------------------------
(* Trigger and bridge                                                      *)

(* checkExecutionPreconditions.                                            *)
MayExecute(e, environment) ==
  LET r == obj[lane[e].target] IN
  /\ r.status = "reconciling"
  /\ r.generation = lane[e].generation
  /\ ~r.hold
  /\ environment # "safe_mode"

(* executeAdmittedRemediation up to "await executeRemediationPlan".  The   *)
(* caller's context decides what the trigger finds; when it may not start, *)
(* or has no bridge, the objective stays as the gate left it.              *)
StartExecution(e, environment) ==
  LET o == lane[e].target
      starts == MayExecute(e, environment)
  IN
  /\ running
  /\ lane[e].pc = "admitted"
  /\ EvaluationDone(e)
  /\ \/ /\ ~starts \/ environment = "no_bridge"
        /\ UNCHANGED <<obj, flights>>
     \/ /\ starts /\ environment = "no_plan"
        /\ obj' = [obj EXCEPT ![o] = PlanNotFound(@)]
        /\ UNCHANGED flights
     \/ /\ starts /\ environment = "ready"
        /\ obj' = [obj EXCEPT ![o] = LeaseStarted(@)]
        /\ flights' = flights \cup
             {[objective |-> o, generation |-> obj[o].generation,
               consecutive |-> obj[o].consecutive, total |-> obj[o].total]}
  /\ UNCHANGED <<safeMode, gateSafeMode, running>>

HoldsLease(f) ==
  /\ obj[f.objective].generation = f.generation
  /\ obj[f.objective].attempt = f.generation

(* Mutant: no stale check.                                                 *)
NeverStale(f) == FALSE

(* isStale: the result is ignored.                                         *)
Stale(f) == ~HoldsLease(f) \/ obj[f.objective].terminal = "timed_out"

Serving == running /\ EventLoopFree

Verified(result) == result.status # "failed" /\ result.success /\ result.achieved

(* The row once the outcome of a result that is not stale is written, and  *)
(* once the attempt's fields are cleared after it.                         *)
OutcomeWritten(f, result) ==
  LET r == ResultRecorded(obj[f.objective])
      policy == PolicyOf[f.objective]
  IN  IF Verified(result) THEN VerifiedRecovery(r, policy) ELSE FailureWritten(r, policy, f)

ResultApplied(f, result) ==
  IF ~Verified(result) /\ AccountingThrows(PolicyOf[f.objective], f)
  THEN OutcomeWritten(f, result)
  ELSE AttemptCleared(OutcomeWritten(f, result))

(* executeAdmittedRemediation from the bridge's answer on.                 *)
BridgeReturns(f, result) ==
  /\ Serving
  /\ flights' = flights \ {f}
  /\ obj' = IF Stale(f) THEN obj
            ELSE [obj EXCEPT ![f.objective] = ResultApplied(f, result)]
  /\ UNCHANGED <<lane, safeMode, gateSafeMode, running>>

(* The catch block of executeAdmittedRemediation: no stale check.  Without *)
(* LateErrors an execution raises only while it holds its lease, as        *)
(* ChatActionBridge does, which catches everything after its first wait.   *)
ExecutionRaises(f) ==
  /\ Serving
  /\ LateErrors \/ HoldsLease(f)
  /\ flights' = flights \ {f}
  /\ obj' = [obj EXCEPT ![f.objective] = AttemptFailed(@, PolicyOf[f.objective], f)]
  /\ UNCHANGED <<lane, safeMode, gateSafeMode, running>>

-----------------------------------------------------------------------------
(* Watchdog                                                                *)

(* Mutant: the scan does not ask for reconciling objectives.               *)
LeaseExpiredAnyStatus(r) == r.enabled /\ r.attempt # 0 /\ r.deadline = 0

LeaseExpired(r) ==
  r.enabled /\ r.status = "reconciling" /\ r.attempt # 0 /\ r.deadline = 0

(* Mutant: an attempt asked to cancel is never forced to end.              *)
WatchdogOnlyCancels(r) == LeaseExpired(r) /\ ~r.cancelling

(* An expired lease within its grace period is left alone.                 *)
WatchdogActs(r) == LeaseExpired(r) /\ (r.cancelling => r.grace = 0)

HandleExpiredLease(r) == IF r.cancelling THEN TimedOut(r) ELSE CancelRequested(r)

Swept == [o \in Objectives |->
            IF WatchdogActs(obj[o]) THEN HandleExpiredLease(obj[o]) ELSE obj[o]]

WatchdogTick ==
  /\ Serving
  /\ \E o \in Objectives : WatchdogActs(obj[o])
  /\ obj' = Swept
  /\ UNCHANGED <<lane, flights, safeMode, gateSafeMode, running>>

-----------------------------------------------------------------------------
(* Operator                                                                *)

SetManualHold(o) ==
  /\ Serving /\ "hold" \in Operations
  /\ obj' = [obj EXCEPT ![o].hold = ~@]
  /\ UNCHANGED <<lane, flights, safeMode, gateSafeMode, running>>

SetEnabled(o) ==
  /\ Serving /\ "enable" \in Operations
  /\ obj' = [obj EXCEPT ![o].enabled = ~@]
  /\ UNCHANGED <<lane, flights, safeMode, gateSafeMode, running>>

(* The gate resets from any status; ResetFrom is what the operator does.   *)
ManualReset(o) ==
  /\ Serving /\ "reset" \in Operations
  /\ obj[o].status \in ResetFrom
  /\ obj' = [obj EXCEPT ![o] = ManuallyReset(@, PolicyOf[o])]
  /\ UNCHANGED <<lane, flights, safeMode, gateSafeMode, running>>

(* StateGraph.enableSafeMode and disableSafeMode.                          *)
SwitchSafeMode ==
  /\ Serving /\ "safe_mode" \in Operations
  /\ safeMode' = ~safeMode
  /\ UNCHANGED <<obj, lane, flights, gateSafeMode, running>>

(* ReconciliationGate.enableSafeMode and disableSafeMode.                  *)
SwitchGateSafeMode ==
  /\ Serving /\ "gate_safe_mode" \in Operations
  /\ gateSafeMode' = ~gateSafeMode
  /\ UNCHANGED <<obj, lane, flights, safeMode, running>>

-----------------------------------------------------------------------------
(* Crash, restart and time                                                 *)

Lost ==
  /\ running'= FALSE
  /\ lane' = [e \in Evaluators |-> IdleLane]
  /\ flights' = {}
  /\ gateSafeMode' = FALSE
  /\ UNCHANGED safeMode

(* Between an admission and the start of its execution the database        *)
(* already says reconciling, and nothing else does.                        *)
Crash ==
  /\ running
  /\ IF \A e \in Evaluators : lane[e].pc # "admitted"
     THEN "crash" \in Operations
     ELSE "crash_before_lease" \in Operations
  /\ Lost
  /\ UNCHANGED obj

(* A result is applied, and an expired lease ended, by several updates,    *)
(* each a transaction of its own: the states a crash leaves between them.  *)
PartlyApplied(f, result) == {ResultRecorded(obj[f.objective]), OutcomeWritten(f, result)}

PartlyTimedOut(r) ==
  {ForceTerminated(r), FailureAccounted(ForceTerminated(r), DefaultPolicy, r)}

CrashInResult(f, result) ==
  /\ Serving /\ "crash_in_handler" \in Operations
  /\ ~Stale(f)
  /\ \E r \in PartlyApplied(f, result) : obj' = [obj EXCEPT ![f.objective] = r]
  /\ Lost

(* The watchdog has dealt with the objectives in done before it crashes    *)
(* while it ends the lease of o.                                           *)
CrashInWatchdog(o) ==
  /\ Serving /\ "crash_in_handler" \in Operations
  /\ WatchdogActs(obj[o]) /\ obj[o].cancelling
  /\ \E done \in SUBSET (Objectives \ {o}), r \in PartlyTimedOut(obj[o]) :
       obj' = [p \in Objectives |-> IF p = o THEN r
                                    ELSE IF p \in done THEN Swept[p] ELSE obj[p]]
  /\ Lost

(* startWatchdog begins with startupSweep, which handles expired leases as *)
(* a tick does.                                                            *)
Restart ==
  /\ ~running
  /\ running' = TRUE
  /\ obj' = Swept
  /\ UNCHANGED <<lane, flights, safeMode, gateSafeMode>>

(* Mutant: time left runs below zero.                                      *)
OneLessUnbounded(n) == n - 1

OneLess(n) == IF n = 0 THEN 0 ELSE n - 1

Aged(r) == [r EXCEPT !.cooldown = OneLess(@), !.deadline = OneLess(@), !.grace = OneLess(@)]

Tick ==
  /\ EventLoopFree
  /\ \E o \in Objectives : Aged(obj[o]) # obj[o]
  /\ obj' = [o \in Objectives |-> Aged(obj[o])]
  /\ UNCHANGED <<lane, flights, safeMode, gateSafeMode, running>>

-----------------------------------------------------------------------------
EvaluatorStep ==
  \E e \in Evaluators :
    \/ \E o \in Objectives : EvaluatorRead(e, o)
    \/ EvaluatorResume(e)

TriggerStep ==
  \E e \in Evaluators, environment \in StartEnvironments : StartExecution(e, environment)

ExecutionStep ==
  \E f \in flights :
    \/ \E result \in Results : BridgeReturns(f, result)
    \/ ExecutionRaises(f)

OperatorStep ==
  \/ \E o \in Objectives : SetManualHold(o) \/ SetEnabled(o) \/ ManualReset(o)
  \/ SwitchSafeMode
  \/ SwitchGateSafeMode

CrashStep ==
  \/ Crash
  \/ \E f \in flights, result \in Results : CrashInResult(f, result)
  \/ \E o \in Objectives : CrashInWatchdog(o)

Next ==
  \/ EvaluatorStep
  \/ TriggerStep
  \/ ExecutionStep
  \/ WatchdogTick
  \/ OperatorStep
  \/ CrashStep
  \/ Restart
  \/ Tick

Spec == Init /\ [][Next]_vars

(* The watchdog's interval timer and the passing of time go on, promises   *)
(* that are settled are resumed, and a crashed process is started again.   *)
(* Nothing is assumed of the bridge, the observers or the operator.        *)
Fairness ==
  /\ WF_vars(Tick)
  /\ WF_vars(WatchdogTick)
  /\ WF_vars(TriggerStep)
  /\ WF_vars(Restart)

FairSpec == Spec /\ Fairness

-----------------------------------------------------------------------------
(* Properties                                                              *)

(* Every variable holds what its declaration says.                         *)
TypeOK ==
  /\ obj \in [Objectives -> Row]
  /\ lane \in [Evaluators -> Lane]
  /\ flights \subseteq Flight
  /\ safeMode \in BOOLEAN
  /\ gateSafeMode \in BOOLEAN
  /\ running \in BOOLEAN

(* One admission accounts for at most one failure, whoever reports it (the *)
(* bridge's result, its exception, the watchdog, or the watchdog after a   *)
(* crash): total_failures never exceeds the number of admissions, and      *)
(* while an objective is reconciling its failure is still to come.         *)
FailuresCountedOnce ==
  \A o \in Objectives :
    /\ obj[o].consecutive <= obj[o].total
    /\ obj[o].total <= obj[o].generation
    /\ obj[o].status = "reconciling" => obj[o].total < obj[o].generation

(* The trigger writes counters computed from the objective it read before  *)
(* the bridge ran.  Whenever its result would still be accepted, those     *)
(* captured counters are the current ones, so no update is lost.           *)
SnapshotsCurrent ==
  \A f \in flights :
    ~Stale(f) =>
      /\ obj[f.objective].status = "reconciling"
      /\ obj[f.objective].consecutive = f.consecutive
      /\ obj[f.objective].total = f.total

(* The breaker limits remediation: an objective whose policy sets          *)
(* max_consecutive_failures never fails more often than that in a row.     *)
BreakerLimitsFailures ==
  \A o \in Objectives :
    PolicyOf[o] # NoPolicy /\ PolicyOf[o].maxConsecutive # 0
      => obj[o].consecutive <= PolicyOf[o].maxConsecutive

(* The failure counts after which a declared policy with a cap would wait  *)
(* other than declared, once stored and read back.                         *)
WrongAfter ==
  {n \in 1..MaxGeneration : \E d \in Declarations :
     /\ d.mode # "unset" /\ d.cap # Undefined
     /\ CalculateCooldownDuration(Stored(d), n) # DeclaredBackoff(d, n)}

(* However often an objective has failed, any declared policy with a cap    *)
(* backs off then exactly as declared: storing and parsing loses nothing,  *)
(* and calculateCooldownDuration is the capped geometric, arithmetic or    *)
(* constant sequence.                                                      *)
BackoffAsDeclared == \A o \in Objectives : obj[o].consecutive \notin WrongAfter

(* The gate's safety check expects an objective with exhausted failures to *)
(* be degraded already ("Should be in degraded state"): none is left in a  *)
(* status that only the gate's refusal keeps from retrying.                *)
ExhaustedIsDegraded ==
  \A o \in Objectives :
    MaxFailuresReached(PolicyOf[o], obj[o].consecutive) => obj[o].status = "degraded"

(* The loop implements the circuit breaker it is meant to be.              *)
Breakers == INSTANCE CircuitBreaker WITH
  breaker <- [o \in Objectives |->
                [status |-> obj[o].status, generation |-> obj[o].generation,
                 consecutive |-> obj[o].consecutive, total |-> obj[o].total]]

(* Every behaviour of the loop, its races, crashes and late results        *)
(* included, is one the abstract breaker allows: one settlement for each   *)
(* admission, counted as the objective's policy says.                      *)
ImplementsBreaker == Breakers!Spec

(* Nothing but the operator takes an objective out of degraded.            *)
DegradedNeedsOperator ==
  [][\A o \in Objectives :
       obj[o].status = "degraded" /\ obj'[o].status # "degraded" => ManualReset(o)]_vars

(* "Only verification may close reconciling -> idle": it is closed by the  *)
(* return of the execution that holds the objective's lease, never by a    *)
(* stale result, an evaluator or a restart.                                *)
ClosedByItsExecution ==
  [][\A o \in Objectives :
       obj[o].status = "reconciling" /\ obj'[o].status = "idle"
         => \E f \in flights \ flights' : f.objective = o /\ HoldsLease(f)]_vars

(* Single flight: however evaluations overlap, no admission is granted     *)
(* while an execution holds the objective's lease or an earlier admission  *)
(* is still on its way to the trigger.                                     *)
SingleFlight ==
  [][\A o \in Objectives :
       obj'[o].generation # obj[o].generation =>
         /\ \A f \in flights : f.objective = o => ~HoldsLease(f)
         /\ \A e \in Evaluators :
              ~(/\ lane[e].pc = "admitted" /\ lane[e].target = o
                /\ lane[e].generation = obj[o].generation)]_vars

(* No admission while the cooldown it should wait for is running.          *)
CooldownRespected ==
  [][\A o \in Objectives :
       obj'[o].generation # obj[o].generation => obj[o].cooldown = 0]_vars

(* A result is ignored only after a timeout of its attempt or a change of  *)
(* generation: one that still holds its lease has an effect.               *)
CurrentResultsCount ==
  [][\A f \in flights \ flights' :
       running' /\ HoldsLease(f) => obj'[f.objective] # obj[f.objective]]_vars

(* Admission grants bounded authority in time: reconciling always ends.    *)
ReconcilingEnds ==
  \A o \in Objectives : obj[o].status = "reconciling" ~> obj[o].status # "reconciling"

(* What retries need of their environment: a scheduler that keeps          *)
(* evaluating, observers that answer and a process that crashes no more.   *)
KeepsEvaluating == WF_vars(EvaluatorStep) /\ <>[]running

(* Cooldown is a pause: while evaluations go on an objective in cooldown   *)
(* recovers, retries or is degraded (as long as the instance allows        *)
(* another admission).                                                     *)
CooldownEnds ==
  KeepsEvaluating =>
    \A o \in Objectives :
      obj[o].status = "cooldown" /\ obj[o].generation < MaxGeneration
        ~> obj[o].status # "cooldown"

-----------------------------------------------------------------------------
(* Why the counters are right.  The parts of the inductive invariant, for  *)
(* an instance whose evaluations overlap only while no objective recovers  *)
(* passively, whose operator does not reset an objective in flight and     *)
(* whose executions raise no late errors.                                  *)

Careful ==
  /\ TRUE \in Observations => \A d, e \in Evaluators : d = e
  /\ "reconciling" \notin ResetFrom
  /\ ~LateErrors

(* A row's counters leave room for the failure of the current attempt.     *)
SoundRow(r) ==
  /\ r.consecutive <= r.total
  /\ r.total <= r.generation
  /\ r.status = "reconciling" => r.total < r.generation
  /\ r.attempt <= r.generation
  /\ r.generation <= MaxGeneration

(* The execution that holds a lease runs for a reconciling objective whose *)
(* counters have not moved since; generations were handed out in order.    *)
SoundFlight(f) ==
  /\ 1 <= f.generation
  /\ f.generation <= obj[f.objective].generation
  /\ HoldsLease(f) =>
       /\ obj[f.objective].status = "reconciling"
       /\ obj[f.objective].consecutive = f.consecutive
       /\ obj[f.objective].total = f.total

(* Where an observation may find an objective healthy nobody else admits   *)
(* it meanwhile, nor degrades it if it was in cooldown.  The current       *)
(* generation has no execution before its trigger starts it.               *)
SoundLane(l) ==
  /\ l.pc = "observing" /\ TRUE \in Observations =>
       /\ obj[l.target].status # "reconciling"
       /\ l.seen = "cooldown" => obj[l.target].status \in {"idle", "cooldown"}
  /\ l.pc = "admitted" =>
       /\ l.generation \in 1..obj[l.target].generation
       /\ l.generation = obj[l.target].generation =>
            \A f \in flights : f.objective = l.target => f.generation < l.generation

(* No two evaluators are admitted with one generation of an objective.     *)
OneAdmittance ==
  \A d, e \in Evaluators :
    /\ lane[d].pc = "admitted" /\ lane[e].pc = "admitted"
    /\ lane[d].target = lane[e].target /\ lane[d].generation = lane[e].generation
    => d = e

IndInv ==
  /\ TypeOK
  /\ \A o \in Objectives : SoundRow(obj[o])
  /\ \A f \in flights : SoundFlight(f)
  /\ \A e \in Evaluators : SoundLane(lane[e])
  /\ OneAdmittance
=============================================================================
