# Vienna OS: formal models of the control plane

TLA+ models of `vienna-lib`, the JavaScript library behind Vienna OS, checked
with TLC and, for what matters most, proved with TLAPS. Vienna OS keeps *managed
objectives* (a service that must be healthy, say) true by observing them,
admitting remediations through a gate, executing remediation plans under a time
limit and counting failures in a circuit breaker; around that sit intents,
plans, approvals, warrants, queues and locks.

## 1. Inventory

Paths are relative to `src/vienna-lib/`.

| Part | State it keeps | Operations | Talks to |
|---|---|---|---|
| Failure policies (`core/failure-policy-schema.js`, `state/state-graph.js`) | rows of `failure_policies` | validate, store, parse, cooldown duration, degraded threshold, reset rules | read by gate, trigger, watchdog |
| Reconciliation state machine (`core/reconciliation-state-machine.js`) | none | transition table, eligibility | gate, evaluator |
| Reconciliation gate (`core/reconciliation-gate.js`) | in-memory safe mode | request admission, admit, manual reset, safe mode | writes the objective row |
| Objective evaluator (`core/objective-evaluator-integrated.js`) | none across calls | read, observe (wait), passive recovery or admission | gate, observers |
| Remediation trigger (`core/remediation-trigger-integrated.js`) | the closure of a running execution | preconditions, lease, run plan (wait), stale test, accounting, recovery | bridge, objective row |
| Execution watchdog (`core/execution-watchdog.js`) | timer | tick: cancel, then force; startup sweep | objective row |
| Coordinator and scheduler (`core/objective-coordinator-integrated.js`) | timer | evaluation cycles | evaluator, trigger |
| State graph (`state/state-graph.js`) | SQLite tables | rows, ledger, safe mode context | everything |
| Durable queue (`queue/*.ts`) | `queue_items`, leases, claims, workers | schedule, lease, claim, expire, abandon, recover, supersede, wake | governance re-entry |
| Execution queue (`execution/execution-queue.js`, `queued-executor.js`, `dead-letter-queue.js`, `retry-policy.js`, `core/crash-recovery-manager.js`) | map, FIFO, cached results, dead letters, two append-only files | submit under backpressure, execute, time out, retry, dead-letter, requeue, cancel, pause, clean up, reload, recover orphans | executor |
| Provider health (`core/provider-health-manager.js`, `provider-health-bridge.js`, `runtime-modes.js`) | a health record per provider, the runtime mode | scan, reconcile at start, record results, quarantine, recover, derive or force the mode | providers, gateway |
| Endpoint instructions (`core/instruction-queue.js`, `endpoint-manager.js`, `openclaw-bridge.js`) | `endpoint_instructions`, a directory of files | dispatch, poll, give up; list, handle, answer | the agent process, through files |
| Execution locks (`execution/execution-lock-manager.js`) | `execution_locks` | acquire, release, expire (extend: never called) | plan execution |
| Distributed execution (`distributed/`) | nodes, locks, dispatches | register, heartbeat, dispatch, retry | remote nodes |
| Plan execution (`core/plan-execution-engine.js`) | step states, held locks | run steps, retry, time out, stop for approval | locks, approvals, executor |
| Approvals (`core/approval-manager.js`) | `approvals` | create, approve, deny, expire, sweep | plan execution |
| Warrants (`governance/warrant.js`) | warrants | issue, verify, scope, invalidate | executor |
| Intent gateway, plan pipeline (`core/intent-gateway.js`, `core/plan-model.js`) | intents, plans | submit, validate, plan, decide | policy engine, approvals |
| Rate limits, quotas, budgets | windows, counters | admit, record | executor |
| Everything else | catalogues, views, adapters | | |

What makes each part correct, and what is hard about it:

* **Policies**: the backoff follows the declared formula; nothing is lost
  between declaring, storing and reading. Hard: absent numbers become SQL NULL
  and then zero.
* **Gate and evaluator**: one admission at a time, none while cooling down,
  degraded, held or in safe mode. Hard: the observation is awaited between
  reading and acting.
* **Trigger**: one settlement per admission, computed from current counters;
  only verification closes an attempt. Hard: the plan runs for minutes between
  the read and the write, and the watchdog, the operator and crashes act
  meanwhile.
* **Watchdog**: every lease ends; an expired one is counted once. Hard:
  crashes between its writes, results that race it.
* **Durable queue**: an item is executed at most once, what is decided stays
  decided. Hard: cycles that overlap because the timer does not wait for the
  last one, leases that run out under a running worker, recovery that judges
  from rows read one wait ago, exceptions of one cycle handled on the item of
  another.
* **Execution queue**: slots are given back, what was acknowledged survives, what
  completed is not run again, what is queued is served. Hard: appends that fail
  or land in another order, the file rewritten while lines are appended, dead
  letters requeued in two steps, crashes during recovery.
  (At this commit every admission cleans the rate limiter's windows first, and
  `_cleanupWindows` calls `filter` on a `SlidingWindow`, which has none:
  `execution/rate-limiter.js:218`.)
* **Locks**: one holder per target; only the holder ends a lock with time left.
  Hard: waits between cleanup, check and insertion; expiry under a running
  holder.
* **Plan execution**: no step before its dependencies and its approval; what is
  worked on is locked; locks released however a step ends. Hard: timeouts that
  leave the action running, plans that take the same targets crosswise.
* **Provider health**: quarantine follows the failures and ends only when due;
  the mode follows the providers. Hard: probes that answer after the state they
  asked about has changed, scans that overlap.
* **Endpoint instructions**: nothing begins for a caller who has given up, what
  is awaited is handled. Hard: two processes share files without a lock and may
  read them half-written; a crash leaves files nobody owns.
* **Approvals**: a decision is final. Hard: races between operators and sweep.
* **Warrants**: nothing runs outside scope or time.

## 2. What is modelled

| Module | Models |
|---|---|
| `FailurePolicy` | policies as records, with 0 for an absent number; validation, storage, backoff, thresholds, resets |
| `ReconciliationStateMachine` | statuses, the transition table, eligibility, the comparison of clocks |
| `Reconciliation` | the control loop: evaluators, gate, trigger, executions in flight, watchdog, operator, crashes, time |
| `CircuitBreaker` | abstract specification: what the loop promises of one objective's breaker |
| `ExecutionLocks` | the lock table, and what each statement of the lock manager does to it |
| `PlanExecution` | plans executing side by side over that table: steps, locks, approval stops, attempts, timers, retries, crashes |
| `ExecutionQueue` | entries of the execution queue, its FIFO, capacity, duplicates, what a reload makes of the file |
| `QueuedExecutor` | the executor's loop over that queue, its callers, dead letters, files, crashes and crash recovery |
| `QueueScheduling` | the durable queue: transitions, leases, claims, overlapping scheduler cycles, detection and recovery |
| `ProviderHealth` | health records, scans, quarantine, the gateway and the runtime mode |
| `EndpointInstructions` | Vienna and the agent over the files they share |
| `ReconciliationProofs`, `PlanExecutionProofs`, `PlanLeakProofs`, `PlanWorkProofs`, `QueuedExecutorProofs`, `QueueSchedulingProofs`, `ProviderHealthProofs`, `EndpointInstructionsProofs` | theorems about the module each is named for (the three on plans build on each other) |
| `MCReconciliation`, `MCPlanExecution`, `MCQueuedExecutor`, `MCQueueScheduling`, `MCProviderHealth`, `MCEndpointInstructions` | instances for TLC |

The components do not call each other in ways that one could get wrong without
getting it wrong alone: the trigger sees plans as results, the plan engine sees
approvals as resolutions, the queues hand envelopes to an executor that answers
or does not. So each model composes the files that share state (the gate with
the trigger and the watchdog, the engine with the lock table, the executor with
its queue and its files, the scheduler with leases, claims and recovery), and
takes the neighbours as inputs.

### The reconciliation loop

State and code:

| Variable | Code |
|---|---|
| `obj[o]` | the row of `managed_objectives`: status, generation, `consecutive_failures`, `total_failures`, cooldown, hold, enabled, attempt, deadline, `cancel_requested_at`, `last_terminal_reason` |
| `lane[e]` | one call of `evaluateObjective`, at its wait for the observation, or between the admission and the trigger |
| `flights` | executions waiting for the bridge, with what their closures captured |
| `safeMode`, `gateSafeMode` | the persisted safe mode; the gate's own, lost at a crash |
| `running` | whether the process is up |

Actions: `EvaluatorRead`, `EvaluatorResume` (evaluator and gate),
`StartExecution`, `BridgeReturns`, `ExecutionRaises` (trigger), `WatchdogTick`,
`SetManualHold`, `SetEnabled`, `ManualReset`, `SwitchSafeMode`,
`SwitchGateSafeMode` (operator), `Crash`, `CrashInResult`, `CrashInWatchdog`,
`Restart`, `Tick`.

Choices made:

* **Atomicity.** Node.js runs a handler to its next wait for I/O, and the SQLite
  driver is synchronous: what lies between two such waits is one action. A wait
  for a settled promise lets only other settled promises run, and the handlers
  concerned do not touch each other's objectives there. A crash can hit between
  two updates of one handler: `CrashInResult` and `CrashInWatchdog` leave the
  states in between. `RunToCompletion = FALSE` further lets anything happen
  between an admission and its start, which covers a second process on the same
  database.
* **Time** is relative: `cooldown`, `deadline` and `grace` hold what is left of
  them, and `Tick` lets a unit pass. An expired deadline and a passed one are
  the same thing to the code.
* **Attempt ids** are random strings in the code, fresh for each lease. Each
  admission gets at most one lease, so its generation serves as the id.
* **Observations, results and the trigger's environment** are inputs, all their
  combinations that the trigger tells apart.
* **Policies.** The trigger and the gate use the objective's policy; the
  watchdog and the lease always use the default one, as in the code.
* **The evaluator has a gate**, as in the integration tests. The coordinator
  constructs it without one (`core/objective-coordinator-integrated.js:173`), in
  which case a drift raises and nothing happens.
* `startWatchdog` is called by the embedding server. The columns that the 10.3
  migration adds are assumed to be there.
* Left out: attempt counts (recorded, limited by nothing), history and ledger
  entries, error texts, archived and suspended objectives (skipped exactly as
  disabled ones).

### The abstract breaker

`CircuitBreaker` knows nothing of evaluators, leases, time, crashes or late
results. An admission opens a generation; a generation is settled once, by a
counted failure (cooldown or degraded, as the policy says), by a recovery or by
giving up for want of a plan; a reset leads back to idle. `ImplementsBreaker`
says that the loop, seen through status, generation and the two counters, does
nothing else. A watchdog tick may settle several objectives, so the abstract
step moves any set of them.

### Plan execution and its locks

| Variable | Code |
|---|---|
| `locks` | the table `execution_locks`; a position in it is a lock_id, `left` is what `expires_at` leaves |
| `run[e]` | one call of `executePlan`: its `PlanExecutionContext` (`states`, `held` for `acquiredLocks`), the local variables of `_acquireStepLocks` and `acquireLock` (`got`, `todo`, `stale`, `found`), its timer (`due`), and where it waits (`pc`) |
| `actions` | the actions the executor is running, awaited or not |
| `crashes` | how often the process has crashed |

The labels of `pc` are the places where the engine waits. Acquiring a lock takes
four actions, for the waits inside `acquireLock`: `ReadStale` and `MarkStale`
(`expireStaleLocks`), `LookUp` (`getActiveLock`), `Decide` (deny, grant again, or
insert). `Rollback` and `ReleaseStepLocks` release one lock each. `BeginStep`
tests dependencies and condition, `Approve` is the approval stop, `Attempt`,
`ActionReturns`, `ActionRaises`, `TimesOut`, `VerificationEnds` and `WakeUp` are
the retry loop. `StrayEnds` ends an action whose timer has won.

Choices made:

* **Time** is relative, as in the loop above. SQLite is synchronous and the waits
  between its statements are for settled promises, so little time passes there:
  `Slack` bounds what a step spends outside its waits for actions and retries.
* **Approvals** are what `_checkApprovalResolution` finds: `granted` or
  `refused`, for an approval manager that is handed in. With the repository's
  own `ApprovalManager` every approval resolves as malformed, hence refused,
  because its rows carry `required_tier` where
  `core/approval-resolution-handler.js` reads `tier`.
* **The ledger.** With `Ledger = TRUE` the engine has a stateGraph, and the events
  it writes about approvals raise, because `appendLedgerEvent` does not know
  the stage `approval` (`state/state-graph.js:1835`). Events of the stage
  `execution` raise nothing and are left out.
* **Conditions.** One without a reference step, or a custom one without an
  expression, is `always`. A custom expression looks into a step's result, so it
  may be met only once that step has one.
* **Failure strategies**: only `abort` throws; the others, fallback and escalate
  included, only log, and are `continue`.
* Left out: retry delays that grow (`linear`, `exponential`), attestations and
  learning records, target types, an action that is missing altogether (it
  answers at once).

### The execution queue and its executor

| Variable | Code |
|---|---|
| `queue`, `fifo`, `results` | `ExecutionQueue`'s map (state and retry count of each entry) and `fifo`; `executionResults`, which marks what has been executed |
| `file`, `dlq`, `dlqFile` | the last line of each envelope in the queue's file; the dead letters in memory and in their file |
| `executing`, `current` | the executor's flag and `currentExecutions` |
| `loop[l]` | one callback of `_triggerExecution` and where it waits |
| `call[c]` | a `submit`, `requeueDeadLetter` or `cancelDeadLetter` that has not returned |
| `rebuild` | `clearCompleted`, whose rewrite empties the file before it fills it |
| `recovering`, `orphans` | executions found at a start: those recovery will handle, those judged too young |
| `timers`, `overdue`, `starts`, `acked`, `paused` | retry timers, executors still running after their timeout, and what the properties remember |

A step is the code between two waits: `Begin` (find, mark in memory), `Execute`
(its line has landed, the executor starts), `Succeed`, `Fail`, `TimeOut`,
`TimeoutHandled`, `LateAnswer`, `Completed`, `ScheduleRetry`, `DeadLetter`,
`Buried`; `Submit`, `WaitEnds`, `Enqueued`, `Requeue`, `Requeued`, `Cancel`,
`Cancelled`; `LineFails` and `CallFails` for an append that throws; `Cleanup` and
`Rebuild`; `Crash`, which loads the files, and one action for each way
`recoverOrphanedEnvelope` may go. Lines of different flows land in any order,
and a reload may find any order of the entries' lines (`Orders`).

Choices made: crash recovery has the executor's dead letter queue; its alternative
without one, which marks the entry failed, is left out. An entry's line is the snapshot taken when the append was called,
not when it lands. A call refused by admission changes nothing and is left out
(rate limits, budgets), and so are logs, metrics and trackers. `Budget` bounds
what the environment does (calls, crashes, faults, cleanups, pauses). At this
commit admission itself throws, because `_cleanupWindows` calls a method its
windows lack (`execution/rate-limiter.js:218`); the model is of the executor
with that limiter not configured.

### The durable queue

| Variable | Code |
|---|---|
| `item[i]` | `queue_items`: state, the lease written into it, whether that is unexpired |
| `row[i]` | `queue_leases`: the ACTIVE row and who knows its id, and whether an EXPIRED and a RELEASED row exist |
| `claim[i]` | the one row of `execution_claims` |
| `cycle[c]` | a `runSchedulerCycle` with its item and its next statement |
| `watch[i]` | what recovery has read of the item |
| `runs[i]` | how often governance re-entry has begun |

`processQueueItem` is one action per awaited call: pick, lease, claim, mark the
claim started, mark RUNNING, enter governance, and for each outcome the marks
that follow, with the `catch` and the `finally`. Recovery reads (running items,
lease, claim) and acts in separate steps; the expiry detector, abandonment,
supersession and wake-up are actions of the environment.

Choices made: the retry state is never persisted, so the attempt number is 1 for
every claim and an item has one claim row. `UNIQUE(queue_item_id, status) ON
CONFLICT IGNORE` is modelled as what it does: the second EXPIRED or RELEASED mark
of an item is dropped and the row stays ACTIVE, and an insertion beside an ACTIVE
row is dropped while its caller believes it has the lease. Some names do not
resolve as written: `scheduler.ts` uses `ClaimManager` without importing it, the
expiry detector calls `this.recoveryManager`, which it never sets, and
`emitQueueLedgerEvent` raises. The model reads the names as the classes they
name, and lets recovery and every ledger event fail as well as succeed; it has
the code's behaviours among its own, so its safety properties hold of both
readings. It makes no liveness claim. `renewLease` is called by nothing, and the
worker registry only records.

### Provider health

| Variable | Code |
|---|---|
| `health[p]` | the record in `healthStates` and membership of `quarantined`; `until`, `cooldown` and `fresh` say whether a deadline is ahead |
| `scan[s]` | one `runHealthChecks`, or the `reconcileStateGraph` of the start: the provider it is at, and what it waits for |
| `mode`, `gateway` | the runtime mode, and `gatewayConnected` as the bridge last found it |
| `calm` | environment only: from now on whatever is asked is well |

Deadlines are booleans that may pass at any time, since the three durations are
options and nothing orders them. The failure counter saturates at the threshold.
`Report` is `recordSuccess` or `recordFailure` called by whoever used the
provider, at any time; it also stands for the answers of an overlapping scan in
the run, which has one, while the proofs are for any number. A mode may be
forced, and lasts until the next update. Timers' start and stop are left out, and
so are the capabilities listed with a mode (`updateMode` returns early when the
mode is unchanged, so that the lists may go stale).

### Endpoint instructions

| Variable | Code |
|---|---|
| `caller[i]` | `dispatchInstruction` and the poll of `openclaw-bridge.js` |
| `row[i]` | `status` in `endpoint_instructions` |
| `instruction[i]`, `answer[i]` | the two files: absent, torn (opened and not yet filled) or whole |
| `agent` | `processInstructions`: the listing it works through, and where it is |
| `crashes` | how often either process has crashed |

The two processes share a directory and no lock, so each access to a file that
the other could tell apart is a step, also where a process does not wait.
`cleanup` is called by nothing; the model has it as an action of somebody else.
The handler counts as begun when its file has been read.

## 3. Runs

Passing:

| Run | Instance | Shows |
|---|---|---|
| `loop_safety` | one objective, one evaluator, every operation, crash and environment, five generations, three strikes | `FailuresCountedOnce`, `SnapshotsCurrent`, `ExhaustedIsDegraded`, `DegradedNeedsOperator`, the refinement `ImplementsBreaker`; `BackoffAsDeclared` for every declarable policy with a cap over numbers up to 4, as failures grow |
| `loop_contended` | two evaluators, two drifting objectives: one keeps its counters across resets, one has a policy whose accounting throws | `BreakerLimitsFailures`, `SingleFlight`, `ClosedByItsExecution` |
| `loop_liveness` | fair; errors however late, resets, crashes once a lease is written | `ReconcilingEnds`; `CooldownEnds` while evaluations go on |
| `plan_locks` | fair; two plans of two steps that take two targets in opposite orders, with a retry, a refusable approval, a verification, conditions, both failure strategies, one crash | `WorkIsLocked`, `ExclusiveWork`, `RefusedByRival`, `NothingLeaked`, `OrderRespected`, `LiveLocksEndByOwner`, `PlansEnd` |
| `executor_process` | fair; one process, two envelopes, two callers that wait for room in a queue of one, a failed append, a cleanup, requeues, cancels, timeouts | `SlotsAccounted`, `CompletedIsNotRerun`, `AttemptsEnd`, `QueuedIsServed` |
| `executor_crash` | two envelopes, one caller, three crashes at any point, three pauses, recovery automatic or not at each start | `ExecutingIsOwned`, `QueuedIsReachable`, `AckedIsKept`, `RecoveryBounded` |
| `queue_leases` | one item, three overlapping cycles of two workers (2.1 million states) | `ExecutedOnce`, `RunningIsClaimed`, `OutcomeStays` |
| `provider_health` | fair; a remote and a local provider, one scan, reports at any time, the second failure quarantines | `ThresholdQuarantines`, `OpensWhenDue`, `Settles` |
| `instruction_files` | fair; three instructions, two files of a listing, one crash of either process | `NoLateStart`, `Served` |

Each also checks its module's `TypeOK` once. Violated, each a statement of a
comment that the code does not keep (the findings of `PROJECT.json` quote them):

| Run | Statement | What happens |
|---|---|---|
| `cooldown_ignored` | the coordinator never overrides a cooldown | `Date.now()` is compared with an ISO string, so cooldown is never "active" |
| `deaf_after_timeout` | results are ignored after a timeout or a change of generation | `last_terminal_reason` outlives the attempt it is about |
| `retry_never_happens` | a transient failure is retried | the entry stays FAILED, and the queue hands out QUEUED ones only |

The passing runs state their properties where the code keeps them. For the loop:
resets only while nothing is in flight (`ResetFrom`), executions that raise no
late errors (`LateErrors`, as ChatActionBridge guarantees), one evaluation of an
objective at a time where passive recovery is possible, policies that degrade no
later than they refuse. For plans, `Covered` says which work the locks are meant
to cover: steps whose attempts and delays fit into the lock's time
(`FitsItsLocks`, a buffer of 60 seconds in the code), in plans where no refused
step has left locks behind, since those are granted again without being
prolonged. The crashing instance of the executor has no clean-ups. `ExclusiveWork` speaks of the actions that are waited for. `Served`
exempts what abandoned files keep from the agent's listing (`Abandoned`), and the
instructions are finitely many: with arrivals without end, files of lower names
could overtake one for ever.

### Limits of the code that show in the models

The control loop:

* An absent `max_seconds` is stored as NULL, and `duration > null` then cuts every
  cooldown to nothing (`failure-policy-schema.js:191`): `Capped` has it, and
  `BackoffAsDeclared` needs a cap.
* Passive recovery acts on a status read before the observation was awaited
  (`objective-evaluator-integrated.js:196`): where observations may turn healthy
  between two evaluations, it closes an attempt that another has started, and
  `ClosedByItsExecution` fails.
* A manual reset leaves the lease of an execution in flight valid
  (`reconciliation-gate.js:437`); with `ResetFrom` wider, `ImplementsBreaker`
  fails.
* A crash between the admission and the lease leaves `reconciling` without a
  deadline, which neither the watchdog nor the startup sweep looks at
  (`remediation-trigger-integrated.js:480`). `loop_liveness` lets crashes happen
  anywhere else.
* `ChatActionBridge` reports success only inside `execution_result`, while the
  trigger asks the result itself (`remediation-trigger-integrated.js:588`). Such
  a result is accounted as a failure even if the verification achieved the
  objective.
* `handleExecutionFailure` in the trigger's catch block has no stale test
  (`remediation-trigger-integrated.js:673`). With `LateErrors = TRUE`,
  `FailuresCountedOnce` fails: an exception after the timeout writes counters
  captured before it.
* A policy that refuses (`max_consecutive_failures`) before it degrades leaves
  the objective in cooldown with every admission denied; `ExhaustedIsDegraded`
  needs `degradeAfter` to be set and no larger.
* The watchdog judges a timeout by the default policy
  (`execution-watchdog.js:58`), not by the objective's own: where the two
  degrade after different counts, a timeout moves the breaker otherwise than the
  policy says, and `ImplementsBreaker` and `ExhaustedIsDegraded` fail.
* A crash that cuts a result's handler short leaves `active_attempt_id` beside a
  status that admits again. The next admission then reconciles under the deadline
  of the old attempt; when it expires the watchdog puts the objective in cooldown,
  and another evaluator is admitted while the first is still on its way to the
  trigger. `SingleFlight` needs that admissions run to completion, or that no crash
  falls inside a handler.
* Forced termination is a marker (`execution-watchdog.js:46`), so the plan of a
  timed-out attempt may run beside its successor's: `SingleFlight` is about who
  holds the lease and the admission, not about what still runs.

Plans and locks:

* An action outlives its timeout, its plan's locks do not: two plans may work on
  one target although `execution-lock-manager.js:7` excludes it.
* A step whose approval is refused returns before the `try` whose `finally`
  releases its locks (`plan-execution-engine.js:426`). They stay until a later
  step of the plan releases everything, or expire. Its failure strategy is not
  asked either, so with `abort` the plan still goes on to its next step.
* An insertion that meets the unique index aborts the plan, where a conflict seen
  in time only blocks the step (`execution-lock-manager.js:84`). While no time
  passes in its step only a rival can bring that about (`RefusedByRival`); a lock
  that expires between the cleanup and the insertion does it too, one that a crash
  left behind included.
* The engine takes whatever the executor answers, and whatever the verification
  finds, for success; only exceptions fail an attempt.
The execution queue:

* After a permanent failure the loop ends, and queued entries wait until a call or
  a timer triggers it again; nothing triggers it after crash recovery.
  `QueuedIsServed` therefore promises service only until the loops are idle.
* `requeueDeadLetter` marks the letter requeued before it enqueues
  (`queued-executor.js:708`): refused by a full queue, or cut by a crash, the
  envelope is in neither place. Cancelling does not stop an execution, and a
  timeout does not stop the executor.
* Cached results are lost at a restart, so a completed envelope may be executed
  again: `CompletedIsNotRerun` is about results that are cached.
* The rewrite of a cleanup empties the file before it writes what it found in
  memory: a crash in between loses acknowledged envelopes, and so do the lines that
  land while it is under way. It may also put a line back as it was before its
  envelope was started, so that the start is forgotten: with cleanups nothing
  bounds the starts across crashes. `AckedIsKept` and `RecoveryBounded` fail where
  cleanups and crashes meet (one cleanup and one crash lose an envelope; one cleanup and three
  crashes start it once too often). A
  duplicate is acknowledged before the first line of its envelope has landed;
  `AckedIsKept` is about the one that stored it.
* A failed append inside the catch block loses its slot for good;
  `SlotsAccounted` counts them.
* An orphan judged too young stays EXECUTING until the next start.

The durable queue:

* Leases are not exclusive once a mark has been dropped, against
  `lease-manager.ts:42`; only the claim keeps an item from running twice.
* RETRY_SCHEDULED is never eligible. An item whose worker died before RUNNING is
  picked and refused again and again, and is the head that each cycle takes.
* Recovery may hand back an item whose claim it read as CLAIMED while its worker
  starts (`recovery-manager.ts:267` calls this safe); the worker's own statements
  then fail.
* The `catch` of a cycle fails the item or the claim of another one.

Provider health:

* A quarantined provider is reported `unknown`, so that the mode may be `normal`
  (`runtime-modes.js:8`); an expired quarantine counts as available before any
  probe; after a failed attempt to recover, the provider is probed again at once.
* A stale answer may end a newer quarantine: `OpensWhenDue` allows a healthy
  answer or a deadline, not that they belong together.
* A slow probe holds up the later providers of its scan.

Endpoint instructions:

* Every answer is recorded as `success`, an error too. An instruction is handled
  again and again until its caller polls, since only the caller removes it.
* A half-written result makes its caller fail while the instruction stays, and is
  handled for ever; so are those of a crashed caller. Sorted first, they may
  keep all others from the agent's listing (`slice(0, maxConcurrent)`), since
  nothing calls `cleanup`. Results that arrive after the timeout stay too.
* A handler that never ends blocks the agent. The status `timeout` of the schema
  is never written.

**Bounds.** In the loop, `Timeout = 2` and `Grace = 1` make expiry, cancellation
and the grace period distinct moments with room for a result before, between and
after them; policies are scaled the same way (a base of one unit, a cap at two so
that it bites). `MaxGeneration` bounds admissions: five in `loop_safety` is two
more than its policy needs to degrade, so that a reset and a new attempt fit
behind a degradation. Objectives interact through nothing but the watchdog's
sweep and the shared evaluator, hence two of them in one run and one elsewhere.
In `plan_locks` timeouts are one unit, `Buffer = 3` is the least that lets two
attempts fit their locks with `Slack = 1`, and a crashed execution's locks live
long enough to meet the other plan. Two executions and two targets are what a
crosswise acquisition needs. The executor has one loop that executes and one that
is scheduled meanwhile, hence two; two envelopes fill a queue of one and make
order visible; three crashes are one more than recovery's limit needs. In
`queue_leases` items meet only in the scheduler's choice, which any READY item may
win, hence one; two overlapping cycles of one worker and one of another worker
show every pair, and the third lets one come after a dropped mark. For
providers, two are needed for a mode to be between the extremes, and the second
failure quarantines, so that one degrades. Of three instructions, two fill a
listing and one may starve.

**Fairness.** In the loop `FairSpec` assumes that time passes and the watchdog's
interval timer fires (`setInterval`), that a settled promise is resumed
(`TriggerStep`) and that a crashed process is restarted. Nothing is assumed of
bridges, observers and operators: `ReconcilingEnds` holds although the bridge may
never answer. `CooldownEnds` has its further needs as a hypothesis
(`KeepsEvaluating`): evaluations go on, observers answer and the process at last
stays up. For plans, time passes and code that can run does (`WF` of
`EngineStep`); executors may never answer, so `PlansEnd` rests on the timers
alone. It says that plans end, not that they succeed. The executor's callbacks
run and its appends end (`setImmediate`, `fs.promises`), its timers fire; executors
may never answer there either. For providers, the interval timers fire and
probes answer: the SDK of the remote one has a timeout, and the local one is
asked with one of five seconds; `Settles` speaks of behaviours in which from some
moment on (`calm`) whatever is asked is well, and nobody forces a mode. For
instructions, both processes run, callers poll and handlers end; nothing is
assumed of `cleanup` nor of the callers' timeouts.

## 4. Proofs

All theorems are for every value of the constants under the assumptions that the
modules name. An invariant is seldom inductive; each proof is about the
strengthening that is, which was checked by TLC on the instance of its run
before it was proved.

**`ReconciliationProofs`** is about `Careful` instances: evaluations overlap only
where no observation finds an objective healthy, no reset hits an attempt in flight
and no execution raises late; without these the limits above are counterexamples.
It proves `TypeOK`, `FailuresCountedOnce` and `SnapshotsCurrent` from `IndInv`. A
result is counted from the counters its execution captured, so one has to know
that those are current whenever the result is accepted (`SnapshotsCurrent`), which
in turn needs that a lease is held only by the execution of the current generation
(`SoundFlight`), that no execution carries a generation before its trigger starts
it, that no two evaluators carry the same (`OneAdmittance`), and that nobody closes
an attempt on a stale reading (`SoundLane`). The proof goes in three layers: each
handler turns a sound row into a sound row (settling, half-settling after a crash,
ageing); moving rows calmly, that is without a new generation or a new lease, keeps
`IndInv` (`CalmStep`, `CrashStepSafe`); and then one lemma per action.

`StepMoves` then says what any step of the system may make of one objective: it is
admitted, leases, gives up, fails (judged by its own policy or by the default),
recovers, recovers passively, is reset, or keeps its core. From it follow

* `FailuresLimited` (`BreakerLimitsFailures`), because a reconciling objective has a
  failure in hand (`RowLimited`);
* `ExhaustedAreDegraded` (`ExhaustedIsDegraded`), where every policy degrades no
  later than it refuses and clears its counters on a manual reset (`DegradesInTime`;
  the default that judges timeouts included);
* the action properties `DegradedNeedsOperator` and `ClosedByItsExecution`;
* `OneFlight` (`SingleFlight`), where admissions run to completion or no crash falls
  inside a handler; the second case needs the further invariant that an attempt
  stands only while its objective reconciles in that generation, and that an
  admission on its way finds none (`Tidied`);
* `LoopImplementsBreaker`: every behaviour is one of `CircuitBreaker` under the
  mapping `AsBreakers`, where the default policy degrades when the objectives' own
  do (`OneThreshold`).

`BacksOffAsDeclared` needs no hypothesis: for every declarable policy with a cap and
every count of failures the closed formula over the stored policy is the backoff
declared step by step. Both sides are recursions over the count, so this is an
induction over data. The library's induction theorems take an operator, which the
provers cannot instantiate, but that the numbers are well-founded is stated about
sets (`NatLessThanWellFounded`, `WFMin`): the set of counts at which a claim fails
would have a least element (`Least`, `Induction`), and the functions defined by
recursion exist because their finite beginnings do (`Recursion`). `Math.pow` is
therefore a recursive function in `FailurePolicy`. The same lemmas show that every
stored policy with a cooldown mode yields a duration, which earlier was assumed.

**`PlanExecutionProofs`** proves the action property `LiveLocksEndByOwner` from
`LockInv`. The cleanup marks rows by lock_id without
looking at them again, so it has to be known that a row once read as stale has no
time left at any later moment (`StaleRowsStayStale`): time does not come back,
nothing prolongs a lock, and new rows get new ids. Almost all actions leave the
table alone (`CalmStep`) or only let rows decay (`DecayStep`); the insertion
is the one that needs the unique index (`OneActiveLock`, a part of `LockInv`).

It also proves `OrderRespected` from `OrderInv`, which adds that the
steps the engine has not reached are pending. Dependencies and references may
point anywhere in a plan, forwards too; but only what is no longer pending can
satisfy a step, so what satisfies it lies behind the engine, and what lies behind
is never touched again.

**`PlanLeakProofs`** proves `NothingLeaked` from `TidyInv`: every active row of an
execution is among the locks it is acquiring or among those it keeps, and those
are of the step it works on or of an earlier one that its approval stopped. The
table is shared, so most of the work is to say what other executions' steps
leave alone (`Spares`); then one lemma per action of the owner.

**`PlanWorkProofs`** proves `WorkIsLocked` and `ExclusiveWork` from `WorkInv`, which
compares two clocks: the time left of each lock of a step exceeds `Rest`, the time
the step may still take with all its attempts and delays. A lock is inserted with
that much (`FitsItsLocks`) and a tick takes one from both; a lock of its own that
an execution merely finds again is one it got for this same step, as no earlier
step was stopped with its locks. So nothing the work needs expires under it, and
with `OneActiveLock` no two executions work on a target at once.

The types of all its variables (`TypesHold`) come after that, since what an
execution has found or means to expire is typed by the rows of the table.

`RefusedByRival` follows from `RivalInv`: while no time passes in a step, a sweep
has selected every row that has expired, so none is left active once they are
marked (`Swept`), and nobody's step makes one expire (`Takes`); and where the
lookup found nothing, the live locks on the target are of others who came since
and have not crashed, as a crash would have ended the one that looked too
(`ByRivals`).

**`QueuedExecutorProofs`** proves `SlotsAccounted`, `ExecutingIsOwned` and
`CompletedIsNotRerun` from `ExecutorInv`: one loop at most is busy and only under
the flag, the counter counts, an attempt is of an entry that executes, the line
being marked is fresh, and nothing moves while recovery is under way (`Quiet`).
Lemmas about single variables (`LoopChanges`, `EntryChanges`, `LineChanges`,
`CallChanges`, `FifoChanges`: by which steps, and to what) then carry four more
results:

* `TypesHold`. An envelope may stand in the FIFO more than once; that taking it out
  leaves a sequence of envelopes is shown by counting the others
  (`WithoutListed`). The provers cannot look into `SelectSeq`, so `Without` in
  `ExecutionQueue` is defined by ranks; TLC found both equal on all short sequences.
* `Reachable` (`QueuedIsReachable`), from: a completion still to be written has its
  result cached (`AnswersCached`), so an entry that is taken out while it is queued
  again is one whose result is cached.
* `AckedStay` (`AckedIsKept`), where the budget has no cleanups or no crashes
  (`OneKindSpared`; the limits above say why). A started envelope is
  exempt, so it has to be known that whoever is running, completing, failing or
  cached was started (`KeptInv`), and that the line of what was acknowledged stays
  on file.
* `RecoveryEnds` (`RecoveryBounded`), without cleanups. The starts of an envelope are
  bounded by an amortised argument: each call pays for a share of
  `MaxRecoveryRetries + 2` starts, and `PaidFor` says that the starts so far, those
  the entry may still lead to (`Potential`: the greater of what its line on file and
  its entry in memory allow, or a whole share less one while its first line is under
  way), and a share for each caller that has yet to hand the envelope in, never
  exceed what was paid. A start uses one up (`StartUsed`), a crash goes back to the
  line, whose potential is no greater (`CrashGainsNothing`), a reset trades a retry for a start
  (`ResetUsed`), and an admission is covered by its call (`EveryonePays`). This
  needs that the line being marked is the entry (`LinesAreMarks`) and that what
  recovery has before it is in memory as on file (`RecoveringIsOnFile`).

**`QueueSchedulingProofs`** proves `TypeOK`, `ExecutedOnce`, `RunningIsClaimed` and
`OutcomeStays` for any number of items and cycles from `QueueInv`. Leases play no
part in it: a cycle that enters governance holds a claim that nobody else can
have started (`EnteringIsClaimed`, `EnteringAlone`), and an executed item's claim
is past the point where another cycle could start it (`ExecutedIsClaimed`).

**`ProviderHealthProofs`** proves `TypeOK`, `ThresholdQuarantines` and the action
property `OpensWhenDue` for any number of overlapping scans from `HealthInv`, whose
strengthening is that a scan stands at a provider (`ScansStandAtProviders`).

**`EndpointInstructionsProofs`** proves `TypeOK` and the action property
`NoLateStart` from `InstructionInv`: the file of a caller who has been answered or
has given up is gone (`Gone`), because only an unfinished dispatch writes one.

Model-checked only: liveness under fairness (`ReconcilingEnds`, `CooldownEnds`,
`PlansEnd`, `AttemptsEnd`, `QueuedIsServed`, `Settles`, `Served`), which needs
`ENABLED` and is out of the prover's reach. Every invariant and every action
property of the runs is proved, and so is the refinement, under the hypotheses
named above.

## 5. Plan

1. An abstract lock (at most one worker per target) that `PlanExecution`
   implements where `FitsItsLocks` holds.
2. An abstract queue (an acknowledged envelope is pending until it is completed,
   dead or cancelled) that `QueuedExecutor` implements while the process stays up.
3. `Approvals` with the sweep and resumption, once they can be requested;
   `Warrants` after them.
4. The coordinator's cycle, the ledger's projection.

## 6. Not modelled

* **Approvals and warrants.** At this commit no approval can be requested: the
  caller passes `tier` where `required_tier` is validated, and rows carry no
  `tier`. What an approval resolves to is an input of `PlanExecution`. Warrants
  follow approvals.
* **Distributed execution** (`distributed/`) calls `get`, `run` and `all` of a state
  graph that need not have them, falls back to variants in memory written for
  tests, and talks to a mock client of a node; there is no protocol to check yet.
* **The intent gateway and the plan pipeline** are a sequence of validations with
  one outcome per request; **verification probes, observers and executors** are
  inputs of the models.
* **Rate limits, quotas, budgets**: check and recording are two calls, and no
  promise about concurrent callers is stated anywhere.
* **The ledger and most tables** are plain storage that no modelled component reads
  back.
* **The legacy objective loop** is replaced by the gate-integrated modules.
* Heuristics (detection, learning, economics), catalogues and views (workspace,
  platform, compliance, simulation), and input and output (adapters, providers,
  SDKs, command parsing) have no state of their own that a step could corrupt.
  They are most of the repository's lines.
