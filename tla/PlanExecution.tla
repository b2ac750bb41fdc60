--------------------------- MODULE PlanExecution ---------------------------
(***************************************************************************)
(* Executions of multi-step plans side by side, each locking the targets   *)
(* of a step while it works on them: core/plan-execution-engine.js over    *)
(* the lock table of execution/execution-lock-manager.js.                  *)
(*                                                                         *)
(* The database calls are synchronous but most of them are awaited, so     *)
(* between any two of them the other executions may run.  One action below *)
(* is the code between two such waits.  Actions are run by an executor     *)
(* outside: an attempt waits for its answer or for its timer, and a timer  *)
(* that fires first leaves the action running.                             *)
(*                                                                         *)
(* Time is relative, as in Reconciliation: Tick lets one unit pass.  A     *)
(* timer fires before more time passes, and an execution spends at most    *)
(* Slack units of a step outside its waits for an action or for a retry.   *)
(***************************************************************************)
EXTENDS ExecutionLocks

CONSTANTS
  Plan,       \* the steps of each execution's plan
  Buffer,     \* _acquireStepLocks adds this to a step's timeout: 60 seconds
  Slack,      \* bound: time a step spends between its waits
  Ledger,     \* is the engine given a stateGraph, hence a ledger?
  Resolutions, \* what _checkApprovalResolution may find: granted, refused
  MaxCrashes  \* bound: how often the process crashes

Step == [targets : Seq(Targets), depends : SUBSET Nat,
         condition : [type : {"always", "if_succeeded", "if_failed", "custom"}, ref : Nat],
         approval : BOOLEAN, timeout : Nat \ {0}, attempts : Nat \ {0}, delay : Nat,
         verified : BOOLEAN, onFailure : {"abort", "continue"}]

ASSUME PlanAssumption ==
  \A e \in Executions :
    /\ Plan[e] \in Seq(Step)
    /\ Len(Plan[e]) > 0
    /\ \A i \in DOMAIN Plan[e] :
         Plan[e][i].condition.type # "always" => Plan[e][i].condition.ref \in DOMAIN Plan[e]

ASSUME TimeAssumption ==
  Buffer \in Nat /\ Slack \in Nat /\ MaxCrashes \in Nat

ASSUME ApprovalAssumption ==
  Ledger \in BOOLEAN /\ Resolutions \subseteq {"granted", "refused"}

VARIABLES
  locks,    \* the table execution_locks
  run,      \* each execution: its PlanExecutionContext and where it stands
  actions,  \* the actions the executor is running
  crashes   \* how often the process has crashed

vars == <<locks, run, actions, crashes>>

StepStatus == {"pending", "ready", "running", "retrying", "completed",
               "failed", "skipped", "blocked"}

(* The labels stand for the places where the engine waits.                 *)
Acquiring == {"sweep", "mark", "look", "decide"}
Labels == Acquiring \cup {"new", "next", "rollback", "approve", "attempt", "running",
                          "verify", "backoff", "release", "ended", "crashed"}

Outcomes == {"none", "success", "failed", "blocked", "partial", "aborted"}

Action(e, i, n) == [owner |-> e, step |-> i, attempt |-> n]

(* A PlanExecutionContext with every step pending, and the engine's local  *)
(* variables: the lock_ids this step has acquired (got), the targets it    *)
(* still needs, the rows it means to expire, the lock it found, the time   *)
(* left of its timer, whether it is about to throw.                        *)
Fresh(e) ==
  [pc |-> "new", step |-> 1,
   states |-> [i \in DOMAIN Plan[e] |-> [status |-> "pending", attempts |-> 0]],
   held |-> <<>>, got |-> <<>>, todo |-> <<>>, stale |-> {}, found |-> 0,
   due |-> 0, spent |-> 0, throws |-> FALSE, outcome |-> "none"]

Init ==
  /\ locks = <<>>
  /\ run = [e \in Executions |-> Fresh(e)]
  /\ actions = {}
  /\ crashes = 0

-----------------------------------------------------------------------------
(* Steps and their results                                                 *)

At(e, label) == run[e].pc = label
Here(e) == Plan[e][run[e].step]
Attempts(e) == run[e].states[run[e].step].attempts

Becomes(r, status) == [r EXCEPT !.states[r.step].status = status]

Continue(e, r) == run' = [run EXCEPT ![e] = r]

StatusOf(r, i) == r.states[i].status

(* areDependenciesSatisfied: a dependency the plan does not have is never  *)
(* satisfied.                                                              *)
DependenciesSatisfied(e) ==
  \A d \in Here(e).depends :
    d \in DOMAIN Plan[e] /\ StatusOf(run[e], d) \in {"completed", "skipped"}

(* Mutant: whatever has not been completed counts as failed.               *)
ConditionMayBeLoose(e, met) ==
  LET c == Here(e).condition
      ref == StatusOf(run[e], c.ref)
  IN CASE c.type = "always"       -> met
       [] c.type = "if_failed"    -> met <=> ref # "completed"
       [] OTHER                   -> met => ref = "completed"

(* isConditionMet.  A custom condition looks into the result of a step, so *)
(* it can only be met by a step that has one, and then may go either way.  *)
ConditionMayBe(e, met) ==
  LET c == Here(e).condition
      ref == StatusOf(run[e], c.ref)
  IN CASE c.type = "always"       -> met
       [] c.type = "if_succeeded" -> met <=> ref = "completed"
       [] c.type = "if_failed"    -> met <=> ref = "failed"
       [] c.type = "custom"       -> met => ref = "completed"

(* _determinePlanOutcome                                                   *)
OutcomeOf(r) ==
  LET seen == {r.states[i].status : i \in DOMAIN r.states}
  IN CASE "failed" \in seen                       -> "failed"
       [] "failed" \notin seen /\ "blocked" \in seen -> "blocked"
       [] seen \subseteq {"completed", "skipped"} -> "success"
       [] OTHER                                   -> "partial"

(* The loop of executePlan goes on to the next step, whatever became of    *)
(* this one; an exception leaves the loop.                                 *)
NextStep(e, r) ==
  IF r.step < Len(Plan[e])
    THEN [r EXCEPT !.pc = "next", !.step = @ + 1, !.spent = 0]
    ELSE [r EXCEPT !.pc = "ended", !.spent = 0, !.outcome = OutcomeOf(r)]

Throw(r) == [r EXCEPT !.pc = "ended", !.spent = 0, !.outcome = "aborted"]

(* Mutant: the release follows the retries instead of standing in finally. *)
ReleaseUnlessThrown(e, r) ==
  IF r.throws THEN Throw(r)
  ELSE IF Here(e).targets # <<>> THEN [r EXCEPT !.pc = "release"]
  ELSE NextStep(e, r)

(* The finally block of _executeStep, entered only when the step has       *)
(* targets to release.                                                     *)
Finally(e, r) ==
  IF Here(e).targets # <<>> THEN [r EXCEPT !.pc = "release"]
  ELSE IF r.throws THEN Throw(r)
  ELSE NextStep(e, r)

-----------------------------------------------------------------------------
(* The beginning of a step                                                 *)

Start(e) ==
  /\ At(e, "new")
  /\ Continue(e, [run[e] EXCEPT !.pc = "next"])
  /\ UNCHANGED <<locks, actions, crashes>>

(* _executeStep up to its locks: a step whose dependencies have not been   *)
(* satisfied is blocked, one whose condition is not met is skipped.        *)
BeginStep(e) ==
  /\ At(e, "next")
  /\ \/ /\ ~DependenciesSatisfied(e)
        /\ Continue(e, NextStep(e, Becomes(run[e], "blocked")))
     \/ /\ DependenciesSatisfied(e)
        /\ ConditionMayBe(e, FALSE)
        /\ Continue(e, NextStep(e, Becomes(run[e], "skipped")))
     \/ /\ DependenciesSatisfied(e)
        /\ ConditionMayBe(e, TRUE)
        /\ IF Here(e).targets = <<>>
             THEN Continue(e, [Becomes(run[e], "ready") EXCEPT !.pc = "approve"])
             ELSE Continue(e, [run[e] EXCEPT !.pc = "sweep", !.todo = Here(e).targets,
                                             !.got = <<>>, !.throws = FALSE])
  /\ UNCHANGED <<locks, actions, crashes>>

-----------------------------------------------------------------------------
(* _acquireStepLocks: acquireLock for one target after the other           *)

(* expireStaleLocks reads the rows that have expired ...                   *)
ReadStale(e) ==
  /\ At(e, "sweep")
  /\ Continue(e, [run[e] EXCEPT !.stale = StaleRows(locks),
                                !.pc = IF StaleRows(locks) = {} THEN "look" ELSE "mark"])
  /\ UNCHANGED <<locks, actions, crashes>>

(* ... and marks them.                                                     *)
MarkStale(e) ==
  /\ At(e, "mark")
  /\ locks' = MarkExpired(locks, run[e].stale)
  /\ Continue(e, [run[e] EXCEPT !.stale = {}, !.pc = "look"])
  /\ UNCHANGED <<actions, crashes>>

(* getActiveLock                                                           *)
LookUp(e) ==
  /\ At(e, "look")
  /\ LET live == LiveRows(locks, Head(run[e].todo))
     IN Continue(e, [run[e] EXCEPT !.found = IF live = {} THEN 0 ELSE CHOOSE l \in live : TRUE,
                                   !.pc = "decide"])
  /\ UNCHANGED <<locks, actions, crashes>>

(* The lock l serves the target at the head of todo.  With the last one    *)
(* the step is ready, and all of them are kept for the release.            *)
Obtained(e, l) ==
  LET r == [run[e] EXCEPT !.got = Append(@, l), !.todo = Tail(@), !.found = 0]
  IN IF r.todo # <<>>
       THEN [r EXCEPT !.pc = "sweep"]
       ELSE [Becomes(r, "ready") EXCEPT !.pc = "approve", !.held = @ \o r.got, !.got = <<>>]

RollsBack(e, throws) ==
  [run[e] EXCEPT !.pc = "rollback", !.throws = throws, !.todo = <<>>, !.found = 0]

(* Mutant: the lock lasts no longer than the timeout.                      *)
TimeoutOnly(e) == Here(e).timeout

TimeToLive(e) == Here(e).timeout + Buffer

(* The answer rests on what getActiveLock saw.  An execution that held the *)
(* target then is granted it again, another's lock is a conflict, and      *)
(* where nothing was seen the insertion decides: it throws when the unique *)
(* index meets a row inserted, or expired, in the meantime.                *)
Decide(e) ==
  LET t == Head(run[e].todo)
      l == run[e].found
  IN /\ At(e, "decide")
     /\ \/ /\ l # 0
           /\ locks[l].owner = e
           /\ Continue(e, Obtained(e, l))
           /\ UNCHANGED locks
        \/ /\ l # 0
           /\ locks[l].owner # e
           /\ Continue(e, RollsBack(e, FALSE))
           /\ UNCHANGED locks
        \/ /\ l = 0
           /\ MayInsert(locks, t)
           /\ locks' = Insert(locks, t, e, TimeToLive(e))
           /\ Continue(e, Obtained(e, Len(locks) + 1))
        \/ /\ l = 0
           /\ ~MayInsert(locks, t)
           /\ Continue(e, RollsBack(e, TRUE))
           /\ UNCHANGED locks
     /\ UNCHANGED <<actions, crashes>>

(* The locks acquired for this step are released one by one.  Then the     *)
(* step is blocked, or the exception leaves the plan.                      *)
Rollback(e) ==
  /\ At(e, "rollback")
  /\ IF run[e].got # <<>>
       THEN /\ locks' = Release(locks, Head(run[e].got), e)
            /\ Continue(e, [run[e] EXCEPT !.got = Tail(@)])
       ELSE /\ Continue(e, IF run[e].throws THEN Throw(run[e])
                           ELSE NextStep(e, Becomes(run[e], "blocked")))
            /\ UNCHANGED locks
  /\ UNCHANGED <<actions, crashes>>

-----------------------------------------------------------------------------
(* Approval and execution                                                  *)

(* _checkApprovalResolution and what _executeStep does with its answer.  A *)
(* refused step has failed, whatever its failure strategy says, and the    *)
(* return is ahead of the try block that would release its locks.  With a  *)
(* ledger both answers throw: appendLedgerEvent does not know their stage. *)
Approve(e) ==
  /\ At(e, "approve")
  /\ \/ /\ ~Here(e).approval
        /\ Continue(e, [run[e] EXCEPT !.pc = "attempt"])
     \/ /\ Here(e).approval
        /\ "granted" \in Resolutions
        /\ Continue(e, IF Ledger THEN Throw(run[e]) ELSE [run[e] EXCEPT !.pc = "attempt"])
     \/ /\ Here(e).approval
        /\ "refused" \in Resolutions
        /\ LET r == Becomes(run[e], "failed")
           IN Continue(e, IF Ledger THEN Throw(r) ELSE NextStep(e, r))
  /\ UNCHANGED <<locks, actions, crashes>>

(* One turn of the loop of _executeStepWithRetry: the action is handed to  *)
(* the executor and raced against a timer.                                 *)
Attempt(e) ==
  LET n == Attempts(e) + 1
      i == run[e].step
  IN /\ At(e, "attempt")
     /\ Continue(e, [Becomes(run[e], IF n > 1 THEN "retrying" ELSE "running")
                       EXCEPT !.pc = "running", !.due = Here(e).timeout,
                              !.states[i].attempts = n])
     /\ actions' = actions \cup {Action(e, i, n)}
     /\ UNCHANGED <<locks, crashes>>

Awaited(e) == Action(e, run[e].step, Attempts(e))

AttemptSucceeds(e) == Finally(e, [Becomes(run[e], "completed") EXCEPT !.due = 0])

(* Mutant: one retry too many.                                             *)
AttemptFailsOnceMore(e) ==
  IF Attempts(e) <= Here(e).attempts
    THEN [run[e] EXCEPT !.pc = "backoff", !.due = Here(e).delay]
    ELSE Finally(e, [Becomes(run[e], "failed")
                       EXCEPT !.due = 0, !.throws = Here(e).onFailure = "abort"])

(* The catch block, and _handleStepFailure after the last attempt.  Only   *)
(* the strategy abort throws.                                              *)
AttemptFails(e) ==
  IF Attempts(e) < Here(e).attempts
    THEN [run[e] EXCEPT !.pc = "backoff", !.due = Here(e).delay]
    ELSE Finally(e, [Becomes(run[e], "failed")
                       EXCEPT !.due = 0, !.throws = Here(e).onFailure = "abort"])

(* The executor answers in time.  The engine takes any answer for success, *)
(* one that reports a failure too.                                         *)
ActionReturns(e) ==
  /\ At(e, "running")
  /\ Awaited(e) \in actions
  /\ actions' = actions \ {Awaited(e)}
  /\ Continue(e, IF Here(e).verified THEN [run[e] EXCEPT !.pc = "verify", !.due = 0]
                 ELSE AttemptSucceeds(e))
  /\ UNCHANGED <<locks, crashes>>

ActionRaises(e) ==
  /\ At(e, "running")
  /\ Awaited(e) \in actions
  /\ actions' = actions \ {Awaited(e)}
  /\ Continue(e, AttemptFails(e))
  /\ UNCHANGED <<locks, crashes>>

(* Mutant: only the first attempt has a timer.                             *)
FirstTimesOut(e) ==
  /\ At(e, "running")
  /\ run[e].due = 0
  /\ Attempts(e) = 1
  /\ Continue(e, AttemptFails(e))
  /\ UNCHANGED <<locks, actions, crashes>>

(* The timer wins the race; nothing stops the action.                      *)
TimesOut(e) ==
  /\ At(e, "running")
  /\ run[e].due = 0
  /\ Continue(e, AttemptFails(e))
  /\ UNCHANGED <<locks, actions, crashes>>

(* An action nobody waits for any longer ends.                             *)
StrayEnds(a) ==
  /\ a \in actions
  /\ ~(At(a.owner, "running") /\ Awaited(a.owner) = a)
  /\ actions' = actions \ {a}
  /\ UNCHANGED <<locks, run, crashes>>

(* _verifyStep: whatever the verification found, the step is completed; an *)
(* exception fails the attempt.                                            *)
VerificationEnds(e) ==
  /\ At(e, "verify")
  /\ \/ Continue(e, AttemptSucceeds(e))
     \/ Continue(e, AttemptFails(e))
  /\ UNCHANGED <<locks, actions, crashes>>

WakeUp(e) ==
  /\ At(e, "backoff")
  /\ run[e].due = 0
  /\ Continue(e, [run[e] EXCEPT !.pc = "attempt"])
  /\ UNCHANGED <<locks, actions, crashes>>

(* _releaseStepLocks: every lock the execution still keeps, of this step   *)
(* and of earlier ones, one by one; then the step is left.                 *)
ReleaseStepLocks(e) ==
  /\ At(e, "release")
  /\ IF run[e].held # <<>>
       THEN /\ locks' = Release(locks, Head(run[e].held), e)
            /\ Continue(e, [run[e] EXCEPT !.held = Tail(@)])
       ELSE /\ Continue(e, IF run[e].throws THEN Throw(run[e]) ELSE NextStep(e, run[e]))
            /\ UNCHANGED locks
  /\ UNCHANGED <<actions, crashes>>

-----------------------------------------------------------------------------
(* The surroundings                                                        *)

Live(e) == run[e].pc \notin {"new", "ended", "crashed"}

(* The process stops: its plans and their actions are gone, the rows stay. *)
Crash ==
  /\ crashes < MaxCrashes
  /\ crashes' = crashes + 1
  /\ run' = [e \in Executions |-> IF Live(e) THEN [Fresh(e) EXCEPT !.pc = "crashed"] ELSE run[e]]
  /\ actions' = {}
  /\ UNCHANGED locks

Waits(e) == run[e].pc \in {"running", "backoff"}

(* Where an execution has locks and does not wait for the executor or for  *)
(* a timer, time passes for it only within Slack.                          *)
Busy(e) == run[e].pc \in Acquiring \cup {"approve", "attempt", "verify"}

TimeMayPass(e) ==
  /\ Waits(e) => run[e].due > 0
  /\ Busy(e) => run[e].spent < Slack

Older(r) ==
  [r EXCEPT !.due = IF @ > 0 THEN @ - 1 ELSE 0,
            !.spent = IF r.pc \in Acquiring \cup {"approve", "attempt", "verify"} THEN @ + 1 ELSE @]

Tick ==
  /\ \A e \in Executions : TimeMayPass(e)
  /\ locks' = Age(locks)
  /\ run' = [e \in Executions |-> Older(run[e])]
  /\ UNCHANGED <<actions, crashes>>

(* What the engine does of itself, and what the executor does for it.      *)
EngineStep(e) ==
  \/ BeginStep(e) \/ ReadStale(e) \/ MarkStale(e) \/ LookUp(e) \/ Decide(e)
  \/ Rollback(e) \/ Approve(e) \/ Attempt(e) \/ TimesOut(e)
  \/ VerificationEnds(e) \/ WakeUp(e) \/ ReleaseStepLocks(e)

Next ==
  \/ \E e \in Executions :
       Start(e) \/ EngineStep(e) \/ ActionReturns(e) \/ ActionRaises(e)
  \/ \E a \in actions : StrayEnds(a)
  \/ Crash
  \/ Tick

Spec == Init /\ [][Next]_vars

(* Time passes, and code that can run does; the executor may never answer. *)
FairSpec == Spec /\ WF_vars(Tick) /\ \A e \in Executions : WF_vars(EngineStep(e))

-----------------------------------------------------------------------------
(* Properties                                                              *)

PlanState(e) ==
  [pc : Labels, step : DOMAIN Plan[e],
   states : [DOMAIN Plan[e] -> [status : StepStatus, attempts : Nat]],
   held : Seq(Rows(locks)), got : Seq(Rows(locks)), todo : Seq(Targets),
   stale : SUBSET Rows(locks), found : Rows(locks) \cup {0},
   due : Nat, spent : Nat, throws : BOOLEAN, outcome : Outcomes]

(* Every variable has its type, lock_ids refer to rows of the table, and a *)
(* step is attempted as often as its retry policy says at most.            *)
TypeOK ==
  /\ locks \in Seq(LockRow)
  /\ DOMAIN run = Executions
  /\ \A e \in Executions :
       /\ run[e] \in PlanState(e)
       /\ \A i \in DOMAIN Plan[e] : run[e].states[i].attempts <= Plan[e][i].attempts
  /\ \A a \in actions : a.owner \in Executions /\ a.step \in DOMAIN Plan[a.owner]
  /\ crashes \in 0..MaxCrashes

TargetsOf(e, i) == {Plan[e][i].targets[k] : k \in DOMAIN Plan[e][i].targets}

Holds(e, t) == \E l \in LiveRows(locks, t) : locks[l].owner = e

(* The locks are taken once for all attempts, with the time of one; the    *)
(* others must fit into the buffer.                                        *)
FitsItsLocks(s) ==
  s.attempts * s.timeout + (s.attempts - 1) * s.delay + Slack < s.timeout + Buffer

(* A step that was stopped by its approval leaves its locks behind.        *)
StoppedAtApproval(e, i) ==
  /\ run[e].states[i].status \in {"failed", "ready"}
  /\ run[e].states[i].attempts = 0

(* The execution waits for an action that the code means to be covered: of *)
(* a step that fits its locks, in a plan without locks left behind by an   *)
(* earlier step, which would be granted again without being prolonged.     *)
Covered(e) ==
  /\ At(e, "running")
  /\ FitsItsLocks(Here(e))
  /\ \A i \in DOMAIN Plan[e] : ~StoppedAtApproval(e, i)

(* While the engine waits for such an action, its execution holds a live   *)
(* lock on every target of the step, through all retries.                  *)
WorkIsLocked ==
  \A e \in Executions : Covered(e) => \A t \in TargetsOf(e, run[e].step) : Holds(e, t)

(* No two executions wait for actions on the same target.                  *)
ExclusiveWork ==
  \A e, f \in Executions :
    e # f /\ Covered(e) /\ Covered(f)
      => TargetsOf(e, run[e].step) \cap TargetsOf(f, run[f].step) = {}

(* Locks left behind by a crash refuse a plan in time or not at all: where *)
(* no time has passed since the step began, an insertion that meets the    *)
(* unique index, and so aborts the plan, was overtaken after its lookup by *)
(* a rival that has not crashed.  This is what the cleanup ahead of the    *)
(* lookup is for (execution-lock-manager.js:53); the two of an execution   *)
(* interleave with those of others.  A lock that expires on the way does   *)
(* abort the plan, hence the condition on time.                            *)
RefusedByRival ==
  \A e \in Executions :
    LET t == Head(run[e].todo) IN
    At(e, "decide") /\ run[e].found = 0 /\ run[e].spent = 0 /\ ~MayInsert(locks, t)
      => \E l \in LiveRows(locks, t) :
           locks[l].owner # e /\ run[locks[l].owner].pc \notin {"new", "crashed"}

(* A plan that has come to its end, however it did, holds no lock, except  *)
(* those of a step that was stopped by its approval.                       *)
NothingLeaked ==
  \A e \in Executions, l \in Rows(locks) :
    At(e, "ended") /\ locks[l].owner = e /\ locks[l].status = "active"
      => \E i \in DOMAIN Plan[e] :
           StoppedAtApproval(e, i) /\ locks[l].target \in TargetsOf(e, i)

(* A step is attempted only when what it depends on has been completed or  *)
(* skipped and the outcome its condition asks for has occurred, and that   *)
(* stays so.                                                               *)
OrderRespected ==
  \A e \in Executions : \A i \in DOMAIN Plan[e] :
    run[e].states[i].attempts > 0
      => /\ \A d \in Plan[e][i].depends : StatusOf(run[e], d) \in {"completed", "skipped"}
         /\ LET c == Plan[e][i].condition
            IN /\ c.type \in {"if_succeeded", "custom"} => StatusOf(run[e], c.ref) = "completed"
               /\ c.type = "if_failed" => StatusOf(run[e], c.ref) = "failed"

OnlyOwnersEnd ==
  \A l \in Rows(locks) :
    locks[l].status = "active" /\ locks[l].left > 0 /\ locks'[l].status # "active"
      => At(locks[l].owner, "release") \/ At(locks[l].owner, "rollback")

(* A lock with time left ends only by its own execution, and not while     *)
(* that waits for an action: no cleanup takes it away.                     *)
LiveLocksEndByOwner == [][OnlyOwnersEnd]_vars

(* Every plan that runs comes to an end, though executors may never answer *)
(* and targets may be locked: nothing waits for a lock.                    *)
PlansEnd == \A e \in Executions : []<>~Live(e)
=============================================================================
