--------------------------- MODULE QueueScheduling ---------------------------
(***************************************************************************)
(* The durable queue, src/vienna-lib/queue: the state machine and the      *)
(* repository of queue items, the leases, the execution claims, the        *)
(* scheduler that uses them, the expiry detector, the recovery manager and *)
(* the coordination manager, over one SQLite database.                     *)
(*                                                                         *)
(* A cycle is one runSchedulerCycle with the item it processes; a worker   *)
(* is a scheduler process.  The interval timer starts a new cycle whether  *)
(* or not the last one has ended, so a worker may have several.  A method  *)
(* of a manager is one synchronous piece of SQL after an await: one step.  *)
(*                                                                         *)
(* The attempt number of a claim is retry.attempt_count + 1 and no         *)
(* statement ever writes retry_json after the insertion, so it is 1 for    *)
(* every claim and an item has at most one claim row.  The ledger and the  *)
(* governance pipeline are oracles: an append may throw anywhere it is     *)
(* awaited, the pipeline may answer whatever its type allows.              *)
(***************************************************************************)
EXTENDS Integers

CONSTANTS
  Items, Cycles, Workers, None,
  WorkerOf,        \* the worker of each cycle
  MaxAttempts,     \* retry_policy.max_attempts of each item, 0 without one
  Requeues         \* the states to which governance may send an item back

States == {"READY", "BLOCKED_LOCK", "BLOCKED_APPROVAL", "BLOCKED_DEPENDENCY",
           "RETRY_SCHEDULED", "RUNNING", "COMPLETED", "FAILED", "CANCELLED"}

Terminal == {"COMPLETED", "FAILED", "CANCELLED"}

ASSUME QueueAssumption ==
  /\ None \notin Cycles \cup Workers
  /\ WorkerOf \in [Cycles -> Workers]
  /\ MaxAttempts \in [Items -> Nat]
  /\ Requeues \subseteq States \ Terminal

VARIABLES
  item,      \* state, the lease written into it, and whether that is unexpired
  row,       \* the rows of queue_leases for an item: the ACTIVE one, if any,
             \*   its holder and its freshness, an EXPIRED and a RELEASED one
  claim,     \* the row of execution_claims for an item
  cycle,     \* the scheduler's cycles
  watch,     \* what recovery has read of an item
  runs       \* how often governance re-entry was begun for an item

vars == <<item, row, claim, cycle, watch, runs>>

ALLOWED_QUEUE_TRANSITIONS ==
  [READY |-> {"RUNNING", "BLOCKED_LOCK", "BLOCKED_APPROVAL", "BLOCKED_DEPENDENCY",
              "RETRY_SCHEDULED", "CANCELLED"},
   BLOCKED_LOCK |-> {"READY", "RETRY_SCHEDULED", "CANCELLED"},
   BLOCKED_APPROVAL |-> {"READY", "CANCELLED"},
   BLOCKED_DEPENDENCY |-> {"READY", "RETRY_SCHEDULED", "CANCELLED"},
   RETRY_SCHEDULED |-> {"READY", "CANCELLED"},
   RUNNING |-> {"COMPLETED", "FAILED", "BLOCKED_LOCK", "BLOCKED_APPROVAL",
                "BLOCKED_DEPENDENCY", "RETRY_SCHEDULED", "CANCELLED"},
   COMPLETED |-> {}, FAILED |-> {}, CANCELLED |-> {}]

Unclaimed == [status |-> "NONE", worker |-> None, aged |-> FALSE]
Idle == [pc |-> "idle", item |-> None, to |-> "READY"]
Down == [pc |-> "down", item |-> None, to |-> "READY"]
Unwatched == [pc |-> "none", expired |-> FALSE, reclaim |-> FALSE]

(* Every initial_state an item may be enqueued in; no row of the other     *)
(* tables.  An item is ready once its dependency has completed.            *)
Init ==
  /\ item \in [Items -> [state : {"BLOCKED_LOCK", "BLOCKED_APPROVAL", "BLOCKED_DEPENDENCY", "RETRY_SCHEDULED"},
                         lease : {None}, fresh : {FALSE}]]
  /\ row = [i \in Items |-> [active |-> FALSE, holder |-> None, fresh |-> FALSE,
                             expired |-> FALSE, released |-> FALSE]]
  /\ claim = [i \in Items |-> Unclaimed]
  /\ cycle = [c \in Cycles |-> Idle]
  /\ watch = [i \in Items |-> Unwatched]
  /\ runs = [i \in Items |-> 0]
-----------------------------------------------------------------------------
(***************************************************************************)
(* QueueRepository.transitionItem: the pair is validated, then compared    *)
(* and set by one UPDATE; a row in another state makes it throw.           *)
(***************************************************************************)

(* Mutant: the UPDATE does not compare the state.                          *)
MovesUnchecked(i, from, to) == to \in ALLOWED_QUEUE_TRANSITIONS[from]

Moves(i, from, to) == to \in ALLOWED_QUEUE_TRANSITIONS[from] /\ item[i].state = from

SetState(i, to) == item' = [item EXCEPT ![i].state = to]

Goes(c, next) == cycle' = [cycle EXCEPT ![c].pc = next]
GoesFor(c, next, to) == cycle' = [cycle EXCEPT ![c].pc = next, ![c].to = to]
-----------------------------------------------------------------------------
(***************************************************************************)
(* Leases.  The table is UNIQUE(queue_item_id, status) ON CONFLICT IGNORE: *)
(* the second EXPIRED or RELEASED mark of an item is silently dropped and  *)
(* the row stays ACTIVE; an insertion beside an ACTIVE row is dropped too, *)
(* and acquireLease still answers with the lease it did not store.  The    *)
(* holder of a row is the cycle that knows its lease_id, None once no      *)
(* cycle does.  Nothing renews a lease.                                    *)
(***************************************************************************)
NoActive(r) == [r EXCEPT !.active = FALSE, !.holder = None, !.fresh = FALSE]

MarkExpired(r) == IF r.expired THEN r ELSE [NoActive(r) EXCEPT !.expired = TRUE]

MarkReleased(r) ==
  IF r.released THEN [r EXCEPT !.holder = None] ELSE [NoActive(r) EXCEPT !.released = TRUE]

(* Mutant: the row keeps the worker where its lease belongs.               *)
InsertOfWorker(r, c) ==
  IF r.active THEN r ELSE [r EXCEPT !.active = TRUE, !.holder = WorkerOf[c], !.fresh = TRUE]

InsertActive(r, c) ==
  IF r.active THEN r ELSE [r EXCEPT !.active = TRUE, !.holder = c, !.fresh = TRUE]

(* listEligibleItems and isQueueItemEligible.  next_retry_at is never in   *)
(* the retry state, so RETRY_SCHEDULED is never due; the other conditions  *)
(* of an item are the environment's and may hide any item of higher        *)
(* priority, so any READY item without a live lease may be the first.      *)
Eligible(i) == item[i].state = "READY" /\ ~(item[i].lease # None /\ item[i].fresh)

PickItem(c, i) ==
  /\ cycle[c].pc = "idle"
  /\ Eligible(i)
  /\ cycle' = [cycle EXCEPT ![c] = [Idle EXCEPT !.pc = "picked", !.item = i]]
  /\ UNCHANGED <<item, row, claim, watch, runs>>

AcquireLease(c) ==
  LET i == cycle[c].item
      r == IF row[i].active THEN MarkExpired(row[i]) ELSE row[i] IN
  /\ cycle[c].pc = "picked"
  /\ ~(row[i].active /\ row[i].fresh)
  /\ row' = [row EXCEPT ![i] = InsertActive(r, c)]
  /\ item' = [item EXCEPT ![i].lease = c, ![i].fresh = TRUE]
  /\ Goes(c, "leased")
  /\ UNCHANGED <<claim, watch, runs>>

LeaseRefused(c) ==
  /\ cycle[c].pc = "picked"
  /\ row[cycle[c].item].active /\ row[cycle[c].item].fresh
  /\ cycle' = [cycle EXCEPT ![c] = Idle]
  /\ UNCHANGED <<item, row, claim, watch, runs>>

(* The metadata of an item is cleared where it names the lease.            *)
WithoutLease(i, c) ==
  IF c # None /\ item[i].lease = c
  THEN [item EXCEPT ![i].lease = None, ![i].fresh = FALSE]
  ELSE item

ReleaseLease(c) ==
  LET i == cycle[c].item IN
  /\ cycle[c].pc = "releasing"
  /\ row' = IF row[i].active /\ row[i].holder = c
            THEN [row EXCEPT ![i] = MarkReleased(row[i])] ELSE row
  /\ item' = WithoutLease(i, c)
  /\ cycle' = [cycle EXCEPT ![c] = Idle]
  /\ UNCHANGED <<claim, watch, runs>>

(* Thirty seconds pass.  The row never outlives the item's own lease.      *)
LeaseRunsOut(i) ==
  /\ \/ /\ row[i].fresh
        /\ row' = [row EXCEPT ![i].fresh = FALSE]
        /\ item' = [item EXCEPT ![i].fresh = @ /\ item[i].lease # row[i].holder]
     \/ /\ ~row[i].fresh /\ item[i].fresh
        /\ item' = [item EXCEPT ![i].fresh = FALSE]
        /\ UNCHANGED row
  /\ UNCHANGED <<claim, cycle, watch, runs>>

(* The detector: an expired row is found and marked.                       *)
ExpireLease(i) ==
  /\ row[i].active /\ ~row[i].fresh
  /\ row' = [row EXCEPT ![i] = MarkExpired(row[i])]
  /\ item' = WithoutLease(i, row[i].holder)
  /\ UNCHANGED <<claim, cycle, watch, runs>>
-----------------------------------------------------------------------------
(***************************************************************************)
(* Execution claims.                                                       *)
(***************************************************************************)
Open == {"CLAIMED", "STARTED"}

SetStatus(i, to) == claim' = [claim EXCEPT ![i].status = to]

(* Mutant: only an open claim refuses another one.                         *)
OpenClaimExists(i) == claim[i].status \in Open

ClaimExists(i) == claim[i].status # "NONE"

(* markCompleted and markFailed: by the claim's worker, while it is open.  *)
Own(i, c) == claim[i].worker = WorkerOf[c] /\ claim[i].status \in Open

Closed(i, c, to) == IF Own(i, c) THEN SetStatus(i, to) ELSE UNCHANGED claim

(* Five minutes after the claim, its lease has long run out.               *)
ClaimAges(i) ==
  /\ claim[i].status \in Open /\ ~claim[i].aged
  /\ ~row[i].fresh /\ ~item[i].fresh
  /\ claim' = [claim EXCEPT ![i].aged = TRUE]
  /\ UNCHANGED <<item, row, cycle, watch, runs>>

Abandonable(k) == k.aged /\ k.status \in Open

MarkAbandoned(i) ==
  /\ Abandonable(claim[i])
  /\ SetStatus(i, "ABANDONED")
  /\ UNCHANGED <<item, row, cycle, watch, runs>>
-----------------------------------------------------------------------------
(***************************************************************************)
(* processQueueItem, from await to await, with the lease in hand.          *)
(***************************************************************************)

(* An append to the ledger, or the governance pipeline, throws.            *)
Throws(c) ==
  /\ cycle[c].pc \in {"leased", "started", "executing", "concluding"}
  /\ GoesFor(c, "catching", "READY")
  /\ UNCHANGED <<item, row, claim, watch, runs>>

AcquireClaim(c) ==
  LET i == cycle[c].item IN
  /\ cycle[c].pc = "leased"
  /\ ~ClaimExists(i)
  /\ claim' = [claim EXCEPT ![i] = [status |-> "CLAIMED", worker |-> WorkerOf[c], aged |-> FALSE]]
  /\ Goes(c, "claimed")
  /\ UNCHANGED <<item, row, watch, runs>>

ClaimRefused(c) ==
  /\ cycle[c].pc = "leased"
  /\ ClaimExists(cycle[c].item)
  /\ Goes(c, "releasing")
  /\ UNCHANGED <<item, row, claim, watch, runs>>

(* Mutant: the item is set RUNNING before the claim is made.               *)
BeginsUnclaimed(c) ==
  /\ cycle[c].pc \in {"leased", "claimed"}
  /\ Moves(cycle[c].item, "READY", "RUNNING")
  /\ SetState(cycle[c].item, "RUNNING")
  /\ IF cycle[c].pc = "leased" THEN UNCHANGED cycle ELSE Goes(c, "running")
  /\ UNCHANGED <<row, claim, watch, runs>>

(* The transition to RUNNING from the state the item was picked in.        *)
BeginRunning(c) ==
  LET i == cycle[c].item IN
  /\ cycle[c].pc = "claimed"
  /\ IF Moves(i, "READY", "RUNNING")
     THEN SetState(i, "RUNNING") /\ Goes(c, "running")
     ELSE Goes(c, "catching") /\ UNCHANGED item
  /\ UNCHANGED <<row, claim, watch, runs>>

(* What markStarted answers is not looked at.                              *)
MarkStarted(c) ==
  LET i == cycle[c].item IN
  /\ cycle[c].pc = "running"
  /\ IF claim[i].worker = WorkerOf[c] /\ claim[i].status = "CLAIMED"
     THEN SetStatus(i, "STARTED") ELSE UNCHANGED claim
  /\ Goes(c, "started")
  /\ UNCHANGED <<item, row, watch, runs>>

Execute(c) ==
  /\ cycle[c].pc = "started"
  /\ runs' = [runs EXCEPT ![cycle[c].item] = @ + 1]
  /\ Goes(c, "executing")
  /\ UNCHANGED <<item, row, claim, watch>>

(* The answer names the state the item is to go to: COMPLETED if allowed,  *)
(* CANCELLED, or where it is to wait.                                      *)
Answered(c, to) ==
  /\ cycle[c].pc = "executing"
  /\ GoesFor(c, "marking", to)
  /\ UNCHANGED <<item, row, claim, watch, runs>>

MarkClaim(c) ==
  LET i == cycle[c].item IN
  /\ cycle[c].pc = "marking"
  /\ Closed(i, c, IF cycle[c].to = "COMPLETED" THEN "COMPLETED" ELSE "FAILED")
  /\ Goes(c, "concluding")
  /\ UNCHANGED <<item, row, watch, runs>>

Conclude(c) ==
  LET i == cycle[c].item IN
  /\ cycle[c].pc = "concluding"
  /\ IF Moves(i, "RUNNING", cycle[c].to)
     THEN SetState(i, cycle[c].to) /\ GoesFor(c, "releasing", "READY")
     ELSE GoesFor(c, "catching", "READY") /\ UNCHANGED item
  /\ UNCHANGED <<row, claim, watch, runs>>

(* The catch: whatever claim of the item is open, of whichever cycle of    *)
(* this worker, is marked failed.                                          *)
FailClaim(c) ==
  /\ cycle[c].pc = "catching"
  /\ Closed(cycle[c].item, c, "FAILED")
  /\ Goes(c, "failing")
  /\ UNCHANGED <<item, row, watch, runs>>

(* Then the item, if it is RUNNING, for whoever.  An attempt count of 0    *)
(* leaves a next time if the policy allows two attempts.                   *)
FailItem(c) ==
  LET i == cycle[c].item
      to == IF MaxAttempts[i] >= 2 THEN "RETRY_SCHEDULED" ELSE "FAILED" IN
  /\ cycle[c].pc = "failing"
  /\ IF Moves(i, "RUNNING", to) THEN SetState(i, to) ELSE UNCHANGED item
  /\ Goes(c, "releasing")
  /\ UNCHANGED <<row, claim, watch, runs>>

(* A scheduler process dies, in the middle of whatever its cycles do.      *)
Crash(w) ==
  /\ \E c \in Cycles : WorkerOf[c] = w /\ cycle[c].pc # "down"
  /\ cycle' = [c \in Cycles |-> IF WorkerOf[c] = w THEN Down ELSE cycle[c]]
  /\ UNCHANGED <<item, row, claim, watch, runs>>
-----------------------------------------------------------------------------
(***************************************************************************)
(* The recovery manager: detectStuckWork reads the running items, then the *)
(* lease, then the claim of each; recoverStuckItem acts on what was read.  *)
(* Any item may have been running for more than a minute by then.          *)
(***************************************************************************)
WatchItem(i) ==
  /\ watch[i].pc = "none" /\ item[i].state = "RUNNING"
  /\ watch' = [watch EXCEPT ![i] =
       [pc |-> "leases", expired |-> ~(row[i].active /\ row[i].fresh), reclaim |-> FALSE]]
  /\ UNCHANGED <<item, row, claim, cycle, runs>>

(* The disposition.  Its fifth argument, whether a claim was started, is   *)
(* never given, and an item without an open claim counts as abandoned.     *)
JudgeItem(i) ==
  LET stuck == watch[i].expired \/ claim[i].status \notin Open IN
  /\ watch[i].pc = "leases"
  /\ \E long \in BOOLEAN :
       watch' = [watch EXCEPT ![i] =
         IF stuck \/ long
         THEN [Unwatched EXCEPT !.pc = "stuck", !.reclaim = claim[i].status = "CLAIMED"]
         ELSE Unwatched]
  /\ UNCHANGED <<item, row, claim, cycle, runs>>

RecoverItem(i) ==
  LET to == IF watch[i].reclaim THEN "RETRY_SCHEDULED" ELSE "FAILED" IN
  /\ watch[i].pc = "stuck"
  /\ IF Moves(i, "RUNNING", to) THEN SetState(i, to) ELSE UNCHANGED item
  /\ watch' = [watch EXCEPT ![i] = Unwatched]
  /\ UNCHANGED <<row, claim, cycle, runs>>

(* The coordination manager: supersede from whatever state it reads, and   *)
(* wakeupDependents once the execution waited for has completed.           *)
Supersede(i) ==
  /\ Moves(i, item[i].state, "CANCELLED")
  /\ SetState(i, "CANCELLED")
  /\ UNCHANGED <<row, claim, cycle, watch, runs>>

WakeDependent(i) ==
  /\ Moves(i, "BLOCKED_DEPENDENCY", "READY")
  /\ SetState(i, "READY")
  /\ UNCHANGED <<row, claim, cycle, watch, runs>>
-----------------------------------------------------------------------------
CycleStep(c) ==
  \/ \E i \in Items : PickItem(c, i)
  \/ AcquireLease(c) \/ LeaseRefused(c) \/ ReleaseLease(c)
  \/ Throws(c) \/ AcquireClaim(c) \/ ClaimRefused(c)
  \/ BeginRunning(c) \/ MarkStarted(c) \/ Execute(c)
  \/ \E to \in {"COMPLETED", "CANCELLED"} \cup Requeues : Answered(c, to)
  \/ MarkClaim(c) \/ Conclude(c) \/ FailClaim(c) \/ FailItem(c)

ItemStep(i) ==
  \/ LeaseRunsOut(i) \/ ExpireLease(i) \/ ClaimAges(i) \/ MarkAbandoned(i)
  \/ WatchItem(i) \/ JudgeItem(i) \/ RecoverItem(i)
  \/ Supersede(i) \/ WakeDependent(i)

Next ==
  \/ \E c \in Cycles : CycleStep(c)
  \/ \E i \in Items : ItemStep(i)
  \/ \E w \in Workers : Crash(w)

Spec == Init /\ [][Next]_vars
-----------------------------------------------------------------------------
PCs == {"idle", "picked", "leased", "claimed", "running", "started", "executing",
        "marking", "concluding", "catching", "failing", "releasing", "down"}

(* Every variable keeps its type: the columns' CHECK constraints, and      *)
(* cycles that stand at one of the awaits of processQueueItem.             *)
TypeOK ==
  /\ item \in [Items -> [state : States, lease : Cycles \cup {None}, fresh : BOOLEAN]]
  /\ row \in [Items -> [active : BOOLEAN, holder : Cycles \cup {None}, fresh : BOOLEAN,
                        expired : BOOLEAN, released : BOOLEAN]]
  /\ claim \in [Items -> [status : Open \cup {"NONE", "COMPLETED", "FAILED", "ABANDONED"},
                          worker : Workers \cup {None}, aged : BOOLEAN]]
  /\ cycle \in [Cycles -> [pc : PCs, item : Items \cup {None}, to : States]]
  /\ \A c \in Cycles : cycle[c].pc \notin {"idle", "down"} => cycle[c].item \in Items
  /\ watch \in [Items -> [pc : {"none", "leases", "stuck"}, expired : BOOLEAN, reclaim : BOOLEAN]]
  /\ runs \in [Items -> Nat]

(* Execution claims promise "exactly-once orchestration semantics" and     *)
(* keep it at most once: governance re-entry is begun at most once for an  *)
(* item, although leases run out under their holders, two cycles may both  *)
(* believe they hold one, workers crash and recovery gives items up.       *)
ExecutedOnce == \A i \in Items : runs[i] <= 1

(* An item is RUNNING only once its claim is stored, so that recovery,     *)
(* which fails an item without an open claim as one whose execution is     *)
(* uncertain, never does so to one that nobody has claimed.                *)
RunningIsClaimed ==
  \A i \in Items : item[i].state = "RUNNING" => claim[i].status # "NONE"

(* An outcome stays: a cycle that comes back after its lease ran out and   *)
(* recovery failed its item cannot complete it, a detector that read a     *)
(* claim as open cannot abandon it once it is closed, and nothing is       *)
(* superseded after its end.                                               *)
OutcomeStays ==
  [][\A i \in Items :
       /\ item[i].state \in Terminal => item'[i].state = item[i].state
       /\ claim[i].status \notin Open \cup {"NONE"} => claim'[i].status = claim[i].status]_vars
=============================================================================
