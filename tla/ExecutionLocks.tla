-------------------------- MODULE ExecutionLocks --------------------------
(***************************************************************************)
(* The table of target locks, execution_locks, and what one statement of   *)
(* execution/execution-lock-manager.js does to it.  acquireLock and        *)
(* releaseLock wait between their statements, so that the calls of several *)
(* executions interleave: module PlanExecution puts them together.         *)
(*                                                                         *)
(* A lock_id is the position of a row in the table.  The time a row has    *)
(* left stands for expires_at: a row has expired when nothing is left.  A  *)
(* row that is not active any more has nothing left: nobody reads its      *)
(* expires_at.                                                             *)
(***************************************************************************)
EXTENDS Integers, Sequences, FiniteSets

CONSTANTS Targets, Executions

ASSUME LockAssumption == IsFiniteSet(Targets) /\ IsFiniteSet(Executions)

LockRow == [target : Targets, owner : Executions, left : Nat,
            status : {"active", "released", "expired"}]

Rows(table) == DOMAIN table

ActiveRows(table, t) ==
  {l \in Rows(table) : table[l].target = t /\ table[l].status = "active"}

(* getActiveLock: status active and expires_at still ahead.                *)
LiveRows(table, t) == {l \in ActiveRows(table, t) : table[l].left > 0}

(* Mutant: expires_at is not compared.                                     *)
AnyActiveRows(table) == {l \in Rows(table) : table[l].status = "active"}

(* What expireStaleLocks selects, and what it then does to the rows it has *)
(* selected, without looking at them again.                                *)
StaleRows(table) ==
  {l \in Rows(table) : table[l].status = "active" /\ table[l].left = 0}

(* Mutant: one row is marked, whichever comes first.                       *)
MarkFirst(table, ids) ==
  [l \in Rows(table) |->
     IF l \in ids /\ \A k \in ids : l <= k THEN [table[l] EXCEPT !.status = "expired"]
     ELSE table[l]]

MarkExpired(table, ids) ==
  [l \in Rows(table) |->
     IF l \in ids THEN [table[l] EXCEPT !.status = "expired"] ELSE table[l]]

(* Mutant: the table without its unique index.                             *)
AlwaysInserts(table, t) == TRUE

(* The INSERT of acquireLock.  The partial unique index of the table       *)
(* refuses a second active row for a target, expired or not.               *)
MayInsert(table, t) == ActiveRows(table, t) = {}

Insert(table, t, e, ttl) ==
  Append(table, [target |-> t, owner |-> e, left |-> ttl, status |-> "active"])

(* releaseLock: only the owner releases, a released row stays as it is,    *)
(* and a row that has expired becomes released.  It reads the row before a *)
(* wait, but nothing it tests can change before its UPDATE.                *)
Release(table, l, e) ==
  IF table[l].owner = e
    THEN [table EXCEPT ![l] = [@ EXCEPT !.status = "released", !.left = 0]]
    ELSE table

(* One unit of time passes for every row.                                  *)
Age(table) ==
  [l \in Rows(table) |->
     [table[l] EXCEPT !.left = IF @ > 0 THEN @ - 1 ELSE 0]]
=============================================================================
