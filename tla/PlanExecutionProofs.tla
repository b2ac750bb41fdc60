------------------------ MODULE PlanExecutionProofs ------------------------
(***************************************************************************)
(* Theorems about PlanExecution, for every set of targets and executions   *)
(* and for all plans: no lock with time left is taken away from its        *)
(* execution, and steps are attempted in order.                            *)
(***************************************************************************)
EXTENDS PlanExecution, TLAPS

Fields == {"pc", "step", "states", "held", "got", "todo", "stale", "found",
           "due", "spent", "throws", "outcome"}

(* A context of the execution e: it stands at a step of its plan, and      *)
(* while it acquires locks some target is still to be locked.              *)
Context(e, r) ==
  /\ DOMAIN r = Fields
  /\ r.step \in DOMAIN Plan[e]
  /\ r.todo \in Seq(Targets)
  /\ r.pc \in Acquiring => r.todo # <<>>

RunsAreContexts ==
  /\ run = [e \in Executions |-> run[e]]
  /\ \A e \in Executions : Context(e, run[e])

TableIsTyped == locks \in Seq(LockRow)

(* What an execution means to mark as expired has expired.  The lock       *)
(* manager does not look again before it marks.                            *)
StaleRowsStayStale ==
  \A e \in Executions : \A l \in run[e].stale :
    l \in Rows(locks) /\ locks[l].left = 0

(* What the unique index of the table keeps up: a target has one active    *)
(* lock at most, expired ones that nothing has marked included.            *)
OneActiveLock ==
  \A l, m \in Rows(locks) :
    /\ locks[l].status = "active"
    /\ locks[m].status = "active"
    /\ locks[l].target = locks[m].target
    => l = m

LockInv == RunsAreContexts /\ TableIsTyped /\ StaleRowsStayStale /\ OneActiveLock

-----------------------------------------------------------------------------
(* What the operations on the table do to its rows                         *)

(* Marking or ageing a row changes its status or its time alone.          *)
LEMMA RowUpdates ==
  ASSUME NEW row \in LockRow
  PROVE  /\ [row EXCEPT !.status = "expired"] \in LockRow
         /\ [row EXCEPT !.status = "expired"].target = row.target
         /\ [row EXCEPT !.status = "expired"].owner = row.owner
         /\ [row EXCEPT !.status = "expired"].left = row.left
         /\ [row EXCEPT !.status = "expired"].status = "expired"
         /\ \A n \in Nat : /\ [row EXCEPT !.left = n] \in LockRow
                           /\ [row EXCEPT !.left = n].target = row.target
                           /\ [row EXCEPT !.left = n].owner = row.owner
                           /\ [row EXCEPT !.left = n].left = n
                           /\ [row EXCEPT !.left = n].status = row.status
  BY DEF LockRow

(* MarkExpired changes the statuses of the rows it is given.              *)
LEMMA MarkExpiredRows ==
  ASSUME NEW table \in Seq(LockRow), NEW ids
  PROVE  LET after == MarkExpired(table, ids)
         IN /\ after \in Seq(LockRow)
            /\ Rows(after) = Rows(table)
            /\ \A l \in Rows(table) :
                 /\ after[l].target = table[l].target
                 /\ after[l].owner = table[l].owner
                 /\ after[l].left = table[l].left
                 /\ after[l].status = IF l \in ids THEN "expired" ELSE table[l].status
<1>1. \A l \in 1..Len(table) : table[l] \in LockRow
  OBVIOUS
<1> DEFINE after == MarkExpired(table, ids)
<1>2. after = [l \in 1..Len(table) |->
                 IF l \in ids THEN [table[l] EXCEPT !.status = "expired"] ELSE table[l]]
  BY DEF MarkExpired, Rows
<1> HIDE DEF after
<1>3. \A l \in 1..Len(table) : after[l] \in LockRow
  BY <1>1, <1>2, RowUpdates
<1>4. after \in Seq(LockRow)
  BY <1>2, <1>3
<1>5. Rows(after) = 1..Len(table) /\ Rows(table) = 1..Len(table)
  BY <1>2 DEF Rows
<1>6. ASSUME NEW l \in 1..Len(table)
      PROVE  /\ after[l].target = table[l].target
             /\ after[l].owner = table[l].owner
             /\ after[l].left = table[l].left
             /\ after[l].status = IF l \in ids THEN "expired" ELSE table[l].status
  BY <1>1, <1>2, RowUpdates
<1> QED
  BY <1>4, <1>5, <1>6 DEF after

(* releaseLock changes one row, of the execution that asks.               *)
LEMMA ReleaseRows ==
  ASSUME NEW table \in Seq(LockRow), NEW k, NEW e
  PROVE  LET after == Release(table, k, e)
         IN /\ after \in Seq(LockRow)
            /\ Rows(after) = Rows(table)
            /\ \A l \in Rows(table) :
                 /\ after[l].target = table[l].target
                 /\ after[l].owner = table[l].owner
                 /\ table[l].left = 0 => after[l].left = 0
                 /\ \/ after[l].status = table[l].status
                    \/ (after[l].status = "released" /\ table[l].owner = e)
<1> DEFINE after == Release(table, k, e)
           freed == [table[k] EXCEPT !.status = "released", !.left = 0]
<1>1. \A l \in 1..Len(table) : table[l] \in LockRow
  OBVIOUS
<1>2. CASE table[k].owner = e /\ k \in 1..Len(table)
  <2>1. after = [l \in 1..Len(table) |-> IF l = k THEN freed ELSE table[l]]
    BY <1>2 DEF Release
  <2>2. /\ freed \in LockRow /\ freed.left = 0 /\ freed.status = "released"
        /\ freed.target = table[k].target /\ freed.owner = e
    BY <1>1, <1>2 DEF LockRow
  <2> HIDE DEF after, freed
  <2>3. \A l \in 1..Len(table) : after[l] \in LockRow
    BY <1>1, <2>1, <2>2
  <2>4. after \in Seq(LockRow)
    BY <2>1, <2>3
  <2>5. Rows(after) = 1..Len(table) /\ Rows(table) = 1..Len(table)
    BY <2>1 DEF Rows
  <2>6. ASSUME NEW l \in 1..Len(table)
        PROVE  /\ after[l].target = table[l].target
               /\ after[l].owner = table[l].owner
               /\ table[l].left = 0 => after[l].left = 0
               /\ \/ after[l].status = table[l].status
                  \/ (after[l].status = "released" /\ table[l].owner = e)
    BY <1>2, <2>1, <2>2
  <2> QED
    BY <2>4, <2>5, <2>6 DEF after
<1>3. CASE ~(table[k].owner = e /\ k \in 1..Len(table))
  <2>1. after = table
    BY <1>3 DEF Release
  <2> QED
    BY <2>1
<1> QED
  BY <1>2, <1>3

(* Time changes what rows have left, and nothing comes back.              *)
LEMMA AgeRows ==
  ASSUME NEW table \in Seq(LockRow)
  PROVE  LET after == Age(table)
         IN /\ after \in Seq(LockRow)
            /\ Rows(after) = Rows(table)
            /\ \A l \in Rows(table) :
                 /\ after[l].target = table[l].target
                 /\ after[l].owner = table[l].owner
                 /\ after[l].status = table[l].status
                 /\ table[l].left = 0 => after[l].left = 0
<1>1. \A l \in 1..Len(table) : table[l] \in LockRow
  OBVIOUS
<1> DEFINE after == Age(table)
<1> DEFINE less(l) == IF table[l].left > 0 THEN table[l].left - 1 ELSE 0
<1>2. after = [l \in 1..Len(table) |-> [table[l] EXCEPT !.left = less(l)]]
  BY DEF Age, Rows
<1>3. \A l \in 1..Len(table) : less(l) \in Nat /\ (table[l].left = 0 => less(l) = 0)
  BY <1>1 DEF LockRow
<1> HIDE DEF after, less
<1>4. \A l \in 1..Len(table) : after[l] \in LockRow
  BY <1>1, <1>2, <1>3, RowUpdates
<1>5. after \in Seq(LockRow)
  BY <1>2, <1>4
<1>6. Rows(after) = 1..Len(table) /\ Rows(table) = 1..Len(table)
  BY <1>2 DEF Rows
<1>7. ASSUME NEW l \in 1..Len(table)
      PROVE  /\ after[l].target = table[l].target
             /\ after[l].owner = table[l].owner
             /\ after[l].status = table[l].status
             /\ table[l].left = 0 => after[l].left = 0
  <2>1. table[l] \in LockRow /\ less(l) \in Nat
    BY <1>1, <1>3
  <2>2. /\ [table[l] EXCEPT !.left = less(l)].target = table[l].target
        /\ [table[l] EXCEPT !.left = less(l)].owner = table[l].owner
        /\ [table[l] EXCEPT !.left = less(l)].left = less(l)
        /\ [table[l] EXCEPT !.left = less(l)].status = table[l].status
    BY <2>1, RowUpdates
  <2>3. after[l] = [table[l] EXCEPT !.left = less(l)]
    BY <1>2
  <2> QED BY <1>3, <2>2, <2>3
<1> QED
  BY <1>5, <1>6, <1>7 DEF after

(* The INSERT appends one row and keeps the others.                       *)
LEMMA InsertRows ==
  ASSUME NEW table \in Seq(LockRow), NEW t \in Targets, NEW e \in Executions, NEW ttl \in Nat
  PROVE  LET after == Insert(table, t, e, ttl)
         IN /\ after \in Seq(LockRow)
            /\ Rows(after) = Rows(table) \cup {Len(table) + 1}
            /\ \A l \in Rows(table) : after[l] = table[l]
            /\ after[Len(table) + 1].target = t
<1> DEFINE row == [target |-> t, owner |-> e, left |-> ttl, status |-> "active"]
<1>1. row \in LockRow /\ row.target = t
  BY DEF LockRow
<1>2. Insert(table, t, e, ttl) = Append(table, row)
  BY DEF Insert
<1> HIDE DEF row
<1>3. /\ Append(table, row) \in Seq(LockRow)
      /\ DOMAIN Append(table, row) = DOMAIN table \cup {Len(table) + 1}
      /\ \A l \in DOMAIN table : Append(table, row)[l] = table[l]
      /\ Append(table, row)[Len(table) + 1] = row
  BY <1>1
<1> QED BY <1>1, <1>2, <1>3 DEF Rows

-----------------------------------------------------------------------------
(* What the engine does to its contexts                                    *)

(* s is a context that means to expire the rows r means to expire.         *)
Leads(e, r, s) == Context(e, s) /\ s.stale = r.stale

(* The steps of a plan have timeouts and targets.                         *)
LEMMA PlansAreTyped ==
  ASSUME NEW e \in Executions
  PROVE  /\ DOMAIN Plan[e] = 1..Len(Plan[e])
         /\ Len(Plan[e]) \in Nat
         /\ \A i \in DOMAIN Plan[e] :
              Plan[e][i].timeout \in Nat /\ Plan[e][i].targets \in Seq(Targets)
<1>1. Plan[e] \in Seq(Step)
  BY PlanAssumption
<1>2. DOMAIN Plan[e] = 1..Len(Plan[e]) /\ Len(Plan[e]) \in Nat
  BY <1>1
<1>3. \A i \in DOMAIN Plan[e] : Plan[e][i] \in Step
  BY <1>1, <1>2
<1>4. \A s \in Step : s.timeout \in Nat /\ s.targets \in Seq(Targets)
  BY DEF Step
<1> QED
  BY <1>2, <1>3, <1>4

(* A new status, the next step and the end of a plan lead to contexts.    *)
LEMMA ContextUpdates ==
  ASSUME NEW e \in Executions, NEW r, Context(e, r)
  PROVE  /\ \A status : Leads(e, r, Becomes(r, status))
         /\ Leads(e, r, NextStep(e, r))
         /\ Leads(e, r, Throw(r))
<1>1. \A status : Leads(e, r, Becomes(r, status))
  BY DEF Leads, Context, Becomes, Fields
<1>2. ASSUME r.step < Len(Plan[e])
      PROVE  Leads(e, r, NextStep(e, r))
  <2> DEFINE s == [r EXCEPT !.pc = "next", !.step = @ + 1, !.spent = 0]
  <2>1. /\ DOMAIN s = Fields /\ s.step = r.step + 1 /\ s.pc = "next"
        /\ s.todo = r.todo /\ s.stale = r.stale
    BY DEF Context, Fields
  <2>2. r.step + 1 \in DOMAIN Plan[e]
    BY <1>2, PlansAreTyped DEF Context
  <2>3. NextStep(e, r) = s
    BY <1>2 DEF NextStep
  <2> HIDE DEF s
  <2>4. Leads(e, r, s)
    BY <2>1, <2>2 DEF Leads, Context, Acquiring
  <2> QED
    BY <2>3, <2>4
<1>3. ASSUME ~(r.step < Len(Plan[e]))
      PROVE  Leads(e, r, NextStep(e, r))
  <2>1. NextStep(e, r) = [r EXCEPT !.pc = "ended", !.spent = 0, !.outcome = OutcomeOf(r)]
    BY <1>3 DEF NextStep
  <2>2. \A out : Leads(e, r, [r EXCEPT !.pc = "ended", !.spent = 0, !.outcome = out])
    BY DEF Leads, Context, Fields, Acquiring
  <2> QED
    BY <2>1, <2>2
<1>4. Leads(e, r, Throw(r))
  BY DEF Leads, Context, Throw, Fields, Acquiring
<1>5. Leads(e, r, NextStep(e, r))
  BY <1>2, <1>3
<1> QED
  BY <1>1, <1>4, <1>5

(* So does the finally block of _executeStep.                             *)
LEMMA FinallyUpdates ==
  ASSUME NEW e \in Executions, NEW r, Context(e, r)
  PROVE  Leads(e, r, Finally(e, r))
<1>1. Leads(e, r, [r EXCEPT !.pc = "release"])
  BY DEF Leads, Context, Fields, Acquiring
<1> QED
  BY <1>1, ContextUpdates DEF Finally

(* So do the two ends of an attempt.                                      *)
LEMMA AttemptUpdates ==
  ASSUME NEW e \in Executions, RunsAreContexts
  PROVE  /\ Leads(e, run[e], AttemptSucceeds(e))
         /\ Leads(e, run[e], AttemptFails(e))
<1> DEFINE done == [Becomes(run[e], "completed") EXCEPT !.due = 0]
           lost == [Becomes(run[e], "failed")
                      EXCEPT !.due = 0, !.throws = Here(e).onFailure = "abort"]
           waits == [run[e] EXCEPT !.pc = "backoff", !.due = Here(e).delay]
<1>1. Context(e, run[e])
  BY DEF RunsAreContexts
<1>2. \A status : Leads(e, run[e], Becomes(run[e], status))
  BY <1>1, ContextUpdates
<1>3. Leads(e, run[e], done)
  BY <1>2 DEF Leads, Context, Fields
<1>4. Leads(e, run[e], lost)
  BY <1>2 DEF Leads, Context, Fields
<1>5. Leads(e, run[e], waits)
  BY <1>1 DEF Leads, Context, Fields, Acquiring
<1> HIDE DEF done, lost, waits
<1>6. Leads(e, run[e], Finally(e, done)) /\ Leads(e, run[e], Finally(e, lost))
  BY <1>3, <1>4, FinallyUpdates DEF Leads
<1> QED
  BY <1>5, <1>6 DEF AttemptSucceeds, AttemptFails, done, lost, waits

(* So do the two answers of acquireLock.                                  *)
LEMMA LockingUpdates ==
  ASSUME NEW e \in Executions, RunsAreContexts, At(e, "decide")
  PROVE  /\ \A l : Leads(e, run[e], Obtained(e, l))
         /\ \A throws : Leads(e, run[e], RollsBack(e, throws))
<1>1. Context(e, run[e]) /\ run[e].todo # <<>>
  BY DEF RunsAreContexts, Context, At, Acquiring
<1>2. Tail(run[e].todo) \in Seq(Targets)
  BY <1>1 DEF Context
<1>3. ASSUME NEW l
      PROVE  Leads(e, run[e], Obtained(e, l))
  <2> DEFINE r == [run[e] EXCEPT !.got = Append(@, l), !.todo = Tail(@), !.found = 0]
             b == Becomes(r, "ready")
  <2>1. /\ DOMAIN r = Fields /\ r.step = run[e].step /\ r.stale = run[e].stale
        /\ r.todo \in Seq(Targets)
    BY <1>1, <1>2 DEF Context, Fields
  <2> HIDE DEF r
  <2>2. /\ DOMAIN b = Fields /\ b.step = run[e].step /\ b.stale = run[e].stale
        /\ b.todo \in Seq(Targets)
    BY <2>1 DEF Becomes, Fields
  <2> HIDE DEF b
  <2>3. r.todo # <<>> => Leads(e, run[e], [r EXCEPT !.pc = "sweep"])
    BY <1>1, <2>1 DEF Leads, Context, Fields
  <2>4. Leads(e, run[e], [b EXCEPT !.pc = "approve", !.held = @ \o r.got, !.got = <<>>])
    BY <1>1, <2>2 DEF Leads, Context, Fields, Acquiring
  <2> QED
    BY <2>3, <2>4 DEF Obtained, r, b
<1>4. \A throws : Leads(e, run[e], RollsBack(e, throws))
  BY <1>1 DEF Leads, Context, RollsBack, Fields, Acquiring
<1> QED
  BY <1>3, <1>4

-----------------------------------------------------------------------------
(* Steps                                                                   *)

(* One execution goes on, and means to expire what it meant to expire.     *)
LEMMA ContextStep ==
  ASSUME LockInv, NEW e \in Executions, NEW r, Leads(e, run[e], r), Continue(e, r)
  PROVE  RunsAreContexts' /\ \A f \in Executions : run'[f].stale = run[f].stale
<1>1. run' = [f \in Executions |-> IF f = e THEN r ELSE run[f]]
  BY DEF LockInv, RunsAreContexts, Continue
<1>2. \A f \in Executions : run'[f] = IF f = e THEN r ELSE run[f]
  BY <1>1
<1>3. \A f \in Executions : Context(f, run'[f])
  BY <1>2 DEF LockInv, RunsAreContexts, Leads, Context
<1>4. run' = [f \in Executions |-> run'[f]]
  BY <1>1
<1> QED
  BY <1>2, <1>3, <1>4 DEF RunsAreContexts, Leads, Context

(* A table whose rows keep their targets, do not become active again and   *)
(* do not gain time, and to which no row is added.                         *)
TableDecays ==
  /\ locks' \in Seq(LockRow)
  /\ Rows(locks') = Rows(locks)
  /\ \A l \in Rows(locks) :
       /\ locks'[l].target = locks[l].target
       /\ locks[l].left = 0 => locks'[l].left = 0
       /\ locks'[l].status = "active" => locks[l].status = "active"

(* A table in which rows only decay keeps the invariant.                  *)
LEMMA DecayStep ==
  ASSUME LockInv, TableDecays, RunsAreContexts',
         \A f \in Executions : run'[f].stale \subseteq run[f].stale
  PROVE  LockInv'
<1>1. TableIsTyped'
  BY DEF TableDecays, TableIsTyped
<1>2. StaleRowsStayStale'
  <2> SUFFICES ASSUME NEW f \in Executions, NEW l \in run'[f].stale
               PROVE  l \in Rows(locks') /\ locks'[l].left = 0
    BY DEF StaleRowsStayStale
  <2>1. l \in Rows(locks) /\ locks[l].left = 0
    BY DEF LockInv, StaleRowsStayStale
  <2> QED
    BY <2>1 DEF TableDecays
<1>3. OneActiveLock'
  <2> SUFFICES ASSUME NEW l \in Rows(locks'), NEW m \in Rows(locks'),
                      locks'[l].status = "active", locks'[m].status = "active",
                      locks'[l].target = locks'[m].target
               PROVE  l = m
    BY DEF OneActiveLock
  <2> QED
    BY DEF LockInv, OneActiveLock, TableDecays
<1> QED
  BY <1>1, <1>2, <1>3 DEF LockInv

(* Leaving the table alone is such a decay.                               *)
LEMMA SameTableDecays ==
  ASSUME LockInv, UNCHANGED locks
  PROVE  TableDecays /\ OnlyOwnersEnd
  BY DEF LockInv, TableIsTyped, TableDecays, OnlyOwnersEnd, Rows

(* An action that leaves the table alone and does not touch stale rows.    *)
LEMMA CalmStep ==
  ASSUME LockInv, NEW e \in Executions, NEW r, Leads(e, run[e], r),
         Continue(e, r), UNCHANGED locks
  PROVE  LockInv' /\ OnlyOwnersEnd
<1>1. RunsAreContexts' /\ \A f \in Executions : run'[f].stale \subseteq run[f].stale
  BY ContextStep
<1> QED
  BY <1>1, DecayStep, SameTableDecays

(* What LockInv says of one execution.                                    *)
LEMMA Contexts ==
  ASSUME LockInv, NEW e \in Executions
  PROVE  Context(e, run[e]) /\ RunsAreContexts
  BY DEF LockInv, RunsAreContexts

(* The actions that leave the table alone.                                 *)
CalmAction(e) ==
  \/ Start(e) \/ BeginStep(e) \/ LookUp(e) \/ Approve(e) \/ Attempt(e)
  \/ ActionReturns(e) \/ ActionRaises(e) \/ TimesOut(e)
  \/ VerificationEnds(e) \/ WakeUp(e)

LEMMA CalmActions ==
  ASSUME LockInv, NEW e \in Executions, CalmAction(e)
  PROVE  LockInv' /\ OnlyOwnersEnd
<1> DEFINE c == run[e]
<1>0. SUFFICES \E r : Leads(e, c, r) /\ Continue(e, r) /\ UNCHANGED locks
  BY CalmStep
<1>1. Context(e, c) /\ RunsAreContexts
  BY Contexts
<1>2. \A label : label \notin Acquiring => Leads(e, c, [c EXCEPT !.pc = label])
  BY <1>1 DEF Leads, Context, Fields
<1>3. \A status : Leads(e, c, Becomes(c, status)) /\ Context(e, Becomes(c, status))
  BY <1>1, ContextUpdates DEF Leads, Context
<1>4. \A status : Leads(e, c, NextStep(e, Becomes(c, status)))
  BY <1>3, ContextUpdates DEF Leads, Context
<1>5. \A status : Leads(e, c, Throw(Becomes(c, status)))
  BY <1>3, ContextUpdates DEF Leads, Context
<1>6. Leads(e, c, AttemptSucceeds(e)) /\ Leads(e, c, AttemptFails(e))
  BY <1>1, AttemptUpdates
<1>7. Leads(e, c, Throw(c))
  BY <1>1, ContextUpdates
<1>8. CASE Start(e)
  BY <1>2, <1>8 DEF Start, Acquiring
<1>9. CASE BeginStep(e)
  <2>1. Leads(e, c, [Becomes(c, "ready") EXCEPT !.pc = "approve"])
    BY <1>3 DEF Leads, Context, Fields, Acquiring
  <2>2. Here(e).targets \in Seq(Targets)
    BY <1>1, PlansAreTyped DEF Here, Context
  <2>3. Here(e).targets # <<>>
          => Leads(e, c, [c EXCEPT !.pc = "sweep", !.todo = Here(e).targets,
                                   !.got = <<>>, !.throws = FALSE])
    BY <1>1, <2>2 DEF Leads, Context, Fields
  <2> QED
    BY <1>4, <1>9, <2>1, <2>3 DEF BeginStep
<1>10. CASE LookUp(e)
  <2>1. c.todo # <<>>
    BY <1>1, <1>10 DEF LookUp, At, Context, Acquiring
  <2>2. \A n : Leads(e, c, [c EXCEPT !.found = n, !.pc = "decide"])
    BY <1>1, <2>1 DEF Leads, Context, Fields
  <2> QED
    BY <1>10, <2>2 DEF LookUp
<1>11. CASE Approve(e)
  BY <1>2, <1>4, <1>5, <1>7, <1>11 DEF Approve, Acquiring
<1>12. CASE Attempt(e)
  <2>1. \A status, i, n :
          Leads(e, c, [Becomes(c, status) EXCEPT !.pc = "running", !.due = Here(e).timeout,
                                                  !.states[i].attempts = n])
    BY <1>3 DEF Leads, Context, Fields, Acquiring
  <2> QED
    BY <1>12, <2>1 DEF Attempt
<1>13. CASE ActionReturns(e)
  <2>1. Leads(e, c, [c EXCEPT !.pc = "verify", !.due = 0])
    BY <1>1 DEF Leads, Context, Fields, Acquiring
  <2> QED
    BY <1>6, <1>13, <2>1 DEF ActionReturns
<1>14. CASE ActionRaises(e)
  BY <1>6, <1>14 DEF ActionRaises
<1>15. CASE TimesOut(e)
  BY <1>6, <1>15 DEF TimesOut
<1>16. CASE VerificationEnds(e)
  BY <1>6, <1>16 DEF VerificationEnds
<1>17. CASE WakeUp(e)
  BY <1>2, <1>17 DEF WakeUp, Acquiring
<1> QED
  BY <1>8, <1>9, <1>10, <1>11, <1>12, <1>13, <1>14, <1>15, <1>16, <1>17 DEF CalmAction

(* What is read as stale has nothing left.                                 *)
LEMMA ReadStaleStep ==
  ASSUME LockInv, NEW e \in Executions, ReadStale(e)
  PROVE  LockInv' /\ OnlyOwnersEnd
<1> DEFINE r == [run[e] EXCEPT !.stale = StaleRows(locks),
                               !.pc = IF StaleRows(locks) = {} THEN "look" ELSE "mark"]
<1>1. Context(e, run[e])
  BY Contexts
<1>0. run[e].todo # <<>>
  BY <1>1 DEF ReadStale, At, Context, Acquiring
<1>2. Context(e, r) /\ r.stale = StaleRows(locks)
  BY <1>0, <1>1 DEF Context, Fields
<1>3. run' = [run EXCEPT ![e] = r] /\ UNCHANGED locks
  BY DEF ReadStale, Continue
<1> HIDE DEF r
<1>4. run' = [f \in Executions |-> IF f = e THEN r ELSE run[f]]
  BY <1>3 DEF LockInv, RunsAreContexts
<1>5. RunsAreContexts'
  BY <1>2, <1>4 DEF LockInv, RunsAreContexts
<1>6. StaleRowsStayStale'
  BY <1>2, <1>3, <1>4 DEF LockInv, StaleRowsStayStale, StaleRows, Rows
<1>7. TableIsTyped' /\ OneActiveLock'
  BY <1>3 DEF LockInv, TableIsTyped, OneActiveLock, Rows
<1> QED
  BY <1>3, <1>5, <1>6, <1>7, SameTableDecays DEF LockInv

(* Marking hits rows that have nothing left.                               *)
LEMMA MarkStaleStep ==
  ASSUME LockInv, NEW e \in Executions, MarkStale(e)
  PROVE  LockInv' /\ OnlyOwnersEnd
<1> DEFINE r == [run[e] EXCEPT !.stale = {}, !.pc = "look"]
<1>1. Context(e, run[e])
  BY Contexts
<1>0. run[e].todo # <<>>
  BY <1>1 DEF MarkStale, At, Context, Acquiring
<1>2. Context(e, r) /\ r.stale = {}
  BY <1>0, <1>1 DEF Context, Fields
<1>3. run' = [run EXCEPT ![e] = r] /\ locks' = MarkExpired(locks, run[e].stale)
  BY DEF MarkStale, Continue
<1> HIDE DEF r
<1>4. run' = [f \in Executions |-> IF f = e THEN r ELSE run[f]]
  BY <1>3 DEF LockInv, RunsAreContexts
<1>5. RunsAreContexts' /\ \A f \in Executions : run'[f].stale \subseteq run[f].stale
  BY <1>2, <1>4 DEF LockInv, RunsAreContexts
<1>6. /\ locks' \in Seq(LockRow)
      /\ Rows(locks') = Rows(locks)
      /\ \A l \in Rows(locks) :
           /\ locks'[l].target = locks[l].target
           /\ locks'[l].left = locks[l].left
           /\ locks'[l].status = IF l \in run[e].stale THEN "expired" ELSE locks[l].status
  BY <1>3, MarkExpiredRows DEF LockInv, TableIsTyped
<1>7. TableDecays
  BY <1>6 DEF TableDecays
<1>8. OnlyOwnersEnd
  BY <1>6 DEF LockInv, StaleRowsStayStale, OnlyOwnersEnd
<1> QED
  BY <1>5, <1>7, <1>8, DecayStep

(* Releasing hits rows of the releasing execution.                         *)
LEMMA ReleaseStep ==
  ASSUME LockInv, NEW e \in Executions, NEW r, NEW k,
         Leads(e, run[e], r), Continue(e, r), locks' = Release(locks, k, e),
         At(e, "release") \/ At(e, "rollback")
  PROVE  LockInv' /\ OnlyOwnersEnd
<1>1. RunsAreContexts' /\ \A f \in Executions : run'[f].stale \subseteq run[f].stale
  BY ContextStep
<1>2. /\ locks' \in Seq(LockRow)
      /\ Rows(locks') = Rows(locks)
      /\ \A l \in Rows(locks) :
           /\ locks'[l].target = locks[l].target
           /\ locks[l].left = 0 => locks'[l].left = 0
           /\ \/ locks'[l].status = locks[l].status
              \/ (locks'[l].status = "released" /\ locks[l].owner = e)
  BY ReleaseRows DEF LockInv, TableIsTyped
<1>3. TableDecays
  BY <1>2 DEF TableDecays
<1>4. OnlyOwnersEnd
  BY <1>2 DEF OnlyOwnersEnd
<1> QED
  BY <1>1, <1>3, <1>4, DecayStep

(* The rollback of an incomplete acquisition.                             *)
LEMMA RollbackStep ==
  ASSUME LockInv, NEW e \in Executions, Rollback(e)
  PROVE  LockInv' /\ OnlyOwnersEnd
<1>1. Context(e, run[e])
  BY Contexts
<1>2. CASE run[e].got # <<>>
  <2>1. Leads(e, run[e], [run[e] EXCEPT !.got = Tail(@)])
    BY <1>1 DEF Leads, Context, Fields, Acquiring
  <2> QED
    BY <1>2, <2>1, ReleaseStep DEF Rollback
<1>3. CASE run[e].got = <<>>
  <2>1. Leads(e, run[e], Becomes(run[e], "blocked")) /\ Leads(e, run[e], Throw(run[e]))
    BY <1>1, ContextUpdates
  <2>2. Leads(e, run[e], NextStep(e, Becomes(run[e], "blocked")))
    BY <2>1, ContextUpdates DEF Leads, Context
  <2> QED
    BY <1>3, <2>1, <2>2, CalmStep DEF Rollback
<1> QED
  BY <1>2, <1>3

(* The release after a step.                                              *)
LEMMA ReleaseStepLocksStep ==
  ASSUME LockInv, NEW e \in Executions, ReleaseStepLocks(e)
  PROVE  LockInv' /\ OnlyOwnersEnd
<1>1. Context(e, run[e])
  BY Contexts
<1>2. CASE run[e].held # <<>>
  <2>1. Leads(e, run[e], [run[e] EXCEPT !.held = Tail(@)])
    BY <1>1 DEF Leads, Context, Fields, Acquiring
  <2> QED
    BY <1>2, <2>1, ReleaseStep DEF ReleaseStepLocks
<1>3. CASE run[e].held = <<>>
  <2>1. Leads(e, run[e], NextStep(e, run[e])) /\ Leads(e, run[e], Throw(run[e]))
    BY <1>1, ContextUpdates
  <2> QED
    BY <1>3, <2>1, CalmStep DEF ReleaseStepLocks
<1> QED
  BY <1>2, <1>3

(* A new row keeps the target to itself: the unique index.                 *)
LEMMA InsertStep ==
  ASSUME LockInv, NEW e \in Executions, NEW r, Leads(e, run[e], r), Continue(e, r),
         NEW t \in Targets, NEW ttl \in Nat,
         MayInsert(locks, t), locks' = Insert(locks, t, e, ttl)
  PROVE  LockInv' /\ OnlyOwnersEnd
<1> DEFINE k == Len(locks) + 1
<1>1. /\ locks' \in Seq(LockRow)
      /\ Rows(locks') = Rows(locks) \cup {k}
      /\ \A l \in Rows(locks) : locks'[l] = locks[l]
      /\ locks'[k].target = t
  <2>1. locks \in Seq(LockRow)
    BY DEF LockInv, TableIsTyped
  <2> DEFINE after == Insert(locks, t, e, ttl)
  <2>2. /\ after \in Seq(LockRow)
        /\ Rows(after) = Rows(locks) \cup {k}
        /\ \A l \in Rows(locks) : after[l] = locks[l]
        /\ after[k].target = t
    BY <2>1, InsertRows
  <2>3. locks' = after
    OBVIOUS
  <2> HIDE DEF after
  <2> QED
    BY <2>2, <2>3
<1>2. RunsAreContexts' /\ \A f \in Executions : run'[f].stale = run[f].stale
  BY ContextStep
<1>3. StaleRowsStayStale'
  BY <1>1, <1>2 DEF LockInv, StaleRowsStayStale
<1>4. \A l \in Rows(locks) : locks[l].status = "active" => locks[l].target # t
  BY DEF MayInsert, ActiveRows
<1> HIDE DEF k
<1>5. OneActiveLock'
  <2> SUFFICES ASSUME NEW l \in Rows(locks'), NEW m \in Rows(locks'),
                      locks'[l].status = "active", locks'[m].status = "active",
                      locks'[l].target = locks'[m].target
               PROVE  l = m
    BY DEF OneActiveLock
  <2>1. CASE l \in Rows(locks) /\ m \in Rows(locks)
    BY <1>1, <2>1 DEF LockInv, OneActiveLock
  <2>2. CASE l = k \/ m = k
    BY <1>1, <1>4, <2>2
  <2> QED
    BY <1>1, <2>1, <2>2
<1>6. OnlyOwnersEnd
  BY <1>1 DEF OnlyOwnersEnd
<1> QED
  BY <1>1, <1>2, <1>3, <1>5, <1>6 DEF LockInv, TableIsTyped

(* The answer of acquireLock: only an insertion touches the table.        *)
LEMMA DecideStep ==
  ASSUME LockInv, NEW e \in Executions, Decide(e)
  PROVE  LockInv' /\ OnlyOwnersEnd
<1>1. Context(e, run[e]) /\ RunsAreContexts /\ At(e, "decide")
  BY Contexts DEF Decide
<1>2. /\ \A l : Leads(e, run[e], Obtained(e, l))
      /\ \A throws : Leads(e, run[e], RollsBack(e, throws))
  BY <1>1, LockingUpdates
<1>3. Head(run[e].todo) \in Targets
  <2>1. run[e].todo \in Seq(Targets) /\ run[e].todo # <<>>
    BY <1>1 DEF Context, At, Acquiring
  <2> QED
    BY <2>1
<1>4. TimeToLive(e) \in Nat
  <2>1. Here(e).timeout \in Nat
    BY <1>1, PlansAreTyped DEF Here, Context
  <2> QED
    BY <2>1, TimeAssumption DEF TimeToLive
<1>5. CASE UNCHANGED locks
  <2>1. \E r : Leads(e, run[e], r) /\ Continue(e, r)
    BY <1>2 DEF Decide
  <2> QED
    BY <1>5, <2>1, CalmStep
<1>6. CASE /\ MayInsert(locks, Head(run[e].todo))
           /\ locks' = Insert(locks, Head(run[e].todo), e, TimeToLive(e))
           /\ Continue(e, Obtained(e, Len(locks) + 1))
  BY <1>2, <1>3, <1>4, <1>6, InsertStep
<1> QED
  BY <1>5, <1>6 DEF Decide

(* Time passes for all rows and all executions.                           *)
LEMMA TickStep ==
  ASSUME LockInv, Tick
  PROVE  LockInv' /\ OnlyOwnersEnd
<1>1. /\ locks' \in Seq(LockRow)
      /\ Rows(locks') = Rows(locks)
      /\ \A l \in Rows(locks) :
           /\ locks'[l].target = locks[l].target
           /\ locks'[l].status = locks[l].status
           /\ locks[l].left = 0 => locks'[l].left = 0
  BY AgeRows DEF LockInv, TableIsTyped, Tick
<1>2. TableDecays /\ OnlyOwnersEnd
  BY <1>1 DEF TableDecays, OnlyOwnersEnd
<1>3. \A e \in Executions : Leads(e, run[e], Older(run[e]))
  BY DEF LockInv, RunsAreContexts, Leads, Context, Older, Fields
<1>4. run' = [e \in Executions |-> Older(run[e])]
  BY DEF Tick
<1>5. RunsAreContexts' /\ \A e \in Executions : run'[e].stale \subseteq run[e].stale
  BY <1>3, <1>4 DEF RunsAreContexts, Leads
<1> QED
  BY <1>2, <1>5, DecayStep

(* A new execution stands at the first step of its plan.                  *)
LEMMA FreshContext ==
  ASSUME NEW e \in Executions
  PROVE  Context(e, Fresh(e)) /\ Fresh(e).stale = {}
<1>1. 1 \in DOMAIN Plan[e]
  BY PlansAreTyped, PlanAssumption
<1>2. /\ DOMAIN Fresh(e) = Fields /\ Fresh(e).pc = "new" /\ Fresh(e).step = 1
      /\ Fresh(e).todo = <<>> /\ Fresh(e).stale = {}
  BY DEF Fresh, Fields
<1>3. <<>> \in Seq(Targets)
  OBVIOUS
<1> QED
  BY <1>1, <1>2, <1>3 DEF Context, Acquiring

(* A crash forgets the executions and keeps the rows.                     *)
LEMMA CrashStep ==
  ASSUME LockInv, Crash
  PROVE  LockInv' /\ OnlyOwnersEnd
<1> DEFINE gone(e) == [Fresh(e) EXCEPT !.pc = "crashed"]
<1>1. run' = [e \in Executions |-> IF Live(e) THEN gone(e) ELSE run[e]] /\ UNCHANGED locks
  BY DEF Crash
<1>2. \A e \in Executions : Context(e, gone(e)) /\ gone(e).stale = {}
  BY FreshContext DEF Context, Fields, Acquiring
<1> HIDE DEF gone
<1>3. RunsAreContexts' /\ \A e \in Executions : run'[e].stale \subseteq run[e].stale
  BY <1>1, <1>2 DEF LockInv, RunsAreContexts
<1> QED
  BY <1>1, <1>3, DecayStep, SameTableDecays

(* The end of an action nobody waits for.                                 *)
LEMMA StrayStep ==
  ASSUME LockInv, UNCHANGED <<locks, run>>
  PROVE  LockInv' /\ OnlyOwnersEnd
<1>1. RunsAreContexts' /\ \A e \in Executions : run'[e].stale \subseteq run[e].stale
  BY DEF LockInv, RunsAreContexts, Context
<1> QED
  BY <1>1, DecayStep, SameTableDecays

-----------------------------------------------------------------------------
(* Theorems                                                                *)

(* The invariant holds at the start, with an empty table ...              *)
LEMMA InitLockInv == Init => LockInv
<1> SUFFICES ASSUME Init PROVE LockInv
  OBVIOUS
<1>1. locks = <<>> /\ run = [e \in Executions |-> Fresh(e)]
  BY DEF Init
<1>2. RunsAreContexts /\ StaleRowsStayStale
  BY <1>1, FreshContext DEF RunsAreContexts, StaleRowsStayStale
<1>3. TableIsTyped /\ OneActiveLock
  BY <1>1 DEF TableIsTyped, OneActiveLock, Rows
<1> QED
  BY <1>2, <1>3 DEF LockInv

(* ... and every action of PlanExecution keeps it.                        *)
LEMMA NextLockInv == LockInv /\ [Next]_vars => LockInv' /\ [OnlyOwnersEnd]_vars
<1> SUFFICES ASSUME LockInv, [Next]_vars PROVE LockInv' /\ OnlyOwnersEnd
  OBVIOUS
<1>1. ASSUME NEW e \in Executions, CalmAction(e) PROVE LockInv' /\ OnlyOwnersEnd
  BY <1>1, CalmActions
<1>2. ASSUME NEW e \in Executions, ReadStale(e) PROVE LockInv' /\ OnlyOwnersEnd
  BY <1>2, ReadStaleStep
<1>3. ASSUME NEW e \in Executions, MarkStale(e) PROVE LockInv' /\ OnlyOwnersEnd
  BY <1>3, MarkStaleStep
<1>4. ASSUME NEW e \in Executions, Decide(e) PROVE LockInv' /\ OnlyOwnersEnd
  BY <1>4, DecideStep
<1>5. ASSUME NEW e \in Executions, Rollback(e) PROVE LockInv' /\ OnlyOwnersEnd
  BY <1>5, RollbackStep
<1>6. ASSUME NEW e \in Executions, ReleaseStepLocks(e) PROVE LockInv' /\ OnlyOwnersEnd
  BY <1>6, ReleaseStepLocksStep
<1>7. CASE Tick
  BY <1>7, TickStep
<1>8. CASE Crash
  BY <1>8, CrashStep
<1>9. ASSUME NEW a \in actions, StrayEnds(a) PROVE LockInv' /\ OnlyOwnersEnd
  BY <1>9, StrayStep DEF StrayEnds
<1>10. CASE UNCHANGED vars
  BY <1>10, StrayStep DEF vars
<1> QED
  BY <1>1, <1>2, <1>3, <1>4, <1>5, <1>6, <1>7, <1>8, <1>9, <1>10
     DEF Next, EngineStep, CalmAction

(* The table and the contexts stay as LockInv says, in every behaviour.    *)
THEOREM LockInvariance == Spec => []LockInv
<1> QED
  BY InitLockInv, NextLockInv, PTL DEF Spec

(* expireStaleLocks marks by lock_id what it read before a wait, and yet   *)
(* takes no lock away that has time left: only its owner ends it.          *)
THEOREM LocksEndByOwner == Spec => LiveLocksEndByOwner
<1> QED
  BY InitLockInv, NextLockInv, PTL DEF Spec, LiveLocksEndByOwner

-----------------------------------------------------------------------------
(* Order: why steps are attempted in order, with dependencies and          *)
(* conditions that may point anywhere.  Steps that have not been reached   *)
(* are pending, so what satisfies a step lies behind it; and what lies     *)
(* behind the engine is never touched again.                               *)

StepState == [status : StepStatus, attempts : Nat]

NotReached == [status |-> "pending", attempts |-> 0]

(* What the step i waits for has occurred, at earlier steps.               *)
Ordered(e, st, i) ==
  /\ \A d \in Plan[e][i].depends :
       d \in DOMAIN Plan[e] /\ d < i /\ st[d].status \in {"completed", "skipped"}
  /\ Plan[e][i].condition.type \in {"if_succeeded", "custom"} =>
       Plan[e][i].condition.ref < i /\ st[Plan[e][i].condition.ref].status = "completed"
  /\ Plan[e][i].condition.type = "if_failed" =>
       Plan[e][i].condition.ref < i /\ st[Plan[e][i].condition.ref].status = "failed"

(* The steps of a context: later ones have not been reached, attempted     *)
(* ones were in order.                                                     *)
Behind(e, r) ==
  /\ r.states \in [DOMAIN Plan[e] -> StepState]
  /\ \A i \in DOMAIN Plan[e] : i > r.step => r.states[i] = NotReached
  /\ \A i \in DOMAIN Plan[e] : r.states[i].attempts > 0 => Ordered(e, r.states, i)

Before == {"new", "next"}
Working == Acquiring \cup {"approve", "attempt", "running", "verify", "backoff"}

(* And the current one: untouched at first, in order once work on it has   *)
(* begun.                                                                  *)
InOrder(e, r) ==
  /\ Behind(e, r)
  /\ r.pc \in Before => r.states[r.step] = NotReached
  /\ r.pc \in Working => Ordered(e, r.states, r.step)

OrderInv == LockInv /\ \A e \in Executions : InOrder(e, run[e])

-----------------------------------------------------------------------------
(* What the engine does to a context                                       *)

LEMMA StepsAreTyped ==
  ASSUME NEW e \in Executions, NEW i \in DOMAIN Plan[e]
  PROVE  /\ Plan[e][i].depends \subseteq Nat
         /\ Plan[e][i].condition.type \in {"always", "if_succeeded", "if_failed", "custom"}
         /\ Plan[e][i].condition.type # "always" => Plan[e][i].condition.ref \in DOMAIN Plan[e]
         /\ i \in Nat
<1>1. Plan[e] \in Seq(Step)
  BY PlanAssumption
<1>2. Plan[e][i] \in Step
  BY <1>1
<1>3. i \in Nat
  BY PlansAreTyped
<1>4. \A s \in Step : /\ s.depends \subseteq Nat
                      /\ s.condition.type \in {"always", "if_succeeded", "if_failed", "custom"}
  BY DEF Step
<1> QED BY <1>2, <1>3, <1>4, PlanAssumption

(* Changing the state of a step changes nothing for those up to it.        *)
LEMMA EarlierDecide ==
  ASSUME NEW e \in Executions, NEW i \in DOMAIN Plan[e], NEW k \in DOMAIN Plan[e], i <= k,
         NEW st \in [DOMAIN Plan[e] -> StepState], NEW new \in [DOMAIN Plan[e] -> StepState],
         \A j \in DOMAIN Plan[e] : j # k => new[j] = st[j],
         Ordered(e, st, i)
  PROVE  Ordered(e, new, i)
<1>1. \A j \in DOMAIN Plan[e] : j < i => new[j] = st[j]
  BY StepsAreTyped
<1> QED BY <1>1, StepsAreTyped DEF Ordered

(* A new status of the current step.                                       *)
LEMMA BecomesKeeps ==
  ASSUME NEW e \in Executions, NEW r, Context(e, r), Behind(e, r), NEW status \in StepStatus
  PROVE  /\ Behind(e, Becomes(r, status))
         /\ Becomes(r, status).pc = r.pc
         /\ Ordered(e, r.states, r.step) => Ordered(e, Becomes(r, status).states, r.step)
<1> DEFINE new == [r.states EXCEPT ![r.step].status = status]
<1>1. /\ Becomes(r, status).states = new
      /\ Becomes(r, status).step = r.step
      /\ Becomes(r, status).pc = r.pc
  BY DEF Becomes, Context, Fields
<1>2. r.step \in DOMAIN Plan[e] /\ r.states \in [DOMAIN Plan[e] -> StepState]
  BY DEF Context, Behind
<1>3. /\ new \in [DOMAIN Plan[e] -> StepState]
      /\ \A j \in DOMAIN Plan[e] : j # r.step => new[j] = r.states[j]
      /\ \A j \in DOMAIN Plan[e] : new[j].attempts = r.states[j].attempts
  BY <1>2 DEF StepState
<1> HIDE DEF new
<1>4. \A i \in DOMAIN Plan[e] : i > r.step => new[i] = NotReached
  BY <1>2, <1>3, StepsAreTyped DEF Behind
<1>5. ASSUME NEW i \in DOMAIN Plan[e], i <= r.step, Ordered(e, r.states, i)
      PROVE  Ordered(e, new, i)
  BY <1>2, <1>3, <1>5, EarlierDecide
<1>6. ASSUME NEW i \in DOMAIN Plan[e], new[i].attempts > 0
      PROVE  Ordered(e, new, i)
  <2>1. i <= r.step
    BY <1>2, <1>4, <1>6, StepsAreTyped DEF NotReached
  <2>2. Ordered(e, r.states, i)
    BY <1>3, <1>6 DEF Behind
  <2> QED BY <1>5, <2>1, <2>2
<1>7. Ordered(e, r.states, r.step) => Ordered(e, new, r.step)
  BY <1>2, <1>5, StepsAreTyped
<1> QED BY <1>1, <1>3, <1>4, <1>6, <1>7 DEF Behind

(* The same steps seen from elsewhere in the code.                         *)
LEMMA Elsewhere ==
  ASSUME NEW e \in Executions, NEW r, NEW s, Behind(e, r),
         s.states = r.states, s.step = r.step, s.pc \notin Before,
         s.pc \in Working => Ordered(e, r.states, r.step)
  PROVE  InOrder(e, s)
BY DEF InOrder, Behind

(* The next step, the end of the plan, and an exception.                   *)
LEMMA LeavingKeeps ==
  ASSUME NEW e \in Executions, NEW r, Context(e, r), Behind(e, r)
  PROVE  InOrder(e, NextStep(e, r)) /\ InOrder(e, Throw(r))
<1>0. r.step \in DOMAIN Plan[e] /\ r.step \in Nat
  BY StepsAreTyped DEF Context
<1>1. ASSUME r.step < Len(Plan[e])
      PROVE  InOrder(e, NextStep(e, r))
  <2> DEFINE s == [r EXCEPT !.pc = "next", !.step = @ + 1, !.spent = 0]
  <2>1. s.pc = "next" /\ s.step = r.step + 1 /\ s.states = r.states
    BY DEF Context, Fields
  <2>2. NextStep(e, r) = s
    BY <1>1 DEF NextStep
  <2> HIDE DEF s
  <2>3. r.step + 1 \in DOMAIN Plan[e]
    BY <1>0, <1>1, PlansAreTyped
  <2>4. Behind(e, s) /\ s.states[s.step] = NotReached
    BY <1>0, <2>1, <2>3, StepsAreTyped DEF Behind
  <2> QED BY <2>1, <2>2, <2>4 DEF InOrder, Working, Acquiring
<1>2. ASSUME ~(r.step < Len(Plan[e]))
      PROVE  InOrder(e, NextStep(e, r))
  <2>1. NextStep(e, r) = [r EXCEPT !.pc = "ended", !.spent = 0, !.outcome = OutcomeOf(r)]
    BY <1>2 DEF NextStep
  <2>2. /\ NextStep(e, r).states = r.states /\ NextStep(e, r).step = r.step
        /\ NextStep(e, r).pc = "ended"
    BY <2>1 DEF Context, Fields
  <2> QED BY <2>2, Elsewhere DEF Before, Working, Acquiring
<1>3. InOrder(e, Throw(r))
  <2>1. Throw(r).states = r.states /\ Throw(r).step = r.step /\ Throw(r).pc = "ended"
    BY DEF Throw, Context, Fields
  <2> QED BY <2>1, Elsewhere DEF Before, Working, Acquiring
<1> QED BY <1>1, <1>2, <1>3

LEMMA FinallyKeeps ==
  ASSUME NEW e \in Executions, NEW r, Context(e, r), Behind(e, r)
  PROVE  InOrder(e, Finally(e, r))
<1>1. InOrder(e, [r EXCEPT !.pc = "release"])
  BY Elsewhere DEF Context, Fields, Before, Working, Acquiring
<1> QED BY <1>1, LeavingKeeps DEF Finally

(* The two ends of an attempt.                                             *)
LEMMA AttemptKeeps ==
  ASSUME NEW e \in Executions, RunsAreContexts, InOrder(e, run[e]), run[e].pc \in Working
  PROVE  InOrder(e, AttemptSucceeds(e)) /\ InOrder(e, AttemptFails(e))
<1> DEFINE good == Becomes(run[e], "completed")
           bad == Becomes(run[e], "failed")
           done == [good EXCEPT !.due = 0]
           lost == [bad EXCEPT !.due = 0, !.throws = Here(e).onFailure = "abort"]
           waits == [run[e] EXCEPT !.pc = "backoff", !.due = Here(e).delay]
<1>1. Context(e, run[e]) /\ Behind(e, run[e])
  BY DEF RunsAreContexts, InOrder
<1>2. Context(e, good) /\ Context(e, bad)
  BY <1>1, ContextUpdates DEF Leads
<1>3. Behind(e, good) /\ Behind(e, bad)
  BY <1>1, BecomesKeeps DEF StepStatus
<1> HIDE DEF good, bad
<1>4. Context(e, done) /\ done.states = good.states /\ done.step = good.step
  BY <1>2 DEF Context, Fields
<1>5. Context(e, lost) /\ lost.states = bad.states /\ lost.step = bad.step
  BY <1>2 DEF Context, Fields
<1>6. waits.states = run[e].states /\ waits.step = run[e].step /\ waits.pc = "backoff"
  BY <1>1 DEF Context, Fields
<1> HIDE DEF done, lost, waits
<1>7. Behind(e, done) /\ Behind(e, lost)
  BY <1>3, <1>4, <1>5 DEF Behind
<1>8. InOrder(e, Finally(e, done)) /\ InOrder(e, Finally(e, lost))
  BY <1>4, <1>5, <1>7, FinallyKeeps
<1>9. InOrder(e, waits)
  BY <1>1, <1>6, Elsewhere DEF InOrder, Before
<1> QED BY <1>8, <1>9 DEF AttemptSucceeds, AttemptFails, good, bad, done, lost, waits

-----------------------------------------------------------------------------
(* Steps                                                                   *)

(* A step on which work begins is in order: what satisfies it has been     *)
(* reached, and neither it nor a later one has.                            *)
LEMMA BeginsInOrder ==
  ASSUME NEW e \in Executions, LockInv, InOrder(e, run[e]), run[e].pc = "next",
         DependenciesSatisfied(e), ConditionMayBe(e, TRUE)
  PROVE  Ordered(e, run[e].states, run[e].step)
<1> DEFINE i == run[e].step
<1>1. i \in DOMAIN Plan[e]
  BY Contexts DEF Context
<1>2. /\ \A j \in DOMAIN Plan[e] : j > i => run[e].states[j] = NotReached
      /\ run[e].states[i] = NotReached
  BY DEF InOrder, Behind, Before
<1>3. \A j \in DOMAIN Plan[e] : run[e].states[j].status # "pending" => j < i
  BY <1>1, <1>2, StepsAreTyped DEF NotReached
<1>4. \A d \in Plan[e][i].depends :
        d \in DOMAIN Plan[e] /\ run[e].states[d].status \in {"completed", "skipped"}
  BY DEF DependenciesSatisfied, Here, StatusOf
<1>5. /\ Plan[e][i].condition.type \in {"if_succeeded", "custom"} =>
           run[e].states[Plan[e][i].condition.ref].status = "completed"
      /\ Plan[e][i].condition.type = "if_failed" =>
           run[e].states[Plan[e][i].condition.ref].status = "failed"
  BY DEF ConditionMayBe, Here, StatusOf
<1>6. Plan[e][i].condition.type # "always" => Plan[e][i].condition.ref \in DOMAIN Plan[e]
  BY <1>1, StepsAreTyped
<1> QED BY <1>3, <1>4, <1>5, <1>6 DEF Ordered

LEMMA BeginStepOrder ==
  ASSUME NEW e \in Executions, LockInv, InOrder(e, run[e]), BeginStep(e)
  PROVE  \E r : Continue(e, r) /\ InOrder(e, r)
<1> DEFINE c == run[e]
<1>1. Context(e, c) /\ Behind(e, c) /\ c.pc = "next"
  BY Contexts DEF InOrder, BeginStep, At
<1>2. \A status \in StepStatus : InOrder(e, NextStep(e, Becomes(c, status)))
  BY <1>1, BecomesKeeps, ContextUpdates, LeavingKeeps DEF Leads
<1>3. ASSUME DependenciesSatisfied(e), ConditionMayBe(e, TRUE)
      PROVE  /\ InOrder(e, [Becomes(c, "ready") EXCEPT !.pc = "approve"])
             /\ InOrder(e, [c EXCEPT !.pc = "sweep", !.todo = Here(e).targets,
                                     !.got = <<>>, !.throws = FALSE])
  <2> DEFINE b == Becomes(c, "ready")
  <2>1. Ordered(e, c.states, c.step)
    BY <1>1, <1>3, BeginsInOrder
  <2>2. Behind(e, b) /\ Ordered(e, b.states, c.step) /\ Context(e, b)
    BY <1>1, <2>1, BecomesKeeps, ContextUpdates DEF Leads, StepStatus
  <2>3. b.step = c.step
    BY <1>1 DEF Becomes, Context, Fields
  <2> HIDE DEF b
  <2>4. InOrder(e, [b EXCEPT !.pc = "approve"])
    BY <2>2, <2>3, Elsewhere DEF Context, Fields, Before
  <2> DEFINE s == [c EXCEPT !.pc = "sweep", !.todo = Here(e).targets,
                            !.got = <<>>, !.throws = FALSE]
  <2>5. s.states = c.states /\ s.step = c.step /\ s.pc = "sweep"
    BY <1>1 DEF Context, Fields
  <2> HIDE DEF s
  <2>6. InOrder(e, s)
    BY <1>1, <2>1, <2>5, Elsewhere DEF Before
  <2> QED BY <2>4, <2>6 DEF b, s
<1> QED BY <1>2, <1>3 DEF BeginStep, StepStatus

LEMMA DecideOrder ==
  ASSUME NEW e \in Executions, LockInv, InOrder(e, run[e]), Decide(e)
  PROVE  \E r : Continue(e, r) /\ InOrder(e, r)
<1>1. Context(e, run[e]) /\ Behind(e, run[e]) /\ Ordered(e, run[e].states, run[e].step)
  BY Contexts DEF InOrder, Decide, At, Working, Acquiring
<1>2. ASSUME NEW l
      PROVE  InOrder(e, Obtained(e, l))
  <2> DEFINE r == [run[e] EXCEPT !.got = Append(@, l), !.todo = Tail(@), !.found = 0]
             b == Becomes(r, "ready")
  <2>1. DOMAIN r = Fields /\ r.step = run[e].step /\ r.states = run[e].states
    BY <1>1 DEF Context, Fields
  <2> HIDE DEF r
  <2>2. InOrder(e, [r EXCEPT !.pc = "sweep"])
    BY <1>1, <2>1, Elsewhere DEF Fields, Before
  <2>3. b.states = Becomes(run[e], "ready").states /\ b.step = run[e].step /\ DOMAIN b = Fields
    BY <1>1, <2>1 DEF Becomes, Context, Fields
  <2>4. Behind(e, b) /\ Ordered(e, b.states, b.step)
    <3>1. /\ Behind(e, Becomes(run[e], "ready"))
          /\ Ordered(e, Becomes(run[e], "ready").states, run[e].step)
      BY <1>1, BecomesKeeps DEF StepStatus
    <3>2. Becomes(run[e], "ready").step = run[e].step
      BY <1>1 DEF Becomes, Context, Fields
    <3> QED BY <2>3, <3>1, <3>2 DEF Behind
  <2> HIDE DEF b
  <2> DEFINE s == [b EXCEPT !.pc = "approve", !.held = @ \o r.got, !.got = <<>>]
  <2>5. s.states = b.states /\ s.step = b.step /\ s.pc = "approve"
    BY <2>3 DEF Fields
  <2> HIDE DEF s
  <2>6. InOrder(e, s)
    BY <2>4, <2>5, Elsewhere DEF Before
  <2> QED BY <2>2, <2>6 DEF Obtained, r, b, s
<1>3. ASSUME NEW throws
      PROVE  InOrder(e, RollsBack(e, throws))
  <2>1. /\ RollsBack(e, throws).states = run[e].states
        /\ RollsBack(e, throws).step = run[e].step
        /\ RollsBack(e, throws).pc = "rollback"
    BY <1>1 DEF RollsBack, Context, Fields
  <2> QED BY <1>1, <2>1, Elsewhere DEF Before, Working, Acquiring
<1> QED BY <1>2, <1>3 DEF Decide

(* An attempt is counted for a step on which work has begun.               *)
LEMMA AttemptOrder ==
  ASSUME NEW e \in Executions, LockInv, InOrder(e, run[e]), Attempt(e)
  PROVE  \E r : Continue(e, r) /\ InOrder(e, r)
<1> DEFINE c == run[e]
           i == c.step
           n == Attempts(e) + 1
           b == Becomes(c, IF n > 1 THEN "retrying" ELSE "running")
           r == [b EXCEPT !.pc = "running", !.due = Here(e).timeout, !.states[i].attempts = n]
<1>1. Context(e, c) /\ Behind(e, c) /\ Ordered(e, c.states, i) /\ i \in DOMAIN Plan[e]
  BY Contexts DEF InOrder, Attempt, At, Working, Context
<1>2. n \in Nat
  BY <1>1 DEF Attempts, Behind, StepState
<1>3. Behind(e, b) /\ Ordered(e, b.states, i)
  BY <1>1, BecomesKeeps DEF StepStatus
<1>4. DOMAIN b = Fields /\ b.step = i
  BY <1>1 DEF Becomes, Context, Fields
<1>5. Continue(e, r)
  BY DEF Attempt
<1> HIDE DEF n, b
<1>6. r.pc = "running" /\ r.step = i /\ r.states = [b.states EXCEPT ![i].attempts = n]
  BY <1>4 DEF Fields
<1> HIDE DEF r
<1>7. b.states \in [DOMAIN Plan[e] -> StepState]
  BY <1>3 DEF Behind
<1>8. /\ r.states \in [DOMAIN Plan[e] -> StepState]
      /\ \A j \in DOMAIN Plan[e] : j # i => r.states[j] = b.states[j]
  BY <1>1, <1>2, <1>6, <1>7 DEF StepState
<1>9. ASSUME NEW j \in DOMAIN Plan[e], j <= i, Ordered(e, b.states, j)
      PROVE  Ordered(e, r.states, j)
  BY <1>1, <1>7, <1>8, <1>9, EarlierDecide
<1>10. Ordered(e, r.states, i)
  BY <1>1, <1>3, <1>9, StepsAreTyped
<1>11. \A j \in DOMAIN Plan[e] : j > i => r.states[j] = NotReached
  BY <1>1, <1>3, <1>4, <1>8, StepsAreTyped DEF Behind
<1>12. ASSUME NEW j \in DOMAIN Plan[e], r.states[j].attempts > 0
       PROVE  Ordered(e, r.states, j)
  <2>1. CASE j = i
    BY <1>10, <2>1
  <2>2. CASE j # i
    <3>1. j <= i
      BY <1>1, <1>11, <1>12, StepsAreTyped DEF NotReached
    <3>2. Ordered(e, b.states, j)
      BY <1>3, <1>8, <1>12, <2>2 DEF Behind
    <3> QED BY <1>9, <3>1, <3>2
  <2> QED BY <2>1, <2>2
<1>13. Behind(e, r)
  BY <1>6, <1>8, <1>11, <1>12 DEF Behind
<1>14. InOrder(e, r)
  BY <1>6, <1>10, <1>13 DEF InOrder, Before
<1> QED BY <1>5, <1>14

(* The other actions of an execution.                                      *)
OtherAction(e) ==
  \/ Start(e) \/ ReadStale(e) \/ MarkStale(e) \/ LookUp(e) \/ Rollback(e) \/ Approve(e)
  \/ ActionReturns(e) \/ ActionRaises(e) \/ TimesOut(e)
  \/ VerificationEnds(e) \/ WakeUp(e) \/ ReleaseStepLocks(e)

LEMMA OtherOrder ==
  ASSUME NEW e \in Executions, LockInv, InOrder(e, run[e]), OtherAction(e)
  PROVE  \E r : Continue(e, r) /\ InOrder(e, r)
<1> DEFINE c == run[e]
<1>1. Context(e, c) /\ RunsAreContexts /\ Behind(e, c)
  BY Contexts DEF InOrder
<1>2. \A status \in StepStatus :
        /\ InOrder(e, NextStep(e, Becomes(c, status)))
        /\ InOrder(e, Throw(Becomes(c, status)))
  BY <1>1, BecomesKeeps, ContextUpdates, LeavingKeeps DEF Leads
<1>3. InOrder(e, NextStep(e, c)) /\ InOrder(e, Throw(c))
  BY <1>1, LeavingKeeps
<1>4. c.pc \in Working => InOrder(e, AttemptSucceeds(e)) /\ InOrder(e, AttemptFails(e))
  BY <1>1, AttemptKeeps
<1>5. \A pc \in Working : c.pc \in Working => InOrder(e, [c EXCEPT !.pc = pc])
  BY <1>1, Elsewhere DEF InOrder, Context, Fields, Before, Working, Acquiring
<1>6. CASE Start(e)
  <2> DEFINE r == [c EXCEPT !.pc = "next"]
  <2>1. c.states[c.step] = NotReached
    BY <1>6 DEF Start, At, InOrder, Before
  <2>2. r.pc = "next" /\ r.step = c.step /\ r.states = c.states
    BY <1>1 DEF Context, Fields
  <2>3. Continue(e, r)
    BY <1>6 DEF Start
  <2> HIDE DEF r
  <2>4. InOrder(e, r)
    BY <1>1, <2>1, <2>2 DEF InOrder, Behind, Working, Acquiring
  <2> QED BY <2>3, <2>4
<1>7. CASE ReadStale(e)
  <2>1. Ordered(e, c.states, c.step)
    BY <1>7 DEF ReadStale, At, InOrder, Working, Acquiring
  <2> DEFINE s == [c EXCEPT !.stale = StaleRows(locks),
                            !.pc = IF StaleRows(locks) = {} THEN "look" ELSE "mark"]
  <2>2. s.states = c.states /\ s.step = c.step /\ s.pc \in {"look", "mark"}
    BY <1>1 DEF Context, Fields
  <2>3. Continue(e, s)
    BY <1>7 DEF ReadStale
  <2> HIDE DEF s
  <2>4. InOrder(e, s)
    BY <1>1, <2>1, <2>2, Elsewhere DEF Before
  <2> QED BY <2>3, <2>4
<1>8. CASE MarkStale(e)
  <2>1. Ordered(e, c.states, c.step)
    BY <1>8 DEF MarkStale, At, InOrder, Working, Acquiring
  <2> DEFINE s == [c EXCEPT !.stale = {}, !.pc = "look"]
  <2>2. s.states = c.states /\ s.step = c.step /\ s.pc = "look"
    BY <1>1 DEF Context, Fields
  <2>3. Continue(e, s)
    BY <1>8 DEF MarkStale
  <2> HIDE DEF s
  <2>4. InOrder(e, s)
    BY <1>1, <2>1, <2>2, Elsewhere DEF Before
  <2> QED BY <2>3, <2>4
<1>9. CASE LookUp(e)
  <2>1. Ordered(e, c.states, c.step)
    BY <1>9 DEF LookUp, At, InOrder, Working, Acquiring
  <2>2. PICK n : Continue(e, [c EXCEPT !.found = n, !.pc = "decide"])
    BY <1>9 DEF LookUp
  <2> DEFINE s == [c EXCEPT !.found = n, !.pc = "decide"]
  <2>3. s.states = c.states /\ s.step = c.step /\ s.pc = "decide"
    BY <1>1 DEF Context, Fields
  <2> HIDE DEF s
  <2>4. InOrder(e, s)
    BY <1>1, <2>1, <2>3, Elsewhere DEF Before
  <2> QED BY <2>2, <2>4 DEF s
<1>10. CASE Rollback(e)
  <2>1. InOrder(e, [c EXCEPT !.got = Tail(@)])
    BY <1>1, <1>10, Elsewhere DEF Rollback, At, Context, Fields, Before, Working, Acquiring
  <2> QED BY <1>2, <1>3, <1>10, <2>1 DEF Rollback, StepStatus
<1>11. CASE Approve(e)
  BY <1>2, <1>3, <1>5, <1>11 DEF Approve, At, StepStatus, Working
<1>12. CASE ActionReturns(e)
  <2>1. c.pc \in Working /\ Ordered(e, c.states, c.step)
    BY <1>12 DEF ActionReturns, At, InOrder, Working
  <2> DEFINE s == [c EXCEPT !.pc = "verify", !.due = 0]
  <2>2. s.states = c.states /\ s.step = c.step /\ s.pc = "verify"
    BY <1>1 DEF Context, Fields
  <2> HIDE DEF s
  <2>3. InOrder(e, s)
    BY <1>1, <2>1, <2>2, Elsewhere DEF Before
  <2> QED BY <1>4, <1>12, <2>1, <2>3 DEF ActionReturns, s
<1>13. CASE ActionRaises(e)
  BY <1>4, <1>13 DEF ActionRaises, At, Working
<1>14. CASE TimesOut(e)
  BY <1>4, <1>14 DEF TimesOut, At, Working
<1>15. CASE VerificationEnds(e)
  BY <1>4, <1>15 DEF VerificationEnds, At, Working
<1>16. CASE WakeUp(e)
  BY <1>5, <1>16 DEF WakeUp, At, Working
<1>17. CASE ReleaseStepLocks(e)
  <2>1. InOrder(e, [c EXCEPT !.held = Tail(@)])
    BY <1>1, <1>17, Elsewhere DEF ReleaseStepLocks, At, Context, Fields, Before, Working, Acquiring
  <2> QED BY <1>3, <1>17, <2>1 DEF ReleaseStepLocks
<1> QED
  BY <1>6, <1>7, <1>8, <1>9, <1>10, <1>11, <1>12, <1>13, <1>14, <1>15, <1>16, <1>17
     DEF OtherAction

-----------------------------------------------------------------------------
(* One execution goes on in order, the others stay where they are.         *)
LEMMA OrderStep ==
  ASSUME OrderInv, NEW e \in Executions, NEW r, Continue(e, r), InOrder(e, r)
  PROVE  \A f \in Executions : InOrder(f, run'[f])
<1>1. run' = [f \in Executions |-> IF f = e THEN r ELSE run[f]]
  BY DEF OrderInv, LockInv, RunsAreContexts, Continue
<1>2. \A f \in Executions : run'[f] = IF f = e THEN r ELSE run[f]
  BY <1>1
<1> QED BY <1>2 DEF OrderInv

LEMMA FreshInOrder ==
  ASSUME NEW e \in Executions
  PROVE  InOrder(e, Fresh(e)) /\ InOrder(e, [Fresh(e) EXCEPT !.pc = "crashed"])
<1> DEFINE s == [i \in DOMAIN Plan[e] |-> NotReached]
<1>1. /\ Fresh(e).states = s /\ Fresh(e).step = 1 /\ Fresh(e).pc = "new"
      /\ [Fresh(e) EXCEPT !.pc = "crashed"].states = s
      /\ [Fresh(e) EXCEPT !.pc = "crashed"].step = 1
      /\ [Fresh(e) EXCEPT !.pc = "crashed"].pc = "crashed"
  BY DEF Fresh, NotReached
<1>2. 1 \in DOMAIN Plan[e]
  BY FreshContext DEF Context, Fresh
<1>3. NotReached \in StepState /\ NotReached.attempts = 0
  BY DEF NotReached, StepState, StepStatus
<1>4. /\ s \in [DOMAIN Plan[e] -> StepState]
      /\ \A i \in DOMAIN Plan[e] : s[i] = NotReached /\ ~(s[i].attempts > 0)
  BY <1>3
<1> HIDE DEF s
<1>5. Behind(e, Fresh(e)) /\ Behind(e, [Fresh(e) EXCEPT !.pc = "crashed"])
  BY <1>1, <1>4 DEF Behind
<1> QED BY <1>1, <1>2, <1>4, <1>5 DEF InOrder, Before, Working, Acquiring

LEMMA InitOrderInv == Init => OrderInv
<1>1. Init => run = [e \in Executions |-> Fresh(e)]
  BY DEF Init
<1> QED BY <1>1, InitLockInv, FreshInOrder DEF OrderInv

LEMMA NextOrderInv == OrderInv /\ [Next]_vars => OrderInv'
<1> SUFFICES ASSUME OrderInv, [Next]_vars PROVE OrderInv'
  OBVIOUS
<1>1. LockInv /\ LockInv' /\ \A e \in Executions : InOrder(e, run[e])
  BY NextLockInv DEF OrderInv
<1>0. SUFFICES \A f \in Executions : InOrder(f, run'[f])
  BY <1>1 DEF OrderInv, InOrder, Behind, Ordered
<1>2. ASSUME NEW e \in Executions, EngineStep(e) \/ Start(e) \/ ActionReturns(e) \/ ActionRaises(e)
      PROVE  \A f \in Executions : InOrder(f, run'[f])
  <2>1. PICK r : Continue(e, r) /\ InOrder(e, r)
    BY <1>1, <1>2, BeginStepOrder, DecideOrder, AttemptOrder, OtherOrder
       DEF EngineStep, OtherAction
  <2> QED BY <2>1, OrderStep
<1>3. CASE Crash
  <2>1. run' = [e \in Executions |->
                  IF Live(e) THEN [Fresh(e) EXCEPT !.pc = "crashed"] ELSE run[e]]
    BY <1>3 DEF Crash
  <2> QED BY <1>1, <2>1, FreshInOrder
<1>4. CASE Tick
  <2>1. run' = [e \in Executions |-> Older(run[e])]
    BY <1>4 DEF Tick
  <2>2. ASSUME NEW e \in Executions
        PROVE  /\ Older(run[e]).states = run[e].states
               /\ Older(run[e]).step = run[e].step
               /\ Older(run[e]).pc = run[e].pc
    BY <1>1, Contexts DEF Older, Context, Fields
  <2>3. \A e \in Executions : InOrder(e, Older(run[e]))
    BY <1>1, <2>2 DEF InOrder, Behind
  <2> QED BY <2>1, <2>3
<1>5. CASE UNCHANGED run
  BY <1>1, <1>5
<1> QED BY <1>2, <1>3, <1>4, <1>5 DEF Next, StrayEnds, vars

(* Steps are in order in every behaviour.                                  *)
THEOREM OrderInvariance == Spec => []OrderInv
BY InitOrderInv, NextOrderInv, PTL DEF Spec

(* A step is attempted only when what it depends on has been completed or  *)
(* skipped and its condition came true, and this stays so through retries, *)
(* refusals and failures that continue (plan-execution-engine.js:96).      *)
THEOREM StepsInOrder == Spec => []OrderRespected
<1>1. OrderInv => OrderRespected
  BY DEF OrderInv, InOrder, Behind, Ordered, OrderRespected, StatusOf
<1> QED BY <1>1, OrderInvariance, PTL
=============================================================================
