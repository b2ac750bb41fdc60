--------------------------- MODULE PlanLeakProofs --------------------------
(***************************************************************************)
(* Why a plan that has ended holds no lock but those of a step its         *)
(* approval stopped.  The engine knows every active row of its execution:  *)
(* it is among the locks just acquired (got) or among those it keeps for   *)
(* the release (held); and what it keeps is for the step it works on, or   *)
(* was left behind by an earlier step that was stopped.                    *)
(***************************************************************************)
EXTENDS PlanExecutionProofs

Ids(s) == {s[k] : k \in DOMAIN s}

(* The rows that still lock something for an execution.                    *)
Mine(table, e) == {l \in Rows(table) : table[l].owner = e /\ table[l].status = "active"}

(* The target t belongs to a step before the n-th that was stopped.        *)
StoppedFor(e, r, t, n) ==
  \E i \in DOMAIN Plan[e] :
    /\ i < n
    /\ r.states[i].status \in {"failed", "ready"} /\ r.states[i].attempts = 0
    /\ t \in TargetsOf(e, i)

Taking == Acquiring \cup {"rollback"}
Using == {"approve", "attempt", "running", "verify", "backoff", "release"}

(* While locks are acquired they are for the current step.                 *)
Acquires(e, r, table) ==
  r.pc \in Acquiring =>
    /\ \A k \in DOMAIN r.todo : r.todo[k] \in TargetsOf(e, r.step)
    /\ r.states[r.step].attempts = 0
    /\ \A l \in Ids(r.got) : l \in Rows(table) /\ table[l].target \in TargetsOf(e, r.step)
    /\ r.pc = "decide" /\ r.found # 0 =>
         r.found \in Rows(table) /\ table[r.found].target = Head(r.todo)

(* Every active row of the execution is known, and has its reason.         *)
Known(e, r, table) ==
  r.pc # "crashed" => \A l \in Mine(table, e) :
    /\ l \in Ids(r.held) \/ (r.pc \in Taking /\ l \in Ids(r.got))
    /\ \/ StoppedFor(e, r, table[l].target, IF r.pc = "ended" THEN r.step + 1 ELSE r.step)
       \/ r.pc \in Taking /\ l \in Ids(r.got)
       \/ r.pc \in Using /\ table[l].target \in TargetsOf(e, r.step)

Tidy(e, r, table) ==
  /\ r.held \in Seq(Nat) /\ r.got \in Seq(Nat)
  /\ Acquires(e, r, table)
  /\ r.pc = "approve" => r.states[r.step] = [status |-> "ready", attempts |-> 0]
  /\ Known(e, r, table)

TidyInv == OrderInv /\ \A e \in Executions : Tidy(e, run[e], locks)

-----------------------------------------------------------------------------
(* The table                                                               *)

(* What happens to a table, as far as the execution e can tell.            *)
Spares(e, before, after) ==
  /\ Rows(before) \subseteq Rows(after)
  /\ \A l \in Rows(before) :
       /\ after[l].target = before[l].target /\ after[l].owner = before[l].owner
       /\ after[l].status = "active" => before[l].status = "active"
  /\ \A l \in Rows(after) \ Rows(before) : after[l].owner # e

LEMMA SparedIsTidy ==
  ASSUME NEW e, NEW r, NEW before, NEW after, Tidy(e, r, before), Spares(e, before, after)
  PROVE  Tidy(e, r, after)
<1>1. Mine(after, e) \subseteq Mine(before, e)
  BY DEF Mine, Spares
<1>2. \A l \in Rows(before) : l \in Rows(after) /\ after[l].target = before[l].target
  BY DEF Spares
<1>3. Acquires(e, r, after)
  BY <1>2 DEF Tidy, Acquires
<1>4. \A l \in Mine(after, e) : l \in Mine(before, e) /\ after[l].target = before[l].target
  BY <1>1, <1>2 DEF Mine
<1>5. Known(e, r, after)
  BY <1>4 DEF Tidy, Known
<1> QED BY <1>3, <1>5 DEF Tidy

LEMMA SameSpares == \A e, table : Spares(e, table, table)
BY DEF Spares

LEMMA MarkSpares ==
  ASSUME NEW table \in Seq(LockRow), NEW ids
  PROVE  \A e : Spares(e, table, MarkExpired(table, ids))
<1> DEFINE after == MarkExpired(table, ids)
<1>1. /\ Rows(after) = Rows(table)
      /\ \A l \in Rows(table) :
           /\ after[l].target = table[l].target
           /\ after[l].owner = table[l].owner
           /\ after[l].status = IF l \in ids THEN "expired" ELSE table[l].status
  BY MarkExpiredRows
<1> HIDE DEF after
<1>2. \A e : Spares(e, table, after)
  BY <1>1 DEF Spares
<1> QED BY <1>2 DEF after

LEMMA AgeSpares ==
  ASSUME NEW table \in Seq(LockRow)
  PROVE  \A e : Spares(e, table, Age(table))
<1> DEFINE after == Age(table)
<1>1. /\ Rows(after) = Rows(table)
      /\ \A l \in Rows(table) :
           /\ after[l].target = table[l].target
           /\ after[l].owner = table[l].owner
           /\ after[l].status = table[l].status
  BY AgeRows
<1> HIDE DEF after
<1>2. \A e : Spares(e, table, after)
  BY <1>1 DEF Spares
<1> QED BY <1>2 DEF after

(* A row that its owner releases is not active any more.                   *)
LEMMA ReleaseFrees ==
  ASSUME NEW table \in Seq(LockRow), NEW k, NEW e
  PROVE  /\ \A f : Spares(f, table, Release(table, k, e))
         /\ \A l \in Mine(Release(table, k, e), e) : l # k
<1> DEFINE after == Release(table, k, e)
<1>1. /\ Rows(after) = Rows(table)
      /\ \A l \in Rows(table) :
           /\ after[l].target = table[l].target
           /\ after[l].owner = table[l].owner
           /\ \/ after[l].status = table[l].status
              \/ after[l].status = "released"
  BY ReleaseRows
<1>2. k \in Rows(table) /\ table[k].owner = e => after[k].status = "released"
  <2>1. ASSUME k \in Rows(table), table[k].owner = e
        PROVE  after[k].status = "released"
    <3> DEFINE freed == [table[k] EXCEPT !.status = "released", !.left = 0]
    <3>1. table[k] \in LockRow
      BY <2>1 DEF Rows
    <3>2. freed.status = "released"
      BY <3>1 DEF LockRow
    <3>3. after = [table EXCEPT ![k] = freed]
      BY <2>1 DEF Release
    <3> HIDE DEF freed, after
    <3>4. after[k] = freed
      BY <2>1, <3>3 DEF Rows
    <3> QED BY <3>2, <3>4
  <2> QED BY <2>1
<1> HIDE DEF after
<1>3. \A f : Spares(f, table, after)
  BY <1>1 DEF Spares
<1>4. \A l \in Mine(after, e) : l # k
  BY <1>1, <1>2 DEF Mine
<1> QED BY <1>3, <1>4 DEF after

-----------------------------------------------------------------------------
(* The contexts                                                            *)

(* The locks are where they belong when a step is left: kept, and of a     *)
(* step that was stopped.                                                  *)
Leaves(e, r, table) ==
  /\ Context(e, r) /\ r.held \in Seq(Nat) /\ r.got \in Seq(Nat)
  /\ \A l \in Mine(table, e) :
       l \in Ids(r.held) /\ StoppedFor(e, r, table[l].target, r.step + 1)

LEMMA LeavingIsTidy ==
  ASSUME NEW e \in Executions, NEW r, NEW table, Leaves(e, r, table)
  PROVE  Tidy(e, NextStep(e, r), table) /\ Tidy(e, Throw(r), table)
<1>0. Context(e, r)
  BY DEF Leaves
<1>1. ASSUME NEW s, s.held = r.held, s.got = r.got, s.states = r.states,
             \/ s.pc = "next" /\ s.step = r.step + 1
             \/ s.pc = "ended" /\ s.step = r.step
      PROVE  Tidy(e, s, table)
  <2>1. \A t : StoppedFor(e, r, t, r.step + 1) <=> StoppedFor(e, s, t, r.step + 1)
    BY <1>1 DEF StoppedFor
  <2>2. Known(e, s, table)
    BY <1>1, <2>1 DEF Known, Leaves
  <2>3. Acquires(e, s, table)
    BY <1>1 DEF Acquires, Acquiring
  <2> QED BY <1>1, <2>2, <2>3 DEF Tidy, Leaves
<1>2. Tidy(e, Throw(r), table)
  <2>1. /\ Throw(r).held = r.held /\ Throw(r).got = r.got /\ Throw(r).states = r.states
        /\ Throw(r).pc = "ended" /\ Throw(r).step = r.step
    BY <1>0 DEF Throw, Context, Fields
  <2> QED BY <1>1, <2>1
<1>3. ASSUME r.step < Len(Plan[e])
      PROVE  Tidy(e, NextStep(e, r), table)
  <2> DEFINE s == [r EXCEPT !.pc = "next", !.step = @ + 1, !.spent = 0]
  <2>1. /\ s.held = r.held /\ s.got = r.got /\ s.states = r.states
        /\ s.pc = "next" /\ s.step = r.step + 1
    BY <1>0 DEF Context, Fields
  <2>2. NextStep(e, r) = s
    BY <1>3 DEF NextStep
  <2> HIDE DEF s
  <2> QED BY <1>1, <2>1, <2>2
<1>4. ASSUME ~(r.step < Len(Plan[e]))
      PROVE  Tidy(e, NextStep(e, r), table)
  <2>1. NextStep(e, r) = [r EXCEPT !.pc = "ended", !.spent = 0, !.outcome = OutcomeOf(r)]
    BY <1>4 DEF NextStep
  <2>2. /\ NextStep(e, r).held = r.held /\ NextStep(e, r).got = r.got
        /\ NextStep(e, r).states = r.states
        /\ NextStep(e, r).pc = "ended" /\ NextStep(e, r).step = r.step
    BY <1>0, <2>1 DEF Context, Fields
  <2> QED BY <1>1, <2>2
<1> QED BY <1>2, <1>3, <1>4

(* A new status of the current step says nothing of the earlier ones.      *)
Restates(e, r, status, b) ==
  /\ DOMAIN b = Fields
  /\ b.pc = r.pc /\ b.step = r.step /\ b.held = r.held /\ b.got = r.got
  /\ b.todo = r.todo /\ b.found = r.found
  /\ b.states[r.step] = [status |-> status, attempts |-> r.states[r.step].attempts]
  /\ \A t : StoppedFor(e, r, t, r.step) => StoppedFor(e, b, t, r.step)

LEMMA BecomesFields ==
  ASSUME NEW e \in Executions, NEW r, NEW status, Context(e, r), Behind(e, r)
  PROVE  Restates(e, r, status, Becomes(r, status))
<1> DEFINE b == Becomes(r, status)
<1>2. /\ DOMAIN b = Fields
      /\ b.pc = r.pc /\ b.step = r.step /\ b.held = r.held /\ b.got = r.got
      /\ b.todo = r.todo /\ b.found = r.found
      /\ b.states = [r.states EXCEPT ![r.step].status = status]
  BY DEF Becomes, Context, Fields
<1> HIDE DEF b
<1>3. r.step \in DOMAIN Plan[e] /\ r.states \in [DOMAIN Plan[e] -> StepState]
  BY DEF Context, Behind
<1>4. b.states[r.step] = [status |-> status, attempts |-> r.states[r.step].attempts]
  BY <1>2, <1>3 DEF StepState
<1>5. \A i \in DOMAIN Plan[e] : i < r.step => b.states[i] = r.states[i]
  BY <1>2, <1>3, StepsAreTyped
<1>6. \A t : StoppedFor(e, r, t, r.step) => StoppedFor(e, b, t, r.step)
  BY <1>5 DEF StoppedFor
<1>7. Restates(e, r, status, b)
  BY <1>2, <1>4, <1>6 DEF Restates
<1> QED BY <1>7 DEF b

LEMMA BecomesContext ==
  ASSUME NEW e \in Executions, NEW r, NEW status, Context(e, r)
  PROVE  Context(e, Becomes(r, status))
BY ContextUpdates DEF Leads

LEMMA LaterStops ==
  ASSUME NEW e \in Executions, NEW r, NEW t, Context(e, r), StoppedFor(e, r, t, r.step)
  PROVE  StoppedFor(e, r, t, r.step + 1)
<1>1. r.step \in Nat /\ \A i \in DOMAIN Plan[e] : i \in Nat
  BY StepsAreTyped DEF Context
<1> QED BY <1>1 DEF StoppedFor

(* The finally block: locks of the current step are there to be released   *)
(* only when it has targets.                                               *)
LEMMA FinallyIsTidy ==
  ASSUME NEW e \in Executions, NEW r, NEW table, Context(e, r), r.step = run[e].step,
         r.held \in Seq(Nat), r.got \in Seq(Nat),
         \A l \in Mine(table, e) :
           /\ l \in Ids(r.held)
           /\ \/ StoppedFor(e, r, table[l].target, r.step)
              \/ table[l].target \in TargetsOf(e, r.step)
  PROVE  Tidy(e, Finally(e, r), table)
<1>1. CASE Here(e).targets # <<>>
  <2> DEFINE s == [r EXCEPT !.pc = "release"]
  <2>1. /\ s.held = r.held /\ s.got = r.got /\ s.states = r.states
        /\ s.pc = "release" /\ s.step = r.step
    BY DEF Context, Fields
  <2>2. Finally(e, r) = s
    BY <1>1 DEF Finally
  <2> HIDE DEF s
  <2>3. \A t : StoppedFor(e, r, t, r.step) => StoppedFor(e, s, t, r.step)
    BY <2>1 DEF StoppedFor
  <2>4. Known(e, s, table) /\ Acquires(e, s, table)
    BY <2>1, <2>3 DEF Known, Acquires, Using, Acquiring
  <2> QED BY <2>1, <2>2, <2>4 DEF Tidy
<1>2. CASE Here(e).targets = <<>>
  <2>1. TargetsOf(e, r.step) = {}
    BY <1>2 DEF TargetsOf, Here
  <2>2. Leaves(e, r, table)
    BY <2>1, LaterStops DEF Leaves
  <2> QED BY <1>2, <2>2, LeavingIsTidy DEF Finally
<1> QED BY <1>1, <1>2

(* The two ends of an attempt.                                             *)
LEMMA AttemptIsTidy ==
  ASSUME NEW e \in Executions, TidyInv, run[e].pc \in {"running", "verify"}
  PROVE  Tidy(e, AttemptSucceeds(e), locks) /\ Tidy(e, AttemptFails(e), locks)
<1> DEFINE c == run[e]
           good == Becomes(c, "completed")
           bad == Becomes(c, "failed")
           done == [good EXCEPT !.due = 0]
           lost == [bad EXCEPT !.due = 0, !.throws = Here(e).onFailure = "abort"]
           waits == [c EXCEPT !.pc = "backoff", !.due = Here(e).delay]
<1>1. Context(e, c) /\ Behind(e, c) /\ Tidy(e, c, locks)
  BY Contexts DEF TidyInv, OrderInv, InOrder
<1>2. \A l \in Mine(locks, e) :
        /\ l \in Ids(c.held)
        /\ \/ StoppedFor(e, c, locks[l].target, c.step)
           \/ locks[l].target \in TargetsOf(e, c.step)
  BY <1>1 DEF Tidy, Known, Taking, Acquiring
<1>2b. c = run[e]
  OBVIOUS
<1>2a. /\ Context(e, good) /\ Restates(e, c, "completed", good)
       /\ Context(e, bad) /\ Restates(e, c, "failed", bad)
  BY <1>1, BecomesContext, BecomesFields
<1> HIDE DEF good, bad, c
<1>3. /\ good.held = c.held /\ good.got = c.got /\ good.step = c.step
      /\ \A t : StoppedFor(e, c, t, c.step) => StoppedFor(e, good, t, c.step)
  BY <1>2a DEF Restates
<1>4. /\ bad.held = c.held /\ bad.got = c.got /\ bad.step = c.step
      /\ \A t : StoppedFor(e, c, t, c.step) => StoppedFor(e, bad, t, c.step)
  BY <1>2a DEF Restates
<1>5. /\ Context(e, done) /\ done.held = c.held /\ done.got = c.got /\ done.step = c.step
      /\ done.states = good.states
  BY <1>3, <1>2a DEF Context, Fields
<1>6. /\ Context(e, lost) /\ lost.held = c.held /\ lost.got = c.got /\ lost.step = c.step
      /\ lost.states = bad.states
  BY <1>4, <1>2a DEF Context, Fields
<1>7. /\ waits.held = c.held /\ waits.got = c.got /\ waits.step = c.step
      /\ waits.states = c.states /\ waits.pc = "backoff"
  BY <1>1 DEF Context, Fields
<1> HIDE DEF done, lost, waits
<1>8. \A t : StoppedFor(e, c, t, c.step) =>
               StoppedFor(e, done, t, c.step) /\ StoppedFor(e, lost, t, c.step)
  BY <1>3, <1>4, <1>5, <1>6 DEF StoppedFor
<1>9. c.held \in Seq(Nat) /\ c.got \in Seq(Nat)
  BY <1>1 DEF Tidy
<1>10. Tidy(e, Finally(e, done), locks)
  <2>1. \A l \in Mine(locks, e) :
          /\ l \in Ids(done.held)
          /\ \/ StoppedFor(e, done, locks[l].target, done.step)
             \/ locks[l].target \in TargetsOf(e, done.step)
    BY <1>2, <1>5, <1>8
  <2>2. done.held \in Seq(Nat) /\ done.got \in Seq(Nat) /\ done.step = run[e].step
    BY <1>2b, <1>5, <1>9
  <2> QED BY <1>5, <2>1, <2>2, FinallyIsTidy
<1>11. Tidy(e, Finally(e, lost), locks)
  <2>1. \A l \in Mine(locks, e) :
          /\ l \in Ids(lost.held)
          /\ \/ StoppedFor(e, lost, locks[l].target, lost.step)
             \/ locks[l].target \in TargetsOf(e, lost.step)
    BY <1>2, <1>6, <1>8
  <2>2. lost.held \in Seq(Nat) /\ lost.got \in Seq(Nat) /\ lost.step = run[e].step
    BY <1>2b, <1>6, <1>9
  <2> QED BY <1>6, <2>1, <2>2, FinallyIsTidy
<1>12. Tidy(e, waits, locks)
  <2>1. \A t : StoppedFor(e, c, t, c.step) => StoppedFor(e, waits, t, c.step)
    BY <1>7 DEF StoppedFor
  <2>2. Known(e, waits, locks) /\ Acquires(e, waits, locks)
    BY <1>2, <1>7, <2>1 DEF Known, Acquires, Using, Acquiring
  <2> QED BY <1>7, <1>9, <2>2 DEF Tidy
<1> QED
  BY <1>10, <1>11, <1>12 DEF AttemptSucceeds, AttemptFails, Attempts,
                              c, good, bad, done, lost, waits

-----------------------------------------------------------------------------
(* Steps                                                                   *)

(* What TidyInv says of one execution and of the table.                    *)
LEMMA TidyContext ==
  ASSUME TidyInv, NEW e \in Executions
  PROVE  /\ Context(e, run[e]) /\ Behind(e, run[e]) /\ InOrder(e, run[e])
         /\ Tidy(e, run[e], locks) /\ locks \in Seq(LockRow)
         /\ run[e].held \in Seq(Nat) /\ run[e].got \in Seq(Nat)
BY Contexts DEF TidyInv, OrderInv, InOrder, Tidy, LockInv, TableIsTyped

(* An execution that moves within what it does with its locks.             *)
LEMMA MovesTidy ==
  ASSUME NEW e, NEW r, NEW s, NEW table, Tidy(e, r, table),
         s.held = r.held, s.got = r.got, s.step = r.step, s.states = r.states,
         s.todo = r.todo, s.pc \notin {"approve", "ended", "crashed"}, r.pc \notin {"ended", "crashed"},
         s.pc \in Acquiring => r.pc \in Acquiring,
         r.pc \in Taking => s.pc \in Taking, r.pc \in Using => s.pc \in Using,
         s.pc = "decide" /\ s.found # 0 =>
           s.found \in Rows(table) /\ table[s.found].target = Head(s.todo)
  PROVE  Tidy(e, s, table)
<1>1. \A t : StoppedFor(e, r, t, r.step) => StoppedFor(e, s, t, s.step)
  BY DEF StoppedFor
<1>2. Known(e, s, table)
  BY <1>1 DEF Tidy, Known
<1>3. Acquires(e, s, table)
  BY DEF Tidy, Acquires
<1> QED BY <1>2, <1>3 DEF Tidy

(* What a step of the execution e has to show.                             *)
Good(e) ==
  /\ \E r : Continue(e, r) /\ Tidy(e, r, locks')
  /\ \A f \in Executions \ {e} : Spares(f, locks, locks')

LEMMA SameTableGood ==
  ASSUME NEW e \in Executions, NEW r, Continue(e, r), Tidy(e, r, locks), UNCHANGED locks
  PROVE  Good(e)
<1>1. locks' = locks
  OBVIOUS
<1>2. Tidy(e, r, locks')
  BY <1>1
<1> QED BY <1>1, <1>2, SameSpares DEF Good

(* A step is left with a new status, and with nothing of its own.          *)
LEMMA BecomesLeaves ==
  ASSUME NEW e \in Executions, NEW r, NEW status, NEW table, Context(e, r), Behind(e, r),
         r.held \in Seq(Nat), r.got \in Seq(Nat),
         \A l \in Mine(table, e) : l \in Ids(r.held) /\ StoppedFor(e, r, table[l].target, r.step)
  PROVE  Tidy(e, NextStep(e, Becomes(r, status)), table)
<1> DEFINE s == Becomes(r, status)
<1>0. Context(e, s) /\ Restates(e, r, status, s)
  BY BecomesContext, BecomesFields
<1> HIDE DEF s
<1>1. /\ s.held = r.held /\ s.got = r.got /\ s.step = r.step
      /\ \A t : StoppedFor(e, r, t, r.step) => StoppedFor(e, s, t, r.step)
  BY <1>0 DEF Restates
<1>2. Leaves(e, s, table)
  BY <1>0, <1>1, LaterStops DEF Leaves
<1> QED BY <1>2, LeavingIsTidy DEF s

LEMMA BeginStepTidy ==
  ASSUME TidyInv, NEW e \in Executions, BeginStep(e)
  PROVE  Good(e)
<1> DEFINE c == run[e]
           b == Becomes(c, "ready")
           go == [b EXCEPT !.pc = "approve"]
           take == [c EXCEPT !.pc = "sweep", !.todo = Here(e).targets,
                             !.got = <<>>, !.throws = FALSE]
<1>1. Context(e, c) /\ Behind(e, c) /\ Tidy(e, c, locks) /\ c.pc = "next"
  BY TidyContext DEF BeginStep, At
<1>2. c.held \in Seq(Nat) /\ c.got \in Seq(Nat)
  BY TidyContext
<1>3. \A l \in Mine(locks, e) : l \in Ids(c.held) /\ StoppedFor(e, c, locks[l].target, c.step)
  BY <1>1 DEF Tidy, Known, Taking, Using, Acquiring
<1>4. c.states[c.step] = NotReached
  BY <1>1, TidyContext DEF InOrder, Before
<1>5. \A status : Tidy(e, NextStep(e, Becomes(c, status)), locks)
  BY <1>1, <1>2, <1>3, BecomesLeaves
<1>6. Tidy(e, go, locks)
  <2>0. Restates(e, c, "ready", b)
    BY <1>1, BecomesFields
  <2> HIDE DEF b
  <2>1. /\ DOMAIN b = Fields /\ b.held = c.held /\ b.got = c.got /\ b.step = c.step
        /\ b.states[c.step] = [status |-> "ready", attempts |-> 0]
        /\ \A t : StoppedFor(e, c, t, c.step) => StoppedFor(e, b, t, c.step)
    BY <1>4, <2>0 DEF Restates, NotReached
  <2>2. /\ go.held = c.held /\ go.got = c.got /\ go.step = c.step
        /\ go.states = b.states /\ go.pc = "approve"
    BY <2>1 DEF Fields
  <2> HIDE DEF go
  <2>3. \A t : StoppedFor(e, c, t, c.step) => StoppedFor(e, go, t, c.step)
    BY <2>1, <2>2 DEF StoppedFor
  <2>4. Known(e, go, locks) /\ Acquires(e, go, locks)
    BY <1>3, <2>2, <2>3 DEF Known, Acquires, Using, Acquiring
  <2> QED BY <1>2, <2>1, <2>2, <2>4 DEF Tidy
<1>7. Tidy(e, take, locks)
  <2>1. /\ take.held = c.held /\ take.got = <<>> /\ take.step = c.step
        /\ take.states = c.states /\ take.pc = "sweep" /\ take.todo = Here(e).targets
    BY <1>1 DEF Context, Fields
  <2> HIDE DEF take
  <2>2. \A t : StoppedFor(e, c, t, c.step) => StoppedFor(e, take, t, c.step)
    BY <2>1 DEF StoppedFor
  <2>3. Known(e, take, locks)
    BY <1>3, <2>1, <2>2 DEF Known
  <2>4. \A k \in DOMAIN take.todo : take.todo[k] \in TargetsOf(e, take.step)
    BY <2>1 DEF TargetsOf, Here
  <2>5. Ids(take.got) = {}
    BY <2>1 DEF Ids
  <2>6. Acquires(e, take, locks)
    BY <1>4, <2>1, <2>4, <2>5 DEF Acquires, NotReached
  <2>7. take.got \in Seq(Nat)
    BY <2>1
  <2> QED BY <1>2, <2>1, <2>3, <2>6, <2>7 DEF Tidy
<1>8. \E r : Continue(e, r) /\ Tidy(e, r, locks)
  BY <1>5, <1>6, <1>7 DEF BeginStep
<1>9. UNCHANGED locks
  BY DEF BeginStep
<1> QED BY <1>8, <1>9, SameTableGood

(* The cleanup of stale rows, and the look for a lock.                     *)
LEMMA SweepTidy ==
  ASSUME TidyInv, NEW e \in Executions, ReadStale(e) \/ MarkStale(e) \/ LookUp(e)
  PROVE  Good(e)
<1> DEFINE c == run[e]
<1>1. Context(e, c) /\ Tidy(e, c, locks) /\ locks \in Seq(LockRow)
  BY TidyContext
<1>2. CASE ReadStale(e)
  <2> DEFINE s == [c EXCEPT !.stale = StaleRows(locks),
                            !.pc = IF StaleRows(locks) = {} THEN "look" ELSE "mark"]
  <2>1. /\ s.held = c.held /\ s.got = c.got /\ s.step = c.step /\ s.states = c.states
        /\ s.todo = c.todo /\ s.pc \in {"look", "mark"} /\ c.pc = "sweep"
    BY <1>1, <1>2 DEF Context, Fields, ReadStale, At
  <2>2. Continue(e, s) /\ UNCHANGED locks
    BY <1>2 DEF ReadStale
  <2> HIDE DEF s
  <2>3. Tidy(e, s, locks)
    BY <1>1, <2>1, MovesTidy DEF Acquiring, Taking, Using
  <2> QED BY <2>2, <2>3, SameTableGood
<1>3. CASE MarkStale(e)
  <2> DEFINE s == [c EXCEPT !.stale = {}, !.pc = "look"]
  <2>1. /\ s.held = c.held /\ s.got = c.got /\ s.step = c.step /\ s.states = c.states
        /\ s.todo = c.todo /\ s.pc = "look" /\ c.pc = "mark"
    BY <1>1, <1>3 DEF Context, Fields, MarkStale, At
  <2>2. Continue(e, s) /\ locks' = MarkExpired(locks, c.stale)
    BY <1>3 DEF MarkStale
  <2> HIDE DEF s
  <2>3. Tidy(e, s, locks)
    BY <1>1, <2>1, MovesTidy DEF Acquiring, Taking, Using
  <2>4. \A f : Spares(f, locks, locks')
    BY <1>1, <2>2, MarkSpares
  <2>5. Tidy(e, s, locks')
    BY <2>3, <2>4, SparedIsTidy
  <2> QED BY <2>2, <2>4, <2>5 DEF Good
<1>4. CASE LookUp(e)
  <2> DEFINE live == LiveRows(locks, Head(c.todo))
             n == IF live = {} THEN 0 ELSE CHOOSE l \in live : TRUE
             s == [c EXCEPT !.found = n, !.pc = "decide"]
  <2>1. /\ s.held = c.held /\ s.got = c.got /\ s.step = c.step /\ s.states = c.states
        /\ s.todo = c.todo /\ s.pc = "decide" /\ s.found = n /\ c.pc = "look"
    BY <1>1, <1>4 DEF Context, Fields, LookUp, At
  <2>2. Continue(e, s) /\ UNCHANGED locks
    BY <1>4 DEF LookUp
  <2>3. n # 0 => n \in live
    OBVIOUS
  <2>4. n # 0 => n \in Rows(locks) /\ locks[n].target = Head(c.todo)
    BY <2>3 DEF LiveRows, ActiveRows
  <2> HIDE DEF s, n
  <2>5. Tidy(e, s, locks)
    BY <1>1, <2>1, <2>4, MovesTidy DEF Acquiring, Taking, Using
  <2> QED BY <2>2, <2>5, SameTableGood
<1> QED BY <1>2, <1>3, <1>4

LEMMA JoinedIds ==
  ASSUME NEW s \in Seq(Nat), NEW t \in Seq(Nat)
  PROVE  s \o t \in Seq(Nat) /\ Ids(s \o t) = Ids(s) \cup Ids(t)
<1>1. s \o t \in Seq(Nat) /\ Len(s \o t) = Len(s) + Len(t)
  OBVIOUS
<1>2. Ids(s \o t) \subseteq Ids(s) \cup Ids(t)
  BY DEF Ids
<1>3. Ids(s) \subseteq Ids(s \o t)
  BY DEF Ids
<1>4. ASSUME NEW k \in DOMAIN t
      PROVE  t[k] \in Ids(s \o t)
  <2>1. Len(s) + k \in DOMAIN (s \o t) /\ (s \o t)[Len(s) + k] = t[k]
    OBVIOUS
  <2> QED BY <2>1 DEF Ids
<1> QED BY <1>1, <1>2, <1>3, <1>4 DEF Ids

LEMMA AppendedIds ==
  ASSUME NEW s \in Seq(Nat), NEW l \in Nat
  PROVE  Append(s, l) \in Seq(Nat) /\ Ids(Append(s, l)) = Ids(s) \cup {l}
<1> DEFINE a == Append(s, l)
<1>1. /\ a \in Seq(Nat)
      /\ DOMAIN a = DOMAIN s \cup {Len(s) + 1}
      /\ a[Len(s) + 1] = l
      /\ \A k \in DOMAIN s : a[k] = s[k]
  OBVIOUS
<1> HIDE DEF a
<1>2. Ids(a) = Ids(s) \cup {l}
  BY <1>1 DEF Ids
<1> QED BY <1>1, <1>2 DEF a

(* The lock l now serves the target at the head of todo.                   *)
LEMMA ObtainedIsTidy ==
  ASSUME NEW e \in Executions, NEW table, NEW l \in Nat,
         Context(e, run[e]), Behind(e, run[e]), Tidy(e, run[e], locks), At(e, "decide"),
         l \in Rows(table), table[l].target = Head(run[e].todo),
         \A k \in Rows(locks) : k \in Rows(table) /\ table[k].target = locks[k].target,
         \A k \in Mine(table, e) : k \in Mine(locks, e) \/ k = l
  PROVE  Tidy(e, Obtained(e, l), table)
<1> DEFINE c == run[e]
           r == [c EXCEPT !.got = Append(@, l), !.todo = Tail(@), !.found = 0]
           more == [r EXCEPT !.pc = "sweep"]
           b == Becomes(r, "ready")
           full == [b EXCEPT !.pc = "approve", !.held = @ \o r.got, !.got = <<>>]
<1>1. c.pc = "decide" /\ c.held \in Seq(Nat) /\ c.got \in Seq(Nat)
      /\ Acquires(e, c, locks) /\ Known(e, c, locks)
  BY DEF At, Tidy
<1>2. c.todo # <<>> /\ c.todo \in Seq(Targets) /\ c.step \in DOMAIN Plan[e]
  BY <1>1 DEF Context, Acquiring
<1>3. /\ \A k \in DOMAIN c.todo : c.todo[k] \in TargetsOf(e, c.step)
      /\ c.states[c.step].attempts = 0
      /\ \A k \in Ids(c.got) : k \in Rows(locks) /\ locks[k].target \in TargetsOf(e, c.step)
  BY <1>1 DEF Acquires, Acquiring
<1>4. /\ r.got = Append(c.got, l) /\ r.todo = Tail(c.todo) /\ r.held = c.held
      /\ r.step = c.step /\ r.states = c.states /\ DOMAIN r = Fields
  BY DEF Context, Fields
<1>5. /\ Append(c.got, l) \in Seq(Nat)
      /\ Ids(Append(c.got, l)) = Ids(c.got) \cup {l}
  BY <1>1, AppendedIds
<1>6. table[l].target \in TargetsOf(e, c.step)
  BY <1>2, <1>3
<1>7. \A k \in Ids(c.got) \cup {l} : k \in Rows(table) /\ table[k].target \in TargetsOf(e, c.step)
  BY <1>3, <1>6
<1>8. \A k \in Mine(table, e) :
        \/ k \in Ids(c.got) \cup {l}
        \/ k \in Ids(c.held) /\ StoppedFor(e, c, table[k].target, c.step)
  <2> SUFFICES ASSUME NEW k \in Mine(table, e), k # l, k \notin Ids(c.got)
               PROVE  k \in Ids(c.held) /\ StoppedFor(e, c, table[k].target, c.step)
    OBVIOUS
  <2>1. k \in Mine(locks, e) /\ table[k].target = locks[k].target
    BY DEF Mine
  <2> QED BY <1>1, <2>1 DEF Known, Taking, Using, Acquiring
<1>9. \A k \in DOMAIN Tail(c.todo) : Tail(c.todo)[k] \in TargetsOf(e, c.step)
  <2>1. \A k \in DOMAIN Tail(c.todo) : k + 1 \in DOMAIN c.todo /\ Tail(c.todo)[k] = c.todo[k + 1]
    BY <1>2
  <2> QED BY <1>3, <2>1
<1> HIDE DEF r, c
<1>10. Tidy(e, more, table)
  <2>1. /\ more.got = r.got /\ more.todo = r.todo /\ more.held = r.held /\ more.pc = "sweep"
        /\ more.step = r.step /\ more.states = r.states
    BY <1>4 DEF Fields
  <2> HIDE DEF more
  <2>2. \A t : StoppedFor(e, c, t, c.step) => StoppedFor(e, more, t, c.step)
    BY <1>4, <2>1 DEF StoppedFor
  <2>3. Known(e, more, table)
    BY <1>4, <1>5, <1>8, <2>1, <2>2 DEF Known, Taking, Acquiring
  <2>4. Acquires(e, more, table)
    BY <1>3, <1>4, <1>5, <1>7, <1>9, <2>1 DEF Acquires
  <2> QED BY <1>1, <1>4, <1>5, <2>1, <2>3, <2>4 DEF Tidy
<1>11. Tidy(e, full, table)
  <2>1. Context(e, c) /\ Behind(e, c)
    BY DEF c
  <2>2. c.step \in DOMAIN Plan[e] /\ c.states \in [DOMAIN Plan[e] -> StepState]
    BY <1>2, <2>1 DEF Behind
  <2> DEFINE new == [c.states EXCEPT ![c.step].status = "ready"]
  <2>3. /\ new[c.step] = [status |-> "ready", attempts |-> 0]
        /\ \A i \in DOMAIN Plan[e] : i < c.step => new[i] = c.states[i]
    BY <1>3, <2>2, StepsAreTyped DEF StepState
  <2>4. b = [r EXCEPT !.states = new]
    BY <1>4 DEF Becomes, Fields
  <2> HIDE DEF new, b
  <2>5. /\ DOMAIN b = Fields /\ b.held = c.held /\ b.step = c.step /\ b.states = new
    BY <1>4, <2>4 DEF Fields
  <2>6. /\ full.held = c.held \o r.got /\ full.got = <<>> /\ full.step = c.step
        /\ full.states = new /\ full.pc = "approve"
    BY <2>5 DEF Fields
  <2> HIDE DEF full
  <2>7. \A t : StoppedFor(e, c, t, c.step) => StoppedFor(e, full, t, c.step)
    BY <2>3, <2>6 DEF StoppedFor
  <2>8. /\ full.held \in Seq(Nat)
        /\ Ids(full.held) = Ids(c.held) \cup Ids(c.got) \cup {l}
    <3>1. c.held \o Append(c.got, l) \in Seq(Nat)
          /\ Ids(c.held \o Append(c.got, l)) = Ids(c.held) \cup Ids(Append(c.got, l))
      BY <1>1, <1>5, JoinedIds
    <3> QED BY <1>4, <1>5, <2>6, <3>1
  <2>9. Known(e, full, table)
    BY <1>7, <1>8, <2>6, <2>7, <2>8 DEF Known, Using
  <2>10. Acquires(e, full, table)
    BY <2>6 DEF Acquires, Acquiring
  <2>11. full.states[full.step] = [status |-> "ready", attempts |-> 0] /\ full.got \in Seq(Nat)
    BY <2>3, <2>6
  <2> QED BY <2>8, <2>9, <2>10, <2>11 DEF Tidy
<1> QED
  BY <1>10, <1>11 DEF Obtained, c, r

LEMMA DecideTidy ==
  ASSUME TidyInv, NEW e \in Executions, Decide(e)
  PROVE  Good(e)
<1> DEFINE c == run[e]
           t == Head(c.todo)
<1>1. /\ Context(e, c) /\ Behind(e, c) /\ Tidy(e, c, locks) /\ locks \in Seq(LockRow)
      /\ At(e, "decide")
  BY TidyContext DEF Decide
<1>2. c.pc = "decide" /\ c.todo # <<>> /\ t \in Targets
  BY <1>1 DEF At, Context, Acquiring
<1>3. CASE c.found # 0 /\ Continue(e, Obtained(e, c.found)) /\ UNCHANGED locks
  <2>1. c.found \in Rows(locks) /\ locks[c.found].target = t
    BY <1>1, <1>2, <1>3 DEF Tidy, Acquires, Acquiring
  <2>2. c.found \in Nat
    BY <1>1, <2>1 DEF Rows
  <2>3. Tidy(e, Obtained(e, c.found), locks)
    BY <1>1, <2>1, <2>2, ObtainedIsTidy
  <2> QED BY <1>3, <2>3, SameTableGood
<1>4. ASSUME NEW throws, Continue(e, RollsBack(e, throws)), UNCHANGED locks
      PROVE  Good(e)
  <2> DEFINE s == RollsBack(e, throws)
  <2>1. /\ s.held = c.held /\ s.got = c.got /\ s.step = c.step /\ s.states = c.states
        /\ s.pc = "rollback"
    BY <1>1 DEF RollsBack, Context, Fields
  <2>2. Continue(e, s)
    BY <1>4
  <2> HIDE DEF s
  <2>3. \A x : StoppedFor(e, c, x, c.step) => StoppedFor(e, s, x, c.step)
    BY <2>1 DEF StoppedFor
  <2>4. Known(e, s, locks)
    BY <1>1, <1>2, <2>1, <2>3 DEF Tidy, Known, Taking, Using, Acquiring
  <2>5. Tidy(e, s, locks)
    BY <1>1, <2>1, <2>4 DEF Tidy, Acquires, Acquiring
  <2> QED BY <1>4, <2>2, <2>5, SameTableGood
<1>5. CASE /\ MayInsert(locks, t) /\ locks' = Insert(locks, t, e, TimeToLive(e))
           /\ Continue(e, Obtained(e, Len(locks) + 1))
  <2> DEFINE n == Len(locks) + 1
             row == [target |-> t, owner |-> e, left |-> TimeToLive(e), status |-> "active"]
  <2>1. locks' = Append(locks, row)
    BY <1>5 DEF Insert
  <2>2. row.target = t /\ row.owner = e
    OBVIOUS
  <2> HIDE DEF row
  <2>3. /\ n \in Nat /\ n \notin Rows(locks)
        /\ Rows(locks') = Rows(locks) \cup {n}
        /\ \A k \in Rows(locks) : locks'[k] = locks[k]
        /\ locks'[n] = row
    BY <1>1, <2>1 DEF Rows
  <2> HIDE DEF n
  <2>4. ASSUME NEW f \in Executions \ {e}
        PROVE  Spares(f, locks, locks')
    BY <2>2, <2>3 DEF Spares
  <2>5. \A k \in Mine(locks', e) : k \in Mine(locks, e) \/ k = n
    BY <2>3 DEF Mine
  <2>6. Tidy(e, Obtained(e, n), locks')
    BY <1>1, <2>2, <2>3, <2>5, ObtainedIsTidy
  <2> QED BY <1>5, <2>4, <2>6 DEF Good, n
<1> QED BY <1>3, <1>4, <1>5 DEF Decide

(* A list of locks without its head, which has been released.              *)
LEMMA TailIds ==
  ASSUME NEW s \in Seq(Nat), s # <<>>
  PROVE  /\ Tail(s) \in Seq(Nat)
         /\ \A l \in Ids(s) : l = Head(s) \/ l \in Ids(Tail(s))
         /\ Ids(Tail(s)) \subseteq Ids(s)
<1> DEFINE t == Tail(s)
<1>1. /\ t \in Seq(Nat) /\ Len(s) \in Nat /\ Len(s) > 0
      /\ DOMAIN t = 1..(Len(s) - 1) /\ DOMAIN s = 1..Len(s)
      /\ \A k \in DOMAIN t : t[k] = s[k + 1]
      /\ Head(s) = s[1]
  OBVIOUS
<1> HIDE DEF t
<1>2. ASSUME NEW k \in DOMAIN s, k # 1
      PROVE  s[k] \in Ids(t)
  <2>0. k - 1 \in DOMAIN t /\ (k - 1) + 1 = k
    BY <1>1, <1>2
  <2>1. k - 1 \in DOMAIN t /\ t[k - 1] = s[k]
    BY <1>1, <2>0
  <2> QED BY <2>1 DEF Ids
<1>3. \A k \in DOMAIN t : k + 1 \in DOMAIN s
  BY <1>1
<1> QED BY <1>1, <1>2, <1>3 DEF Ids, t

LEMMA RollbackTidy ==
  ASSUME TidyInv, NEW e \in Executions, Rollback(e)
  PROVE  Good(e)
<1> DEFINE c == run[e]
<1>1. /\ Context(e, c) /\ Behind(e, c) /\ Tidy(e, c, locks) /\ locks \in Seq(LockRow)
      /\ c.held \in Seq(Nat) /\ c.got \in Seq(Nat) /\ c.pc = "rollback"
  BY TidyContext DEF Rollback, At
<1>2. \A l \in Mine(locks, e) :
        \/ l \in Ids(c.got)
        \/ l \in Ids(c.held) /\ StoppedFor(e, c, locks[l].target, c.step)
  BY <1>1 DEF Tidy, Known, Using, Taking, Acquiring
<1>3. \A l \in Mine(locks, e) : l \in Ids(c.held) \/ l \in Ids(c.got)
  BY <1>2
<1>4. CASE c.got # <<>>
  <2> DEFINE s == [c EXCEPT !.got = Tail(@)]
  <2>1. /\ s.got = Tail(c.got) /\ s.held = c.held /\ s.step = c.step
        /\ s.states = c.states /\ s.pc = "rollback"
    BY <1>1 DEF Context, Fields
  <2>2. Continue(e, s) /\ locks' = Release(locks, Head(c.got), e)
    BY <1>4 DEF Rollback
  <2> HIDE DEF s, c
  <2>3. /\ \A f : Spares(f, locks, locks')
        /\ \A l \in Mine(locks', e) : l # Head(c.got)
    BY <1>1, <2>2, ReleaseFrees
  <2>4. /\ Tail(c.got) \in Seq(Nat)
        /\ \A l \in Ids(c.got) : l = Head(c.got) \/ l \in Ids(Tail(c.got))
    BY <1>1, <1>4, TailIds
  <2>5. \A l \in Mine(locks', e) : l \in Mine(locks, e) /\ locks'[l].target = locks[l].target
    BY <2>3 DEF Mine, Spares
  <2>6. \A x : StoppedFor(e, c, x, c.step) => StoppedFor(e, s, x, c.step)
    BY <2>1 DEF StoppedFor
  <2>7. Known(e, s, locks')
    BY <1>2, <2>1, <2>3, <2>4, <2>5, <2>6 DEF Known, Taking
  <2>8. Tidy(e, s, locks')
    BY <1>1, <2>1, <2>4, <2>7 DEF Tidy, Acquires, Acquiring
  <2> QED BY <2>2, <2>3, <2>8 DEF Good
<1>5. CASE c.got = <<>>
  <2>1. \A l \in Mine(locks, e) : l \in Ids(c.held) /\ StoppedFor(e, c, locks[l].target, c.step)
    BY <1>2, <1>5 DEF Ids
  <2>2. Tidy(e, Throw(c), locks)
    BY <1>1, <2>1, LaterStops, LeavingIsTidy DEF Leaves
  <2>3. Tidy(e, NextStep(e, Becomes(c, "blocked")), locks)
    BY <1>1, <2>1, BecomesLeaves
  <2>4. UNCHANGED locks /\ \E r : Continue(e, r) /\ Tidy(e, r, locks)
    BY <1>5, <2>2, <2>3 DEF Rollback
  <2> QED BY <2>4, SameTableGood
<1> QED BY <1>4, <1>5

LEMMA ReleaseStepLocksTidy ==
  ASSUME TidyInv, NEW e \in Executions, ReleaseStepLocks(e)
  PROVE  Good(e)
<1> DEFINE c == run[e]
<1>1. /\ Context(e, c) /\ Tidy(e, c, locks) /\ locks \in Seq(LockRow)
      /\ c.held \in Seq(Nat) /\ c.got \in Seq(Nat) /\ c.pc = "release"
  BY TidyContext DEF ReleaseStepLocks, At
<1>2. \A l \in Mine(locks, e) :
        /\ l \in Ids(c.held)
        /\ \/ StoppedFor(e, c, locks[l].target, c.step)
           \/ locks[l].target \in TargetsOf(e, c.step)
  BY <1>1 DEF Tidy, Known, Taking, Acquiring
<1>3. CASE c.held # <<>>
  <2> DEFINE s == [c EXCEPT !.held = Tail(@)]
  <2>1. /\ s.held = Tail(c.held) /\ s.got = c.got /\ s.step = c.step
        /\ s.states = c.states /\ s.pc = "release"
    BY <1>1 DEF Context, Fields
  <2>2. Continue(e, s) /\ locks' = Release(locks, Head(c.held), e)
    BY <1>3 DEF ReleaseStepLocks
  <2> HIDE DEF s, c
  <2>3. /\ \A f : Spares(f, locks, locks')
        /\ \A l \in Mine(locks', e) : l # Head(c.held)
    BY <1>1, <2>2, ReleaseFrees
  <2>4. /\ Tail(c.held) \in Seq(Nat)
        /\ \A l \in Ids(c.held) : l = Head(c.held) \/ l \in Ids(Tail(c.held))
    BY <1>1, <1>3, TailIds
  <2>5. \A l \in Mine(locks', e) : l \in Mine(locks, e) /\ locks'[l].target = locks[l].target
    BY <2>3 DEF Mine, Spares
  <2>6. \A x : StoppedFor(e, c, x, c.step) => StoppedFor(e, s, x, c.step)
    BY <2>1 DEF StoppedFor
  <2>7. Known(e, s, locks')
    BY <1>2, <2>1, <2>3, <2>4, <2>5, <2>6 DEF Known, Using
  <2>8. Tidy(e, s, locks')
    BY <1>1, <2>1, <2>4, <2>7 DEF Tidy, Acquires, Acquiring
  <2> QED BY <2>2, <2>3, <2>8 DEF Good
<1>4. CASE c.held = <<>>
  <2>1. Mine(locks, e) = {}
    BY <1>2, <1>4 DEF Ids
  <2>2. Leaves(e, c, locks)
    BY <1>1, <2>1 DEF Leaves
  <2>3. UNCHANGED locks /\ \E r : Continue(e, r) /\ Tidy(e, r, locks)
    BY <1>4, <2>2, LeavingIsTidy DEF ReleaseStepLocks
  <2> QED BY <2>3, SameTableGood
<1> QED BY <1>3, <1>4

(* A step that its approval stops keeps its locks, and is seen as stopped. *)
LEMMA ApproveTidy ==
  ASSUME TidyInv, NEW e \in Executions, Approve(e)
  PROVE  Good(e)
<1> DEFINE c == run[e]
           go == [c EXCEPT !.pc = "attempt"]
           bad == Becomes(c, "failed")
<1>1. /\ Context(e, c) /\ Behind(e, c) /\ Tidy(e, c, locks)
      /\ c.held \in Seq(Nat) /\ c.got \in Seq(Nat) /\ c.pc = "approve"
      /\ c.states[c.step] = [status |-> "ready", attempts |-> 0]
  BY TidyContext DEF Approve, At, Tidy
<1>2. \A l \in Mine(locks, e) :
        /\ l \in Ids(c.held)
        /\ \/ StoppedFor(e, c, locks[l].target, c.step)
           \/ locks[l].target \in TargetsOf(e, c.step)
  BY <1>1 DEF Tidy, Known, Taking, Acquiring
<1>3. c.step \in DOMAIN Plan[e] /\ c.step < c.step + 1
  BY <1>1, StepsAreTyped DEF Context
<1>4. Tidy(e, go, locks)
  <2>1. /\ go.held = c.held /\ go.got = c.got /\ go.step = c.step /\ go.states = c.states
        /\ go.todo = c.todo /\ go.pc = "attempt"
    BY <1>1 DEF Context, Fields
  <2> HIDE DEF go
  <2> QED BY <1>1, <2>1, MovesTidy DEF Acquiring, Taking, Using
<1>5. Leaves(e, c, locks)
  <2>1. \A t \in TargetsOf(e, c.step) : StoppedFor(e, c, t, c.step + 1)
    BY <1>1, <1>3 DEF StoppedFor
  <2> QED BY <1>1, <1>2, <2>1, LaterStops DEF Leaves
<1>6. Leaves(e, bad, locks)
  <2>1. Context(e, bad) /\ Restates(e, c, "failed", bad)
    BY <1>1, BecomesContext, BecomesFields
  <2> HIDE DEF bad
  <2>2. /\ bad.held = c.held /\ bad.got = c.got /\ bad.step = c.step
        /\ bad.states[c.step] = [status |-> "failed", attempts |-> 0]
        /\ \A t : StoppedFor(e, c, t, c.step) => StoppedFor(e, bad, t, c.step)
    BY <1>1, <2>1 DEF Restates
  <2>3. \A t \in TargetsOf(e, c.step) : StoppedFor(e, bad, t, c.step + 1)
    BY <1>3, <2>2 DEF StoppedFor
  <2>4. \A t : StoppedFor(e, c, t, c.step) => StoppedFor(e, bad, t, c.step + 1)
    BY <2>1, <2>2, LaterStops
  <2> QED BY <1>1, <1>2, <2>1, <2>2, <2>3, <2>4 DEF Leaves
<1>7. /\ Tidy(e, Throw(c), locks)
      /\ Tidy(e, Throw(bad), locks) /\ Tidy(e, NextStep(e, bad), locks)
  BY <1>5, <1>6, LeavingIsTidy
<1>8. UNCHANGED locks /\ \E r : Continue(e, r) /\ Tidy(e, r, locks)
  BY <1>4, <1>7 DEF Approve
<1> QED BY <1>8, SameTableGood

LEMMA AttemptTidy ==
  ASSUME TidyInv, NEW e \in Executions, Attempt(e)
  PROVE  Good(e)
<1> DEFINE c == run[e]
           n == Attempts(e) + 1
           status == IF n > 1 THEN "retrying" ELSE "running"
           b == Becomes(c, status)
           s == [b EXCEPT !.pc = "running", !.due = Here(e).timeout, !.states[c.step].attempts = n]
<1>1. /\ Context(e, c) /\ Behind(e, c) /\ Tidy(e, c, locks)
      /\ c.held \in Seq(Nat) /\ c.got \in Seq(Nat) /\ c.pc = "attempt"
  BY TidyContext DEF Attempt, At
<1>2. \A l \in Mine(locks, e) :
        /\ l \in Ids(c.held)
        /\ \/ StoppedFor(e, c, locks[l].target, c.step)
           \/ locks[l].target \in TargetsOf(e, c.step)
  BY <1>1 DEF Tidy, Known, Taking, Acquiring
<1>3. Continue(e, s) /\ UNCHANGED locks
  BY DEF Attempt
<1> HIDE DEF n, status
<1>4. Restates(e, c, status, b) /\ Context(e, b)
  BY <1>1, BecomesContext, BecomesFields
<1> HIDE DEF b
<1>5. /\ DOMAIN b = Fields /\ b.held = c.held /\ b.got = c.got /\ b.step = c.step
      /\ \A t : StoppedFor(e, c, t, c.step) => StoppedFor(e, b, t, c.step)
  BY <1>4 DEF Restates
<1>6. /\ s.held = c.held /\ s.got = c.got /\ s.step = c.step /\ s.pc = "running"
      /\ s.states = [b.states EXCEPT ![c.step].attempts = n]
  BY <1>5 DEF Fields
<1> HIDE DEF s
<1>7. \A i \in DOMAIN Plan[e] : i < c.step => s.states[i] = b.states[i]
  <2>1. c.step \in DOMAIN Plan[e]
    BY <1>1 DEF Context
  <2>2. \A i \in DOMAIN Plan[e] : i < c.step => i # c.step
    BY <2>1, StepsAreTyped
  <2>3. \A i : i # c.step /\ i \in DOMAIN b.states => s.states[i] = b.states[i]
    BY <1>6
  <2>4. DOMAIN b.states = DOMAIN Plan[e]
    BY <1>1 DEF b, Becomes, Behind, Context, Fields
  <2> QED BY <2>2, <2>3, <2>4
<1>8. \A t : StoppedFor(e, c, t, c.step) => StoppedFor(e, s, t, c.step)
  BY <1>5, <1>7 DEF StoppedFor
<1>9. Known(e, s, locks) /\ Acquires(e, s, locks)
  BY <1>2, <1>6, <1>8 DEF Known, Acquires, Using, Acquiring
<1>10. Tidy(e, s, locks)
  BY <1>1, <1>6, <1>9 DEF Tidy
<1> QED BY <1>3, <1>10, SameTableGood

(* The other actions of an execution leave the table alone.                *)
OtherStep(e) ==
  \/ Start(e) \/ ActionReturns(e) \/ ActionRaises(e) \/ TimesOut(e)
  \/ VerificationEnds(e) \/ WakeUp(e)

LEMMA OtherTidy ==
  ASSUME TidyInv, NEW e \in Executions, OtherStep(e)
  PROVE  Good(e)
<1> DEFINE c == run[e]
<1>1. Context(e, c) /\ Tidy(e, c, locks)
  BY TidyContext
<1>0. UNCHANGED locks
  BY DEF OtherStep, Start, ActionReturns, ActionRaises, TimesOut, VerificationEnds, WakeUp
<1>2. CASE c.pc \in {"running", "verify"}
          /\ (Continue(e, AttemptSucceeds(e)) \/ Continue(e, AttemptFails(e)))
  BY <1>0, <1>2, AttemptIsTidy, SameTableGood
<1>3. CASE Start(e)
  <2> DEFINE s == [c EXCEPT !.pc = "next"]
  <2>1. /\ s.held = c.held /\ s.got = c.got /\ s.step = c.step /\ s.states = c.states
        /\ s.todo = c.todo /\ s.pc = "next" /\ c.pc = "new"
    BY <1>1, <1>3 DEF Context, Fields, Start, At
  <2>2. Continue(e, s)
    BY <1>3 DEF Start
  <2> HIDE DEF s
  <2>3. Tidy(e, s, locks)
    BY <1>1, <2>1, MovesTidy DEF Acquiring, Taking, Using
  <2> QED BY <1>0, <2>2, <2>3, SameTableGood
<1>4. CASE ActionReturns(e) /\ Here(e).verified
  <2> DEFINE s == [c EXCEPT !.pc = "verify", !.due = 0]
  <2>1. /\ s.held = c.held /\ s.got = c.got /\ s.step = c.step /\ s.states = c.states
        /\ s.todo = c.todo /\ s.pc = "verify" /\ c.pc = "running"
    BY <1>1, <1>4 DEF Context, Fields, ActionReturns, At
  <2>2. Continue(e, s)
    BY <1>4 DEF ActionReturns
  <2> HIDE DEF s
  <2>3. Tidy(e, s, locks)
    BY <1>1, <2>1, MovesTidy DEF Acquiring, Taking, Using
  <2> QED BY <1>0, <2>2, <2>3, SameTableGood
<1>5. CASE WakeUp(e)
  <2> DEFINE s == [c EXCEPT !.pc = "attempt"]
  <2>1. /\ s.held = c.held /\ s.got = c.got /\ s.step = c.step /\ s.states = c.states
        /\ s.todo = c.todo /\ s.pc = "attempt" /\ c.pc = "backoff"
    BY <1>1, <1>5 DEF Context, Fields, WakeUp, At
  <2>2. Continue(e, s)
    BY <1>5 DEF WakeUp
  <2> HIDE DEF s
  <2>3. Tidy(e, s, locks)
    BY <1>1, <2>1, MovesTidy DEF Acquiring, Taking, Using
  <2> QED BY <1>0, <2>2, <2>3, SameTableGood
<1> QED
  BY <1>2, <1>3, <1>4, <1>5
     DEF OtherStep, ActionReturns, ActionRaises, TimesOut, VerificationEnds, At

-----------------------------------------------------------------------------
(* The whole                                                               *)

LEMMA TidyStep ==
  ASSUME TidyInv, NEW e \in Executions, Good(e)
  PROVE  \A f \in Executions : Tidy(f, run'[f], locks')
<1>1. PICK r : Continue(e, r) /\ Tidy(e, r, locks')
  BY DEF Good
<1>2. run' = [f \in Executions |-> IF f = e THEN r ELSE run[f]]
  BY <1>1 DEF TidyInv, OrderInv, LockInv, RunsAreContexts, Continue
<1>3. ASSUME NEW f \in Executions, f # e
      PROVE  Tidy(f, run[f], locks')
  BY <1>3, SparedIsTidy DEF Good, TidyInv
<1> QED BY <1>1, <1>2, <1>3

LEMMA FreshIsTidy ==
  ASSUME NEW e \in Executions
  PROVE  /\ \A table : Tidy(e, [Fresh(e) EXCEPT !.pc = "crashed"], table)
         /\ Tidy(e, Fresh(e), <<>>)
<1>1. ASSUME NEW r, NEW table, r.held = <<>>, r.got = <<>>,
             r.pc = "crashed" \/ (r.pc = "new" /\ table = <<>>)
      PROVE  Tidy(e, r, table)
  <2>1. r.held \in Seq(Nat) /\ r.got \in Seq(Nat)
    BY <1>1
  <2>2. table = <<>> => Mine(table, e) = {}
    BY DEF Mine, Rows
  <2>3. Known(e, r, table) /\ Acquires(e, r, table)
    BY <1>1, <2>2 DEF Known, Acquires, Acquiring
  <2> QED BY <1>1, <2>1, <2>3 DEF Tidy
<1> DEFINE s == Fresh(e)
           x == [s EXCEPT !.pc = "crashed"]
<1>2. /\ s.held = <<>> /\ s.got = <<>> /\ s.pc = "new"
      /\ x.held = <<>> /\ x.got = <<>> /\ x.pc = "crashed"
  BY DEF Fresh
<1> HIDE DEF s, x
<1>3. Tidy(e, s, <<>>) /\ \A table : Tidy(e, x, table)
  BY <1>1, <1>2
<1> QED BY <1>3 DEF s, x

LEMMA InitTidyInv == Init => TidyInv
<1> SUFFICES ASSUME Init PROVE TidyInv
  OBVIOUS
<1>1. locks = <<>> /\ \A e \in Executions : run[e] = Fresh(e)
  BY DEF Init
<1>2. OrderInv
  BY InitOrderInv
<1> QED BY <1>1, <1>2, FreshIsTidy DEF TidyInv

LEMMA CrashTidy ==
  ASSUME TidyInv, Crash
  PROVE  \A f \in Executions : Tidy(f, run'[f], locks')
<1>1. /\ run' = [e \in Executions |->
                   IF Live(e) THEN [Fresh(e) EXCEPT !.pc = "crashed"] ELSE run[e]]
      /\ locks' = locks
  BY DEF Crash
<1>2. ASSUME NEW f \in Executions
      PROVE  Tidy(f, [Fresh(f) EXCEPT !.pc = "crashed"], locks) /\ Tidy(f, run[f], locks)
  BY FreshIsTidy DEF TidyInv
<1> QED BY <1>1, <1>2

LEMMA TickTidy ==
  ASSUME TidyInv, Tick
  PROVE  \A f \in Executions : Tidy(f, run'[f], locks')
<1>1. run' = [e \in Executions |-> Older(run[e])] /\ locks' = Age(locks)
  BY DEF Tick
<1>2. ASSUME NEW f \in Executions
      PROVE  Tidy(f, Older(run[f]), locks)
  <2> DEFINE c == run[f]
             s == Older(c)
  <2>1. Context(f, c) /\ Tidy(f, c, locks)
    BY TidyContext
  <2>2. /\ s.held = c.held /\ s.got = c.got /\ s.step = c.step /\ s.states = c.states
        /\ s.todo = c.todo /\ s.found = c.found /\ s.pc = c.pc
    BY <2>1 DEF Older, Context, Fields
  <2> HIDE DEF s
  <2>3. \A t, n : StoppedFor(f, c, t, n) => StoppedFor(f, s, t, n)
    BY <2>2 DEF StoppedFor
  <2>4. Known(f, s, locks)
    BY <2>1, <2>2, <2>3 DEF Tidy, Known
  <2>5. Acquires(f, s, locks)
    BY <2>1, <2>2 DEF Tidy, Acquires
  <2>6. Tidy(f, s, locks)
    BY <2>1, <2>2, <2>4, <2>5 DEF Tidy
  <2> QED BY <2>6 DEF s
<1>3. locks \in Seq(LockRow)
  BY DEF TidyInv, OrderInv, LockInv, TableIsTyped
<1>4. \A f \in Executions : Tidy(f, Older(run[f]), Age(locks))
  BY <1>2, <1>3, AgeSpares, SparedIsTidy
<1> QED BY <1>1, <1>4

LEMMA NextTidyInv == TidyInv /\ [Next]_vars => TidyInv'
<1> SUFFICES ASSUME TidyInv, [Next]_vars PROVE TidyInv'
  OBVIOUS
<1>1. OrderInv'
  BY NextOrderInv DEF TidyInv
<1>0. SUFFICES \A f \in Executions : Tidy(f, run'[f], locks')
  BY <1>1 DEF TidyInv, Tidy, Acquires, Known, Mine, StoppedFor, TargetsOf, Rows, Ids
<1>2. ASSUME NEW e \in Executions, EngineStep(e) \/ Start(e) \/ ActionReturns(e) \/ ActionRaises(e)
      PROVE  Good(e)
  BY <1>2, BeginStepTidy, SweepTidy, DecideTidy, RollbackTidy, ApproveTidy, AttemptTidy,
     ReleaseStepLocksTidy, OtherTidy DEF EngineStep, OtherStep
<1>3. CASE UNCHANGED <<run, locks>>
  BY <1>3 DEF TidyInv
<1> QED BY <1>2, <1>3, TidyStep, CrashTidy, TickTidy DEF Next, StrayEnds, vars

(* The engine knows its locks in every behaviour.                          *)
THEOREM TidyInvariance == Spec => []TidyInv
BY InitTidyInv, NextTidyInv, PTL DEF Spec

(* A plan that has come to its end, by completion, by an exception or by a *)
(* refusal, holds no lock but those of a step its approval stopped         *)
(* (plan-execution-engine.js:450, the finally of _executeStep).            *)
THEOREM EndedHoldsNothing == Spec => []NothingLeaked
<1>1. ASSUME TidyInv, NEW e \in Executions, NEW l \in Rows(locks), At(e, "ended"),
             locks[l].owner = e, locks[l].status = "active"
      PROVE  \E i \in DOMAIN Plan[e] :
               StoppedAtApproval(e, i) /\ locks[l].target \in TargetsOf(e, i)
  <2>1. l \in Mine(locks, e) /\ Known(e, run[e], locks) /\ run[e].pc = "ended"
    BY <1>1 DEF Mine, TidyInv, Tidy, At
  <2>2. StoppedFor(e, run[e], locks[l].target, run[e].step + 1)
    BY <2>1 DEF Known, Taking, Using, Acquiring
  <2> QED BY <2>2 DEF StoppedFor, StoppedAtApproval
<1>2. TidyInv => NothingLeaked
  BY <1>1 DEF NothingLeaked
<1> QED BY <1>2, TidyInvariance, PTL
=============================================================================
