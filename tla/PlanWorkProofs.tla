--------------------------- MODULE PlanWorkProofs --------------------------
(***************************************************************************)
(* Why the locks of a step last for as long as the step may take, through  *)
(* all its attempts and their delays, if it fits them at all: the time     *)
(* left of each lock exceeds what is left of the step, and both go down    *)
(* together.  Then no two executions wait for actions on one target.  The  *)
(* types of all variables follow, and why locks that a crash left behind   *)
(* abort no plan.                                                          *)
(***************************************************************************)
EXTENDS PlanLeakProofs

(* The attempts that are left, each with its delay.                        *)
Turns(s, k) == k * (s.timeout + s.delay)

StepOf(e, r) == Plan[e][r.step]
Count(r) == r.states[r.step].attempts

(* Where the execution has all its locks, and means to keep them.          *)
Covers == {"approve", "attempt", "running", "verify", "backoff"}

(* The time the step may still take.                                       *)
Rest(e, r) ==
  LET s == StepOf(e, r)
      k == s.attempts - Count(r)
  IN (Slack - r.spent) +
       CASE r.pc \in Acquiring \cup {"approve", "attempt"} -> s.timeout + Turns(s, k - 1)
         [] r.pc = "running" -> r.due + Turns(s, k)
         [] r.pc = "verify"  -> Turns(s, k)
         [] r.pc = "backoff" -> r.due + s.timeout + Turns(s, k - 1)
         [] OTHER -> 0

Timer(r) == r.spent \in 0..Slack /\ r.due \in Nat

(* The timer and the attempts of the current step.                         *)
Clock(e, r) ==
  /\ Timer(r)
  /\ r.pc \in Acquiring \cup {"approve"} => Count(r) = 0
  /\ r.pc \in {"attempt", "backoff"} => Count(r) < StepOf(e, r).attempts
  /\ r.pc \in {"running", "verify"} => Count(r) <= StepOf(e, r).attempts

(* No earlier step was stopped by its approval.                            *)
Unstopped(e, r) ==
  \A i \in DOMAIN Plan[e] :
    i < r.step => ~(r.states[i].status \in {"failed", "ready"} /\ r.states[i].attempts = 0)

(* The row l locks its target for as long as the step may take.            *)
Lasts(e, r, table, l) ==
  /\ l \in Rows(table)
  /\ table[l].owner = e /\ table[l].status = "active"
  /\ table[l].left > Rest(e, r)

Obtains(e, r, table) ==
  /\ \A l \in Ids(r.got) : Lasts(e, r, table, l)
  /\ \A t \in TargetsOf(e, r.step) :
       t \in Ids(r.todo) \/ \E l \in Ids(r.got) : table[l].target = t
  /\ r.pc = "decide" /\ r.found # 0 /\ table[r.found].owner = e => r.found \in Ids(r.got)

(* A lock of its own that the execution has found is one of those.         *)
FindsItsOwn(e, r, table) ==
  Unstopped(e, r) /\ FitsItsLocks(StepOf(e, r)) /\ r.pc = "decide" /\ r.found # 0
    /\ table[r.found].owner = e => r.found \in Ids(r.got)

Keeps(e, r, table) ==
  \A t \in TargetsOf(e, r.step) :
    \E l \in Rows(table) : Lasts(e, r, table, l) /\ table[l].target = t

(* What the locks of the current step are good for, if it fits them.       *)
Guarded(e, r, table) ==
  Unstopped(e, r) /\ FitsItsLocks(StepOf(e, r)) =>
    /\ r.pc \in Acquiring => Obtains(e, r, table)
    /\ r.pc \in Covers => Keeps(e, r, table)

Timed(e, r, table) == Clock(e, r) /\ Guarded(e, r, table)

WorkInv == TidyInv /\ \A e \in Executions : Timed(e, run[e], locks)

-----------------------------------------------------------------------------
(* Durations                                                               *)

LEMMA StepTimes ==
  ASSUME NEW e \in Executions, NEW i \in DOMAIN Plan[e]
  PROVE  /\ Plan[e][i].timeout \in Nat /\ Plan[e][i].delay \in Nat
         /\ Plan[e][i].attempts \in Nat /\ Plan[e][i].attempts > 0
<1>1. Plan[e][i] \in Step
  BY PlanAssumption
<1>2. \A s \in Step : /\ s.timeout \in Nat /\ s.delay \in Nat
                      /\ s.attempts \in Nat /\ s.attempts > 0
  BY DEF Step
<1> QED BY <1>1, <1>2

LEMMA TurnsAdd ==
  ASSUME NEW s, s.timeout \in Nat, s.delay \in Nat, NEW k \in Nat
  PROVE  /\ Turns(s, k) \in Nat
         /\ k > 0 => k - 1 \in Nat /\ Turns(s, k) = Turns(s, k - 1) + s.timeout + s.delay
<1> DEFINE x == s.timeout + s.delay
<1>1. x \in Nat
  OBVIOUS
<1> HIDE DEF x
<1>2. k * x \in Nat /\ (k - 1) * x = k * x - x
  BY <1>1
<1>3. Turns(s, k) = k * x /\ Turns(s, k - 1) = (k - 1) * x
  BY DEF Turns, x
<1>4. x = s.timeout + s.delay
  BY DEF x
<1>5. k > 0 => k - 1 \in Nat
  OBVIOUS
<1> HIDE DEF Turns
<1>6. Turns(s, k - 1) = Turns(s, k) - x /\ Turns(s, k) \in Nat
  BY <1>2, <1>3
<1> QED BY <1>1, <1>4, <1>5, <1>6

(* What FitsItsLocks comes to.                                             *)
LEMMA FitsTurns ==
  ASSUME NEW e \in Executions, NEW i \in DOMAIN Plan[e], FitsItsLocks(Plan[e][i])
  PROVE  Slack + Plan[e][i].timeout + Turns(Plan[e][i], Plan[e][i].attempts - 1)
           < Plan[e][i].timeout + Buffer
<1> DEFINE t == Plan[e][i].timeout
           d == Plan[e][i].delay
           a == Plan[e][i].attempts
<1>1. t \in Nat /\ d \in Nat /\ a \in Nat
  BY StepTimes
<1>2. a * t + (a - 1) * d + Slack < t + Buffer
  BY DEF FitsItsLocks
<1>3. Turns(Plan[e][i], a - 1) = (a - 1) * (t + d)
  BY DEF Turns
<1> HIDE DEF t, d, a
<1>4. (a - 1) * (t + d) + t = a * t + (a - 1) * d
  BY <1>1
<1>5. Slack \in Nat /\ Buffer \in Nat
  BY TimeAssumption
<1>6. a * t + (a - 1) * d \in Int /\ (a - 1) * (t + d) \in Int
  BY <1>1
<1> DEFINE w == (a - 1) * (t + d)
           v == a * t + (a - 1) * d
<1>7. w + t = v /\ v + Slack < t + Buffer /\ w \in Int /\ v \in Int
  BY <1>2, <1>4, <1>6
<1> HIDE DEF w, v
<1>8. Slack + t + w < t + Buffer
  BY <1>1, <1>5, <1>7
<1>9. Turns(Plan[e][i], a - 1) = w
  BY <1>3 DEF w
<1> QED BY <1>8, <1>9 DEF t, a

(* The step of a context, and what Rest is at each place.                  *)
LEMMA Durations ==
  ASSUME NEW e \in Executions, NEW r, Context(e, r), Behind(e, r)
  PROVE  /\ StepOf(e, r).timeout \in Nat /\ StepOf(e, r).delay \in Nat
         /\ StepOf(e, r).attempts \in Nat /\ StepOf(e, r).attempts > 0
         /\ Count(r) \in Nat /\ Slack \in Nat /\ Buffer \in Nat
<1>1. r.step \in DOMAIN Plan[e] /\ r.states[r.step] \in StepState
  BY DEF Context, Behind
<1>2. Count(r) \in Nat
  BY <1>1 DEF StepState, Count
<1> QED BY <1>1, <1>2, StepTimes, TimeAssumption DEF StepOf

LEMMA RestIsThere ==
  ASSUME NEW e \in Executions, NEW r, Context(e, r), Behind(e, r), Clock(e, r),
         r.pc \in Acquiring \cup Covers
  PROVE  Rest(e, r) \in Nat
<1> DEFINE s == StepOf(e, r)
           n == Count(r)
           k == s.attempts - n
<1>1. /\ s.timeout \in Nat /\ s.delay \in Nat /\ s.attempts \in Nat /\ s.attempts > 0
      /\ n \in Nat /\ Slack \in Nat
  BY Durations
<1>2. r.spent \in Nat /\ r.spent <= Slack /\ r.due \in Nat
  BY <1>1 DEF Clock, Timer
<1> DEFINE m == Slack - r.spent
<1>3. m \in Nat
  BY <1>1, <1>2
<1>4. CASE r.pc \in Acquiring \cup {"approve", "attempt"}
  <2>1. n < s.attempts
    BY <1>1, <1>4 DEF Clock
  <2>2. k - 1 \in Nat
    BY <1>1, <2>1
  <2>3. Turns(s, k - 1) \in Nat
    BY <1>1, <2>2, TurnsAdd
  <2>4. Rest(e, r) = m + (s.timeout + Turns(s, k - 1))
    BY <1>4 DEF Rest, Acquiring
  <2> HIDE DEF m, s, k
  <2> QED BY <1>1, <1>3, <2>3, <2>4
<1>5. CASE r.pc \in {"running", "verify"}
  <2>1. k \in Nat
    BY <1>1, <1>5 DEF Clock
  <2>2. Turns(s, k) \in Nat
    BY <1>1, <2>1, TurnsAdd
  <2>3. Rest(e, r) = m + (IF r.pc = "running" THEN r.due + Turns(s, k) ELSE Turns(s, k))
    BY <1>5 DEF Rest, Acquiring
  <2> HIDE DEF m, s, k
  <2> QED BY <1>2, <1>3, <2>2, <2>3
<1>6. CASE r.pc = "backoff"
  <2>2. k - 1 \in Nat
    BY <1>1, <1>6 DEF Clock
  <2>3. Turns(s, k - 1) \in Nat
    BY <1>1, <2>2, TurnsAdd
  <2>4. Rest(e, r) = m + (r.due + s.timeout + Turns(s, k - 1))
    BY <1>6 DEF Rest, Acquiring
  <2> HIDE DEF m, s, k
  <2> QED BY <1>1, <1>2, <1>3, <2>3, <2>4
<1> QED BY <1>4, <1>5, <1>6 DEF Covers

-----------------------------------------------------------------------------
(* What keeps the locks good                                               *)

(* The rows of the execution e with time left are still there.             *)
Persists(e, before, after) ==
  /\ Rows(before) \subseteq Rows(after)
  /\ \A l \in Rows(before) :
       /\ after[l].target = before[l].target /\ after[l].owner = before[l].owner
       /\ before[l].owner = e /\ before[l].status = "active" /\ before[l].left > 0
            => after[l].status = "active" /\ after[l].left = before[l].left

LEMMA SamePersists == \A e, table : Persists(e, table, table)
BY DEF Persists

LEMMA MarkPersists ==
  ASSUME NEW table \in Seq(LockRow), NEW ids, \A l \in ids : table[l].left = 0
  PROVE  \A e : Persists(e, table, MarkExpired(table, ids))
<1> DEFINE after == MarkExpired(table, ids)
<1>1. /\ Rows(after) = Rows(table)
      /\ \A l \in Rows(table) :
           /\ after[l].target = table[l].target
           /\ after[l].owner = table[l].owner
           /\ after[l].left = table[l].left
           /\ after[l].status = IF l \in ids THEN "expired" ELSE table[l].status
  BY MarkExpiredRows
<1> HIDE DEF after
<1>2. \A e : Persists(e, table, after)
  BY <1>1 DEF Persists
<1> QED BY <1>2 DEF after

(* Releasing touches rows of the releasing execution only.                 *)
LEMMA ReleasePersists ==
  ASSUME NEW table \in Seq(LockRow), NEW k, NEW e, NEW f, f # e
  PROVE  Persists(f, table, Release(table, k, e))
<1> DEFINE after == Release(table, k, e)
<1>1. /\ Rows(after) = Rows(table)
      /\ \A l \in Rows(table) :
           /\ after[l].target = table[l].target
           /\ after[l].owner = table[l].owner
  BY ReleaseRows
<1>2. \A l \in Rows(table) : table[l].owner = f => after[l] = table[l]
  <2>1. CASE table[k].owner = e
    <3>1. \A l \in Rows(table) : l # k => after[l] = table[l]
      BY <2>1 DEF Release, Rows
    <3> QED BY <2>1, <3>1
  <2>2. CASE table[k].owner # e
    BY <2>2 DEF Release
  <2> QED BY <2>1, <2>2
<1> HIDE DEF after
<1>3. Persists(f, table, after)
  BY <1>1, <1>2 DEF Persists
<1> QED BY <1>3 DEF after

LEMMA PersistingLasts ==
  ASSUME NEW e, NEW r, NEW before, NEW after, Persists(e, before, after),
         Rest(e, r) \in Nat, before \in Seq(LockRow), NEW l, Lasts(e, r, before, l)
  PROVE  Lasts(e, r, after, l) /\ after[l].target = before[l].target
<1>1. l \in Rows(before) /\ before[l].left > Rest(e, r)
  BY DEF Lasts
<1>2. before[l] \in LockRow
  BY <1>1 DEF Rows
<1>3. before[l].left \in Nat
  BY <1>2 DEF LockRow
<1>4. before[l].left > 0
  BY <1>1, <1>3
<1> QED BY <1>1, <1>4 DEF Lasts, Persists

LEMMA LessLasts ==
  ASSUME NEW e, NEW r, NEW s, NEW table \in Seq(LockRow), Rest(e, r) \in Nat,
         Rest(e, s) \in Nat, Rest(e, s) <= Rest(e, r), NEW l, Lasts(e, r, table, l)
  PROVE  Lasts(e, s, table, l)
<1>1. l \in Rows(table) /\ table[l].left > Rest(e, r)
  BY DEF Lasts
<1>2. table[l] \in LockRow
  BY <1>1 DEF Rows
<1>3. table[l].left \in Nat
  BY <1>2 DEF LockRow
<1>4. table[l].left > Rest(e, s)
  BY <1>1, <1>3
<1> QED BY <1>4 DEF Lasts

(* The same step, and nothing new about the earlier ones.                  *)
SameStep(e, r, s) ==
  /\ s.step = r.step
  /\ \A i \in DOMAIN Plan[e] : i < r.step => s.states[i] = r.states[i]

LEMMA StaysUnstopped ==
  ASSUME NEW e, NEW r, NEW s, SameStep(e, r, s)
  PROVE  (Unstopped(e, s) <=> Unstopped(e, r)) /\ StepOf(e, s) = StepOf(e, r)
BY DEF Unstopped, SameStep, StepOf

(* The locks of one context serve another of the same step.                *)
Serves(e, r, before, s, after) ==
  \A l : Lasts(e, r, before, l) => Lasts(e, s, after, l) /\ after[l].target = before[l].target

LEMMA GuardedOnward ==
  ASSUME NEW e, NEW r, NEW s, NEW before, NEW after, Guarded(e, r, before), SameStep(e, r, s),
         s.pc \in Acquiring => r.pc \in Acquiring /\ s.got = r.got /\ s.todo = r.todo,
         s.pc \in Covers => r.pc \in Covers,
         s.pc \in Acquiring \cup Covers => Serves(e, r, before, s, after),
         FindsItsOwn(e, s, after)
  PROVE  Guarded(e, s, after)
<1>1. SUFFICES ASSUME Unstopped(e, s), FitsItsLocks(StepOf(e, s))
               PROVE  /\ s.pc \in Acquiring => Obtains(e, s, after)
                      /\ s.pc \in Covers => Keeps(e, s, after)
  BY DEF Guarded
<1>2. /\ r.pc \in Acquiring => Obtains(e, r, before)
      /\ r.pc \in Covers => Keeps(e, r, before)
  BY <1>1, StaysUnstopped DEF Guarded
<1>3. s.step = r.step
  BY DEF SameStep
<1>4. ASSUME s.pc \in Acquiring
      PROVE  Obtains(e, s, after)
  <2>1. Obtains(e, r, before) /\ s.got = r.got /\ s.todo = r.todo /\ Serves(e, r, before, s, after)
    BY <1>2, <1>4
  <2>2. \A l \in Ids(s.got) : Lasts(e, s, after, l) /\ after[l].target = before[l].target
    BY <2>1 DEF Obtains, Serves
  <2>3. \A t \in TargetsOf(e, s.step) :
          t \in Ids(s.todo) \/ \E l \in Ids(s.got) : after[l].target = t
    BY <1>3, <2>1, <2>2 DEF Obtains
  <2> QED BY <1>1, <2>2, <2>3 DEF Obtains, FindsItsOwn
<1>5. ASSUME s.pc \in Covers
      PROVE  Keeps(e, s, after)
  <2>1. Keeps(e, r, before) /\ Serves(e, r, before, s, after)
    BY <1>2, <1>5
  <2>2. ASSUME NEW t \in TargetsOf(e, s.step)
        PROVE  \E l \in Rows(after) : Lasts(e, s, after, l) /\ after[l].target = t
    <3>1. PICK l \in Rows(before) : Lasts(e, r, before, l) /\ before[l].target = t
      BY <1>3, <2>1, <2>2 DEF Keeps
    <3>2. Lasts(e, s, after, l) /\ after[l].target = t
      BY <2>1, <3>1 DEF Serves
    <3> QED BY <3>2 DEF Lasts
  <2> QED BY <2>2 DEF Keeps
<1> QED BY <1>4, <1>5

(* Where no locks are taken or needed, the timer is all there is to say.   *)
LEMMA OutIsTimed ==
  ASSUME NEW e, NEW r, NEW table, Timer(r), r.pc \notin Acquiring \cup Covers
  PROVE  Timed(e, r, table)
BY DEF Timed, Clock, Guarded, Covers, Acquiring

LEMMA LeavingIsTimed ==
  ASSUME NEW e \in Executions, NEW r, NEW table, Context(e, r), Timer(r)
  PROVE  Timed(e, NextStep(e, r), table) /\ Timed(e, Throw(r), table)
<1>1. 0 \in 0..Slack
  BY TimeAssumption
<1>2. ASSUME NEW s, s.due = r.due, s.spent = 0, s.pc \in {"next", "ended"}
      PROVE  Timed(e, s, table)
  BY <1>1, <1>2, OutIsTimed DEF Timer, Covers, Acquiring
<1>3. Timed(e, Throw(r), table)
  <2>1. Throw(r).due = r.due /\ Throw(r).spent = 0 /\ Throw(r).pc = "ended"
    BY DEF Throw, Context, Fields
  <2> QED BY <1>2, <2>1
<1>4. ASSUME r.step < Len(Plan[e])
      PROVE  Timed(e, NextStep(e, r), table)
  <2> DEFINE s == [r EXCEPT !.pc = "next", !.step = @ + 1, !.spent = 0]
  <2>1. s.due = r.due /\ s.spent = 0 /\ s.pc = "next"
    BY DEF Context, Fields
  <2>2. NextStep(e, r) = s
    BY <1>4 DEF NextStep
  <2> HIDE DEF s
  <2> QED BY <1>2, <2>1, <2>2
<1>5. ASSUME ~(r.step < Len(Plan[e]))
      PROVE  Timed(e, NextStep(e, r), table)
  <2>1. NextStep(e, r) = [r EXCEPT !.pc = "ended", !.spent = 0, !.outcome = OutcomeOf(r)]
    BY <1>5 DEF NextStep
  <2>2. /\ NextStep(e, r).due = r.due /\ NextStep(e, r).spent = 0
        /\ NextStep(e, r).pc = "ended"
    BY <2>1 DEF Context, Fields
  <2> QED BY <1>2, <2>2
<1> QED BY <1>3, <1>4, <1>5

LEMMA FinallyIsTimed ==
  ASSUME NEW e \in Executions, NEW r, NEW table, Context(e, r), Timer(r)
  PROVE  Timed(e, Finally(e, r), table)
<1> DEFINE s == [r EXCEPT !.pc = "release"]
<1>1. s.due = r.due /\ s.spent = r.spent /\ s.pc = "release"
  BY DEF Context, Fields
<1> HIDE DEF s
<1>2. Timed(e, s, table)
  BY <1>1, OutIsTimed DEF Timer, Covers, Acquiring
<1> QED BY <1>2, LeavingIsTimed DEF Finally, s

(* A new status of the current step changes nothing else.                  *)
Renames(e, r, b) ==
  /\ Context(e, b) /\ SameStep(e, r, b) /\ Count(b) = Count(r)
  /\ b.due = r.due /\ b.spent = r.spent /\ b.pc = r.pc /\ b.step = r.step
  /\ b.got = r.got /\ b.todo = r.todo
  /\ DOMAIN b.states = DOMAIN Plan[e]

LEMMA BecomesRenames ==
  ASSUME NEW e \in Executions, NEW r, NEW status, Context(e, r), Behind(e, r)
  PROVE  Renames(e, r, Becomes(r, status))
<1> DEFINE b == Becomes(r, status)
<1>1. /\ b.states = [r.states EXCEPT ![r.step].status = status]
      /\ b.due = r.due /\ b.spent = r.spent /\ b.pc = r.pc /\ b.step = r.step
      /\ b.got = r.got /\ b.todo = r.todo
  BY DEF Becomes, Context, Fields
<1>2. Context(e, b)
  BY BecomesContext
<1> HIDE DEF b
<1>3. r.step \in DOMAIN Plan[e] /\ r.states \in [DOMAIN Plan[e] -> StepState]
  BY DEF Context, Behind
<1>4. \A i \in DOMAIN Plan[e] : i < r.step => i # r.step
  BY <1>3, StepsAreTyped
<1>5. SameStep(e, r, b)
  BY <1>1, <1>3, <1>4 DEF SameStep
<1>6. b.states[r.step].attempts = r.states[r.step].attempts
  BY <1>1, <1>3 DEF StepState
<1>7. Count(b) = Count(r)
  BY <1>1, <1>6 DEF Count
<1>8. DOMAIN b.states = DOMAIN Plan[e]
  BY <1>1, <1>3
<1>9. Renames(e, r, b)
  BY <1>1, <1>2, <1>5, <1>7, <1>8 DEF Renames
<1> QED BY <1>9 DEF b

(* An execution whose rest does not grow, and whose locks persist.         *)
LEMMA OnwardIsTimed ==
  ASSUME NEW e \in Executions, NEW r, NEW s,
         NEW before \in Seq(LockRow), NEW after \in Seq(LockRow),
         Context(e, r), Behind(e, r), Timed(e, r, before), Persists(e, before, after),
         SameStep(e, r, s), Clock(e, s), Count(s) \in Nat,
         s.pc \in Acquiring \cup Covers => Rest(e, s) \in Nat /\ Rest(e, s) <= Rest(e, r),
         s.pc \in Acquiring => r.pc \in Acquiring /\ s.got = r.got /\ s.todo = r.todo,
         s.pc \in Covers => r.pc \in Covers,
         FindsItsOwn(e, s, after)
  PROVE  Timed(e, s, after)
<1>1. ASSUME s.pc \in Acquiring \cup Covers
      PROVE  Serves(e, r, before, s, after)
  <2>1. r.pc \in Acquiring \cup Covers
    BY <1>1
  <2>2. Rest(e, r) \in Nat /\ Rest(e, s) \in Nat /\ Rest(e, s) <= Rest(e, r)
    BY <1>1, <2>1, RestIsThere DEF Timed
  <2> QED BY <2>2, PersistingLasts, LessLasts DEF Serves
<1>2. Guarded(e, r, before)
  BY DEF Timed
<1>3. Guarded(e, s, after)
  BY <1>1, <1>2, GuardedOnward
<1> QED BY <1>3 DEF Timed

(* Before the first attempt, the rest does not depend on the place.        *)
LEMMA SameRest ==
  ASSUME NEW e, NEW r, NEW s, s.step = r.step, s.spent = r.spent, Count(s) = Count(r),
         r.pc \in Acquiring \cup {"approve", "attempt"},
         s.pc \in Acquiring \cup {"approve", "attempt"}
  PROVE  Rest(e, s) = Rest(e, r)
<1>1. StepOf(e, s) = StepOf(e, r)
  BY DEF StepOf
<1>2. ASSUME NEW x, x.pc \in Acquiring \cup {"approve", "attempt"}
      PROVE  Rest(e, x) = (Slack - x.spent) + (StepOf(e, x).timeout
                            + Turns(StepOf(e, x), StepOf(e, x).attempts - Count(x) - 1))
  BY <1>2 DEF Rest, Acquiring
<1>3. /\ Rest(e, r) = (Slack - r.spent) + (StepOf(e, r).timeout
                         + Turns(StepOf(e, r), StepOf(e, r).attempts - Count(r) - 1))
      /\ Rest(e, s) = (Slack - s.spent) + (StepOf(e, s).timeout
                         + Turns(StepOf(e, s), StepOf(e, s).attempts - Count(s) - 1))
  BY <1>2
<1>4. Rest(e, s) = (Slack - r.spent) + (StepOf(e, r).timeout
                     + Turns(StepOf(e, r), StepOf(e, r).attempts - Count(r) - 1))
  BY <1>1, <1>3
<1> QED BY <1>3, <1>4

-----------------------------------------------------------------------------
(* Steps                                                                   *)

LEMMA WorkContext ==
  ASSUME WorkInv, NEW e \in Executions
  PROVE  /\ Context(e, run[e]) /\ Behind(e, run[e]) /\ InOrder(e, run[e])
         /\ Tidy(e, run[e], locks) /\ locks \in Seq(LockRow)
         /\ run[e].got \in Seq(Nat)
         /\ Timed(e, run[e], locks) /\ Clock(e, run[e]) /\ Timer(run[e])
         /\ Count(run[e]) \in Nat
BY TidyContext, Durations DEF WorkInv, Timed, Clock

(* What a step of the execution e has to show.                             *)
Sound(e) ==
  /\ \E r : Continue(e, r) /\ Timed(e, r, locks')
  /\ \A f \in Executions \ {e} : Persists(f, locks, locks')

LEMMA SameTableSound ==
  ASSUME NEW e \in Executions, NEW r, Continue(e, r), Timed(e, r, locks), UNCHANGED locks
  PROVE  Sound(e)
<1>1. locks' = locks
  OBVIOUS
<1>2. Timed(e, r, locks')
  BY <1>1
<1> QED BY <1>1, <1>2, SamePersists DEF Sound

(* A context that leaves the step with a new status.                       *)
LEMMA StatusLeaves ==
  ASSUME WorkInv, NEW e \in Executions, NEW status, NEW table
  PROVE  /\ Timed(e, NextStep(e, Becomes(run[e], status)), table)
         /\ Timed(e, Throw(Becomes(run[e], status)), table)
         /\ Timed(e, NextStep(e, run[e]), table)
         /\ Timed(e, Throw(run[e]), table)
<1>1. Context(e, run[e]) /\ Behind(e, run[e]) /\ Timer(run[e])
  BY WorkContext
<1> DEFINE b == Becomes(run[e], status)
<1>2. Renames(e, run[e], b)
  BY <1>1, BecomesRenames
<1> HIDE DEF b
<1>3. Context(e, b) /\ Timer(b)
  BY <1>1, <1>2 DEF Renames, Timer
<1> QED BY <1>1, <1>3, LeavingIsTimed DEF b

LEMMA BeginStepTimed ==
  ASSUME WorkInv, NEW e \in Executions, BeginStep(e)
  PROVE  Sound(e)
<1> DEFINE c == run[e]
           b == Becomes(c, "ready")
           go == [b EXCEPT !.pc = "approve"]
           take == [c EXCEPT !.pc = "sweep", !.todo = Here(e).targets,
                             !.got = <<>>, !.throws = FALSE]
<1>1. Context(e, c) /\ Behind(e, c) /\ Timer(c) /\ InOrder(e, c) /\ c.pc = "next"
  BY WorkContext DEF BeginStep, At
<1>2. Count(c) = 0
  BY <1>1 DEF InOrder, Before, NotReached, Count
<1>3. ASSUME Here(e).targets = <<>>
      PROVE  Timed(e, go, locks)
  <2>1. Renames(e, c, b)
    BY <1>1, BecomesRenames
  <2> HIDE DEF b
  <2>2. DOMAIN b = Fields /\ Count(b) = 0
    BY <1>2, <2>1 DEF Renames, Context
  <2>3. /\ go.pc = "approve" /\ go.step = c.step /\ go.due = c.due /\ go.spent = c.spent
        /\ go.states = b.states
    BY <2>1, <2>2 DEF Renames, Fields
  <2> HIDE DEF go
  <2>4. Count(go) = Count(b)
    BY <2>1, <2>3 DEF Count, Renames
  <2>5. Clock(e, go)
    BY <1>1, <2>2, <2>3, <2>4 DEF Clock, Timer
  <2>6. TargetsOf(e, go.step) = {}
    BY <1>3, <2>3 DEF TargetsOf, Here
  <2>7. Guarded(e, go, locks)
    BY <2>3, <2>6 DEF Guarded, Keeps, Acquiring
  <2> QED BY <2>5, <2>7 DEF Timed
<1>4. Timed(e, take, locks)
  <2>1. /\ take.pc = "sweep" /\ take.step = c.step /\ take.due = c.due
        /\ take.spent = c.spent /\ take.states = c.states
        /\ take.todo = Here(e).targets /\ take.got = <<>>
    BY <1>1 DEF Context, Fields
  <2> HIDE DEF take
  <2>2. Count(take) = 0
    BY <1>2, <2>1 DEF Count
  <2>3. Clock(e, take)
    BY <1>1, <2>1, <2>2 DEF Clock, Timer
  <2>4. Ids(take.got) = {} /\ TargetsOf(e, take.step) = Ids(take.todo)
    BY <2>1 DEF Ids, TargetsOf, Here
  <2>5. Obtains(e, take, locks)
    BY <2>1, <2>4 DEF Obtains
  <2>6. Guarded(e, take, locks)
    BY <2>1, <2>5 DEF Guarded, Covers
  <2> QED BY <2>3, <2>6 DEF Timed
<1>5. \E r : Continue(e, r) /\ Timed(e, r, locks)
  BY <1>3, <1>4, StatusLeaves DEF BeginStep
<1>6. UNCHANGED locks
  BY DEF BeginStep
<1> QED BY <1>5, <1>6, SameTableSound

(* The cleanup, and the look for a lock.  A lock of its own is one of      *)
(* those it has just acquired, if no earlier step left one behind.         *)
LEMMA SweepTimed ==
  ASSUME WorkInv, NEW e \in Executions, ReadStale(e) \/ MarkStale(e) \/ LookUp(e)
  PROVE  Sound(e)
<1> DEFINE c == run[e]
<1>1. /\ Context(e, c) /\ Behind(e, c) /\ Tidy(e, c, locks) /\ locks \in Seq(LockRow)
      /\ Timed(e, c, locks) /\ Clock(e, c) /\ Timer(c) /\ Count(c) \in Nat
  BY WorkContext
<1>2. c.pc \in {"sweep", "mark", "look"}
  BY DEF ReadStale, MarkStale, LookUp, At
<1>3. Rest(e, c) \in Nat
  BY <1>1, <1>2, RestIsThere DEF Acquiring
<1>4. ASSUME NEW s, NEW after \in Seq(LockRow), Persists(e, locks, after),
             s.step = c.step, s.states = c.states, s.spent = c.spent, s.due = c.due,
             s.got = c.got, s.todo = c.todo, s.pc \in {"mark", "look", "decide"},
             FindsItsOwn(e, s, after)
      PROVE  Timed(e, s, after)
  <2>1. SameStep(e, c, s) /\ Count(s) = Count(c)
    BY <1>4 DEF SameStep, Count
  <2>2. Rest(e, s) = Rest(e, c)
    BY <1>2, <1>4, <2>1, SameRest DEF Acquiring
  <2>3. Clock(e, s)
    BY <1>1, <1>2, <1>4, <2>1 DEF Clock, Timer, Acquiring
  <2> HIDE DEF c
  <2>4. Rest(e, s) \in Nat /\ Rest(e, s) <= Rest(e, c)
    BY <1>3, <2>2
  <2>5. s.pc \in Acquiring /\ s.pc \notin Covers /\ c.pc \in Acquiring
    BY <1>2, <1>4 DEF Acquiring, Covers
  <2> QED BY <1>1, <1>4, <2>1, <2>3, <2>4, <2>5, OnwardIsTimed
<1>5. CASE ReadStale(e)
  <2> DEFINE s == [c EXCEPT !.stale = StaleRows(locks),
                            !.pc = IF StaleRows(locks) = {} THEN "look" ELSE "mark"]
  <2>1. /\ s.step = c.step /\ s.states = c.states /\ s.spent = c.spent /\ s.due = c.due
        /\ s.got = c.got /\ s.todo = c.todo /\ s.pc \in {"mark", "look"}
    BY <1>1 DEF Context, Fields
  <2>2. Continue(e, s) /\ UNCHANGED locks
    BY <1>5 DEF ReadStale
  <2> HIDE DEF s, c
  <2>3. FindsItsOwn(e, s, locks)
    BY <2>1 DEF FindsItsOwn
  <2>4. Timed(e, s, locks)
    BY <1>1, <1>4, <2>1, <2>3, SamePersists
  <2> QED BY <2>2, <2>4, SameTableSound
<1>6. CASE MarkStale(e)
  <2> DEFINE s == [c EXCEPT !.stale = {}, !.pc = "look"]
  <2>1. /\ s.step = c.step /\ s.states = c.states /\ s.spent = c.spent /\ s.due = c.due
        /\ s.got = c.got /\ s.todo = c.todo /\ s.pc = "look"
    BY <1>1 DEF Context, Fields
  <2>2. Continue(e, s) /\ locks' = MarkExpired(locks, c.stale)
    BY <1>6 DEF MarkStale
  <2>3. \A l \in c.stale : locks[l].left = 0
    BY DEF WorkInv, TidyInv, OrderInv, LockInv, StaleRowsStayStale
  <2> HIDE DEF s, c
  <2>4. (\A f : Persists(f, locks, locks')) /\ locks' \in Seq(LockRow)
    BY <1>1, <2>2, <2>3, MarkPersists, MarkExpiredRows
  <2>5. FindsItsOwn(e, s, locks')
    BY <2>1 DEF FindsItsOwn
  <2>6. Timed(e, s, locks')
    BY <1>4, <2>1, <2>4, <2>5
  <2> QED BY <2>2, <2>4, <2>6 DEF Sound
<1>7. CASE LookUp(e)
  <2> DEFINE live == LiveRows(locks, Head(c.todo))
             n == IF live = {} THEN 0 ELSE CHOOSE l \in live : TRUE
             s == [c EXCEPT !.found = n, !.pc = "decide"]
  <2>1. /\ s.step = c.step /\ s.states = c.states /\ s.spent = c.spent /\ s.due = c.due
        /\ s.got = c.got /\ s.todo = c.todo /\ s.pc = "decide" /\ s.found = n
    BY <1>1 DEF Context, Fields
  <2>2. Continue(e, s) /\ UNCHANGED locks
    BY <1>7 DEF LookUp
  <2>3. n # 0 => n \in live
    OBVIOUS
  <2>4. n # 0 => n \in Rows(locks) /\ locks[n].status = "active"
    BY <2>3 DEF LiveRows, ActiveRows
  <2> HIDE DEF s, n, c
  <2>5. ASSUME Unstopped(e, s), n # 0, locks[n].owner = e
        PROVE  n \in Ids(c.got)
    <3>1. n \in Mine(locks, e)
      BY <2>4, <2>5 DEF Mine
    <3>2. ~StoppedFor(e, c, locks[n].target, c.step)
      BY <2>1, <2>5 DEF Unstopped, StoppedFor
    <3>3. Known(e, c, locks)
      BY <1>1 DEF Tidy
    <3> QED BY <1>2, <3>1, <3>2, <3>3 DEF Known, Using
  <2>6. FindsItsOwn(e, s, locks)
    BY <2>1, <2>5 DEF FindsItsOwn
  <2>7. Timed(e, s, locks)
    BY <1>1, <1>4, <2>1, <2>6, SamePersists
  <2> QED BY <2>2, <2>7, SameTableSound
<1> QED BY <1>5, <1>6, <1>7

LEMMA HeadAndTail ==
  ASSUME NEW S, NEW s \in Seq(S), s # <<>>
  PROVE  \A x \in Ids(s) : x = Head(s) \/ x \in Ids(Tail(s))
<1>1. ASSUME NEW k \in DOMAIN s, k # 1
      PROVE  s[k] \in Ids(Tail(s))
  <2>1. k - 1 \in DOMAIN Tail(s) /\ Tail(s)[k - 1] = s[k]
    BY <1>1
  <2> QED BY <2>1 DEF Ids
<1>2. Head(s) = s[1]
  OBVIOUS
<1> QED BY <1>1, <1>2 DEF Ids

(* The lock l now serves the target at the head of todo.                   *)
LEMMA ObtainedIsTimed ==
  ASSUME WorkInv, NEW e \in Executions, At(e, "decide"), NEW table, NEW l \in Nat,
         Serves(e, run[e], locks, run[e], table),
         Unstopped(e, run[e]) /\ FitsItsLocks(StepOf(e, run[e]))
           => Lasts(e, run[e], table, l) /\ table[l].target = Head(run[e].todo)
  PROVE  Timed(e, Obtained(e, l), table)
<1> DEFINE c == run[e]
           r == [c EXCEPT !.got = Append(@, l), !.todo = Tail(@), !.found = 0]
           more == [r EXCEPT !.pc = "sweep"]
           b == Becomes(r, "ready")
           full == [b EXCEPT !.pc = "approve", !.held = @ \o r.got, !.got = <<>>]
<1>1. /\ Context(e, c) /\ Behind(e, c) /\ c.got \in Seq(Nat) /\ c.pc = "decide"
      /\ Timed(e, c, locks) /\ Clock(e, c) /\ Timer(c) /\ Count(c) = 0
  BY WorkContext DEF At, Clock, Acquiring
<1>2. c.todo # <<>> /\ c.todo \in Seq(Targets)
  BY <1>1 DEF Context, Acquiring
<1>3. /\ r.got = Append(c.got, l) /\ r.todo = Tail(c.todo) /\ r.step = c.step
      /\ r.states = c.states /\ r.due = c.due /\ r.spent = c.spent /\ DOMAIN r = Fields
  BY <1>1 DEF Context, Fields
<1>4. Ids(r.got) = Ids(c.got) \cup {l}
  BY <1>1, <1>3, AppendedIds
<1>5. \A t \in Ids(c.todo) : t = Head(c.todo) \/ t \in Ids(r.todo)
  BY <1>2, <1>3, HeadAndTail
<1>6. ASSUME Unstopped(e, c), FitsItsLocks(StepOf(e, c))
      PROVE  /\ \A k \in Ids(r.got) : Lasts(e, c, table, k)
             /\ \A t \in TargetsOf(e, c.step) :
                  t \in Ids(r.todo) \/ \E k \in Ids(r.got) : table[k].target = t
  <2>1. Obtains(e, c, locks)
    BY <1>1, <1>6 DEF Timed, Guarded, Acquiring
  <2>2. \A k \in Ids(c.got) : Lasts(e, c, table, k) /\ table[k].target = locks[k].target
    BY <2>1 DEF Obtains, Serves
  <2>3. Lasts(e, c, table, l) /\ table[l].target = Head(c.todo)
    BY <1>6
  <2>4. \A t \in TargetsOf(e, c.step) :
          t \in Ids(c.todo) \/ \E k \in Ids(c.got) : locks[k].target = t
    BY <2>1 DEF Obtains
  <2> HIDE DEF c, r
  <2>5. \A k \in Ids(r.got) : Lasts(e, c, table, k)
    BY <1>4, <2>2, <2>3
  <2>6. \A t \in TargetsOf(e, c.step) :
          t \in Ids(r.todo) \/ \E k \in Ids(r.got) : table[k].target = t
    BY <1>4, <1>5, <2>2, <2>3, <2>4
  <2> QED BY <2>5, <2>6
<1> HIDE DEF r
(* What the two outcomes have in common.                                   *)
<1>7. ASSUME NEW s, SameStep(e, c, s), Count(s) = Count(c), s.due = c.due,
             s.spent = c.spent, s.pc \in {"sweep", "approve"}
      PROVE  Clock(e, s) /\ Rest(e, s) = Rest(e, c)
  <2>1. Clock(e, s)
    BY <1>1, <1>7 DEF Clock, Timer
  <2>2. Rest(e, s) = Rest(e, c)
    BY <1>1, <1>7, SameRest DEF Acquiring, SameStep
  <2> QED BY <2>1, <2>2
<1>8. ASSUME NEW s, Rest(e, s) = Rest(e, c), NEW k, Lasts(e, c, table, k)
      PROVE  Lasts(e, s, table, k)
  BY <1>8 DEF Lasts
<1>9. Timed(e, more, table)
  <2>1. /\ more.got = r.got /\ more.todo = r.todo /\ more.pc = "sweep"
        /\ more.step = c.step /\ more.states = c.states
        /\ more.due = c.due /\ more.spent = c.spent
    BY <1>3 DEF Fields
  <2> HIDE DEF more, c
  <2>2. SameStep(e, c, more) /\ Count(more) = Count(c)
    BY <2>1 DEF SameStep, Count
  <2>3. Clock(e, more) /\ Rest(e, more) = Rest(e, c)
    BY <1>7, <2>1, <2>2
  <2>4. ASSUME Unstopped(e, more), FitsItsLocks(StepOf(e, more))
        PROVE  Obtains(e, more, table)
    <3>1. Unstopped(e, c) /\ FitsItsLocks(StepOf(e, c))
      BY <2>2, <2>4, StaysUnstopped
    <3> QED BY <1>6, <1>8, <2>1, <2>3, <3>1 DEF Obtains
  <2>5. Guarded(e, more, table)
    BY <2>1, <2>4 DEF Guarded, Covers
  <2> QED BY <2>3, <2>5 DEF Timed
<1>10. ASSUME r.todo = <<>>
       PROVE  Timed(e, full, table)
  <2>1. c.step \in DOMAIN Plan[e] /\ c.states \in [DOMAIN Plan[e] -> StepState]
    BY <1>1 DEF Context, Behind
  <2> DEFINE new == [c.states EXCEPT ![c.step].status = "ready"]
  <2>2. /\ new[c.step].attempts = c.states[c.step].attempts
        /\ \A i \in DOMAIN Plan[e] : i < c.step => new[i] = c.states[i]
    BY <2>1, StepsAreTyped DEF StepState
  <2>3. b = [r EXCEPT !.states = new]
    BY <1>3 DEF Becomes, Fields
  <2> HIDE DEF new, b
  <2>4. /\ DOMAIN b = Fields /\ b.step = c.step /\ b.states = new
        /\ b.due = c.due /\ b.spent = c.spent
    BY <1>3, <2>3 DEF Fields
  <2>5. /\ full.step = c.step /\ full.states = new /\ full.pc = "approve"
        /\ full.due = c.due /\ full.spent = c.spent
    BY <2>4 DEF Fields
  <2> HIDE DEF full, c
  <2>6. SameStep(e, c, full) /\ Count(full) = Count(c)
    BY <2>2, <2>5 DEF SameStep, Count
  <2>7. Clock(e, full) /\ Rest(e, full) = Rest(e, c)
    BY <1>7, <2>5, <2>6
  <2>8. ASSUME Unstopped(e, full), FitsItsLocks(StepOf(e, full))
        PROVE  Keeps(e, full, table)
    <3>1. Unstopped(e, c) /\ FitsItsLocks(StepOf(e, c))
      BY <2>6, <2>8, StaysUnstopped
    <3>2. Ids(r.todo) = {}
      BY <1>10 DEF Ids
    <3>3. \A t \in TargetsOf(e, full.step) :
            \E k \in Ids(r.got) : Lasts(e, full, table, k) /\ table[k].target = t
      BY <1>6, <1>8, <2>5, <2>7, <3>1, <3>2
    <3> QED BY <3>3 DEF Keeps, Lasts
  <2>9. Guarded(e, full, table)
    BY <2>5, <2>8 DEF Guarded, Acquiring
  <2> QED BY <2>7, <2>9 DEF Timed
<1> QED
  BY <1>9, <1>10 DEF Obtained, c, r


(* A row just inserted lasts for as long as the step may take: that is     *)
(* what it means for a step to fit its locks.                              *)
LEMMA NewRowLasts ==
  ASSUME WorkInv, NEW e \in Executions, At(e, "decide"), FitsItsLocks(StepOf(e, run[e]))
  PROVE  Rest(e, run[e]) < TimeToLive(e)
<1> DEFINE c == run[e]
           i == c.step
<1>1. Context(e, c) /\ Timer(c) /\ Clock(e, c) /\ c.pc = "decide"
  BY WorkContext DEF At
<1>2. i \in DOMAIN Plan[e] /\ Count(c) = 0
  BY <1>1 DEF Context, Clock, Acquiring
<1>3. Rest(e, c) = (Slack - c.spent)
                     + (Plan[e][i].timeout + Turns(Plan[e][i], Plan[e][i].attempts - Count(c) - 1))
  BY <1>1 DEF Rest, StepOf, Acquiring
<1> HIDE DEF c
<1>4. Plan[e][i].attempts \in Nat /\ Plan[e][i].timeout \in Nat /\ Plan[e][i].delay \in Nat
      /\ Plan[e][i].attempts > 0
  BY <1>2, StepTimes
<1>5. Plan[e][i].attempts - Count(c) - 1 = Plan[e][i].attempts - 1
      /\ Plan[e][i].attempts - 1 \in Nat
  BY <1>2, <1>4
<1>6. Turns(Plan[e][i], Plan[e][i].attempts - 1) \in Nat
  BY <1>4, <1>5, TurnsAdd
<1>7. Slack + Plan[e][i].timeout + Turns(Plan[e][i], Plan[e][i].attempts - 1)
        < Plan[e][i].timeout + Buffer
  BY <1>2, FitsTurns DEF StepOf, c
<1>8. TimeToLive(e) = Plan[e][i].timeout + Buffer
  BY DEF TimeToLive, Here, c
<1>9. c.spent \in Nat /\ Slack \in Nat /\ Buffer \in Nat
  BY <1>1, TimeAssumption DEF Timer
<1>10. Rest(e, c) = (Slack - c.spent)
                      + (Plan[e][i].timeout + Turns(Plan[e][i], Plan[e][i].attempts - 1))
  BY <1>3, <1>5
<1> QED BY <1>4, <1>6, <1>7, <1>8, <1>9, <1>10 DEF c

LEMMA DecideTimed ==
  ASSUME WorkInv, NEW e \in Executions, Decide(e)
  PROVE  Sound(e)
<1> DEFINE c == run[e]
           t == Head(c.todo)
<1>1. /\ Context(e, c) /\ Behind(e, c) /\ Tidy(e, c, locks) /\ locks \in Seq(LockRow)
      /\ Timed(e, c, locks) /\ Clock(e, c) /\ Timer(c) /\ At(e, "decide")
  BY WorkContext DEF Decide
<1>2. c.pc = "decide" /\ c.todo # <<>> /\ t \in Targets
  BY <1>1 DEF At, Context, Acquiring
<1>3. CASE /\ c.found # 0 /\ locks[c.found].owner = e
           /\ Continue(e, Obtained(e, c.found)) /\ UNCHANGED locks
  <2>1. c.found \in Rows(locks) /\ locks[c.found].target = t
    BY <1>1, <1>2, <1>3 DEF Tidy, Acquires, Acquiring
  <2>2. c.found \in Nat
    BY <1>1, <2>1 DEF Rows
  <2>3. ASSUME Unstopped(e, c), FitsItsLocks(StepOf(e, c))
        PROVE  Lasts(e, c, locks, c.found)
    BY <1>1, <1>2, <1>3, <2>3 DEF Timed, Guarded, Obtains, Acquiring
  <2>4. Serves(e, c, locks, c, locks)
    BY DEF Serves
  <2>5. Timed(e, Obtained(e, c.found), locks)
    BY <1>1, <2>1, <2>2, <2>3, <2>4, ObtainedIsTimed
  <2> QED BY <1>3, <2>5, SameTableSound
<1>4. ASSUME NEW throws, Continue(e, RollsBack(e, throws)), UNCHANGED locks
      PROVE  Sound(e)
  <2> DEFINE s == RollsBack(e, throws)
  <2>1. s.due = c.due /\ s.spent = c.spent /\ s.pc = "rollback"
    BY <1>1 DEF RollsBack, Context, Fields
  <2> HIDE DEF s
  <2>2. Timed(e, s, locks)
    BY <1>1, <2>1, OutIsTimed DEF Timer, Covers, Acquiring
  <2> QED BY <1>4, <2>2, SameTableSound DEF s
<1>5. CASE /\ MayInsert(locks, t) /\ locks' = Insert(locks, t, e, TimeToLive(e))
           /\ Continue(e, Obtained(e, Len(locks) + 1))
  <2> DEFINE n == Len(locks) + 1
             row == [target |-> t, owner |-> e, left |-> TimeToLive(e), status |-> "active"]
  <2>1. locks' = Append(locks, row)
    BY <1>5 DEF Insert
  <2>2. row.target = t /\ row.owner = e /\ row.left = TimeToLive(e) /\ row.status = "active"
    OBVIOUS
  <2> HIDE DEF row
  <2>3. /\ n \in Nat
        /\ Rows(locks') = Rows(locks) \cup {n}
        /\ \A k \in Rows(locks) : locks'[k] = locks[k]
        /\ locks'[n] = row
    BY <1>1, <2>1 DEF Rows
  <2> HIDE DEF n
  <2>4. \A f : Persists(f, locks, locks')
    BY <2>3 DEF Persists
  <2>5. Serves(e, c, locks, c, locks')
    BY <2>3 DEF Serves, Lasts
  <2>6. ASSUME Unstopped(e, c), FitsItsLocks(StepOf(e, c))
        PROVE  Lasts(e, c, locks', n) /\ locks'[n].target = t
    <3>1. Rest(e, c) < TimeToLive(e)
      BY <1>1, <2>6, NewRowLasts
    <3> QED BY <2>2, <2>3, <3>1 DEF Lasts
  <2>7. Timed(e, Obtained(e, n), locks')
    BY <1>1, <2>3, <2>5, <2>6, ObtainedIsTimed
  <2> QED BY <1>5, <2>4, <2>7 DEF Sound, n
<1> QED BY <1>3, <1>4, <1>5 DEF Decide

(* Locks are given back where none are needed any more.                    *)
LEMMA GivingBackTimed ==
  ASSUME WorkInv, NEW e \in Executions, Rollback(e) \/ ReleaseStepLocks(e)
  PROVE  Sound(e)
<1> DEFINE c == run[e]
<1>1. /\ Context(e, c) /\ Timer(c) /\ locks \in Seq(LockRow)
      /\ c.pc \in {"rollback", "release"}
  BY WorkContext DEF Rollback, ReleaseStepLocks, At
<1>2. ASSUME NEW s, NEW k, s.due = c.due, s.spent = c.spent, s.pc = c.pc,
             Continue(e, s), locks' = Release(locks, k, e)
      PROVE  Sound(e)
  <2>1. Timed(e, s, locks')
    BY <1>1, <1>2, OutIsTimed DEF Timer, Covers, Acquiring
  <2>2. \A f \in Executions \ {e} : Persists(f, locks, locks')
    BY <1>1, <1>2, ReleasePersists
  <2> QED BY <1>2, <2>1, <2>2 DEF Sound
<1>3. CASE Rollback(e) /\ c.got # <<>>
  <2> DEFINE s == [c EXCEPT !.got = Tail(@)]
  <2>1. s.due = c.due /\ s.spent = c.spent /\ s.pc = c.pc
    BY <1>1 DEF Context, Fields
  <2>2. Continue(e, s) /\ locks' = Release(locks, Head(c.got), e)
    BY <1>3 DEF Rollback
  <2> HIDE DEF s
  <2> QED BY <1>2, <2>1, <2>2
<1>4. CASE ReleaseStepLocks(e) /\ c.held # <<>>
  <2> DEFINE s == [c EXCEPT !.held = Tail(@)]
  <2>1. s.due = c.due /\ s.spent = c.spent /\ s.pc = c.pc
    BY <1>1 DEF Context, Fields
  <2>2. Continue(e, s) /\ locks' = Release(locks, Head(c.held), e)
    BY <1>4 DEF ReleaseStepLocks
  <2> HIDE DEF s
  <2> QED BY <1>2, <2>1, <2>2
<1>5. CASE Rollback(e) /\ c.got = <<>>
  <2>1. UNCHANGED locks /\ \E r : Continue(e, r) /\ Timed(e, r, locks)
    BY <1>5, StatusLeaves DEF Rollback
  <2> QED BY <2>1, SameTableSound
<1>6. CASE ReleaseStepLocks(e) /\ c.held = <<>>
  <2>1. UNCHANGED locks /\ \E r : Continue(e, r) /\ Timed(e, r, locks)
    BY <1>6, StatusLeaves DEF ReleaseStepLocks
  <2> QED BY <2>1, SameTableSound
<1> QED BY <1>3, <1>4, <1>5, <1>6

LEMMA ApproveTimed ==
  ASSUME WorkInv, NEW e \in Executions, Approve(e)
  PROVE  Sound(e)
<1> DEFINE c == run[e]
           go == [c EXCEPT !.pc = "attempt"]
<1>1. /\ Context(e, c) /\ Behind(e, c) /\ locks \in Seq(LockRow)
      /\ Timed(e, c, locks) /\ Clock(e, c) /\ Timer(c) /\ c.pc = "approve" /\ Count(c) = 0
  BY WorkContext DEF Approve, At, Clock
<1>2. Timed(e, go, locks)
  <2>1. /\ go.step = c.step /\ go.states = c.states /\ go.due = c.due /\ go.spent = c.spent
        /\ go.pc = "attempt"
    BY <1>1 DEF Context, Fields
  <2> HIDE DEF go, c
  <2>2. SameStep(e, c, go) /\ Count(go) = 0 /\ StepOf(e, go) = StepOf(e, c)
    BY <1>1, <2>1 DEF SameStep, Count, StepOf
  <2>3. StepOf(e, c).attempts \in Nat /\ StepOf(e, c).attempts > 0
    BY <1>1, Durations
  <2>4. Clock(e, go)
    BY <1>1, <2>1, <2>2, <2>3 DEF Clock, Timer, Acquiring
  <2>5. Rest(e, c) \in Nat /\ Rest(e, go) = Rest(e, c)
    BY <1>1, <2>1, <2>2, RestIsThere, SameRest DEF Covers
  <2>6. Rest(e, go) \in Nat /\ Rest(e, go) <= Rest(e, c)
    BY <2>5
  <2>7. go.pc \notin Acquiring /\ c.pc \in Covers
    BY <1>1, <2>1 DEF Acquiring, Covers
  <2>8. Persists(e, locks, locks) /\ FindsItsOwn(e, go, locks)
    BY <2>1, SamePersists DEF FindsItsOwn
  <2> QED BY <1>1, <2>1, <2>2, <2>4, <2>6, <2>7, <2>8, OnwardIsTimed
<1>3. UNCHANGED locks /\ \E r : Continue(e, r) /\ Timed(e, r, locks)
  BY <1>2, StatusLeaves DEF Approve
<1> QED BY <1>3, SameTableSound

(* The attempt that begins takes its turn from those that are left.        *)
LEMMA AttemptTimed ==
  ASSUME WorkInv, NEW e \in Executions, Attempt(e)
  PROVE  Sound(e)
<1> DEFINE c == run[e]
           n == Attempts(e) + 1
           status == IF n > 1 THEN "retrying" ELSE "running"
           b == Becomes(c, status)
           s == [b EXCEPT !.pc = "running", !.due = Here(e).timeout, !.states[c.step].attempts = n]
<1>1. /\ Context(e, c) /\ Behind(e, c) /\ locks \in Seq(LockRow)
      /\ Timed(e, c, locks) /\ Clock(e, c) /\ Timer(c) /\ c.pc = "attempt"
      /\ Count(c) < StepOf(e, c).attempts
  BY WorkContext DEF Attempt, At, Clock
<1>2. /\ StepOf(e, c).timeout \in Nat /\ StepOf(e, c).delay \in Nat
      /\ StepOf(e, c).attempts \in Nat /\ Count(c) \in Nat /\ Slack \in Nat
  BY <1>1, Durations
<1>3. Continue(e, s) /\ UNCHANGED locks
  BY DEF Attempt
<1>4. n = Count(c) + 1 /\ Here(e) = StepOf(e, c) /\ c.step \in DOMAIN Plan[e]
  BY <1>1 DEF Attempts, Count, Here, StepOf, Context
<1> HIDE DEF n, status
<1>5. Renames(e, c, b)
  BY <1>1, BecomesRenames
<1> HIDE DEF b
<1>6. /\ s.step = c.step /\ s.pc = "running" /\ s.spent = c.spent
      /\ s.due = StepOf(e, c).timeout
      /\ s.states = [b.states EXCEPT ![c.step].attempts = n]
  BY <1>4, <1>5 DEF Renames, Context, Fields
<1> HIDE DEF s, c
<1>7. \A i \in DOMAIN Plan[e] : i < c.step => i # c.step
  BY <1>4, StepsAreTyped
<1>8. SameStep(e, c, s)
  BY <1>5, <1>6, <1>7 DEF Renames, SameStep
<1>9. Count(s) = n
  <2>1. Behind(e, Becomes(c, status))
    BY <1>1, BecomesKeeps DEF status, StepStatus
  <2>2. b.states[c.step] \in StepState
    BY <1>4, <2>1 DEF b, Behind, Renames
  <2> QED BY <1>4, <1>5, <1>6, <2>2 DEF Count, Renames, StepState
<1>10. Clock(e, s)
  BY <1>1, <1>2, <1>4, <1>6, <1>8, <1>9, StaysUnstopped DEF Clock, Timer, Acquiring
<1> DEFINE x == StepOf(e, c)
           k == x.attempts - Count(c) - 1
<1>11. Rest(e, c) = (Slack - c.spent) + (x.timeout + Turns(x, k))
  BY <1>1 DEF Rest, Acquiring
<1>12. Rest(e, s) = (Slack - s.spent) + (s.due + Turns(x, x.attempts - Count(s)))
  BY <1>6, <1>8, StaysUnstopped DEF Rest, Acquiring
<1>13. x.attempts - Count(s) = k
  BY <1>2, <1>4, <1>9
<1>14. Rest(e, s) = Rest(e, c)
  BY <1>6, <1>11, <1>12, <1>13
<1>15. Rest(e, s) \in Nat /\ Rest(e, s) <= Rest(e, c)
  <2>1. Rest(e, c) \in Nat
    BY <1>1, RestIsThere DEF Covers
  <2> QED BY <1>14, <2>1
<1>16. s.pc \notin Acquiring /\ c.pc \in Covers /\ Count(s) \in Nat
  BY <1>1, <1>2, <1>4, <1>6, <1>9 DEF Acquiring, Covers
<1>17. Persists(e, locks, locks) /\ FindsItsOwn(e, s, locks)
  BY <1>6, SamePersists DEF FindsItsOwn
<1>18. Timed(e, s, locks)
  BY <1>1, <1>6, <1>8, <1>10, <1>15, <1>16, <1>17, OnwardIsTimed
<1> QED BY <1>3, <1>18, SameTableSound

(* The two ends of an attempt: a retry waits and takes its turn from what  *)
(* is left, everything else leaves the work.                               *)
LEMMA AttemptIsTimed ==
  ASSUME WorkInv, NEW e \in Executions, run[e].pc \in {"running", "verify"}
  PROVE  Timed(e, AttemptSucceeds(e), locks) /\ Timed(e, AttemptFails(e), locks)
<1> DEFINE c == run[e]
           good == Becomes(c, "completed")
           bad == Becomes(c, "failed")
           done == [good EXCEPT !.due = 0]
           lost == [bad EXCEPT !.due = 0, !.throws = Here(e).onFailure = "abort"]
           waits == [c EXCEPT !.pc = "backoff", !.due = Here(e).delay]
<1>1. /\ Context(e, c) /\ Behind(e, c) /\ locks \in Seq(LockRow)
      /\ Timed(e, c, locks) /\ Clock(e, c) /\ Timer(c) /\ c.pc \in {"running", "verify"}
      /\ Count(c) <= StepOf(e, c).attempts
  BY WorkContext DEF Clock
<1>2. /\ StepOf(e, c).timeout \in Nat /\ StepOf(e, c).delay \in Nat
      /\ StepOf(e, c).attempts \in Nat /\ Count(c) \in Nat /\ Slack \in Nat
  BY <1>1, Durations
<1>3. Here(e) = StepOf(e, c) /\ Attempts(e) = Count(c)
  BY DEF Attempts, Count, Here, StepOf
<1>4. Renames(e, c, good) /\ Renames(e, c, bad)
  BY <1>1, BecomesRenames
<1> HIDE DEF good, bad, c
<1>5. Context(e, done) /\ Timer(done)
  <2>1. Context(e, done) /\ done.due = 0 /\ done.spent = good.spent
    BY <1>4 DEF Renames, Context, Fields
  <2> QED BY <1>1, <1>4, <2>1 DEF Timer, Renames
<1>6. Context(e, lost) /\ Timer(lost)
  <2>1. Context(e, lost) /\ lost.due = 0 /\ lost.spent = bad.spent
    BY <1>4 DEF Renames, Context, Fields
  <2> QED BY <1>1, <1>4, <2>1 DEF Timer, Renames
<1> HIDE DEF done, lost
<1>7. Timed(e, Finally(e, done), locks) /\ Timed(e, Finally(e, lost), locks)
  BY <1>5, <1>6, FinallyIsTimed
<1>8. ASSUME Count(c) < StepOf(e, c).attempts
      PROVE  Timed(e, waits, locks)
  <2>1. /\ waits.step = c.step /\ waits.states = c.states /\ waits.spent = c.spent
        /\ waits.due = StepOf(e, c).delay /\ waits.pc = "backoff"
    BY <1>1, <1>3 DEF Context, Fields
  <2> HIDE DEF waits
  <2>2. SameStep(e, c, waits) /\ Count(waits) = Count(c) /\ StepOf(e, waits) = StepOf(e, c)
    BY <2>1 DEF SameStep, Count, StepOf
  <2>3. Clock(e, waits)
    BY <1>1, <1>2, <1>8, <2>1, <2>2 DEF Clock, Timer, Acquiring
  <2> DEFINE x == StepOf(e, c)
             k == x.attempts - Count(c)
  <2>4. k \in Nat /\ k > 0
    BY <1>2, <1>8
  <2>5. /\ Turns(x, k) \in Nat /\ Turns(x, k - 1) \in Nat
        /\ Turns(x, k) = Turns(x, k - 1) + x.timeout + x.delay
    <3>1. k - 1 \in Nat
      BY <2>4
    <3> QED BY <1>2, <2>4, <3>1, TurnsAdd
  <2>6. Rest(e, waits) = (Slack - c.spent) + (x.delay + x.timeout + Turns(x, k - 1))
    BY <2>1, <2>2 DEF Rest, Acquiring
  <2>7. Rest(e, c) = (Slack - c.spent)
                       + (IF c.pc = "running" THEN c.due + Turns(x, k) ELSE Turns(x, k))
    BY <1>1 DEF Rest, Acquiring
  <2>8. c.spent \in Nat /\ c.spent <= Slack /\ c.due \in Nat
    BY <1>1, <1>2 DEF Timer
  <2>9. Rest(e, waits) \in Nat /\ Rest(e, waits) <= Rest(e, c)
    <3> HIDE DEF x, k
    <3>1. x.delay \in Nat /\ x.timeout \in Nat
      BY <1>2 DEF x
    <3> QED BY <1>2, <2>5, <2>6, <2>7, <2>8, <3>1
  <2>10. waits.pc \notin Acquiring /\ c.pc \in Covers /\ Count(waits) \in Nat
    BY <1>1, <1>2, <2>1, <2>2 DEF Acquiring, Covers
  <2>11. Persists(e, locks, locks) /\ FindsItsOwn(e, waits, locks)
    BY <2>1, SamePersists DEF FindsItsOwn
  <2> QED BY <1>1, <2>1, <2>2, <2>3, <2>9, <2>10, <2>11, OnwardIsTimed
<1> QED
  BY <1>3, <1>7, <1>8 DEF AttemptSucceeds, AttemptFails, c, good, bad, done, lost, waits

LEMMA OtherTimed ==
  ASSUME WorkInv, NEW e \in Executions, OtherStep(e)
  PROVE  Sound(e)
<1> DEFINE c == run[e]
<1>1. /\ Context(e, c) /\ Behind(e, c) /\ locks \in Seq(LockRow)
      /\ Timed(e, c, locks) /\ Clock(e, c) /\ Timer(c)
  BY WorkContext
<1>2. /\ StepOf(e, c).timeout \in Nat /\ StepOf(e, c).delay \in Nat
      /\ StepOf(e, c).attempts \in Nat /\ Count(c) \in Nat /\ Slack \in Nat
  BY <1>1, Durations
<1>3. UNCHANGED locks
  BY DEF OtherStep, Start, ActionReturns, ActionRaises, TimesOut, VerificationEnds, WakeUp
<1>4. c.spent \in Nat /\ c.spent <= Slack /\ c.due \in Nat
  BY <1>1, <1>2 DEF Timer
<1>5. CASE c.pc \in {"running", "verify"}
          /\ (Continue(e, AttemptSucceeds(e)) \/ Continue(e, AttemptFails(e)))
  BY <1>3, <1>5, AttemptIsTimed, SameTableSound
<1>6. CASE Start(e)
  <2> DEFINE s == [c EXCEPT !.pc = "next"]
  <2>1. s.due = c.due /\ s.spent = c.spent /\ s.pc = "next"
    BY <1>1 DEF Context, Fields
  <2>2. Continue(e, s)
    BY <1>6 DEF Start
  <2> HIDE DEF s
  <2>3. Timed(e, s, locks)
    BY <1>1, <2>1, OutIsTimed DEF Timer, Covers, Acquiring
  <2> QED BY <1>3, <2>2, <2>3, SameTableSound
<1>7. ASSUME NEW s, Continue(e, s), s.step = c.step, s.states = c.states, s.spent = c.spent,
             Clock(e, s), Rest(e, s) <= Rest(e, c), Rest(e, s) \in Nat,
             s.pc \in Covers, c.pc \in Covers
      PROVE  Sound(e)
  <2>1. SameStep(e, c, s) /\ Count(s) = Count(c)
    BY <1>7 DEF SameStep, Count
  <2>2. s.pc \notin Acquiring
    BY <1>7 DEF Acquiring, Covers
  <2>3. Persists(e, locks, locks) /\ FindsItsOwn(e, s, locks)
    BY <1>7, SamePersists DEF FindsItsOwn, Covers
  <2> HIDE DEF c
  <2>4. Timed(e, s, locks)
    BY <1>1, <1>2, <1>7, <2>1, <2>2, <2>3, OnwardIsTimed DEF Acquiring
  <2> QED BY <1>3, <1>7, <2>4, SameTableSound
<1>8. CASE ActionReturns(e) /\ Here(e).verified
  <2> DEFINE s == [c EXCEPT !.pc = "verify", !.due = 0]
             x == StepOf(e, c)
             k == x.attempts - Count(c)
  <2>1. /\ s.step = c.step /\ s.states = c.states /\ s.spent = c.spent
        /\ s.due = 0 /\ s.pc = "verify" /\ c.pc = "running"
    BY <1>1, <1>8 DEF Context, Fields, ActionReturns, At
  <2>2. Continue(e, s)
    BY <1>8 DEF ActionReturns
  <2> HIDE DEF s, c
  <2>3. Count(s) = Count(c) /\ StepOf(e, s) = x /\ Count(c) <= x.attempts
    BY <1>1, <2>1 DEF Count, StepOf, Clock
  <2>4. Clock(e, s)
    BY <1>1, <2>1, <2>3 DEF Clock, Timer, Acquiring
  <2>5. Rest(e, s) = (Slack - c.spent) + Turns(x, k)
    BY <2>1, <2>3 DEF Rest, Acquiring
  <2>6. Rest(e, c) = (Slack - c.spent) + (c.due + Turns(x, k))
    BY <2>1 DEF Rest, Acquiring
  <2>7. Turns(x, k) \in Nat
    BY <1>2, <2>3, TurnsAdd
  <2> HIDE DEF x, k
  <2>8. Rest(e, s) \in Nat /\ Rest(e, s) <= Rest(e, c)
    BY <1>2, <1>4, <2>5, <2>6, <2>7
  <2> QED BY <1>7, <2>1, <2>2, <2>4, <2>8 DEF Covers
<1>9. CASE WakeUp(e)
  <2> DEFINE s == [c EXCEPT !.pc = "attempt"]
             x == StepOf(e, c)
             k == x.attempts - Count(c) - 1
  <2>1. /\ s.step = c.step /\ s.states = c.states /\ s.spent = c.spent
        /\ s.due = c.due /\ s.pc = "attempt" /\ c.pc = "backoff"
    BY <1>1, <1>9 DEF Context, Fields, WakeUp, At
  <2>2. Continue(e, s)
    BY <1>9 DEF WakeUp
  <2> HIDE DEF s, c
  <2>3. Count(s) = Count(c) /\ StepOf(e, s) = x /\ Count(c) < x.attempts
    BY <1>1, <2>1 DEF Count, StepOf, Clock
  <2>4. Clock(e, s)
    BY <1>1, <2>1, <2>3 DEF Clock, Timer, Acquiring
  <2>5. Rest(e, s) = (Slack - c.spent) + (x.timeout + Turns(x, k))
    BY <2>1, <2>3 DEF Rest, Acquiring
  <2>6. Rest(e, c) = (Slack - c.spent) + (c.due + x.timeout + Turns(x, k))
    BY <2>1 DEF Rest, Acquiring
  <2>7. Turns(x, k) \in Nat
    BY <1>2, <2>3, TurnsAdd
  <2>8. x.timeout \in Nat
    BY <1>2
  <2> HIDE DEF x, k
  <2>9. Rest(e, s) \in Nat /\ Rest(e, s) <= Rest(e, c)
    BY <1>2, <1>4, <2>5, <2>6, <2>7, <2>8
  <2> QED BY <1>7, <2>1, <2>2, <2>4, <2>9 DEF Covers
<1> QED
  BY <1>5, <1>6, <1>8, <1>9
     DEF OtherStep, ActionReturns, ActionRaises, TimesOut, VerificationEnds, At

-----------------------------------------------------------------------------
(* The whole                                                               *)

(* An execution that does nothing, while others do.                        *)
LEMMA OthersStayTimed ==
  ASSUME WorkInv, NEW f \in Executions, NEW after \in Seq(LockRow), Persists(f, locks, after)
  PROVE  Timed(f, run[f], after)
<1> DEFINE c == run[f]
<1>1. /\ Context(f, c) /\ Behind(f, c) /\ Tidy(f, c, locks) /\ locks \in Seq(LockRow)
      /\ Timed(f, c, locks) /\ Clock(f, c) /\ Count(c) \in Nat
  BY WorkContext
<1>2. SameStep(f, c, c)
  BY DEF SameStep
<1>3. c.pc \in Acquiring \cup Covers => Rest(f, c) \in Nat /\ Rest(f, c) <= Rest(f, c)
  BY <1>1, RestIsThere
<1>4. FindsItsOwn(f, c, after)
  <2> SUFFICES ASSUME Unstopped(f, c), FitsItsLocks(StepOf(f, c)), c.pc = "decide",
                      c.found # 0, after[c.found].owner = f
               PROVE  c.found \in Ids(c.got)
    BY DEF FindsItsOwn
  <2>1. c.found \in Rows(locks)
    BY <1>1 DEF Tidy, Acquires, Acquiring
  <2>2. locks[c.found].owner = f
    BY <2>1 DEF Persists
  <2> QED BY <1>1, <2>2 DEF Timed, Guarded, Obtains, Acquiring
<1> HIDE DEF c
<1>5. Timed(f, c, after)
  BY <1>1, <1>2, <1>3, <1>4, OnwardIsTimed
<1> QED BY <1>5 DEF c

LEMMA TimedStep ==
  ASSUME WorkInv, TidyInv', NEW e \in Executions, Sound(e)
  PROVE  \A f \in Executions : Timed(f, run'[f], locks')
<1>1. PICK r : Continue(e, r) /\ Timed(e, r, locks')
  BY DEF Sound
<1>2. run' = [f \in Executions |-> IF f = e THEN r ELSE run[f]]
  BY <1>1 DEF WorkInv, TidyInv, OrderInv, LockInv, RunsAreContexts, Continue
<1>3. locks' \in Seq(LockRow)
  BY DEF TidyInv, OrderInv, LockInv, TableIsTyped
<1>4. ASSUME NEW f \in Executions, f # e
      PROVE  Timed(f, run[f], locks')
  BY <1>3, <1>4, OthersStayTimed DEF Sound
<1> QED BY <1>1, <1>2, <1>4

LEMMA FreshIsTimed ==
  ASSUME NEW e \in Executions
  PROVE  \A table : Timed(e, Fresh(e), table) /\ Timed(e, [Fresh(e) EXCEPT !.pc = "crashed"], table)
<1> DEFINE s == Fresh(e)
           x == [s EXCEPT !.pc = "crashed"]
<1>1. /\ s.due = 0 /\ s.spent = 0 /\ s.pc = "new"
      /\ x.due = 0 /\ x.spent = 0 /\ x.pc = "crashed"
  BY DEF Fresh
<1> HIDE DEF s, x
<1>2. Timer(s) /\ Timer(x)
  BY <1>1, TimeAssumption DEF Timer
<1>3. \A table : Timed(e, s, table) /\ Timed(e, x, table)
  BY <1>1, <1>2, OutIsTimed DEF Covers, Acquiring
<1> QED BY <1>3 DEF s, x

LEMMA InitWorkInv == Init => WorkInv
<1> SUFFICES ASSUME Init PROVE WorkInv
  OBVIOUS
<1>1. \A e \in Executions : run[e] = Fresh(e)
  BY DEF Init
<1> QED BY <1>1, InitTidyInv, FreshIsTimed DEF WorkInv

LEMMA CrashTimed ==
  ASSUME WorkInv, Crash
  PROVE  \A f \in Executions : Timed(f, run'[f], locks')
<1>1. /\ run' = [e \in Executions |->
                   IF Live(e) THEN [Fresh(e) EXCEPT !.pc = "crashed"] ELSE run[e]]
      /\ locks' = locks
  BY DEF Crash
<1>2. ASSUME NEW f \in Executions
      PROVE  Timed(f, [Fresh(f) EXCEPT !.pc = "crashed"], locks) /\ Timed(f, run[f], locks)
  BY FreshIsTimed DEF WorkInv
<1> QED BY <1>1, <1>2

LEMMA AgeLeft ==
  ASSUME NEW table \in Seq(LockRow), NEW l \in Rows(table)
  PROVE  /\ table[l].left \in Nat
         /\ table[l].left > 0 => Age(table)[l].left = table[l].left - 1
<1>1. table[l] \in LockRow
  BY DEF Rows
<1>2. Age(table)[l] = [table[l] EXCEPT !.left = IF @ > 0 THEN @ - 1 ELSE 0]
  BY DEF Age
<1> QED BY <1>1, <1>2 DEF LockRow

(* What Tick does to one context, where it has locks.                      *)
LEMMA OlderRest ==
  ASSUME WorkInv, NEW f \in Executions, TimeMayPass(f)
  PROVE  /\ Context(f, Older(run[f])) /\ SameStep(f, run[f], Older(run[f]))
         /\ Behind(f, Older(run[f])) /\ Clock(f, Older(run[f]))
         /\ Older(run[f]).got = run[f].got /\ Older(run[f]).todo = run[f].todo
         /\ Older(run[f]).found = run[f].found /\ Older(run[f]).pc = run[f].pc
         /\ run[f].pc \in Acquiring \cup Covers =>
              Rest(f, Older(run[f])) \in Nat /\ Rest(f, run[f]) = Rest(f, Older(run[f])) + 1
<1> DEFINE c == run[f]
           s == Older(c)
<1>1. /\ Context(f, c) /\ Behind(f, c) /\ Clock(f, c) /\ Timer(c) /\ Count(c) \in Nat
  BY WorkContext
<1>2. /\ s.got = c.got /\ s.todo = c.todo /\ s.found = c.found /\ s.pc = c.pc
      /\ s.step = c.step /\ s.states = c.states /\ DOMAIN s = Fields
      /\ s.due = (IF c.due > 0 THEN c.due - 1 ELSE 0)
      /\ s.spent = IF c.pc \in Acquiring \cup {"approve", "attempt", "verify"}
                   THEN c.spent + 1 ELSE c.spent
  BY <1>1 DEF Older, Context, Fields
<1>3. /\ c.pc \in {"running", "backoff"} => c.due > 0
      /\ c.pc \in Acquiring \cup {"approve", "attempt", "verify"} => c.spent < Slack
  BY DEF TimeMayPass, Waits, Busy
<1>4. /\ StepOf(f, c).timeout \in Nat /\ StepOf(f, c).delay \in Nat
      /\ StepOf(f, c).attempts \in Nat /\ StepOf(f, c).attempts > 0 /\ Slack \in Nat
  BY <1>1, Durations
<1>5. c.spent \in Nat /\ c.spent <= Slack /\ c.due \in Nat
  BY <1>1, <1>4 DEF Timer
<1> HIDE DEF s, c
<1>6. Context(f, s) /\ SameStep(f, c, s) /\ Behind(f, s)
  BY <1>1, <1>2 DEF Context, SameStep, Behind
<1>7. Count(s) = Count(c) /\ StepOf(f, s) = StepOf(f, c)
  BY <1>2 DEF Count, StepOf
<1>8. Timer(s)
  BY <1>2, <1>3, <1>4, <1>5 DEF Timer
<1>9. Clock(f, s)
  BY <1>1, <1>2, <1>7, <1>8 DEF Clock
<1> DEFINE x == StepOf(f, c)
           k == x.attempts - Count(c)
<1>10. ASSUME c.pc \in Acquiring \cup Covers
       PROVE  Rest(f, s) \in Nat /\ Rest(f, c) = Rest(f, s) + 1
  <2>1. Rest(f, s) \in Nat
    BY <1>2, <1>6, <1>9, <1>10, RestIsThere
  <2>2. CASE c.pc \in Acquiring \cup {"approve", "attempt"}
    <3>1. /\ Rest(f, s) = (Slack - s.spent) + (x.timeout + Turns(x, k - 1))
          /\ Rest(f, c) = (Slack - c.spent) + (x.timeout + Turns(x, k - 1))
          /\ s.spent = c.spent + 1
      BY <1>2, <1>7, <2>2 DEF Rest, Acquiring
    <3>2. Turns(x, k - 1) \in Nat
      <4>1. k - 1 \in Nat
        BY <1>1, <1>4, <2>2 DEF Clock
      <4> QED BY <1>4, <4>1, TurnsAdd
    <3> HIDE DEF x, k
    <3>3. x.timeout \in Nat
      BY <1>4 DEF x
    <3> QED BY <1>4, <1>5, <2>1, <3>1, <3>2, <3>3
  <2>3. CASE c.pc = "running"
    <3>1. /\ Rest(f, s) = (Slack - s.spent) + (s.due + Turns(x, k))
          /\ Rest(f, c) = (Slack - c.spent) + (c.due + Turns(x, k))
          /\ s.spent = c.spent /\ s.due = c.due - 1
      BY <1>2, <1>3, <1>7, <2>3 DEF Rest, Acquiring
    <3>2. Turns(x, k) \in Nat
      BY <1>1, <1>4, <2>3, TurnsAdd DEF Clock
    <3> HIDE DEF x, k
    <3> QED BY <1>4, <1>5, <2>1, <3>1, <3>2
  <2>4. CASE c.pc = "verify"
    <3>1. /\ Rest(f, s) = (Slack - s.spent) + Turns(x, k)
          /\ Rest(f, c) = (Slack - c.spent) + Turns(x, k)
          /\ s.spent = c.spent + 1
      BY <1>2, <1>7, <2>4 DEF Rest, Acquiring
    <3>2. Turns(x, k) \in Nat
      BY <1>1, <1>4, <2>4, TurnsAdd DEF Clock
    <3> HIDE DEF x, k
    <3> QED BY <1>4, <1>5, <2>1, <3>1, <3>2
  <2>5. CASE c.pc = "backoff"
    <3>1. /\ Rest(f, s) = (Slack - s.spent) + (s.due + x.timeout + Turns(x, k - 1))
          /\ Rest(f, c) = (Slack - c.spent) + (c.due + x.timeout + Turns(x, k - 1))
          /\ s.spent = c.spent /\ s.due = c.due - 1
      BY <1>2, <1>3, <1>7, <2>5 DEF Rest, Acquiring
    <3>2. Turns(x, k - 1) \in Nat
      BY <1>1, <1>4, <2>5, TurnsAdd DEF Clock
    <3> HIDE DEF x, k
    <3>3. x.timeout \in Nat
      BY <1>4 DEF x
    <3> QED BY <1>4, <1>5, <2>1, <3>1, <3>2, <3>3
  <2> QED BY <1>10, <2>1, <2>2, <2>3, <2>4, <2>5 DEF Covers
<1> QED BY <1>2, <1>6, <1>9, <1>10 DEF s, c

(* Time takes from the locks what it takes from the step.                  *)
LEMMA TickTimed ==
  ASSUME WorkInv, Tick
  PROVE  \A f \in Executions : Timed(f, run'[f], locks')
<1>1. run' = [e \in Executions |-> Older(run[e])] /\ locks' = Age(locks)
  BY DEF Tick
<1>2. ASSUME NEW f \in Executions
      PROVE  Timed(f, Older(run[f]), Age(locks))
  <2> DEFINE c == run[f]
             s == Older(c)
             after == Age(locks)
  <2>1. /\ Context(f, c) /\ Behind(f, c) /\ Tidy(f, c, locks) /\ locks \in Seq(LockRow)
        /\ Timed(f, c, locks)
    BY WorkContext
  <2>2. TimeMayPass(f)
    BY DEF Tick
  <2>3. /\ SameStep(f, c, s) /\ Clock(f, s) /\ s.pc = c.pc
        /\ s.got = c.got /\ s.todo = c.todo /\ s.found = c.found
        /\ c.pc \in Acquiring \cup Covers => Rest(f, s) \in Nat /\ Rest(f, c) = Rest(f, s) + 1
    BY <2>2, OlderRest
  <2>4. /\ Rows(after) = Rows(locks)
        /\ \A l \in Rows(locks) :
             /\ after[l].target = locks[l].target /\ after[l].owner = locks[l].owner
             /\ after[l].status = locks[l].status
    BY <2>1, AgeRows
  <2>5. \A l \in Rows(locks) :
          /\ locks[l].left \in Nat
          /\ locks[l].left > 0 => after[l].left = locks[l].left - 1
    BY <2>1, AgeLeft
  <2> HIDE DEF s, c, after
  <2>6. ASSUME s.pc \in Acquiring \cup Covers, NEW l, Lasts(f, c, locks, l)
        PROVE  Lasts(f, s, after, l) /\ after[l].target = locks[l].target
    <3>1. Rest(f, s) \in Nat /\ Rest(f, c) = Rest(f, s) + 1
      BY <2>3, <2>6
    <3>2. /\ l \in Rows(locks) /\ locks[l].left > Rest(f, c)
          /\ locks[l].owner = f /\ locks[l].status = "active"
      BY <2>6 DEF Lasts
    <3>3. locks[l].left \in Nat /\ locks[l].left > 0
      BY <2>5, <3>1, <3>2
    <3>4. after[l].left = locks[l].left - 1
      BY <2>5, <3>2, <3>3
    <3>5. after[l].left > Rest(f, s)
      BY <3>1, <3>2, <3>3, <3>4
    <3> QED BY <2>4, <3>2, <3>5 DEF Lasts
  <2>7. s.pc \in Acquiring \cup Covers => Serves(f, c, locks, s, after)
    BY <2>6 DEF Serves
  <2>8. Guarded(f, c, locks)
    BY <2>1 DEF Timed
  <2>9. FindsItsOwn(f, s, after)
    <3> SUFFICES ASSUME Unstopped(f, s), FitsItsLocks(StepOf(f, s)), s.pc = "decide",
                        s.found # 0, after[s.found].owner = f
                 PROVE  s.found \in Ids(s.got)
      BY DEF FindsItsOwn
    <3>1. c.found \in Rows(locks)
      BY <2>1, <2>3 DEF Tidy, Acquires, Acquiring
    <3>2. locks[c.found].owner = f
      BY <2>3, <2>4, <3>1
    <3>3. Unstopped(f, c) /\ FitsItsLocks(StepOf(f, c))
      BY <2>3, StaysUnstopped
    <3> QED BY <2>3, <2>8, <3>2, <3>3 DEF Guarded, Obtains, Acquiring
  <2>10. Guarded(f, s, after)
    BY <2>3, <2>7, <2>8, <2>9, GuardedOnward
  <2> QED BY <2>3, <2>10 DEF Timed, s, c, after
<1> QED BY <1>1, <1>2

LEMMA NextWorkInv == WorkInv /\ [Next]_vars => WorkInv'
<1> SUFFICES ASSUME WorkInv, [Next]_vars PROVE WorkInv'
  OBVIOUS
<1>1. TidyInv'
  BY NextTidyInv DEF WorkInv
<1>2. SUFFICES \A f \in Executions : Timed(f, run'[f], locks')
  BY <1>1 DEF WorkInv, Timed, Clock, Timer, Guarded, Obtains, Keeps, Lasts, Rest, Count,
              StepOf, Turns, Unstopped, FitsItsLocks, TargetsOf, Rows, Ids
<1>3. ASSUME NEW e \in Executions, EngineStep(e) \/ Start(e) \/ ActionReturns(e) \/ ActionRaises(e)
      PROVE  Sound(e)
  BY <1>3, BeginStepTimed, SweepTimed, DecideTimed, GivingBackTimed, ApproveTimed, AttemptTimed,
     OtherTimed DEF EngineStep, OtherStep
<1>4. CASE UNCHANGED <<run, locks>>
  BY <1>4 DEF WorkInv
<1> QED BY <1>1, <1>3, <1>4, TimedStep, CrashTimed, TickTimed DEF Next, StrayEnds, vars

(* The locks last for as long as the work, in every behaviour.             *)
THEOREM WorkInvariance == Spec => []WorkInv
BY InitWorkInv, NextWorkInv, PTL DEF Spec

(* While the engine waits for an action of a step that fits its locks, in  *)
(* a plan without locks left behind, it holds a live lock on every target  *)
(* of the step, through all attempts and the delays between them           *)
(* (plan-execution-engine.js:810, the time to live of a lock).              *)
THEOREM WorkHasItsLocks == Spec => []WorkIsLocked
<1>1. ASSUME WorkInv, NEW e \in Executions, Covered(e), NEW t \in TargetsOf(e, run[e].step)
      PROVE  Holds(e, t)
  <2> DEFINE c == run[e]
  <2>1. /\ Context(e, c) /\ Behind(e, c) /\ Clock(e, c) /\ Timed(e, c, locks)
        /\ locks \in Seq(LockRow)
    BY <1>1, WorkContext
  <2>2. c.pc = "running" /\ FitsItsLocks(StepOf(e, c)) /\ Unstopped(e, c)
    BY <1>1 DEF Covered, At, StepOf, Here, Unstopped, StoppedAtApproval
  <2>3. Keeps(e, c, locks)
    BY <2>1, <2>2 DEF Timed, Guarded, Covers
  <2>4. PICK l \in Rows(locks) : Lasts(e, c, locks, l) /\ locks[l].target = t
    BY <1>1, <2>3 DEF Keeps
  <2>5. Rest(e, c) \in Nat
    BY <2>1, <2>2, RestIsThere DEF Covers
  <2>6. locks[l] \in LockRow
    BY <2>1 DEF Rows
  <2>7. locks[l].left > 0 /\ locks[l].owner = e /\ locks[l].status = "active"
    BY <2>4, <2>5, <2>6 DEF Lasts, LockRow
  <2> QED BY <2>4, <2>7 DEF Holds, LiveRows, ActiveRows
<1>2. WorkInv => WorkIsLocked
  BY <1>1 DEF WorkIsLocked
<1> QED BY <1>2, WorkInvariance, PTL

(* No two executions wait for such actions on one target: each would hold  *)
(* a live lock on it, and a target has one active lock at most.            *)
THEOREM WorkIsExclusive == Spec => []ExclusiveWork
<1>1. ASSUME WorkIsLocked, OneActiveLock, NEW e \in Executions, NEW f \in Executions, e # f,
             Covered(e), Covered(f)
      PROVE  TargetsOf(e, run[e].step) \cap TargetsOf(f, run[f].step) = {}
  <2> SUFFICES ASSUME NEW t \in TargetsOf(e, run[e].step), t \in TargetsOf(f, run[f].step)
               PROVE  FALSE
    OBVIOUS
  <2>1. Holds(e, t) /\ Holds(f, t)
    BY <1>1 DEF WorkIsLocked
  <2>2. PICK l \in LiveRows(locks, t) : locks[l].owner = e
    BY <2>1 DEF Holds
  <2>3. PICK m \in LiveRows(locks, t) : locks[m].owner = f
    BY <2>1 DEF Holds
  <2>4. l = m
    BY <1>1, <2>2, <2>3 DEF OneActiveLock, LiveRows, ActiveRows
  <2> QED BY <1>1, <2>2, <2>3, <2>4
<1>2. WorkIsLocked /\ OneActiveLock => ExclusiveWork
  BY <1>1 DEF ExclusiveWork
<1>3. WorkInv => OneActiveLock
  BY DEF WorkInv, TidyInv, OrderInv, LockInv
<1> QED BY <1>2, <1>3, WorkInvariance, WorkHasItsLocks, PTL

-----------------------------------------------------------------------------
(* The types: what an execution carries along.  The table only grows, so   *)
(* the lock_ids an execution remembers stay rows; and an attempt begins    *)
(* only where the clock has attempts left.                                 *)

PlanRecord(e, ids) ==
  [pc : Labels, step : DOMAIN Plan[e], states : [DOMAIN Plan[e] -> StepState],
   held : Seq(ids), got : Seq(ids), todo : Seq(Targets),
   stale : SUBSET ids, found : ids \cup {0},
   due : Nat, spent : Nat, throws : BOOLEAN, outcome : Outcomes]

Limited(e, r) == \A i \in DOMAIN Plan[e] : r.states[i].attempts <= Plan[e][i].attempts

Typed(e, r, ids) == r \in PlanRecord(e, ids) /\ Limited(e, r)

ActionsAreTyped == \A a \in actions : a.owner \in Executions /\ a.step \in DOMAIN Plan[a.owner]

TypeInv ==
  /\ WorkInv
  /\ \A e \in Executions : Typed(e, run[e], Rows(locks))
  /\ ActionsAreTyped
  /\ crashes \in 0..MaxCrashes

(* A context stays typed when rows are added.                              *)
LEMMA MoreRows ==
  ASSUME NEW e, NEW r, NEW ids, NEW more, ids \subseteq more, Typed(e, r, ids)
  PROVE  Typed(e, r, more)
<1>1. \A s \in Seq(ids) : s \in Seq(more)
  OBVIOUS
<1>2. r \in PlanRecord(e, ids)
  BY DEF Typed
<1>3. r \in PlanRecord(e, more)
  BY <1>1, <1>2 DEF PlanRecord
<1> QED BY <1>3 DEF Typed

LEMMA BecomesTyped ==
  ASSUME NEW e, NEW r, NEW ids, Typed(e, r, ids), NEW status \in StepStatus
  PROVE  Typed(e, Becomes(r, status), ids) /\ Becomes(r, status).step = r.step
<1> DEFINE new == [r.states EXCEPT ![r.step].status = status]
<1>1. r \in PlanRecord(e, ids) /\ r.states \in [DOMAIN Plan[e] -> StepState]
  BY DEF Typed, PlanRecord
<1>2. /\ new \in [DOMAIN Plan[e] -> StepState]
      /\ \A i \in DOMAIN Plan[e] : new[i].attempts = r.states[i].attempts
  BY <1>1 DEF StepState
<1>3. Becomes(r, status) = [r EXCEPT !.states = new]
  BY <1>1 DEF Becomes, PlanRecord
<1> HIDE DEF new
<1>4. /\ [r EXCEPT !.states = new] \in PlanRecord(e, ids)
      /\ [r EXCEPT !.states = new].states = new
      /\ [r EXCEPT !.states = new].step = r.step
  BY <1>1, <1>2 DEF PlanRecord
<1> QED BY <1>2, <1>3, <1>4 DEF Typed, Limited

(* The fields an action may set beside the states of the steps.            *)
LEMMA FieldsTyped ==
  ASSUME NEW e, NEW r, NEW ids, Typed(e, r, ids)
  PROVE  /\ \A pc \in Labels : Typed(e, [r EXCEPT !.pc = pc], ids)
         /\ \A pc \in Labels, due \in Nat : Typed(e, [r EXCEPT !.pc = pc, !.due = due], ids)
         /\ \A due \in Nat : Typed(e, [r EXCEPT !.due = due], ids)
         /\ \A due \in Nat, throws \in BOOLEAN :
              Typed(e, [r EXCEPT !.due = due, !.throws = throws], ids)
         /\ \A due, spent \in Nat : Typed(e, [r EXCEPT !.due = due, !.spent = spent], ids)
         /\ \A stale \in SUBSET ids, pc \in Labels :
              Typed(e, [r EXCEPT !.stale = stale, !.pc = pc], ids)
         /\ \A found \in ids \cup {0}, pc \in Labels :
              Typed(e, [r EXCEPT !.found = found, !.pc = pc], ids)
         /\ \A got \in Seq(ids) : Typed(e, [r EXCEPT !.got = got], ids)
         /\ \A held \in Seq(ids) : Typed(e, [r EXCEPT !.held = held], ids)
         /\ \A todo \in Seq(Targets) :
              Typed(e, [r EXCEPT !.pc = "sweep", !.todo = todo, !.got = <<>>, !.throws = FALSE], ids)
<1>1. r \in PlanRecord(e, ids)
  BY DEF Typed
<1>2. \A pc \in Labels : Typed(e, [r EXCEPT !.pc = pc], ids)
  BY <1>1 DEF Typed, Limited, PlanRecord
<1>3. \A pc \in Labels, due \in Nat : Typed(e, [r EXCEPT !.pc = pc, !.due = due], ids)
  BY <1>1 DEF Typed, Limited, PlanRecord
<1>4. \A due \in Nat : Typed(e, [r EXCEPT !.due = due], ids)
  BY <1>1 DEF Typed, Limited, PlanRecord
<1>5. \A due \in Nat, throws \in BOOLEAN :
        Typed(e, [r EXCEPT !.due = due, !.throws = throws], ids)
  BY <1>1 DEF Typed, Limited, PlanRecord
<1>6. \A due, spent \in Nat : Typed(e, [r EXCEPT !.due = due, !.spent = spent], ids)
  BY <1>1 DEF Typed, Limited, PlanRecord
<1>7. \A stale \in SUBSET ids, pc \in Labels :
        Typed(e, [r EXCEPT !.stale = stale, !.pc = pc], ids)
  BY <1>1 DEF Typed, Limited, PlanRecord
<1>8. \A found \in ids \cup {0}, pc \in Labels :
        Typed(e, [r EXCEPT !.found = found, !.pc = pc], ids)
  BY <1>1 DEF Typed, Limited, PlanRecord
<1>9. \A got \in Seq(ids) : Typed(e, [r EXCEPT !.got = got], ids)
  BY <1>1 DEF Typed, Limited, PlanRecord
<1>10. \A held \in Seq(ids) : Typed(e, [r EXCEPT !.held = held], ids)
  BY <1>1 DEF Typed, Limited, PlanRecord
<1>11. \A todo \in Seq(Targets) :
         Typed(e, [r EXCEPT !.pc = "sweep", !.todo = todo, !.got = <<>>, !.throws = FALSE], ids)
  <2>1. <<>> \in Seq(ids) /\ "sweep" \in Labels
    BY DEF Labels, Acquiring
  <2> SUFFICES ASSUME NEW todo \in Seq(Targets)
               PROVE  Typed(e, [r EXCEPT !.pc = "sweep", !.todo = todo, !.got = <<>>,
                                         !.throws = FALSE], ids)
    OBVIOUS
  <2> DEFINE s == [r EXCEPT !.pc = "sweep", !.todo = todo, !.got = <<>>, !.throws = FALSE]
  <2>2. s \in PlanRecord(e, ids) /\ s.states = r.states
    BY <1>1, <2>1 DEF PlanRecord
  <2> QED BY <2>2 DEF Typed, Limited
<1> QED BY <1>2, <1>3, <1>4, <1>5, <1>6, <1>7, <1>8, <1>9, <1>10, <1>11

LEMMA LeavingTyped ==
  ASSUME NEW e \in Executions, NEW r, NEW ids, Typed(e, r, ids)
  PROVE  Typed(e, NextStep(e, r), ids) /\ Typed(e, Throw(r), ids)
<1>1. r \in PlanRecord(e, ids)
  BY DEF Typed
<1>2. Typed(e, Throw(r), ids)
  BY <1>1 DEF Throw, Typed, Limited, PlanRecord, Labels, Outcomes
<1>3. OutcomeOf(r) \in Outcomes
  BY DEF OutcomeOf, Outcomes
<1>4. CASE r.step < Len(Plan[e])
  <2>1. r.step \in DOMAIN Plan[e]
    BY <1>1 DEF PlanRecord
  <2>2. r.step + 1 \in DOMAIN Plan[e]
    BY <1>4, <2>1, PlansAreTyped
  <2>3. NextStep(e, r) = [r EXCEPT !.pc = "next", !.step = r.step + 1, !.spent = 0]
    BY <1>4 DEF NextStep
  <2>4. Typed(e, [r EXCEPT !.pc = "next", !.step = r.step + 1, !.spent = 0], ids)
    BY <1>1, <2>2 DEF Typed, Limited, PlanRecord, Labels
  <2> QED BY <1>2, <2>3, <2>4
<1>5. CASE ~(r.step < Len(Plan[e]))
  <2>1. NextStep(e, r) = [r EXCEPT !.pc = "ended", !.spent = 0, !.outcome = OutcomeOf(r)]
    BY <1>5 DEF NextStep
  <2>2. \A out \in Outcomes :
          Typed(e, [r EXCEPT !.pc = "ended", !.spent = 0, !.outcome = out], ids)
    BY <1>1 DEF Typed, Limited, PlanRecord, Labels
  <2> QED BY <1>2, <1>3, <2>1, <2>2
<1> QED BY <1>4, <1>5

LEMMA FinallyTyped ==
  ASSUME NEW e \in Executions, NEW r, NEW ids, Typed(e, r, ids)
  PROVE  Typed(e, Finally(e, r), ids)
<1>1. Typed(e, [r EXCEPT !.pc = "release"], ids)
  BY FieldsTyped DEF Labels
<1> QED BY <1>1, LeavingTyped DEF Finally

LEMMA AttemptEndsTyped ==
  ASSUME NEW e \in Executions, NEW ids, Typed(e, run[e], ids)
  PROVE  Typed(e, AttemptSucceeds(e), ids) /\ Typed(e, AttemptFails(e), ids)
<1> DEFINE b(status) == Becomes(run[e], status)
<1>1. \A status \in StepStatus : Typed(e, b(status), ids)
  BY BecomesTyped
<1>2. run[e].step \in DOMAIN Plan[e]
  BY DEF Typed, PlanRecord
<1>3. Here(e).delay \in Nat
  BY <1>2, StepTimes DEF Here
<1>4. Typed(e, [run[e] EXCEPT !.pc = "backoff", !.due = Here(e).delay], ids)
  BY <1>3, FieldsTyped DEF Labels
<1> HIDE DEF b
<1>5. Typed(e, [b("completed") EXCEPT !.due = 0], ids)
  BY <1>1, FieldsTyped DEF StepStatus
<1>6. \A throws \in BOOLEAN : Typed(e, [b("failed") EXCEPT !.due = 0, !.throws = throws], ids)
  BY <1>1, FieldsTyped DEF StepStatus
<1> DEFINE done == [b("completed") EXCEPT !.due = 0]
           aborts == Here(e).onFailure = "abort"
           lost == [b("failed") EXCEPT !.due = 0, !.throws = aborts]
<1>7. aborts \in BOOLEAN
  OBVIOUS
<1> HIDE DEF aborts
<1>8. Typed(e, lost, ids) /\ Typed(e, done, ids)
  BY <1>5, <1>6, <1>7
<1> HIDE DEF done, lost
<1>9. Typed(e, Finally(e, done), ids) /\ Typed(e, Finally(e, lost), ids)
  BY <1>8, FinallyTyped
<1> QED BY <1>4, <1>9 DEF AttemptSucceeds, AttemptFails, done, lost, aborts, b

(* What a step of the execution e has to show: the table has not lost a    *)
(* row, and e goes on with its types.                                      *)
GoesOnTyped(e) ==
  /\ Rows(locks) \subseteq Rows(locks')
  /\ \E r : Continue(e, r) /\ Typed(e, r, Rows(locks'))

LEMMA TypeContext ==
  ASSUME TypeInv, NEW e \in Executions
  PROVE  /\ Typed(e, run[e], Rows(locks)) /\ run[e] \in PlanRecord(e, Rows(locks))
         /\ Context(e, run[e]) /\ Clock(e, run[e]) /\ locks \in Seq(LockRow)
         /\ run[e].step \in DOMAIN Plan[e]
BY WorkContext DEF TypeInv, Typed, Context

LEMMA SameRowsTyped ==
  ASSUME NEW e, NEW r, Continue(e, r), Typed(e, r, Rows(locks)), Rows(locks') = Rows(locks)
  PROVE  GoesOnTyped(e)
BY DEF GoesOnTyped

(* The actions that leave the table alone.                                 *)
LEMMA CalmTyped ==
  ASSUME TypeInv, NEW e \in Executions,
         \/ Start(e) \/ BeginStep(e) \/ ReadStale(e) \/ LookUp(e) \/ Approve(e)
         \/ ActionReturns(e) \/ ActionRaises(e) \/ TimesOut(e)
         \/ VerificationEnds(e) \/ WakeUp(e)
  PROVE  GoesOnTyped(e)
<1> DEFINE c == run[e]
           ids == Rows(locks)
<1>0. SUFFICES \E r : Continue(e, r) /\ Typed(e, r, ids)
  <2>1. Rows(locks') = Rows(locks)
    BY DEF Start, BeginStep, ReadStale, LookUp, Approve, ActionReturns, ActionRaises,
           TimesOut, VerificationEnds, WakeUp, Rows
  <2> QED BY <2>1, SameRowsTyped
<1>1. Typed(e, c, ids) /\ c.step \in DOMAIN Plan[e]
  BY TypeContext
<1>2. \A status \in StepStatus : Typed(e, Becomes(c, status), ids)
  BY <1>1, BecomesTyped
<1>3. \A status \in StepStatus :
        /\ Typed(e, NextStep(e, Becomes(c, status)), ids)
        /\ Typed(e, Throw(Becomes(c, status)), ids)
  BY <1>2, LeavingTyped
<1>4. Typed(e, Throw(c), ids)
  BY <1>1, LeavingTyped
<1>5. \A pc \in Labels : Typed(e, [c EXCEPT !.pc = pc], ids)
  BY <1>1, FieldsTyped
<1>6. Typed(e, AttemptSucceeds(e), ids) /\ Typed(e, AttemptFails(e), ids)
  BY <1>1, AttemptEndsTyped
<1>7. CASE Start(e)
  BY <1>5, <1>7 DEF Start, Labels
<1>8. CASE BeginStep(e)
  <2>1. Typed(e, [Becomes(c, "ready") EXCEPT !.pc = "approve"], ids)
    <3>1. Typed(e, Becomes(c, "ready"), ids)
      BY <1>2 DEF StepStatus
    <3> QED BY <3>1, FieldsTyped DEF Labels
  <2>2. Here(e).targets \in Seq(Targets)
    BY <1>1, PlansAreTyped DEF Here
  <2>3. \A todo \in Seq(Targets) :
          Typed(e, [c EXCEPT !.pc = "sweep", !.todo = todo, !.got = <<>>, !.throws = FALSE], ids)
    BY <1>1, FieldsTyped
  <2>4. Typed(e, [c EXCEPT !.pc = "sweep", !.todo = Here(e).targets,
                           !.got = <<>>, !.throws = FALSE], ids)
    BY <2>2, <2>3
  <2>5. /\ Typed(e, NextStep(e, Becomes(c, "blocked")), ids)
        /\ Typed(e, NextStep(e, Becomes(c, "skipped")), ids)
    BY <1>3 DEF StepStatus
  <2> QED BY <1>8, <2>1, <2>4, <2>5 DEF BeginStep
<1>9. CASE ReadStale(e)
  <2> DEFINE pc == IF StaleRows(locks) = {} THEN "look" ELSE "mark"
  <2>1. StaleRows(locks) \in SUBSET ids
    BY DEF StaleRows
  <2>2. pc \in Labels
    BY DEF Labels, Acquiring
  <2>3. Continue(e, [c EXCEPT !.stale = StaleRows(locks), !.pc = pc])
    BY <1>9 DEF ReadStale
  <2> HIDE DEF pc
  <2>4. Typed(e, [c EXCEPT !.stale = StaleRows(locks), !.pc = pc], ids)
    BY <1>1, <2>1, <2>2, FieldsTyped
  <2> QED BY <2>3, <2>4
<1>10. CASE LookUp(e)
  <2> DEFINE live == LiveRows(locks, Head(c.todo))
             found == IF live = {} THEN 0 ELSE CHOOSE l \in live : TRUE
  <2>1. live \subseteq ids
    BY DEF LiveRows, ActiveRows
  <2>2. Continue(e, [c EXCEPT !.found = found, !.pc = "decide"])
    BY <1>10 DEF LookUp
  <2> HIDE DEF live
  <2>3. found \in ids \cup {0}
    BY <2>1
  <2> HIDE DEF found
  <2>4. Typed(e, [c EXCEPT !.found = found, !.pc = "decide"], ids)
    BY <1>1, <2>3, FieldsTyped DEF Labels, Acquiring
  <2> QED BY <2>2, <2>4
<1>11. CASE Approve(e)
  BY <1>3, <1>4, <1>5, <1>11 DEF Approve, Labels, StepStatus
<1>12. CASE ActionReturns(e)
  <2>1. Typed(e, [c EXCEPT !.pc = "verify", !.due = 0], ids)
    BY <1>1, FieldsTyped DEF Labels
  <2> QED BY <1>6, <1>12, <2>1 DEF ActionReturns
<1>13. CASE ActionRaises(e)
  BY <1>6, <1>13 DEF ActionRaises
<1>14. CASE TimesOut(e)
  BY <1>6, <1>14 DEF TimesOut
<1>15. CASE VerificationEnds(e)
  BY <1>6, <1>15 DEF VerificationEnds
<1>16. CASE WakeUp(e)
  BY <1>5, <1>16 DEF WakeUp, Labels
<1> QED
  BY <1>7, <1>8, <1>9, <1>10, <1>11, <1>12, <1>13, <1>14, <1>15, <1>16

(* An attempt is counted while the retry policy has one left.              *)
LEMMA AttemptTyped ==
  ASSUME TypeInv, NEW e \in Executions, Attempt(e)
  PROVE  GoesOnTyped(e)
<1> DEFINE c == run[e]
           ids == Rows(locks)
           i == c.step
           n == Attempts(e) + 1
           b == Becomes(c, IF n > 1 THEN "retrying" ELSE "running")
           due == Here(e).timeout
           new == [b.states EXCEPT ![i].attempts = n]
           r == [b EXCEPT !.pc = "running", !.due = Here(e).timeout, !.states[i].attempts = n]
<1>1. Typed(e, c, ids) /\ i \in DOMAIN Plan[e] /\ c.states \in [DOMAIN Plan[e] -> StepState]
  BY TypeContext DEF PlanRecord
<1>2. Attempts(e) \in Nat /\ n \in Nat
  BY <1>1 DEF Attempts, StepState
<1>3. n <= Plan[e][i].attempts
  <2>1. Count(c) < StepOf(e, c).attempts
    BY TypeContext DEF Clock, Attempt, At
  <2>2. StepOf(e, c).attempts \in Nat
    BY <1>1, StepTimes DEF StepOf
  <2> QED BY <1>2, <2>1, <2>2 DEF Count, StepOf, Attempts
<1>4. Typed(e, b, ids)
  BY <1>1, BecomesTyped DEF StepStatus
<1>5. Continue(e, r) /\ Rows(locks') = Rows(locks)
  BY DEF Attempt, Rows
<1>6. due \in Nat
  BY <1>1, StepTimes DEF Here
<1> HIDE DEF n, b, due
<1>7. b \in PlanRecord(e, ids) /\ b.states \in [DOMAIN Plan[e] -> StepState]
  BY <1>4 DEF Typed, PlanRecord
<1>8. new \in [DOMAIN Plan[e] -> StepState]
  BY <1>1, <1>2, <1>7 DEF StepState
<1>9. \A j \in DOMAIN Plan[e] : new[j].attempts <= Plan[e][j].attempts
  <2>1. \A j \in DOMAIN Plan[e] : new[j].attempts = IF j = i THEN n ELSE b.states[j].attempts
    BY <1>1, <1>7 DEF StepState
  <2> QED BY <1>3, <1>4, <2>1 DEF Typed, Limited
<1>10. r = [b EXCEPT !.pc = "running", !.due = due, !.states = new]
  BY <1>7 DEF PlanRecord, due
<1> HIDE DEF new, r
<1>11. r \in PlanRecord(e, ids) /\ r.states = new
  BY <1>6, <1>7, <1>8, <1>10 DEF PlanRecord, Labels
<1>12. Typed(e, r, ids)
  BY <1>9, <1>11 DEF Typed, Limited
<1> QED BY <1>5, <1>12, SameRowsTyped

(* The lock a step has obtained is a row of the table.                     *)
LEMMA ObtainedTyped ==
  ASSUME NEW e \in Executions, NEW ids, Typed(e, run[e], ids), run[e].todo # <<>>, NEW l \in ids
  PROVE  Typed(e, Obtained(e, l), ids)
<1> DEFINE c == run[e]
           got == Append(c.got, l)
           todo == Tail(c.todo)
           r == [run[e] EXCEPT !.got = Append(@, l), !.todo = Tail(@), !.found = 0]
           b == Becomes(r, "ready")
           held == b.held \o r.got
           s == [b EXCEPT !.pc = "approve", !.held = @ \o r.got, !.got = <<>>]
<1>1. c \in PlanRecord(e, ids)
  BY DEF Typed
<1>2. got \in Seq(ids) /\ todo \in Seq(Targets)
  BY <1>1 DEF PlanRecord
<1>3. r = [c EXCEPT !.got = got, !.todo = todo, !.found = 0]
  BY <1>1 DEF PlanRecord
<1> HIDE DEF got, todo, r
<1>4. r \in PlanRecord(e, ids) /\ r.states = c.states
  BY <1>1, <1>2, <1>3 DEF PlanRecord
<1>5. Typed(e, r, ids)
  BY <1>4 DEF Typed, Limited
<1>6. Typed(e, [r EXCEPT !.pc = "sweep"], ids)
  BY <1>5, FieldsTyped DEF Labels, Acquiring
<1>7. Typed(e, b, ids)
  BY <1>5, BecomesTyped DEF StepStatus
<1> HIDE DEF b
<1>8. held \in Seq(ids)
  BY <1>4, <1>7 DEF Typed, PlanRecord
<1>9. s = [b EXCEPT !.pc = "approve", !.held = held, !.got = <<>>]
  BY <1>7 DEF Typed, PlanRecord
<1> HIDE DEF held, s
<1>10. <<>> \in Seq(ids) /\ "approve" \in Labels
  BY DEF Labels
<1>11. s \in PlanRecord(e, ids) /\ s.states = b.states
  BY <1>7, <1>8, <1>9, <1>10 DEF Typed, PlanRecord
<1>12. Typed(e, s, ids)
  BY <1>7, <1>11 DEF Typed, Limited
<1> QED BY <1>6, <1>12 DEF Obtained, r, b, s

LEMMA DecideTyped ==
  ASSUME TypeInv, NEW e \in Executions, Decide(e)
  PROVE  GoesOnTyped(e)
<1> DEFINE c == run[e]
           ids == Rows(locks)
           t == Head(c.todo)
<1>1. Typed(e, c, ids) /\ c \in PlanRecord(e, ids) /\ c.todo # <<>> /\ c.todo \in Seq(Targets)
  BY TypeContext DEF Context, Decide, At, Acquiring
<1>2. \A throws \in BOOLEAN : Typed(e, RollsBack(e, throws), ids)
  <2> SUFFICES ASSUME NEW throws \in BOOLEAN
               PROVE  Typed(e, RollsBack(e, throws), ids)
    OBVIOUS
  <2>1. /\ "rollback" \in Labels /\ <<>> \in Seq(Targets) /\ 0 \in ids \cup {0}
        /\ RollsBack(e, throws)
             = [c EXCEPT !.pc = "rollback", !.throws = throws, !.todo = <<>>, !.found = 0]
    BY DEF Labels, RollsBack
  <2>2. RollsBack(e, throws) \in PlanRecord(e, ids) /\ RollsBack(e, throws).states = c.states
    BY <1>1, <2>1 DEF PlanRecord
  <2> QED BY <1>1, <2>2 DEF Typed, Limited
<1>3. CASE c.found # 0 /\ locks[c.found].owner = e /\ Continue(e, Obtained(e, c.found))
             /\ UNCHANGED locks
  <2>1. c.found \in ids
    BY <1>1, <1>3 DEF PlanRecord
  <2> QED BY <1>1, <1>3, <2>1, ObtainedTyped, SameRowsTyped
<1>4. CASE UNCHANGED locks /\ \E throws \in BOOLEAN : Continue(e, RollsBack(e, throws))
  BY <1>2, <1>4, SameRowsTyped
<1>5. CASE /\ locks' = Insert(locks, t, e, TimeToLive(e))
           /\ Continue(e, Obtained(e, Len(locks) + 1))
  <2>1. t \in Targets
    BY <1>1
  <2>2. TimeToLive(e) \in Nat
    BY TypeContext, PlansAreTyped, TimeAssumption DEF TimeToLive, Here
  <2>3. Rows(locks') = ids \cup {Len(locks) + 1}
    BY <1>5, <2>1, <2>2, TypeContext, InsertRows
  <2>4. Typed(e, c, Rows(locks'))
    BY <1>1, <2>3, MoreRows
  <2>5. Typed(e, Obtained(e, Len(locks) + 1), Rows(locks'))
    BY <1>1, <2>3, <2>4, ObtainedTyped
  <2> QED BY <1>5, <2>3, <2>5 DEF GoesOnTyped
<1> QED BY <1>3, <1>4, <1>5 DEF Decide

(* Releasing keeps the rows where they are.                                *)
LEMMA ReleasingTyped ==
  ASSUME TypeInv, NEW e \in Executions, MarkStale(e) \/ Rollback(e) \/ ReleaseStepLocks(e)
  PROVE  GoesOnTyped(e)
<1> DEFINE c == run[e]
           ids == Rows(locks)
<1>1. Typed(e, c, ids) /\ c \in PlanRecord(e, ids)
  BY TypeContext
<1>2. Rows(locks') = ids
  BY TypeContext, MarkExpiredRows, ReleaseRows DEF MarkStale, Rollback, ReleaseStepLocks
<1>0. SUFFICES \E r : Continue(e, r) /\ Typed(e, r, ids)
  BY <1>2, SameRowsTyped
<1>3. CASE MarkStale(e)
  <2>1. {} \in SUBSET ids /\ "look" \in Labels
    BY DEF Labels, Acquiring
  <2>2. Typed(e, [c EXCEPT !.stale = {}, !.pc = "look"], ids)
    BY <1>1, <2>1, FieldsTyped
  <2> QED BY <1>3, <2>2 DEF MarkStale
<1>4. CASE Rollback(e)
  <2>1. Typed(e, NextStep(e, Becomes(c, "blocked")), ids) /\ Typed(e, Throw(c), ids)
    BY <1>1, BecomesTyped, LeavingTyped DEF StepStatus
  <2>2. ASSUME c.got # <<>>
        PROVE  Typed(e, [c EXCEPT !.got = Tail(@)], ids)
    <3> DEFINE got == Tail(c.got)
    <3>1. got \in Seq(ids) /\ [c EXCEPT !.got = Tail(@)] = [c EXCEPT !.got = got]
      BY <1>1, <2>2 DEF PlanRecord
    <3> HIDE DEF got
    <3>2. Typed(e, [c EXCEPT !.got = got], ids)
      BY <1>1, <3>1, FieldsTyped
    <3> QED BY <3>1, <3>2
  <2> QED BY <1>4, <2>1, <2>2 DEF Rollback
<1>5. CASE ReleaseStepLocks(e)
  <2>1. Typed(e, NextStep(e, c), ids) /\ Typed(e, Throw(c), ids)
    BY <1>1, LeavingTyped
  <2>2. ASSUME c.held # <<>>
        PROVE  Typed(e, [c EXCEPT !.held = Tail(@)], ids)
    <3> DEFINE held == Tail(c.held)
    <3>1. held \in Seq(ids) /\ [c EXCEPT !.held = Tail(@)] = [c EXCEPT !.held = held]
      BY <1>1, <2>2 DEF PlanRecord
    <3> HIDE DEF held
    <3>2. Typed(e, [c EXCEPT !.held = held], ids)
      BY <1>1, <3>1, FieldsTyped
    <3> QED BY <3>1, <3>2
  <2> QED BY <1>5, <2>1, <2>2 DEF ReleaseStepLocks
<1> QED BY <1>3, <1>4, <1>5

(* One execution goes on with its types, the others keep theirs.           *)
LEMMA TypedStep ==
  ASSUME TypeInv, NEW e \in Executions, GoesOnTyped(e)
  PROVE  \A f \in Executions : Typed(f, run'[f], Rows(locks'))
<1>1. PICK r : Continue(e, r) /\ Typed(e, r, Rows(locks'))
  BY DEF GoesOnTyped
<1>2. run' = [f \in Executions |-> IF f = e THEN r ELSE run[f]]
  BY <1>1 DEF TypeInv, WorkInv, TidyInv, OrderInv, LockInv, RunsAreContexts, Continue
<1>3. ASSUME NEW f \in Executions, f # e
      PROVE  Typed(f, run[f], Rows(locks'))
  BY MoreRows, TypeContext DEF GoesOnTyped
<1> QED BY <1>1, <1>2, <1>3

LEMMA FreshTyped ==
  ASSUME NEW e \in Executions, NEW ids
  PROVE  Typed(e, Fresh(e), ids) /\ Typed(e, [Fresh(e) EXCEPT !.pc = "crashed"], ids)
<1> DEFINE st == [i \in DOMAIN Plan[e] |-> [status |-> "pending", attempts |-> 0]]
<1>1. 1 \in DOMAIN Plan[e]
  BY PlansAreTyped, PlanAssumption
<1>2. /\ st \in [DOMAIN Plan[e] -> StepState]
      /\ \A i \in DOMAIN Plan[e] : st[i].attempts <= Plan[e][i].attempts
  BY StepTimes DEF StepState, StepStatus
<1>3. Fresh(e).states = st
  BY DEF Fresh
<1> DEFINE empty == <<>>
           none == {}
<1>4. /\ empty \in Seq(ids) /\ empty \in Seq(Targets) /\ none \in SUBSET ids
      /\ "new" \in Labels /\ "none" \in Outcomes
  BY DEF Labels, Outcomes
<1>5. Fresh(e) = [pc |-> "new", step |-> 1, states |-> st,
                  held |-> empty, got |-> empty, todo |-> empty, stale |-> none, found |-> 0,
                  due |-> 0, spent |-> 0, throws |-> FALSE, outcome |-> "none"]
  BY DEF Fresh
<1> HIDE DEF st, empty, none
<1>6. Fresh(e) \in PlanRecord(e, ids)
  BY <1>1, <1>2, <1>4, <1>5 DEF PlanRecord
<1>7. Typed(e, Fresh(e), ids)
  BY <1>2, <1>3, <1>6 DEF Typed, Limited
<1> QED BY <1>7, FieldsTyped DEF Labels

LEMMA CrashTyped ==
  ASSUME TypeInv, Crash
  PROVE  \A f \in Executions : Typed(f, run'[f], Rows(locks'))
<1>1. /\ run' = [e \in Executions |->
                   IF Live(e) THEN [Fresh(e) EXCEPT !.pc = "crashed"] ELSE run[e]]
      /\ locks' = locks
  BY DEF Crash
<1> QED BY <1>1, FreshTyped, TypeContext

LEMMA TickTyped ==
  ASSUME TypeInv, Tick
  PROVE  \A f \in Executions : Typed(f, run'[f], Rows(locks'))
<1>1. run' = [e \in Executions |-> Older(run[e])] /\ Rows(locks') = Rows(locks)
  BY TypeContext, AgeRows DEF Tick, TypeInv, WorkInv, TidyInv, OrderInv, LockInv, TableIsTyped
<1>2. ASSUME NEW f \in Executions
      PROVE  Typed(f, Older(run[f]), Rows(locks))
  <2> DEFINE c == run[f]
             due == IF c.due > 0 THEN c.due - 1 ELSE 0
             spent == IF c.pc \in Acquiring \cup {"approve", "attempt", "verify"}
                        THEN c.spent + 1 ELSE c.spent
  <2>1. c \in PlanRecord(f, Rows(locks)) /\ Typed(f, c, Rows(locks))
    BY TypeContext
  <2>2. due \in Nat /\ spent \in Nat
    BY <2>1 DEF PlanRecord
  <2>3. Older(c) = [c EXCEPT !.due = due, !.spent = spent]
    BY <2>1 DEF Older, PlanRecord
  <2> HIDE DEF due, spent
  <2>4. Typed(f, [c EXCEPT !.due = due, !.spent = spent], Rows(locks))
    BY <2>1, <2>2, FieldsTyped
  <2> QED BY <2>3, <2>4
<1> QED BY <1>1, <1>2

(* An action is of a step of its execution.                                *)
LEMMA ActionsStayTyped ==
  ASSUME TypeInv, [Next]_vars
  PROVE  ActionsAreTyped'
<1>1. \A e \in Executions : Attempt(e) => ActionsAreTyped'
  <2> SUFFICES ASSUME NEW e \in Executions, Attempt(e), NEW a \in actions'
               PROVE  a.owner \in Executions /\ a.step \in DOMAIN Plan[a.owner]
    BY DEF ActionsAreTyped
  <2>1. CASE a \in actions
    BY <2>1 DEF TypeInv, ActionsAreTyped
  <2>2. CASE a = Action(e, run[e].step, Attempts(e) + 1)
    <3>1. a.owner = e /\ a.step = run[e].step
      BY <2>2 DEF Action
    <3> QED BY <3>1, TypeContext
  <2> QED BY <2>1, <2>2 DEF Attempt
<1>2. actions' \subseteq actions => ActionsAreTyped'
  BY DEF TypeInv, ActionsAreTyped
<1>3. actions' \subseteq actions \/ \E e \in Executions : Attempt(e)
  BY DEF Next, EngineStep, Start, BeginStep, ReadStale, MarkStale, LookUp, Decide, Rollback,
         Approve, TimesOut, VerificationEnds, WakeUp, ReleaseStepLocks, ActionReturns,
         ActionRaises, StrayEnds, Crash, Tick, vars
<1> QED BY <1>1, <1>2, <1>3

LEMMA CrashesStayTyped ==
  ASSUME TypeInv, [Next]_vars
  PROVE  crashes' \in 0..MaxCrashes
<1>1. crashes \in 0..MaxCrashes /\ MaxCrashes \in Nat
  BY TimeAssumption DEF TypeInv
<1>2. crashes' = crashes \/ (crashes < MaxCrashes /\ crashes' = crashes + 1)
  BY DEF Next, EngineStep, Start, BeginStep, ReadStale, MarkStale, LookUp, Decide, Rollback,
         Approve, Attempt, TimesOut, VerificationEnds, WakeUp, ReleaseStepLocks, ActionReturns,
         ActionRaises, StrayEnds, Crash, Tick, vars
<1> QED BY <1>1, <1>2

LEMMA InitTypeInv == Init => TypeInv
<1> SUFFICES ASSUME Init PROVE TypeInv
  OBVIOUS
<1>1. /\ \A e \in Executions : run[e] = Fresh(e)
      /\ actions = {} /\ crashes = 0
  BY DEF Init
<1>2. \A e \in Executions : Typed(e, run[e], Rows(locks))
  BY <1>1, FreshTyped
<1>3. ActionsAreTyped /\ crashes \in 0..MaxCrashes
  BY <1>1, TimeAssumption DEF ActionsAreTyped
<1> QED BY <1>2, <1>3, InitWorkInv DEF TypeInv

LEMMA NextTypeInv == TypeInv /\ [Next]_vars => TypeInv'
<1> SUFFICES ASSUME TypeInv, [Next]_vars PROVE TypeInv'
  OBVIOUS
<1>1. WorkInv' /\ ActionsAreTyped' /\ crashes' \in 0..MaxCrashes
  BY NextWorkInv, ActionsStayTyped, CrashesStayTyped DEF TypeInv
<1>2. SUFFICES \A f \in Executions : Typed(f, run'[f], Rows(locks'))
  BY <1>1 DEF TypeInv, Typed, PlanRecord, Limited, Rows
<1>3. ASSUME NEW e \in Executions, EngineStep(e) \/ Start(e) \/ ActionReturns(e) \/ ActionRaises(e)
      PROVE  GoesOnTyped(e)
  BY <1>3, CalmTyped, AttemptTyped, DecideTyped, ReleasingTyped DEF EngineStep
<1>4. CASE UNCHANGED <<run, locks>>
  BY <1>4 DEF TypeInv
<1> QED BY <1>3, <1>4, TypedStep, CrashTyped, TickTyped DEF Next, StrayEnds, vars

(* Every variable keeps its type in every behaviour: what an execution     *)
(* holds, has found or means to expire are rows of the table, and no step  *)
(* is attempted more often than its retry policy says                      *)
(* (plan-execution-engine.js:465).                                         *)
THEOREM TypesHold == Spec => []TypeOK
<1>1. ASSUME TypeInv
      PROVE  TypeOK
  <2>1. locks \in Seq(LockRow) /\ DOMAIN run = Executions
    BY <1>1 DEF TypeInv, WorkInv, TidyInv, OrderInv, LockInv, TableIsTyped, RunsAreContexts
  <2>2. ASSUME NEW e \in Executions
        PROVE  /\ run[e] \in PlanState(e)
               /\ \A i \in DOMAIN Plan[e] : run[e].states[i].attempts <= Plan[e][i].attempts
    BY <1>1, TypeContext DEF PlanState, PlanRecord, StepState, Typed, Limited
  <2> QED BY <1>1, <2>1, <2>2 DEF TypeOK, TypeInv, ActionsAreTyped
<1>2. Spec => []TypeInv
  BY InitTypeInv, NextTypeInv, PTL DEF Spec
<1> QED BY <1>1, <1>2, PTL
-----------------------------------------------------------------------------
(* Locks left behind.  The cleanup of an acquisition leaves no expired row *)
(* active, and while no time passes none appears; so a row that an         *)
(* insertion meets is live, and came after the lookup.                     *)

Swept(r, table) ==
  r.spent = 0 =>
    /\ r.pc = "mark" => StaleRows(table) \subseteq r.stale
    /\ r.pc \in {"look", "decide"} => StaleRows(table) = {}

(* The locks that came up since e looked are of others, which go on.       *)
ByRivals(e, runs, table) ==
  runs[e].pc = "decide" /\ runs[e].found = 0 =>
    \A l \in LiveRows(table, Head(runs[e].todo)) :
      table[l].owner # e /\ runs[table[l].owner].pc \notin {"new", "crashed"}

RivalInv ==
  WorkInv /\ \A e \in Executions : Swept(run[e], locks) /\ ByRivals(e, run, locks)

Acts(e) == EngineStep(e) \/ Start(e) \/ ActionReturns(e) \/ ActionRaises(e)

(* Where an execution may go when it has not just swept, marked or looked. *)
Elsewhither == Labels \ {"new", "crashed", "mark", "look", "decide"}

(* The ends of a step, of an attempt and of an acquisition lead there.     *)
LEMMA EndsElsewhere ==
  ASSUME NEW e \in Executions, NEW r, Context(e, r)
  PROVE  /\ \A status : Context(e, Becomes(r, status))
         /\ NextStep(e, r).pc \in Elsewhither
         /\ Throw(r).pc \in Elsewhither
         /\ Finally(e, r).pc \in Elsewhither
<1>1. \A status : Context(e, Becomes(r, status))
  BY ContextUpdates DEF Leads
<1>2. NextStep(e, r).pc \in {"next", "ended"}
  BY DEF NextStep, Context, Fields
<1>3. Throw(r).pc = "ended" /\ [r EXCEPT !.pc = "release"].pc = "release"
  BY DEF Throw, Context, Fields
<1>4. Finally(e, r).pc \in {"next", "ended", "release"}
  BY <1>2, <1>3 DEF Finally
<1> QED BY <1>1, <1>2, <1>3, <1>4 DEF Elsewhither, Labels, Acquiring

LEMMA AttemptsEndElsewhere ==
  ASSUME WorkInv, NEW e \in Executions
  PROVE  AttemptSucceeds(e).pc \in Elsewhither /\ AttemptFails(e).pc \in Elsewhither
<1> DEFINE c == run[e]
           done == [Becomes(c, "completed") EXCEPT !.due = 0]
           lost == [Becomes(c, "failed") EXCEPT !.due = 0, !.throws = Here(e).onFailure = "abort"]
           waits == [c EXCEPT !.pc = "backoff", !.due = Here(e).delay]
<1>1. Context(e, c)
  BY WorkContext
<1>2. \A status : Context(e, Becomes(c, status))
  BY <1>1, EndsElsewhere
<1>3. Context(e, done) /\ Context(e, lost)
  BY <1>2 DEF Context, Fields
<1>4. waits.pc = "backoff"
  BY <1>1 DEF Context, Fields
<1> HIDE DEF done, lost, waits
<1>5. Finally(e, done).pc \in Elsewhither /\ Finally(e, lost).pc \in Elsewhither
  BY <1>3, EndsElsewhere
<1>6. waits.pc \in Elsewhither
  BY <1>4 DEF Elsewhither, Labels, Acquiring
<1> QED BY <1>5, <1>6 DEF AttemptSucceeds, AttemptFails, done, lost, waits

LEMMA AcquisitionsEndElsewhere ==
  ASSUME WorkInv, NEW e \in Executions
  PROVE  /\ \A l : Obtained(e, l).pc \in Elsewhither
         /\ \A throws : RollsBack(e, throws).pc \in Elsewhither
<1>1. Context(e, run[e])
  BY WorkContext
<1>2. ASSUME NEW l
      PROVE  Obtained(e, l).pc \in {"sweep", "approve"}
  <2> DEFINE r == [run[e] EXCEPT !.got = Append(@, l), !.todo = Tail(@), !.found = 0]
             b == Becomes(r, "ready")
  <2>1. DOMAIN r = Fields /\ DOMAIN b = Fields
    BY <1>1 DEF Context, Fields, Becomes
  <2> HIDE DEF r, b
  <2>2. /\ [r EXCEPT !.pc = "sweep"].pc = "sweep"
        /\ [b EXCEPT !.pc = "approve", !.held = @ \o r.got, !.got = <<>>].pc = "approve"
    BY <2>1 DEF Fields
  <2> QED BY <2>2 DEF Obtained, r, b
<1>3. \A throws : RollsBack(e, throws).pc = "rollback"
  BY <1>1 DEF RollsBack, Context, Fields
<1> QED BY <1>2, <1>3 DEF Elsewhither, Labels, Acquiring

(* Only the acquisition leads to its own waits.                            *)
LEMMA GoesElsewhere ==
  ASSUME WorkInv, NEW e \in Executions, Acts(e),
         ~ReadStale(e), ~MarkStale(e), ~LookUp(e)
  PROVE  \E r : Continue(e, r) /\ r.pc \in Elsewhither
<1> DEFINE c == run[e]
<1>1. Context(e, c) /\ \A status : Context(e, Becomes(c, status))
  BY WorkContext, EndsElsewhere
<1>2. \A label \in Elsewhither : [c EXCEPT !.pc = label].pc \in Elsewhither
  BY <1>1 DEF Context, Fields
<1>3. {"next", "sweep", "approve", "attempt", "running", "verify"} \subseteq Elsewhither
  BY DEF Elsewhither, Labels, Acquiring
<1>4. /\ Throw(c).pc \in Elsewhither /\ NextStep(e, c).pc \in Elsewhither
      /\ \A status : /\ NextStep(e, Becomes(c, status)).pc \in Elsewhither
                     /\ Throw(Becomes(c, status)).pc \in Elsewhither
  BY <1>1, EndsElsewhere
<1>5. AttemptSucceeds(e).pc \in Elsewhither /\ AttemptFails(e).pc \in Elsewhither
  BY AttemptsEndElsewhere
<1>6. CASE Start(e)
  BY <1>2, <1>3, <1>6 DEF Start
<1>7. CASE BeginStep(e)
  <2>1. [Becomes(c, "ready") EXCEPT !.pc = "approve"].pc = "approve"
    BY <1>1 DEF Context, Fields
  <2>2. [c EXCEPT !.pc = "sweep", !.todo = Here(e).targets,
                  !.got = <<>>, !.throws = FALSE].pc = "sweep"
    BY <1>1 DEF Context, Fields
  <2> QED BY <1>3, <1>4, <1>7, <2>1, <2>2 DEF BeginStep
<1>8. CASE Decide(e)
  BY <1>8, AcquisitionsEndElsewhere DEF Decide
<1>9. CASE Rollback(e)
  <2>1. run[e].pc = "rollback"
    BY <1>9 DEF Rollback, At
  <2>2. [c EXCEPT !.got = Tail(@)].pc = "rollback"
    BY <1>1, <2>1 DEF Context, Fields
  <2>3. "rollback" \in Elsewhither
    BY DEF Elsewhither, Labels, Acquiring
  <2> QED BY <1>4, <1>9, <2>2, <2>3 DEF Rollback
<1>10. CASE Approve(e)
  BY <1>2, <1>3, <1>4, <1>10 DEF Approve
<1>11. CASE Attempt(e)
  <2> DEFINE begun(status, i, n) == [Becomes(c, status) EXCEPT !.pc = "running",
                                       !.due = Here(e).timeout, !.states[i].attempts = n]
  <2>1. \A status, i, n : begun(status, i, n).pc = "running"
    BY <1>1 DEF Context, Fields
  <2>2. Continue(e, begun(IF Attempts(e) + 1 > 1 THEN "retrying" ELSE "running",
                          c.step, Attempts(e) + 1))
    BY <1>11, Zenon DEF Attempt
  <2> HIDE DEF begun
  <2> QED BY <1>3, <2>1, <2>2
<1>12. CASE ActionReturns(e)
  <2>1. [c EXCEPT !.pc = "verify", !.due = 0].pc = "verify"
    BY <1>1 DEF Context, Fields
  <2> QED BY <1>3, <1>5, <1>12, <2>1 DEF ActionReturns
<1>13. CASE ActionRaises(e) \/ TimesOut(e) \/ VerificationEnds(e)
  BY <1>5, <1>13 DEF ActionRaises, TimesOut, VerificationEnds
<1>14. CASE WakeUp(e)
  BY <1>2, <1>3, <1>14 DEF WakeUp
<1>15. CASE ReleaseStepLocks(e)
  <2>1. run[e].pc = "release"
    BY <1>15 DEF ReleaseStepLocks, At
  <2>2. [c EXCEPT !.held = Tail(@)].pc = "release"
    BY <1>1, <2>1 DEF Context, Fields
  <2>3. "release" \in Elsewhither
    BY DEF Elsewhither, Labels, Acquiring
  <2> QED BY <1>4, <1>15, <2>2, <2>3 DEF ReleaseStepLocks
<1> QED BY <1>6, <1>7, <1>8, <1>9, <1>10, <1>11, <1>12, <1>13, <1>14, <1>15 DEF Acts, EngineStep

(* What an action of e may do to the table: no row expires, and new locks  *)
(* are its own.                                                            *)
Takes(e, before, after) ==
  /\ StaleRows(after) \subseteq StaleRows(before)
  /\ \A t \in Targets : \A l \in LiveRows(after, t) :
       \/ l \in LiveRows(before, t) /\ after[l].owner = before[l].owner
       \/ after[l].owner = e

LEMMA MarkTakes ==
  ASSUME NEW table \in Seq(LockRow), NEW ids, NEW e
  PROVE  /\ Takes(e, table, MarkExpired(table, ids))
         /\ StaleRows(MarkExpired(table, ids)) = StaleRows(table) \ ids
<1> DEFINE after == MarkExpired(table, ids)
<1>1. /\ Rows(after) = Rows(table)
      /\ \A l \in Rows(table) :
           /\ after[l].target = table[l].target
           /\ after[l].owner = table[l].owner
           /\ after[l].left = table[l].left
           /\ after[l].status = IF l \in ids THEN "expired" ELSE table[l].status
  BY MarkExpiredRows
<1> HIDE DEF after
<1>2. StaleRows(after) = StaleRows(table) \ ids
  BY <1>1 DEF StaleRows
<1>3. Takes(e, table, after)
  BY <1>1, <1>2 DEF Takes, LiveRows, ActiveRows
<1> QED BY <1>2, <1>3 DEF after

LEMMA ReleaseTakes ==
  ASSUME NEW table \in Seq(LockRow), NEW k, NEW e
  PROVE  Takes(e, table, Release(table, k, e))
<1> DEFINE after == Release(table, k, e)
           freed == [table[k] EXCEPT !.status = "released", !.left = 0]
<1>1. /\ Rows(after) = Rows(table)
      /\ \A l \in Rows(table) :
           /\ after[l].target = table[l].target
           /\ after[l].owner = table[l].owner
  BY ReleaseRows
<1>2. k \in Rows(table) => freed.status = "released"
  BY DEF Rows, LockRow
<1>3. \A l \in Rows(table) : after[l] = table[l] \/ (l = k /\ after[l] = freed)
  BY DEF Release, Rows
<1> HIDE DEF after, freed
<1>4. Takes(e, table, after)
  BY <1>1, <1>2, <1>3 DEF Takes, StaleRows, LiveRows, ActiveRows
<1> QED BY <1>4 DEF after

LEMMA InsertTakes ==
  ASSUME NEW table \in Seq(LockRow), NEW t \in Targets, NEW e \in Executions,
         NEW ttl \in Nat, ttl > 0
  PROVE  Takes(e, table, Insert(table, t, e, ttl))
<1> DEFINE after == Insert(table, t, e, ttl)
           k == Len(table) + 1
           row == [target |-> t, owner |-> e, left |-> ttl, status |-> "active"]
<1>1. /\ Rows(after) = Rows(table) \cup {k}
      /\ \A l \in Rows(table) : after[l] = table[l]
  BY InsertRows
<1>2. after[k] = row
  BY DEF Insert
<1>3. row.owner = e /\ row.left # 0
  OBVIOUS
<1> HIDE DEF after, k, row
<1>4. Takes(e, table, after)
  BY <1>1, <1>2, <1>3 DEF Takes, StaleRows, LiveRows, ActiveRows
<1> QED BY <1>4 DEF after

LEMMA ActsTake ==
  ASSUME WorkInv, NEW e \in Executions, Acts(e)
  PROVE  Takes(e, locks, locks')
<1>1. Context(e, run[e]) /\ locks \in Seq(LockRow)
  BY WorkContext
<1>2. Takes(e, locks, locks)
  BY DEF Takes
<1>3. CASE Decide(e)
  <2>1. Head(run[e].todo) \in Targets
    <3>1. run[e].todo \in Seq(Targets) /\ run[e].todo # <<>>
      BY <1>1, <1>3 DEF Decide, At, Context, Acquiring
    <3> QED BY <3>1
  <2>2. TimeToLive(e) \in Nat /\ TimeToLive(e) > 0
    <3>1. Here(e).timeout \in Nat \ {0}
      <4>1. Plan[e][run[e].step] \in Step
        BY <1>1, PlanAssumption DEF Context
      <4> QED BY <4>1 DEF Here, Step
    <3> QED BY <3>1, TimeAssumption DEF TimeToLive
  <2>3. Takes(e, locks, Insert(locks, Head(run[e].todo), e, TimeToLive(e)))
    BY <1>1, <2>1, <2>2, InsertTakes
  <2> QED BY <1>2, <1>3, <2>3 DEF Decide
<1>4. CASE MarkStale(e)
  BY <1>1, <1>4, MarkTakes DEF MarkStale
<1>5. CASE Rollback(e)
  BY <1>1, <1>2, <1>5, ReleaseTakes DEF Rollback
<1>6. CASE ReleaseStepLocks(e)
  BY <1>1, <1>2, <1>6, ReleaseTakes DEF ReleaseStepLocks
<1>7. CASE UNCHANGED locks
  BY <1>2, <1>7
<1> QED BY <1>3, <1>4, <1>5, <1>6, <1>7
     DEF Acts, EngineStep, Start, BeginStep, ReadStale, LookUp, Approve, Attempt, TimesOut,
         VerificationEnds, WakeUp, ActionReturns, ActionRaises

(* The sweep selects all that has expired, its marking leaves nothing of   *)
(* it, and the lookup tells whether the target has a live lock.            *)
LEMMA AcquiresSwept ==
  ASSUME RivalInv, NEW e \in Executions, ReadStale(e) \/ MarkStale(e) \/ LookUp(e)
  PROVE  \E r : /\ Continue(e, r)
                /\ r.pc \in {"mark", "look", "decide"}
                /\ Swept(r, locks')
                /\ r.pc = "decide" =>
                     LookUp(e) /\ (r.found = 0 => LiveRows(locks, Head(r.todo)) = {})
<1> DEFINE c == run[e]
<1>1. /\ Context(e, c) /\ locks \in Seq(LockRow) /\ Swept(c, locks)
  BY WorkContext DEF RivalInv
<1>2. CASE ReadStale(e)
  <2> DEFINE r == [c EXCEPT !.stale = StaleRows(locks),
                            !.pc = IF StaleRows(locks) = {} THEN "look" ELSE "mark"]
  <2>1. /\ r.stale = StaleRows(locks)
        /\ r.pc = IF StaleRows(locks) = {} THEN "look" ELSE "mark"
    BY <1>1 DEF Context, Fields
  <2>2. Continue(e, r) /\ locks' = locks
    BY <1>2 DEF ReadStale
  <2> HIDE DEF r
  <2>3. Swept(r, locks)
    BY <2>1 DEF Swept
  <2> QED BY <2>1, <2>2, <2>3
<1>3. CASE MarkStale(e)
  <2> DEFINE r == [c EXCEPT !.stale = {}, !.pc = "look"]
  <2>1. r.pc = "look" /\ r.spent = c.spent
    BY <1>1 DEF Context, Fields
  <2>2. Continue(e, r) /\ locks' = MarkExpired(locks, c.stale) /\ c.pc = "mark"
    BY <1>3 DEF MarkStale, At
  <2>3. StaleRows(locks') = StaleRows(locks) \ c.stale
    BY <1>1, <2>2, MarkTakes
  <2> HIDE DEF r
  <2>4. Swept(r, locks')
    BY <1>1, <2>1, <2>2, <2>3 DEF Swept
  <2> QED BY <2>1, <2>2, <2>4
<1>4. CASE LookUp(e)
  <2> DEFINE live == LiveRows(locks, Head(c.todo))
             n == IF live = {} THEN 0 ELSE CHOOSE l \in live : TRUE
             r == [c EXCEPT !.found = n, !.pc = "decide"]
  <2>1. /\ r.pc = "decide" /\ r.spent = c.spent /\ r.todo = c.todo /\ r.found = n
    BY <1>1 DEF Context, Fields
  <2>2. Continue(e, r) /\ locks' = locks /\ c.pc = "look"
    BY <1>4 DEF LookUp, At
  <2>3. n = 0 => live = {}
    <3>1. \A l \in live : l # 0
      BY <1>1 DEF LiveRows, ActiveRows, Rows
    <3> HIDE DEF live
    <3> QED BY <3>1
  <2> HIDE DEF r, n
  <2>4. Swept(r, locks')
    BY <1>1, <2>1, <2>2 DEF Swept
  <2> QED BY <1>4, <2>1, <2>2, <2>3, <2>4
<1> QED BY <1>2, <1>3, <1>4

LEMMA RivalStep ==
  ASSUME RivalInv, WorkInv', NEW e \in Executions, Acts(e)
  PROVE  \A f \in Executions : Swept(run'[f], locks') /\ ByRivals(f, run', locks')
<1>1. WorkInv /\ \A f \in Executions : Swept(run[f], locks) /\ ByRivals(f, run, locks)
  BY DEF RivalInv
<1>2. Takes(e, locks, locks')
  BY <1>1, ActsTake
<1>3. PICK r : /\ Continue(e, r) /\ r.pc \notin {"new", "crashed"}
               /\ Swept(r, locks')
               /\ r.pc = "decide" =>
                    LookUp(e) /\ (r.found = 0 => LiveRows(locks, Head(r.todo)) = {})
  <2>1. CASE ReadStale(e) \/ MarkStale(e) \/ LookUp(e)
    BY <2>1, AcquiresSwept
  <2>2. CASE ~ReadStale(e) /\ ~MarkStale(e) /\ ~LookUp(e)
    BY <1>1, <2>2, GoesElsewhere DEF Elsewhither, Swept
  <2> QED BY <2>1, <2>2
<1>4. run' = [f \in Executions |-> IF f = e THEN r ELSE run[f]]
  BY <1>1, <1>3 DEF WorkInv, TidyInv, OrderInv, LockInv, RunsAreContexts, Continue
<1>5. \A f \in Executions : Swept(run'[f], locks')
  BY <1>1, <1>2, <1>3, <1>4 DEF Swept, Takes
<1>6. locks' \in Seq(LockRow)
  BY DEF WorkInv, TidyInv, OrderInv, LockInv, TableIsTyped
<1>7. ASSUME NEW f \in Executions, run'[f].pc = "decide", run'[f].found = 0
      PROVE  \A l \in LiveRows(locks', Head(run'[f].todo)) :
               locks'[l].owner # f /\ run'[locks'[l].owner].pc \notin {"new", "crashed"}
  <2> DEFINE t == Head(run'[f].todo)
  <2>1. t \in Targets
    <3>1. Context(f, run'[f])
      BY DEF WorkInv, TidyInv, OrderInv, LockInv, RunsAreContexts
    <3>2. run'[f].todo \in Seq(Targets) /\ run'[f].todo # <<>>
      BY <1>7, <3>1 DEF Context, Acquiring
    <3> QED BY <3>2
  <2> HIDE DEF t
  <2>2. CASE f = e
    <3>1. LiveRows(locks, t) = {} /\ locks' = locks
      BY <1>3, <1>4, <1>7, <2>2 DEF t, LookUp
    <3> QED BY <3>1 DEF t
  <2>3. CASE f # e
    <3>1. run'[f] = run[f]
      BY <1>4, <2>3
    <3>2. \A l \in LiveRows(locks, t) :
            locks[l].owner # f /\ run[locks[l].owner].pc \notin {"new", "crashed"}
      BY <1>1, <1>7, <3>1 DEF ByRivals, t
    <3>3. ASSUME NEW l \in LiveRows(locks', t)
          PROVE  locks'[l].owner # f /\ run'[locks'[l].owner].pc \notin {"new", "crashed"}
      <4>1. locks'[l].owner \in Executions
        <5>1. l \in DOMAIN locks'
          BY <3>3 DEF LiveRows, ActiveRows, Rows
        <5>2. locks'[l] \in LockRow
          BY <1>6, <5>1
        <5> QED BY <5>2 DEF LockRow
      <4>2. CASE locks'[l].owner = e
        BY <1>3, <1>4, <2>3, <4>2
      <4>3. CASE locks'[l].owner # e
        <5>1. l \in LiveRows(locks, t) /\ locks'[l].owner = locks[l].owner
          BY <1>2, <2>1, <3>3, <4>3 DEF Takes
        <5> QED BY <1>4, <3>2, <4>1, <4>3, <5>1
      <4> QED BY <4>2, <4>3
    <3> QED BY <3>3 DEF t
  <2> QED BY <2>2, <2>3
<1> QED BY <1>5, <1>7 DEF ByRivals

(* Time that passes is noted by whoever acquires, and ends locks.          *)
LEMMA RivalTick ==
  ASSUME RivalInv, Tick
  PROVE  \A f \in Executions : Swept(run'[f], locks') /\ ByRivals(f, run', locks')
<1>1. run' = [e \in Executions |-> Older(run[e])] /\ locks' = Age(locks)
  BY DEF Tick
<1>2. ASSUME NEW f \in Executions
      PROVE  /\ Older(run[f]).pc = run[f].pc /\ Older(run[f]).found = run[f].found
             /\ Older(run[f]).todo = run[f].todo
             /\ run[f].pc \in Acquiring => Older(run[f]).spent # 0
  <2>1. Context(f, run[f]) /\ run[f].spent \in Nat
    <3>1. Context(f, run[f]) /\ Timer(run[f]) /\ Slack \in Nat
      BY WorkContext, TimeAssumption DEF RivalInv
    <3> QED BY <3>1 DEF Timer
  <2>2. /\ Older(run[f]).pc = run[f].pc /\ Older(run[f]).found = run[f].found
        /\ Older(run[f]).todo = run[f].todo
        /\ run[f].pc \in Acquiring => Older(run[f]).spent = run[f].spent + 1
    BY <2>1 DEF Older, Context, Fields
  <2> QED BY <2>1, <2>2
<1>3. \A f \in Executions : Swept(run'[f], locks')
  BY <1>1, <1>2 DEF Swept, Acquiring
<1>4. locks \in Seq(LockRow)
  BY DEF RivalInv, WorkInv, TidyInv, OrderInv, LockInv, TableIsTyped
<1>5. /\ Rows(locks') = Rows(locks)
      /\ \A l \in Rows(locks) :
           /\ locks'[l].target = locks[l].target /\ locks'[l].owner = locks[l].owner
           /\ locks'[l].status = locks[l].status
           /\ locks[l].left = 0 => locks'[l].left = 0
           /\ locks[l].left \in Nat /\ locks[l].owner \in Executions
  <2>1. \A l \in Rows(locks) : locks[l] \in LockRow
    BY <1>4 DEF Rows
  <2>2. \A l \in Rows(locks) : locks[l].left \in Nat /\ locks[l].owner \in Executions
    BY <2>1 DEF LockRow
  <2> QED BY <1>1, <1>4, <2>2, AgeRows
<1>6. \A t : \A l \in LiveRows(locks', t) :
        l \in LiveRows(locks, t) /\ locks'[l].owner = locks[l].owner
        /\ locks[l].owner \in Executions
  BY <1>5 DEF LiveRows, ActiveRows
<1>7. \A f \in Executions : ByRivals(f, run, locks)
  BY DEF RivalInv
<1>8. \A f \in Executions : /\ run'[f].pc = run[f].pc /\ run'[f].found = run[f].found
                            /\ run'[f].todo = run[f].todo
  BY <1>1, <1>2
<1>9. ASSUME NEW f \in Executions, run'[f].pc = "decide", run'[f].found = 0,
             NEW l \in LiveRows(locks', Head(run'[f].todo))
      PROVE  locks'[l].owner # f /\ run'[locks'[l].owner].pc \notin {"new", "crashed"}
  <2>1. /\ l \in LiveRows(locks, Head(run[f].todo)) /\ locks'[l].owner = locks[l].owner
        /\ locks[l].owner \in Executions
    BY <1>6, <1>8, <1>9
  <2>2. locks[l].owner # f /\ run[locks[l].owner].pc \notin {"new", "crashed"}
    BY <1>7, <1>8, <1>9, <2>1 DEF ByRivals
  <2> QED BY <1>8, <2>1, <2>2
<1> QED BY <1>3, <1>9 DEF ByRivals

(* A crash leaves nobody who acquires.                                     *)
LEMMA RivalCrash ==
  ASSUME RivalInv, Crash
  PROVE  \A f \in Executions : Swept(run'[f], locks') /\ ByRivals(f, run', locks')
<1>1. run' = [f \in Executions |->
                IF Live(f) THEN [Fresh(f) EXCEPT !.pc = "crashed"] ELSE run[f]]
  BY DEF Crash
<1>2. \A f \in Executions : [Fresh(f) EXCEPT !.pc = "crashed"].pc = "crashed"
  BY DEF Fresh
<1>3. \A f \in Executions : run'[f].pc \in {"new", "ended", "crashed"}
  BY <1>1, <1>2 DEF Live
<1> QED BY <1>3 DEF Swept, ByRivals

LEMMA InitRivalInv == Init => RivalInv
<1> SUFFICES ASSUME Init PROVE RivalInv
  OBVIOUS
<1>1. \A f \in Executions : run[f].pc = "new"
  BY DEF Init, Fresh
<1> QED BY <1>1, InitWorkInv DEF RivalInv, Swept, ByRivals

LEMMA NextRivalInv == RivalInv /\ [Next]_vars => RivalInv'
<1> SUFFICES ASSUME RivalInv, [Next]_vars PROVE RivalInv'
  OBVIOUS
<1>1. WorkInv'
  BY NextWorkInv DEF RivalInv
<1>2. SUFFICES \A f \in Executions : Swept(run'[f], locks') /\ ByRivals(f, run', locks')
  BY <1>1 DEF RivalInv, Swept, ByRivals, StaleRows, LiveRows, ActiveRows, Rows
<1>3. CASE UNCHANGED <<run, locks>>
  BY <1>3 DEF RivalInv
<1> QED BY <1>1, <1>3, RivalStep, RivalTick, RivalCrash DEF Next, Acts, StrayEnds, vars

(* An insertion that meets the unique index while no time has passed since *)
(* its step began, and so aborts its plan, was overtaken by an execution   *)
(* that has not crashed: the locks a crash left behind were seen in time,  *)
(* or cleaned up (execution-lock-manager.js:53).                           *)
THEOREM RefusalsAreByRivals == Spec => []RefusedByRival
<1>1. ASSUME RivalInv, NEW e \in Executions, At(e, "decide"), run[e].found = 0,
             run[e].spent = 0, ~MayInsert(locks, Head(run[e].todo))
      PROVE  \E l \in LiveRows(locks, Head(run[e].todo)) :
               locks[l].owner # e /\ run[locks[l].owner].pc \notin {"new", "crashed"}
  <2> DEFINE t == Head(run[e].todo)
  <2>1. StaleRows(locks) = {} /\ \A l \in LiveRows(locks, t) :
          locks[l].owner # e /\ run[locks[l].owner].pc \notin {"new", "crashed"}
    BY <1>1 DEF RivalInv, Swept, ByRivals, At
  <2>2. PICK l \in ActiveRows(locks, t) : TRUE
    BY <1>1 DEF MayInsert
  <2>3. locks[l].left \in Nat
    <3>1. locks \in Seq(LockRow)
      BY <1>1 DEF RivalInv, WorkInv, TidyInv, OrderInv, LockInv, TableIsTyped
    <3>2. locks[l] \in LockRow
      BY <2>2, <3>1 DEF ActiveRows, Rows
    <3> QED BY <3>2 DEF LockRow
  <2>4. l \in LiveRows(locks, t)
    BY <2>1, <2>2, <2>3 DEF LiveRows, ActiveRows, StaleRows
  <2> QED BY <2>1, <2>4
<1>2. RivalInv => RefusedByRival
  BY <1>1 DEF RefusedByRival
<1> QED BY <1>2, InitRivalInv, NextRivalInv, PTL DEF Spec
=============================================================================
