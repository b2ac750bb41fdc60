------------------------ MODULE QueuedExecutorProofs ------------------------
(***************************************************************************)
(* Theorems about QueuedExecutor, for any envelopes, loops, callers,       *)
(* limits and budgets of crashes and faults: one attempt runs at a time    *)
(* and its slot is accounted for, what is executing has an owner, what     *)
(* has a result is not executed again, and what is queued stands in the    *)
(* fifo.  Where clean-ups and crashes do not meet, what was acknowledged   *)
(* is kept; without clean-ups recovery ends.                               *)
(***************************************************************************)
EXTENDS QueuedExecutor, FiniteSetTheorems, TLAPS

Resting == {"idle", "scheduled"}
Attempting == {"marking", "running", "timing_out"}
Settling == {"completing", "failing", "burying"}

LoopRecord == [pc : Waits \cup Resting, env : Envelopes \cup {None}, line : Entry,
               why : {"none", "transient", "permanent"}]

CallRecord == [pc : {"returned", "waiting", "enqueuing", "requeuing", "cancelling"},
               env : Envelopes \cup {None}]

Typed ==
  /\ queue \in [Envelopes -> Entry] /\ file \in [Envelopes -> Entry]
  /\ rebuild.lines \in [Envelopes -> Entry]
  /\ rebuild = [pc |-> rebuild.pc, lines |-> rebuild.lines]
  /\ loop \in [Loops -> LoopRecord]
  /\ \A l \in Loops : Busy(l) => loop[l].env \in Envelopes
  /\ call \in [Callers -> CallRecord]
  /\ \A c \in Callers : call[c].pc # "returned" => call[c].env \in Envelopes
  /\ executing \in BOOLEAN /\ current \in Nat /\ timers \in Nat
  /\ spent \in [Kinds -> Nat]

(* The flag excludes: one loop is busy, exactly while the flag is set.     *)
OneBusy == \A l, m \in Loops : Busy(l) /\ Busy(m) => l = m
FlagIsBusy == executing = TRUE <=> \E l \in Loops : Busy(l)

Counted ==
  /\ current <= spent["faults"] + 1
  /\ (\A l \in Loops : ~Busy(l)) => current <= spent["faults"]
  /\ (\E l \in Loops : Busy(l)) => current >= 1

(* What a loop attempts is executing, and not yet cached when it starts.   *)
AttemptIsExecuting ==
  \A l \in Loops : loop[l].pc \in Attempting => queue[loop[l].env].state = "executing"

MarkingIsFresh == \A l \in Loops : loop[l].pc = "marking" => loop[l].env \notin results

(* While crash recovery is at work nothing else is.                        *)
Quiet ==
  recovering # {} =>
    /\ \A l \in Loops : loop[l].pc = "idle"
    /\ \A c \in Callers : call[c].pc = "returned"
    /\ timers = 0

ExecutorInv ==
  /\ Typed /\ OneBusy /\ FlagIsBusy /\ Counted
  /\ AttemptIsExecuting /\ MarkingIsFresh /\ Quiet /\ ExecutingIsOwned
-----------------------------------------------------------------------------
(* What a step does to the loops, to their slots and to the entries.       *)

SameExecuting ==
  \A e \in Envelopes : queue'[e].state = "executing" <=> queue[e].state = "executing"

OnlyAt(e) ==
  /\ \A d \in Envelopes \ {e} : queue'[d] = queue[d]
  /\ queue'[e].state # "executing"

Faults == spent'["faults"] >= spent["faults"]

(* Nobody's attempt is touched.                                            *)
Bystands ==
  /\ \A l \in Loops : loop'[l] = loop[l] \/ (loop[l].pc \in Resting /\ loop'[l].pc \in Resting)
  /\ SameExecuting /\ Faults
  /\ UNCHANGED <<executing, current, recovering, orphans, results>>

Begins ==
  \E l \in Loops, e \in Envelopes :
    /\ loop[l].pc \in Resting /\ loop[l].pc # "idle"
    /\ loop' = [loop EXCEPT ![l] = LoopAt("marking", e, queue'[e], "none")]
    /\ executing = FALSE /\ executing' = TRUE /\ current' = current + 1
    /\ queue' = [queue EXCEPT ![e].state = "executing"]
    /\ e \notin results
    /\ UNCHANGED <<recovering, orphans, results, spent>>

Continues ==
  \E l \in Loops, r \in LoopRecord :
    /\ loop[l].pc \in Attempting
    /\ loop' = [loop EXCEPT ![l] = r]
    /\ r.pc \in {"running", "timing_out"} /\ r.env = loop[l].env
    /\ UNCHANGED <<queue, executing, current, recovering, orphans, results, spent>>

Settled ==
  \E l \in Loops, r \in LoopRecord :
    /\ loop[l].pc \in Waits
    /\ loop' = [loop EXCEPT ![l] = r]
    /\ r.pc \in Settling /\ r.env = loop[l].env
    /\ OnlyAt(loop[l].env) \/ (loop[l].pc \in Settling /\ UNCHANGED queue)
    /\ results \subseteq results' /\ Faults
    /\ UNCHANGED <<executing, current, recovering, orphans>>

Ended ==
  \E l \in Loops, r \in LoopRecord :
    /\ loop[l].pc \in Settling
    /\ loop' = [loop EXCEPT ![l] = r]
    /\ r.pc \in Resting
    /\ OnlyAt(loop[l].env) \/ UNCHANGED queue
    /\ executing' = FALSE /\ current' = current - 1
    /\ UNCHANGED <<recovering, orphans, results, spent>>

Abandoned ==
  \E l \in Loops :
    /\ loop[l].pc \in Settling
    /\ loop' = [loop EXCEPT ![l] = Idle]
    /\ executing' = FALSE
    /\ spent'["faults"] = spent["faults"] + 1
    /\ UNCHANGED <<queue, current, recovering, orphans, results>>

Crashed ==
  /\ \A l \in Loops : loop'[l].pc = "idle"
  /\ \A c \in Callers : call'[c].pc = "returned"
  /\ executing' = FALSE /\ current' = 0 /\ timers' = 0
  /\ recovering' \cup orphans' = InState(queue', "executing")
  /\ results' = {} /\ Faults

Recovered ==
  \E e \in recovering :
    /\ recovering' = recovering \ {e}
    /\ OnlyAt(e)
    /\ UNCHANGED <<loop, call, timers, executing, current, orphans, results, spent>>

Effect ==
  \/ Bystands \/ Begins \/ Continues \/ Settled \/ Ended \/ Abandoned \/ Crashed \/ Recovered

(* What such a step leaves of the invariant.                               *)
Kept == OneBusy /\ FlagIsBusy /\ Counted /\ AttemptIsExecuting /\ MarkingIsFresh /\ ExecutingIsOwned

LEMMA BystandersKeep ==
  ASSUME ExecutorInv, Typed', Bystands
  PROVE  Kept'
<1>1. \A l \in Loops : /\ Busy(l)' <=> Busy(l)
                       /\ loop[l].pc \in Attempting \/ loop'[l].pc \in Attempting => loop'[l] = loop[l]
                       /\ loop[l].pc = "marking" <=> loop'[l].pc = "marking"
  BY DEF Bystands, Busy, Waits, Resting, Attempting
<1>2. spent["faults"] \in Nat /\ spent'["faults"] \in Nat /\ current \in Nat
  BY DEF ExecutorInv, Typed, Kinds
<1>3. OneBusy' /\ FlagIsBusy'
  BY <1>1 DEF ExecutorInv, OneBusy, FlagIsBusy, Bystands
<1>4. Counted'
  BY <1>1, <1>2 DEF ExecutorInv, Counted, Bystands, Faults
<1>5. AttemptIsExecuting'
  <2>1. ASSUME NEW l \in Loops, loop'[l].pc \in Attempting
        PROVE  queue'[loop'[l].env].state = "executing"
    <3>1. loop'[l] = loop[l] /\ Busy(l)
      BY <1>1, <2>1 DEF Attempting, Busy, Waits
    <3> QED
      BY <2>1, <3>1 DEF ExecutorInv, Typed, AttemptIsExecuting, Bystands, SameExecuting
  <2> QED
    BY <2>1 DEF AttemptIsExecuting
<1>6. MarkingIsFresh'
  BY <1>1 DEF ExecutorInv, MarkingIsFresh, Bystands, Attempting
<1>7. ExecutingIsOwned'
  BY <1>1 DEF ExecutorInv, ExecutingIsOwned, Bystands, SameExecuting, InState, Attempting
<1> QED
  BY <1>3, <1>4, <1>5, <1>6, <1>7 DEF Kept

LEMMA BeginningsKeep ==
  ASSUME ExecutorInv, Typed', Begins
  PROVE  Kept'
<1>1. PICK l \in Loops, e \in Envelopes :
        /\ loop[l].pc \in Resting
        /\ loop' = [loop EXCEPT ![l] = LoopAt("marking", e, queue'[e], "none")]
        /\ executing = FALSE /\ executing' = TRUE /\ current' = current + 1
        /\ queue' = [queue EXCEPT ![e].state = "executing"]
        /\ e \notin results
        /\ UNCHANGED <<recovering, orphans, results, spent>>
  BY DEF Begins
<1>2. \A m \in Loops : ~Busy(m)
  BY <1>1 DEF ExecutorInv, FlagIsBusy
<1>3. /\ loop'[l].pc = "marking" /\ loop'[l].env = e /\ Busy(l)'
      /\ \A m \in Loops \ {l} : loop'[m] = loop[m] /\ ~Busy(m)'
  BY <1>1, <1>2 DEF ExecutorInv, Typed, LoopAt, Busy, Waits
<1>4. /\ queue'[e].state = "executing"
      /\ \A d \in Envelopes \ {e} : queue'[d] = queue[d]
  BY <1>1 DEF ExecutorInv, Typed, Entry
<1>5. OneBusy' /\ FlagIsBusy'
  BY <1>1, <1>3 DEF OneBusy, FlagIsBusy
<1>6. Counted'
  BY <1>1, <1>2, <1>3 DEF ExecutorInv, Typed, Counted, Kinds
<1>7. \A m \in Loops : loop'[m].pc \in Attempting => m = l
  BY <1>3 DEF Attempting, Busy, Waits
<1>8. AttemptIsExecuting' /\ MarkingIsFresh'
  BY <1>1, <1>3, <1>4, <1>7 DEF AttemptIsExecuting, MarkingIsFresh, Attempting
<1>9. ExecutingIsOwned'
  <2>1. \A m \in Loops : loop[m].pc \notin {"marking", "running", "timing_out"}
    BY <1>2 DEF Busy, Waits
  <2> QED
    BY <1>1, <1>3, <1>4, <2>1 DEF ExecutorInv, ExecutingIsOwned, InState
<1> QED
  BY <1>5, <1>6, <1>8, <1>9 DEF Kept

LEMMA ContinuationsKeep ==
  ASSUME ExecutorInv, Typed', Continues
  PROVE  Kept'
<1>1. PICK l \in Loops, r \in LoopRecord :
        /\ loop[l].pc \in Attempting
        /\ loop' = [loop EXCEPT ![l] = r]
        /\ r.pc \in {"running", "timing_out"} /\ r.env = loop[l].env
        /\ UNCHANGED <<queue, executing, current, recovering, orphans, results, spent>>
  BY DEF Continues
<1>2. loop'[l] = r /\ \A m \in Loops \ {l} : loop'[m] = loop[m]
  BY <1>1 DEF ExecutorInv, Typed
<1>3. \A m \in Loops : /\ Busy(m)' <=> Busy(m)
                       /\ loop'[m].env = loop[m].env
                       /\ loop'[m].pc \in Attempting <=> loop[m].pc \in Attempting
                       /\ loop'[m].pc = "marking" => loop[m].pc = "marking"
  BY <1>1, <1>2 DEF Busy, Waits, Attempting
<1>4. OneBusy' /\ FlagIsBusy' /\ Counted'
  BY <1>1, <1>3 DEF ExecutorInv, OneBusy, FlagIsBusy, Counted
<1>5. AttemptIsExecuting' /\ MarkingIsFresh' /\ ExecutingIsOwned'
  BY <1>1, <1>3 DEF ExecutorInv, AttemptIsExecuting, MarkingIsFresh, ExecutingIsOwned, InState,
       Attempting
<1> QED
  BY <1>4, <1>5 DEF Kept

LEMMA SettlementsKeep ==
  ASSUME ExecutorInv, Typed', Settled
  PROVE  Kept'
<1>1. PICK l \in Loops, r \in LoopRecord :
        /\ loop[l].pc \in Waits
        /\ loop' = [loop EXCEPT ![l] = r]
        /\ r.pc \in Settling /\ r.env = loop[l].env
        /\ OnlyAt(loop[l].env) \/ (loop[l].pc \in Settling /\ UNCHANGED queue)
        /\ results \subseteq results' /\ Faults
        /\ UNCHANGED <<executing, current, recovering, orphans>>
  BY DEF Settled
<1>2. loop'[l] = r /\ \A m \in Loops \ {l} : loop'[m] = loop[m]
  BY <1>1 DEF ExecutorInv, Typed
<1>3. /\ \A m \in Loops : Busy(m)' <=> Busy(m)
      /\ Busy(l)
  BY <1>1, <1>2 DEF Busy, Waits, Settling
<1>4. \A m \in Loops : loop'[m].pc \notin Attempting
  BY <1>1, <1>2, <1>3 DEF ExecutorInv, OneBusy, Busy, Waits, Settling, Attempting
<1>5. OneBusy' /\ FlagIsBusy'
  BY <1>1, <1>3 DEF ExecutorInv, OneBusy, FlagIsBusy
<1>6. Counted'
  <2>1. spent["faults"] \in Nat /\ spent'["faults"] \in Nat /\ current \in Nat
    BY DEF ExecutorInv, Typed, Kinds
  <2> QED
    BY <1>1, <1>3, <2>1 DEF ExecutorInv, Counted, Faults
<1>7. AttemptIsExecuting' /\ MarkingIsFresh'
  BY <1>4 DEF AttemptIsExecuting, MarkingIsFresh, Attempting
<1>8. ExecutingIsOwned'
  <2>1. ASSUME NEW d \in Envelopes, queue'[d].state = "executing"
        PROVE  d \in recovering \cup orphans
    <3>1. queue[d].state = "executing"
      BY <1>1, <2>1 DEF OnlyAt
    <3>2. ASSUME NEW m \in Loops, loop[m].env = d, loop[m].pc \in Attempting
          PROVE  FALSE
      <4>1. m = l
        BY <1>3, <3>2 DEF ExecutorInv, OneBusy, Busy, Waits, Attempting
      <4> QED
        BY <1>1, <2>1, <3>2, <4>1 DEF OnlyAt, Settling, Attempting
    <3> QED
      BY <2>1, <3>1, <3>2 DEF ExecutorInv, ExecutingIsOwned, InState, Attempting
  <2> QED
    BY <1>1, <2>1 DEF ExecutingIsOwned, InState
<1> QED
  BY <1>5, <1>6, <1>7, <1>8 DEF Kept

LEMMA EndingsKeep ==
  ASSUME ExecutorInv, Typed', Ended \/ Abandoned
  PROVE  Kept'
<1>1. PICK l \in Loops, r \in LoopRecord :
        /\ loop[l].pc \in Settling
        /\ loop' = [loop EXCEPT ![l] = r]
        /\ r.pc \in Resting
        /\ OnlyAt(loop[l].env) \/ UNCHANGED queue
        /\ executing' = FALSE
        /\ \/ current' = current - 1 /\ spent' = spent
           \/ current' = current /\ spent'["faults"] = spent["faults"] + 1
        /\ UNCHANGED <<recovering, orphans, results>>
  <2>1. Idle \in LoopRecord /\ Idle.pc \in Resting
    BY DEF Idle, LoopAt, LoopRecord, Resting, NoEntry, Entry, States
  <2> QED
    BY <2>1 DEF Ended, Abandoned
<1>2. loop'[l] = r /\ \A m \in Loops \ {l} : loop'[m] = loop[m]
  BY <1>1 DEF ExecutorInv, Typed
<1>3. Busy(l) /\ \A m \in Loops : ~Busy(m)'
  BY <1>1, <1>2 DEF ExecutorInv, OneBusy, Busy, Waits, Settling, Resting
<1>4. \A m \in Loops : loop[m].pc \notin Attempting /\ loop'[m].pc \notin Attempting
  BY <1>1, <1>3 DEF ExecutorInv, OneBusy, Busy, Waits, Settling, Attempting
<1>5. OneBusy' /\ FlagIsBusy'
  BY <1>1, <1>3 DEF OneBusy, FlagIsBusy
<1>6. Counted'
  <2>1. spent["faults"] \in Nat /\ spent'["faults"] \in Nat /\ current \in Nat /\ current' \in Nat
    BY DEF ExecutorInv, Typed, Kinds
  <2>2. current <= spent["faults"] + 1
    BY DEF ExecutorInv, Counted
  <2> QED
    BY <1>1, <1>3, <2>1, <2>2 DEF Counted
<1>7. AttemptIsExecuting' /\ MarkingIsFresh'
  BY <1>4 DEF AttemptIsExecuting, MarkingIsFresh, Attempting
<1>8. ExecutingIsOwned'
  <2>1. \A d \in Envelopes : queue'[d].state = "executing" => queue[d].state = "executing"
    BY <1>1 DEF OnlyAt
  <2> QED
    BY <1>1, <1>4, <2>1 DEF ExecutorInv, ExecutingIsOwned, InState, Attempting
<1> QED
  BY <1>5, <1>6, <1>7, <1>8 DEF Kept

LEMMA CrashesKeep ==
  ASSUME ExecutorInv, Typed', Crashed \/ Recovered
  PROVE  Kept'
<1>1. CASE Crashed
  <2>1. \A l \in Loops : loop'[l].pc = "idle" /\ ~Busy(l)'
    BY <1>1 DEF Crashed, Busy, Waits
  <2>2. spent'["faults"] \in Nat
    BY DEF Typed, Kinds
  <2>3. OneBusy' /\ FlagIsBusy' /\ Counted'
    BY <1>1, <2>1, <2>2 DEF Crashed, OneBusy, FlagIsBusy, Counted
  <2>4. AttemptIsExecuting' /\ MarkingIsFresh' /\ ExecutingIsOwned'
    BY <1>1, <2>1 DEF Crashed, AttemptIsExecuting, MarkingIsFresh, ExecutingIsOwned, Attempting
  <2> QED
    BY <2>3, <2>4 DEF Kept
<1>2. CASE Recovered
  <2>1. PICK e \in recovering :
          /\ recovering' = recovering \ {e}
          /\ OnlyAt(e)
          /\ UNCHANGED <<loop, call, timers, executing, current, orphans, results, spent>>
    BY <1>2 DEF Recovered
  <2>2. \A l \in Loops : loop[l].pc = "idle"
    BY DEF ExecutorInv, Quiet
  <2>3. OneBusy' /\ FlagIsBusy' /\ Counted'
    BY <2>1 DEF ExecutorInv, OneBusy, FlagIsBusy, Counted, Busy
  <2>4. AttemptIsExecuting' /\ MarkingIsFresh'
    BY <2>1, <2>2 DEF AttemptIsExecuting, MarkingIsFresh, Attempting
  <2>5. ExecutingIsOwned'
    <3>1. ASSUME NEW d \in Envelopes, queue'[d].state = "executing"
          PROVE  d \in recovering' \cup orphans'
      <4>1. d # e /\ queue[d].state = "executing"
        BY <2>1, <3>1 DEF OnlyAt
      <4> QED
        BY <2>1, <2>2, <4>1 DEF ExecutorInv, ExecutingIsOwned, InState
    <3> QED
      BY <3>1 DEF ExecutingIsOwned, InState
  <2> QED
    BY <2>3, <2>4, <2>5 DEF Kept
<1> QED
  BY <1>1, <1>2
-----------------------------------------------------------------------------
(* Every action has one of these effects                                   *)

LEMMA Rests ==
  /\ Idle \in LoopRecord /\ Scheduled \in LoopRecord
  /\ Idle.pc = "idle" /\ Scheduled.pc = "scheduled"
  /\ \A q, flag, n : Next_(q, flag, n) \in {Idle, Scheduled}
BY DEF Idle, Scheduled, LoopAt, LoopRecord, Resting, NoEntry, Entry, States, Next_

(* _triggerExecution schedules an idle loop, or none.                      *)
LEMMA Triggers ==
  ASSUME Typed, Triggered
  PROVE  /\ \A l \in Loops : loop'[l] = loop[l] \/ (loop[l].pc = "idle" /\ loop'[l].pc = "scheduled")
         /\ loop' \in [Loops -> LoopRecord]
<1>1. loop \in [Loops -> LoopRecord]
  BY DEF Typed
<1>2. CASE UNCHANGED loop
  BY <1>1, <1>2
<1>3. ASSUME NEW l \in Loops, loop[l].pc = "idle", loop' = [loop EXCEPT ![l] = Scheduled]
      PROVE  /\ \A m \in Loops : loop'[m] = loop[m] \/ (loop[m].pc = "idle" /\ loop'[m].pc = "scheduled")
             /\ loop' \in [Loops -> LoopRecord]
  BY <1>1, <1>3, Rests
<1> QED
  BY <1>2, <1>3 DEF Triggered

(* The budget only shrinks.                                                *)
LEMMA Spending ==
  ASSUME Typed, NEW kind \in Kinds, Spend(kind)
  PROVE  /\ spent' \in [Kinds -> Nat]
         /\ Faults
         /\ kind = "faults" => spent'["faults"] = spent["faults"] + 1
BY DEF Typed, Spend, Faults, Kinds

(* A caller returns, or waits with an envelope.                            *)
Calls(c) ==
  \E r \in CallRecord :
    call' = [call EXCEPT ![c] = r] /\ (r.pc # "returned" => r.env \in Envelopes)

LEMMA Calling ==
  ASSUME NEW c \in Callers, NEW e \in Envelopes,
         NEW pc \in {"waiting", "enqueuing", "requeuing", "cancelling"},
         \/ call' = [call EXCEPT ![c] = Returned]
         \/ call' = [call EXCEPT ![c] = CallAt(pc, e)]
  PROVE  Calls(c)
<1>1. Returned \in CallRecord /\ Returned.pc = "returned"
  BY DEF Returned, CallAt, CallRecord
<1>2. CallAt(pc, e) \in CallRecord /\ CallAt(pc, e).env \in Envelopes
  BY DEF CallAt, CallRecord
<1> QED
  BY <1>1, <1>2 DEF Calls

(* What a caller stores is no attempt and none is in its way.              *)
LEMMA Admissions ==
  ASSUME Typed, NEW c \in Callers, NEW e \in Envelopes, Admit(c, e)
  PROVE  /\ queue' \in [Envelopes -> Entry]
         /\ SameExecuting
         /\ loop' = loop \/ Triggered
         /\ Calls(c)
<1>1. FreshEntry \in Entry /\ FreshEntry.state = "queued"
  BY DEF FreshEntry, Entry, States
<1>2. Calls(c)
  BY Calling DEF Admit
<1>3. CASE Duplicate(queue, results, e)
  BY <1>2, <1>3 DEF Admit, SameExecuting, Typed
<1>4. CASE ~Duplicate(queue, results, e)
  <2>1. queue[e].state # "executing"
    BY <1>4 DEF Duplicate
  <2>2. queue' = [queue EXCEPT ![e] = FreshEntry] /\ loop' = loop
    BY <1>4 DEF Admit
  <2> QED
    BY <1>1, <1>2, <2>1, <2>2 DEF Typed, SameExecuting
<1> QED
  BY <1>3, <1>4

LEMMA Enqueuings ==
  ASSUME Typed, NEW c \in Callers, NEW e \in Envelopes, Enqueue(c, e)
  PROVE  /\ queue' \in [Envelopes -> Entry]
         /\ SameExecuting
         /\ loop' = loop \/ Triggered
         /\ Calls(c)
<1>1. CASE Full(queue)
  <2>1. Calls(c)
    BY <1>1, Calling DEF Enqueue
  <2> QED
    BY <1>1, <2>1 DEF Enqueue, SameExecuting, Typed
<1>2. CASE ~Full(queue)
  BY <1>2, Admissions DEF Enqueue
<1> QED
  BY <1>1, <1>2

LEMMA LoopWrites ==
  ASSUME Typed, NEW l \in Loops, NEW r \in LoopRecord,
         loop' = [loop EXCEPT ![l] = r],
         r.pc \in Waits => r.env \in Envelopes,
         queue' \in [Envelopes -> Entry], file' \in [Envelopes -> Entry],
         executing' \in BOOLEAN, current' \in Nat, timers' \in Nat, spent' \in [Kinds -> Nat],
         UNCHANGED <<rebuild, call>>
  PROVE  Typed'
<1>1. loop' \in [Loops -> LoopRecord] /\ \A m \in Loops : Busy(m)' => loop'[m].env \in Envelopes
  BY DEF Typed, Busy
<1> QED
  BY <1>1 DEF Typed

(* The marks a loop leaves.                                                *)
LEMMA Marks ==
  ASSUME NEW q \in Entry
  PROVE  /\ \A s \in States : [q EXCEPT !.state = s] \in Entry /\ [q EXCEPT !.state = s].state = s
         /\ [state |-> "failed", retries |-> q.retries + 1] \in Entry
         /\ [state |-> "queued", retries |-> q.retries + 1] \in Entry
BY DEF Entry, States, NoEntry

LEMMA Blank == NoEntry \in Entry /\ NoEntry.state = "absent"
BY DEF NoEntry, Entry, States

LEMMA Records ==
  ASSUME NEW pc \in Waits, NEW e \in Envelopes, NEW line \in Entry,
         NEW why \in {"none", "transient", "permanent"}
  PROVE  /\ LoopAt(pc, e, line, why) \in LoopRecord
         /\ LoopAt(pc, e, line, why).pc = pc /\ LoopAt(pc, e, line, why).env = e
BY DEF LoopAt, LoopRecord

(* A failure of what was being executed, or completed, settles it, unless  *)
(* a cleanup has dropped it since.                                         *)
LEMMA FailuresSettle ==
  ASSUME Typed, AttemptIsExecuting, NEW l \in Loops, NEW why \in {"transient", "permanent"},
         loop[l].pc \in Waits, MarkFailed(l, why), UNCHANGED <<file, timers, rebuild, call>>,
         UNCHANGED <<recovering, orphans, results>>,
         spent' \in [Kinds -> Nat], Faults,
         loop[l].pc = "completing" => spent'["faults"] = spent["faults"] + 1,
         loop[l].pc \in Attempting \cup {"completing"}
  PROVE  Typed' /\ (Settled \/ Abandoned)
<1> DEFINE e == loop[l].env
<1>1. e \in Envelopes /\ queue[e] \in Entry
  BY DEF Typed, Busy
<1>2. CASE queue[e].state = "absent"
  <2>1. executing' = FALSE /\ loop' = [loop EXCEPT ![l] = Idle] /\ UNCHANGED <<queue, current>>
    BY <1>2 DEF MarkFailed, Abandon, Goes
  <2>2. loop[l].pc = "completing"
    BY <1>2 DEF AttemptIsExecuting
  <2>3. Abandoned
    BY <2>1, <2>2 DEF Abandoned, Settling
  <2>4. Typed'
    BY <2>1, Rests, LoopWrites DEF Typed, Waits
  <2> QED
    BY <2>3, <2>4
<1>3. CASE queue[e].state # "absent"
  <2> DEFINE q == [state |-> "failed", retries |-> queue[e].retries + 1]
             r == LoopAt("failing", e, queue'[e], why)
  <2>1. /\ queue' = [queue EXCEPT ![e] = q] /\ loop' = [loop EXCEPT ![l] = r]
        /\ UNCHANGED <<executing, current>>
    BY <1>3 DEF MarkFailed, Goes, slots
  <2>2. q \in Entry /\ q.state = "failed"
    BY <1>1, Marks
  <2>3. queue' \in [Envelopes -> Entry] /\ queue'[e] = q
    BY <1>1, <2>1, <2>2 DEF Typed
  <2>4. r \in LoopRecord /\ r.pc = "failing" /\ r.env = e
    BY <1>1, <2>2, <2>3, Records DEF Waits
  <2>5. OnlyAt(e)
    BY <1>1, <2>1, <2>2, <2>3 DEF OnlyAt, Typed
  <2> HIDE DEF q, r
  <2>6. Settled
    BY <2>1, <2>4, <2>5 DEF Settled, Settling
  <2>7. Typed'
    BY <1>1, <2>1, <2>3, <2>4, LoopWrites DEF Typed
  <2> QED
    BY <2>6, <2>7
<1> QED
  BY <1>2, <1>3

LEMMA LoopSteps ==
  ASSUME ExecutorInv, NEW l \in Loops, Attempt(l) \/ Answer(l) \/ LineFails(l)
  PROVE  Typed' /\ Effect /\ Quiet'
<1> DEFINE e == loop[l].env
<1>1. /\ Typed /\ AttemptIsExecuting
      /\ loop \in [Loops -> LoopRecord] /\ queue \in [Envelopes -> Entry]
      /\ loop[l].pc \in Waits => e \in Envelopes /\ queue[e] \in Entry /\ loop[l].line \in Entry
  BY DEF ExecutorInv, Typed, Busy, LoopRecord
<1>2. Quiet'
  <2>1. loop[l].pc # "idle" /\ recovering' = recovering
    BY DEF Attempt, Answer, LineFails, FindNothing, SkipExecuted, Begin, Execute, Completed, TimeOut,
         TimeoutHandled, ScheduleRetry, DeadLetter, Buried, Succeed, Fail, world
  <2> QED
    BY <2>1 DEF ExecutorInv, Quiet
<1>3. ASSUME FindNothing(l)
      PROVE  Typed' /\ Bystands
  <2>1. PICK r \in {Idle, Scheduled} : loop' = [loop EXCEPT ![l] = r]
    BY <1>3, Rests DEF FindNothing, Goes
  <2>2. loop[l].pc \in Resting /\ r \in LoopRecord /\ r.pc \in Resting /\ r.pc \notin Waits
    BY <1>3, Rests DEF FindNothing, Resting, Waits
  <2>3. UNCHANGED <<queue, file, rebuild, call, executing, current, timers, spent, recovering, orphans, results>>
    BY <1>3 DEF FindNothing, store, slots, world
  <2>4. Bystands
    BY <1>1, <2>1, <2>2, <2>3 DEF Bystands, SameExecuting, Faults, Typed, Kinds
  <2> QED
    BY <1>1, <2>1, <2>2, <2>3, <2>4, LoopWrites DEF Typed
<1>4. ASSUME NEW d \in Envelopes, SkipExecuted(l, d)
      PROVE  Typed' /\ Bystands
  <2>1. PICK r \in {Idle, Scheduled} : loop' = [loop EXCEPT ![l] = r]
    BY <1>4, Rests DEF SkipExecuted, Goes
  <2>2. loop[l].pc \in Resting /\ r \in LoopRecord /\ r.pc \in Resting /\ r.pc \notin Waits
    BY <1>4, Rests DEF SkipExecuted, Resting, Waits
  <2>3. UNCHANGED <<file, rebuild, call, executing, current, timers, spent, recovering, orphans, results>>
    BY <1>4 DEF SkipExecuted, slots, world
  <2>4. queue' = [queue EXCEPT ![d] = NoEntry] /\ queue[d].state = "queued"
    BY <1>4 DEF SkipExecuted, Found, IsNext
  <2>5. queue' \in [Envelopes -> Entry] /\ SameExecuting
    BY <1>1, <2>4, Blank DEF SameExecuting
  <2>6. Bystands
    BY <1>1, <2>1, <2>2, <2>3, <2>5 DEF Bystands, Faults, Typed, Kinds
  <2> QED
    BY <1>1, <2>1, <2>2, <2>3, <2>5, <2>6, LoopWrites DEF Typed
<1>5. ASSUME NEW d \in Envelopes, Begin(l, d)
      PROVE  Typed' /\ Begins
  <2> DEFINE r == LoopAt("marking", d, queue'[d], "none")
  <2>1. /\ loop[l].pc = "scheduled" /\ loop' = [loop EXCEPT ![l] = r]
        /\ executing' = TRUE /\ current' = current + 1
        /\ queue' = [queue EXCEPT ![d].state = "executing"] /\ d \notin results
        /\ UNCHANGED <<file, rebuild, call, timers, spent, recovering, orphans, results>>
    BY <1>5 DEF Begin, Goes, AlreadyExecuted, world
  <2>2. executing = FALSE
    BY <1>1, <1>5 DEF Begin, MayStart, Typed
  <2>3. queue' \in [Envelopes -> Entry] /\ queue'[d] \in Entry
    BY <1>1, <2>1 DEF Entry, States
  <2>4. r \in LoopRecord /\ r.env = d
    BY <2>3, Records DEF Waits
  <2>5. Begins
    BY <2>1, <2>2 DEF Begins, Resting
  <2>6. /\ executing' \in BOOLEAN /\ current' \in Nat /\ timers' \in Nat
        /\ spent' \in [Kinds -> Nat] /\ file' \in [Envelopes -> Entry]
    BY <1>1, <2>1 DEF Typed
  <2> HIDE DEF r
  <2>7. Typed'
    BY <1>1, <2>1, <2>3, <2>4, <2>6, LoopWrites
  <2> QED
    BY <2>5, <2>7
<1>6. ASSUME Execute(l) \/ TimeOut(l)
      PROVE  Typed' /\ Continues
  <2>1. PICK pc \in {"running", "timing_out"} : loop' = [loop EXCEPT ![l] = LoopAt(pc, e, NoEntry, "none")]
    BY <1>6 DEF Execute, TimeOut, Goes
  <2> DEFINE r == LoopAt(pc, e, NoEntry, "none")
  <2>2. /\ loop[l].pc \in Attempting /\ loop[l].pc \in Waits
        /\ UNCHANGED <<queue, rebuild, call, executing, current, timers, spent, recovering, orphans, results>>
        /\ file' = file \/ file' = [file EXCEPT ![e] = loop[l].line]
    BY <1>6 DEF Execute, TimeOut, Attempting, Waits, store, slots
  <2>3. r \in LoopRecord /\ r.pc = pc /\ r.env = e
    BY <1>1, <2>2, Records, Blank DEF Waits
  <2>4. file' \in [Envelopes -> Entry]
    BY <1>1, <2>2 DEF Typed
  <2> HIDE DEF r
  <2>5. Continues
    BY <2>1, <2>2, <2>3 DEF Continues, r
  <2> QED
    BY <1>1, <2>1, <2>2, <2>3, <2>4, <2>5, LoopWrites DEF Typed, r
<1>7. ASSUME NEW why \in {"transient", "permanent"}, Fail(l, why) \/ (TimeoutHandled(l) /\ why = "permanent")
      PROVE  Typed' /\ (Settled \/ Abandoned)
  <2>1. /\ loop[l].pc \in {"running", "timing_out"} /\ MarkFailed(l, why)
        /\ UNCHANGED <<file, timers, rebuild, call, recovering, orphans, results, spent>>
    BY <1>7 DEF Fail, TimeoutHandled, world
  <2>2. spent' \in [Kinds -> Nat] /\ Faults
    BY <1>1, <2>1 DEF Typed, Faults, Kinds
  <2> QED
    BY <1>1, <2>1, <2>2, FailuresSettle DEF Waits, Attempting
<1>8. ASSUME Succeed(l)
      PROVE  Typed' /\ Settled
  <2> DEFINE r == LoopAt("completing", e, queue'[e], "none")
  <2>1. /\ loop[l].pc = "running" /\ loop' = [loop EXCEPT ![l] = r]
        /\ queue' = [queue EXCEPT ![e].state = "completed"] /\ results' = results \cup {e}
        /\ UNCHANGED <<file, rebuild, call, executing, current, timers, spent, recovering, orphans>>
    BY <1>8 DEF Succeed, Goes, slots, world
  <2>2. e \in Envelopes /\ queue[e] \in Entry
    BY <1>1, <2>1 DEF Waits
  <2>3. queue' \in [Envelopes -> Entry] /\ queue'[e] \in Entry /\ OnlyAt(e)
    BY <1>1, <2>1, <2>2 DEF OnlyAt, Entry, States
  <2>4. r \in LoopRecord /\ r.pc = "completing" /\ r.env = e
    BY <2>2, <2>3, Records DEF Waits
  <2> HIDE DEF r
  <2>5. Faults
    BY <1>1, <2>1 DEF Faults, Typed, Kinds
  <2>6. Settled
    BY <2>1, <2>3, <2>4, <2>5 DEF Settled, Settling, Waits
  <2> QED
    BY <1>1, <2>1, <2>2, <2>3, <2>4, <2>6, LoopWrites DEF Typed
<1>9. ASSUME DeadLetter(l)
      PROVE  Typed' /\ Settled
  <2> DEFINE r == LoopAt("burying", e, NoEntry, "none")
  <2>1. /\ loop[l].pc = "failing" /\ loop' = [loop EXCEPT ![l] = r]
        /\ file' = [file EXCEPT ![e] = loop[l].line]
        /\ UNCHANGED <<queue, rebuild, call, executing, current, timers, spent, recovering, orphans, results>>
    BY <1>9 DEF DeadLetter, Goes, store, slots, world
  <2>2. e \in Envelopes /\ file' \in [Envelopes -> Entry]
    BY <1>1, <2>1 DEF Waits, Typed
  <2>3. r \in LoopRecord /\ r.pc = "burying" /\ r.env = e
    BY <1>1, <2>1, <2>2, Records, Blank DEF Waits
  <2> HIDE DEF r
  <2>4. Faults
    BY <1>1, <2>1 DEF Faults, Typed, Kinds
  <2>5. Settled
    BY <2>1, <2>3, <2>4 DEF Settled, Settling, Waits
  <2> QED
    BY <1>1, <2>1, <2>2, <2>3, <2>5, LoopWrites DEF Typed
<1>10. ASSUME Completed(l) \/ ScheduleRetry(l) \/ Buried(l)
       PROVE  Typed' /\ Ended
  <2>1. PICK r \in {Idle, Scheduled} : loop' = [loop EXCEPT ![l] = r]
    BY <1>10, Rests DEF Completed, ScheduleRetry, Buried, Goes
  <2>2. /\ loop[l].pc \in Settling /\ loop[l].pc \in Waits
        /\ executing' = FALSE /\ current' = current - 1
        /\ UNCHANGED <<rebuild, call, spent, recovering, orphans, results>>
        /\ file' = file \/ file' = [file EXCEPT ![e] = loop[l].line]
        /\ queue' = queue \/ queue' = [queue EXCEPT ![e] = NoEntry]
        /\ timers' = timers \/ timers' = timers + 1
    BY <1>10 DEF Completed, ScheduleRetry, Buried, Released, Settling, Waits, store, world
  <2>3. r \in LoopRecord /\ r.pc \in Resting /\ r.pc \notin Waits
    BY Rests DEF Resting, Waits
  <2>4. file' \in [Envelopes -> Entry] /\ queue' \in [Envelopes -> Entry] /\ timers' \in Nat
    BY <1>1, <2>2, Blank DEF Typed
  <2>5. current' \in Nat
    <3>1. current \in Nat /\ current >= 1
      BY <2>2 DEF ExecutorInv, Typed, Counted, Busy
    <3> QED
      BY <2>2, <3>1
  <2>6. OnlyAt(e) \/ UNCHANGED queue
    BY <1>1, <2>2, Blank DEF OnlyAt
  <2>7. Ended
    BY <2>1, <2>2, <2>3, <2>6 DEF Ended
  <2> QED
    BY <1>1, <2>1, <2>2, <2>3, <2>4, <2>5, <2>7, LoopWrites DEF Typed
<1>11. ASSUME LineFails(l)
       PROVE  Typed' /\ (Settled \/ Abandoned)
  <2>1. /\ spent' \in [Kinds -> Nat] /\ Faults /\ spent'["faults"] = spent["faults"] + 1
        /\ UNCHANGED <<file, timers, rebuild, call, recovering, orphans, results>>
    BY <1>1, <1>11, Spending DEF LineFails, Kinds, world
  <2>2. CASE loop[l].pc \in {"marking", "completing"} /\ MarkFailed(l, "permanent")
    BY <1>1, <2>1, <2>2, FailuresSettle DEF Waits, Attempting
  <2>3. CASE loop[l].pc \in {"failing", "burying"} /\ Abandon(l)
    <3>1. executing' = FALSE /\ loop' = [loop EXCEPT ![l] = Idle] /\ UNCHANGED <<queue, current>>
      BY <2>3 DEF Abandon, Goes
    <3>2. Abandoned
      BY <2>1, <2>3, <3>1 DEF Abandoned, Settling
    <3>3. Typed'
      BY <1>1, <2>1, <3>1, Rests, LoopWrites DEF Typed, Waits
    <3> QED
      BY <3>2, <3>3
  <2> QED
    BY <1>11, <2>2, <2>3 DEF LineFails
<1> QED
  BY <1>2, <1>3, <1>4, <1>5, <1>6, <1>7, <1>8, <1>9, <1>10, <1>11 DEF Attempt, Answer, Effect

(* A step that triggers a loop, at most, and touches no attempt.           *)
LEMMA BystanderWrites ==
  ASSUME ExecutorInv,
         loop' = loop \/ Triggered,
         call' = call \/ \E c \in Callers : Calls(c),
         queue' \in [Envelopes -> Entry], SameExecuting, file' \in [Envelopes -> Entry],
         rebuild'.lines \in [Envelopes -> Entry],
         rebuild' = [pc |-> rebuild'.pc, lines |-> rebuild'.lines],
         timers' \in Nat, spent' \in [Kinds -> Nat], Faults,
         recovering = {},
         UNCHANGED <<executing, current, recovering, orphans, results>>
  PROVE  Typed' /\ Effect /\ Quiet'
<1>1. Typed /\ loop \in [Loops -> LoopRecord] /\ call \in [Callers -> CallRecord]
  BY DEF ExecutorInv, Typed
<1>2. /\ \A l \in Loops : loop'[l] = loop[l] \/ (loop[l].pc = "idle" /\ loop'[l].pc = "scheduled")
      /\ loop' \in [Loops -> LoopRecord]
  BY <1>1, Triggers
<1>3. Bystands
  BY <1>2 DEF Bystands, Resting
<1>4. call' \in [Callers -> CallRecord] /\ \A c \in Callers : call'[c].pc # "returned" => call'[c].env \in Envelopes
  BY <1>1 DEF Calls, Typed
<1>5. \A l \in Loops : Busy(l)' => loop'[l].env \in Envelopes
  BY <1>1, <1>2 DEF Typed, Busy, Waits
<1>6. Typed'
  BY <1>1, <1>2, <1>4, <1>5 DEF Typed
<1> QED
  BY <1>3, <1>6 DEF Effect, Quiet

LEMMA CallerSteps ==
  ASSUME ExecutorInv, NEW c \in Callers,
         \/ \E e \in Envelopes : Submit(c, e) \/ Requeue(c, e) \/ Cancel(c, e)
         \/ Serve(c) \/ CallFails(c)
  PROVE  Typed' /\ Effect /\ Quiet'
<1>1. /\ Typed /\ queue \in [Envelopes -> Entry] /\ file \in [Envelopes -> Entry]
      /\ rebuild.lines \in [Envelopes -> Entry]
      /\ rebuild = [pc |-> rebuild.pc, lines |-> rebuild.lines]
      /\ timers \in Nat /\ spent \in [Kinds -> Nat]
      /\ call[c].pc # "returned" => call[c].env \in Envelopes
  BY DEF ExecutorInv, Typed
<1>2. /\ recovering = {}
      /\ UNCHANGED <<executing, current, recovering, orphans, results, rebuild, timers>>
  BY DEF ExecutorInv, Quiet, Started, Submit, Requeue, Cancel, Serve, WaitEnds, Enqueued,
       Requeued, Cancelled, CallFails, store, slots, world
<1>3. ASSUME queue' \in [Envelopes -> Entry], SameExecuting, loop' = loop \/ Triggered, Calls(c),
             spent' = spent, file' \in [Envelopes -> Entry]
      PROVE  Typed' /\ Effect /\ Quiet'
  <2>1. Faults
    BY <1>1, <1>3 DEF Faults, Kinds
  <2> QED
    BY <1>1, <1>2, <1>3, <2>1, BystanderWrites
<1>4. ASSUME queue' \in [Envelopes -> Entry], SameExecuting, loop' = loop \/ Triggered, Calls(c),
             NEW kind \in Kinds, Spend(kind), file' = file
      PROVE  Typed' /\ Effect /\ Quiet'
  <2>1. spent' \in [Kinds -> Nat] /\ Faults
    BY <1>1, <1>4, Spending
  <2> QED
    BY <1>1, <1>2, <1>4, <2>1, BystanderWrites
<1>5. ASSUME NEW e \in Envelopes, Submit(c, e)
      PROVE  Typed' /\ Effect /\ Quiet'
  <2>1. Spend("calls") /\ "calls" \in Kinds /\ Enqueue(c, e) /\ file' = file
    BY <1>5 DEF Submit, Kinds
  <2> QED
    BY <1>1, <1>4, <2>1, Enqueuings
<1>6. ASSUME NEW e \in Envelopes, Requeue(c, e) \/ Cancel(c, e)
      PROVE  Typed' /\ Effect /\ Quiet'
  <2>1. Spend("calls") /\ "calls" \in Kinds /\ UNCHANGED <<queue, loop, file>>
    BY <1>6 DEF Requeue, Cancel, Kinds, store
  <2>2. Calls(c)
    BY <1>6, Calling DEF Requeue, Cancel
  <2>3. SameExecuting
    BY <2>1 DEF SameExecuting
  <2> QED
    BY <1>1, <1>4, <2>1, <2>2, <2>3
<1>7. CASE WaitEnds(c)
  <2>1. call[c].pc = "waiting" /\ spent' = spent /\ file' = file /\ call[c].env \in Envelopes
    BY <1>1, <1>7 DEF WaitEnds
  <2>2. CASE Admit(c, call[c].env)
    BY <1>1, <1>3, <2>1, <2>2, Admissions
  <2>3. CASE call' = [call EXCEPT ![c] = Returned] /\ UNCHANGED <<queue, fifo, loop>>
    <3>1. Calls(c) /\ SameExecuting
      BY <2>1, <2>3, Calling DEF SameExecuting
    <3> QED
      BY <1>1, <1>3, <2>1, <2>3, <3>1
  <2> QED
    BY <1>7, <2>2, <2>3 DEF WaitEnds
<1>8. CASE Enqueued(c)
  <2>1. call[c].pc = "enqueuing" /\ spent' = spent /\ Triggered /\ UNCHANGED queue
    BY <1>8 DEF Enqueued, store
  <2>2. call[c].env \in Envelopes /\ file' = [file EXCEPT ![call[c].env] = FreshEntry]
    BY <1>1, <1>8, <2>1 DEF Enqueued
  <2>3. FreshEntry \in Entry
    BY DEF FreshEntry, Entry, States
  <2>4. Calls(c) /\ SameExecuting
    BY <1>8, <2>1, <2>2, Calling DEF SameExecuting, Enqueued
  <2> QED
    BY <1>1, <1>3, <2>1, <2>2, <2>3, <2>4
<1>9. CASE Requeued(c)
  <2>1. call[c].env \in Envelopes /\ spent' = spent /\ file' = file /\ Enqueue(c, call[c].env)
    BY <1>1, <1>9 DEF Requeued
  <2> QED
    BY <1>1, <1>3, <2>1, Enqueuings
<1>10. CASE Cancelled(c)
  <2>1. call[c].env \in Envelopes /\ spent' = spent /\ UNCHANGED <<file, queue, loop>>
    BY <1>1, <1>10 DEF Cancelled, store
  <2>2. Calls(c) /\ SameExecuting
    BY <1>10, <2>1, Calling DEF SameExecuting, Cancelled
  <2> QED
    BY <1>1, <1>3, <2>1, <2>2
<1>11. CASE CallFails(c)
  <2>1. Spend("faults") /\ "faults" \in Kinds /\ UNCHANGED <<file, queue, loop>> /\ call[c].env \in Envelopes
    BY <1>1, <1>11 DEF CallFails, store, Kinds
  <2>2. Calls(c) /\ SameExecuting
    BY <1>11, <2>1, Calling DEF SameExecuting, CallFails
  <2> QED
    BY <1>1, <1>4, <2>1, <2>2
<1> QED
  BY <1>5, <1>6, <1>7, <1>8, <1>9, <1>10, <1>11 DEF Serve

LEMMA OtherSteps ==
  ASSUME ExecutorInv,
         \/ RetryTimer \/ Pause \/ Resume \/ Cleanup \/ Rebuild
         \/ \E e \in Envelopes : LateAnswer(e)
         \/ UNCHANGED vars
  PROVE  Typed' /\ Effect /\ Quiet'
<1>1. /\ Typed /\ queue \in [Envelopes -> Entry] /\ file \in [Envelopes -> Entry]
      /\ rebuild.lines \in [Envelopes -> Entry]
      /\ rebuild = [pc |-> rebuild.pc, lines |-> rebuild.lines]
      /\ timers \in Nat /\ spent \in [Kinds -> Nat]
      /\ NoEntry \in Entry /\ NoEntry.state = "absent"
  BY Blank DEF ExecutorInv, Typed
<1>2. ASSUME loop' = loop \/ Triggered, spent' = spent, recovering = {}, timers' \in Nat,
             UNCHANGED <<queue, file, rebuild, call, executing, current, recovering, orphans, results>>
      PROVE  Typed' /\ Effect /\ Quiet'
  BY <1>1, <1>2, BystanderWrites DEF SameExecuting, Faults, Kinds
<1>3. CASE RetryTimer
  <2>1. recovering = {} /\ timers' \in Nat
    BY <1>1, <1>3 DEF RetryTimer, ExecutorInv, Quiet
  <2> QED
    BY <1>2, <1>3, <2>1 DEF RetryTimer, store, slots, world
<1>4. CASE Resume
  BY <1>1, <1>2, <1>4 DEF Resume, Started, store, slots, world
<1>5. CASE Pause
  <2>1. spent' \in [Kinds -> Nat] /\ Faults
    BY <1>1, <1>5, Spending DEF Pause, Kinds
  <2>2. UNCHANGED <<queue, file, rebuild, call, loop, timers, executing, current, recovering, orphans, results>>
    BY <1>5 DEF Pause, store, slots, world
  <2> QED
    BY <1>1, <1>5, <2>1, <2>2, BystanderWrites DEF Pause, Started, SameExecuting
<1>6. CASE Cleanup
  <2>1. spent' \in [Kinds -> Nat] /\ Faults
    BY <1>1, <1>6, Spending DEF Cleanup, Kinds
  <2>2. /\ UNCHANGED <<file, call, loop, timers, executing, current, recovering, orphans, results>>
        /\ queue' = [e \in Envelopes |-> IF queue[e].state = "completed" THEN NoEntry ELSE queue[e]]
        /\ rebuild' = [pc |-> "opening", lines |-> queue']
        /\ recovering = {}
    BY <1>6 DEF Cleanup, Started, slots, world
  <2>3. queue' \in [Envelopes -> Entry] /\ SameExecuting
    BY <1>1, <2>2 DEF SameExecuting
  <2>4. rebuild'.lines = queue' /\ rebuild' = [pc |-> rebuild'.pc, lines |-> rebuild'.lines]
    BY <2>2
  <2> QED
    BY <1>1, <2>1, <2>2, <2>3, <2>4, BystanderWrites
<1>7. ASSUME Rebuild \/ (\E e \in Envelopes : LateAnswer(e)) \/ UNCHANGED vars
      PROVE  Typed' /\ Effect /\ Quiet'
  <2>1. UNCHANGED <<queue, loop, call, timers, spent, executing, current, recovering, orphans, results>>
    BY <1>7 DEF Rebuild, LateAnswer, vars, store, slots, world
  <2>2. /\ file' \in [Envelopes -> Entry] /\ rebuild'.lines \in [Envelopes -> Entry]
        /\ rebuild' = [pc |-> rebuild'.pc, lines |-> rebuild'.lines]
    <3>1. Nothing \in [Envelopes -> Entry]
      BY <1>1 DEF Nothing
    <3>2. CASE UNCHANGED <<file, rebuild>>
      BY <1>1, <3>2
    <3>3. CASE Rebuild /\ rebuild.pc = "opening"
      <4>1. file' = Nothing /\ rebuild' = [rebuild EXCEPT !.pc = "writing"]
        BY <3>3 DEF Rebuild
      <4>2. rebuild'.lines = rebuild.lines /\ rebuild' = [pc |-> "writing", lines |-> rebuild.lines]
        BY <1>1, <4>1
      <4> QED
        BY <1>1, <3>1, <4>1, <4>2
    <3>4. CASE Rebuild /\ rebuild.pc = "writing"
      <4>1. file' = rebuild.lines /\ rebuild' = NoRebuild
        BY <3>4 DEF Rebuild
      <4> QED
        BY <1>1, <3>1, <4>1 DEF NoRebuild, Nothing
    <3> QED
      BY <1>7, <3>2, <3>3, <3>4 DEF Rebuild, LateAnswer, vars
  <2>3. Bystands
    BY <1>1, <2>1 DEF Bystands, SameExecuting, Faults, Kinds
  <2>4. Typed'
    BY <1>1, <2>1, <2>2 DEF Typed, Busy
  <2>5. Quiet'
    BY <2>1 DEF ExecutorInv, Quiet
  <2> QED
    BY <2>3, <2>4, <2>5 DEF Effect
<1> QED
  BY <1>3, <1>4, <1>5, <1>6, <1>7

LEMMA CrashSteps ==
  ASSUME ExecutorInv, Crash \/ \E e \in Envelopes : Recover(e)
  PROVE  Typed' /\ Effect /\ Quiet'
<1>1. /\ Typed /\ queue \in [Envelopes -> Entry] /\ file \in [Envelopes -> Entry]
      /\ NoEntry \in Entry /\ NoEntry.state = "absent"
  BY Blank DEF ExecutorInv, Typed
<1>2. CASE Crash
  <2>1. spent' \in [Kinds -> Nat] /\ Faults
    BY <1>1, <1>2, Spending DEF Crash, Kinds
  <2>2. /\ queue' = file /\ file' = file /\ results' = {}
        /\ executing' = FALSE /\ current' = 0 /\ timers' = 0
        /\ loop' = [l \in Loops |-> Idle] /\ call' = [c \in Callers |-> Returned]
        /\ rebuild' = NoRebuild
        /\ recovering' \subseteq InState(file, "executing")
        /\ orphans' = InState(file, "executing") \ recovering'
    BY <1>2 DEF Crash
  <2>3. /\ loop' \in [Loops -> LoopRecord]
        /\ \A l \in Loops : loop'[l].pc = "idle" /\ ~Busy(l)'
    BY <2>2, Rests DEF Busy, Waits
  <2>4. /\ call' \in [Callers -> CallRecord]
        /\ \A c \in Callers : call'[c].pc = "returned"
    BY <2>2 DEF Returned, CallAt, CallRecord
  <2>5. rebuild'.lines \in [Envelopes -> Entry] /\ rebuild' = [pc |-> rebuild'.pc, lines |-> rebuild'.lines]
    BY <1>1, <2>2 DEF NoRebuild
  <2>6. Typed'
    BY <1>1, <2>1, <2>2, <2>3, <2>4, <2>5 DEF Typed
  <2>7. recovering' \cup orphans' = InState(queue', "executing")
    BY <2>2
  <2>8. Crashed /\ Quiet'
    BY <2>1, <2>2, <2>3, <2>4, <2>7 DEF Crashed, Quiet
  <2> QED
    BY <2>6, <2>8 DEF Effect
<1>3. ASSUME NEW e \in Envelopes, Recover(e)
      PROVE  Typed' /\ Effect /\ Quiet'
  <2>1. /\ e \in recovering /\ recovering' = recovering \ {e}
        /\ UNCHANGED <<results, executing, current, timers, loop, call, rebuild, orphans, spent>>
    BY <1>3 DEF Recover, slots
  <2>2. PICK q \in Entry : /\ q.state # "executing" /\ queue' = [queue EXCEPT ![e] = q]
                           /\ file' = file \/ file' = [file EXCEPT ![e] = q]
    <3>1. CASE Block(e)
      <4> DEFINE q == [queue[e] EXCEPT !.state = "blocked"]
      <4>1. q \in Entry /\ q.state = "blocked"
        BY <1>1, Marks DEF States
      <4>2. queue' = [queue EXCEPT ![e] = q] /\ file' = [file EXCEPT ![e] = queue'[e]]
        BY <1>1, <3>1 DEF Block
      <4>3. queue'[e] = q
        BY <1>1, <4>2
      <4> HIDE DEF q
      <4> QED
        BY <4>1, <4>2, <4>3
    <3>2. CASE GiveUp(e)
      BY <1>1, <3>2 DEF GiveUp
    <3>3. CASE Reset(e)
      <4> DEFINE q == [state |-> "queued", retries |-> queue[e].retries + 1]
      <4>1. q \in Entry /\ q.state = "queued"
        BY <1>1, Marks
      <4>2. queue' = [queue EXCEPT ![e] = q] /\ file' = file
        BY <1>1, <3>3 DEF Reset
      <4> HIDE DEF q
      <4> QED
        BY <4>1, <4>2
    <3> QED
      BY <1>3, <3>1, <3>2, <3>3 DEF Recover
  <2>3. /\ queue' \in [Envelopes -> Entry] /\ file' \in [Envelopes -> Entry] /\ OnlyAt(e)
    BY <1>1, <2>2 DEF OnlyAt
  <2>4. Typed'
    BY <1>1, <2>1, <2>3 DEF Typed, Busy
  <2>5. Recovered
    BY <2>1, <2>3 DEF Recovered
  <2>6. Quiet'
    BY <2>1 DEF ExecutorInv, Quiet
  <2> QED
    BY <2>4, <2>5, <2>6 DEF Effect
<1> QED
  BY <1>2, <1>3
-----------------------------------------------------------------------------
(* The invariant                                                           *)

LEMMA Initially == Init => ExecutorInv
<1> SUFFICES ASSUME Init PROVE ExecutorInv
  OBVIOUS
<1>1. Nothing \in [Envelopes -> Entry] /\ \A e \in Envelopes : Nothing[e].state = "absent"
  BY Blank DEF Nothing
<1>2. \A l \in Loops : loop[l].pc = "idle" /\ ~Busy(l)
  BY Rests DEF Init, Busy, Waits
<1>3. Typed
  <2>1. loop \in [Loops -> LoopRecord] /\ call \in [Callers -> CallRecord]
    BY Rests DEF Init, Returned, CallAt, CallRecord
  <2>2. \A c \in Callers : call[c].pc = "returned"
    BY DEF Init, Returned, CallAt
  <2>3. rebuild.lines \in [Envelopes -> Entry] /\ rebuild = [pc |-> rebuild.pc, lines |-> rebuild.lines]
    BY Blank DEF Init, NoRebuild
  <2>4. spent \in [Kinds -> Nat]
    BY DEF Init
  <2> QED
    BY <1>1, <1>2, <2>1, <2>2, <2>3, <2>4 DEF Typed, Init
<1>4. OneBusy /\ FlagIsBusy /\ AttemptIsExecuting /\ MarkingIsFresh /\ Quiet
  BY <1>2 DEF OneBusy, FlagIsBusy, AttemptIsExecuting, MarkingIsFresh, Quiet, Attempting, Init
<1>5. Counted
  BY <1>2 DEF Counted, Init, Kinds
<1>6. ExecutingIsOwned
  BY <1>1 DEF ExecutingIsOwned, InState, Init
<1> QED
  BY <1>3, <1>4, <1>5, <1>6 DEF ExecutorInv

LEMMA StepsHaveEffect ==
  ASSUME ExecutorInv, [Next]_vars
  PROVE  Typed' /\ Effect /\ Quiet'
BY LoopSteps, CallerSteps, OtherSteps, CrashSteps DEF Next

LEMMA Inductive == ExecutorInv /\ [Next]_vars => ExecutorInv'
<1> SUFFICES ASSUME ExecutorInv, [Next]_vars PROVE ExecutorInv'
  OBVIOUS
<1>1. Typed' /\ Effect /\ Quiet'
  BY StepsHaveEffect
<1>2. Kept'
  BY <1>1, BystandersKeep, BeginningsKeep, ContinuationsKeep, SettlementsKeep, EndingsKeep,
     CrashesKeep DEF Effect
<1> QED
  BY <1>1, <1>2 DEF Kept, ExecutorInv

(* The inductive invariant holds, for every budget of crashes and faults.  *)
THEOREM Invariance == Spec => []ExecutorInv
BY Initially, Inductive, PTL DEF Spec

(* The flag and the counter agree with what runs: one attempt at most, and *)
(* one slot lost for each failed append at most.                           *)
THEOREM Slots == Spec => []SlotsAccounted
<1>1. ExecutorInv => SlotsAccounted
  <2> SUFFICES ASSUME ExecutorInv PROVE SlotsAccounted
    OBVIOUS
  <2>1. executing \in BOOLEAN /\ current \in Nat /\ spent["faults"] \in Nat
    BY DEF ExecutorInv, Typed, Kinds
  <2>2. CASE BusyLoops = {}
    <3>1. Cardinality(BusyLoops) = 0
      BY <2>2, FS_EmptySet
    <3>2. \A l \in Loops : ~Busy(l)
      BY <2>2 DEF BusyLoops
    <3>3. executing = FALSE /\ current <= spent["faults"]
      BY <2>1, <3>2 DEF ExecutorInv, FlagIsBusy, Counted
    <3>4. executing = (BusyLoops # {})
      BY <2>2, <3>3, Zenon
    <3> QED
      BY <2>1, <3>1, <3>3, <3>4 DEF SlotsAccounted
  <2>3. ASSUME NEW l \in Loops, Busy(l)
        PROVE  SlotsAccounted
    <3>1. BusyLoops = {l}
      BY <2>3 DEF BusyLoops, ExecutorInv, OneBusy
    <3>2. Cardinality(BusyLoops) = 1
      BY <3>1, FS_Singleton
    <3>3. executing = TRUE /\ current >= 1 /\ current <= spent["faults"] + 1
      BY <2>3 DEF ExecutorInv, FlagIsBusy, Counted
    <3>4. executing = (BusyLoops # {})
      BY <3>1, <3>3, Zenon
    <3> QED
      BY <2>1, <3>2, <3>3, <3>4 DEF SlotsAccounted
  <2> QED
    BY <2>2, <2>3 DEF BusyLoops
<1> QED
  BY <1>1, Invariance, PTL

(* What is executing has a loop that will settle it, or was found so when  *)
(* the process started.                                                    *)
THEOREM Owned == Spec => []ExecutingIsOwned
<1>1. ExecutorInv => ExecutingIsOwned
  BY DEF ExecutorInv
<1> QED
  BY <1>1, Invariance, PTL

(* The executor is not started on an envelope whose result is cached.      *)
THEOREM NotRerun == Spec => CompletedIsNotRerun
<1>1. ASSUME ExecutorInv, [Next]_vars, NEW e \in results
      PROVE  starts'[e] = starts[e]
  <2>1. CASE UNCHANGED starts
    BY <2>1
  <2>2. ASSUME NEW l \in Loops, Execute(l)
        PROVE  starts'[e] = starts[e]
    <3>1. loop[l].env # e
      BY <1>1, <2>2 DEF ExecutorInv, MarkingIsFresh, Execute
    <3> QED
      BY <2>2, <3>1 DEF Execute
  <2>3. (\E l \in Loops : Execute(l)) \/ UNCHANGED starts
    BY <1>1 DEF Next, Attempt, Answer, Serve, LineFails, FindNothing, SkipExecuted, Begin,
       Completed, TimeOut, TimeoutHandled, ScheduleRetry, DeadLetter, Buried, Succeed, Fail,
       Submit, Requeue, Cancel, WaitEnds, Enqueued, Requeued, Cancelled, CallFails, RetryTimer,
       Pause, Resume, Cleanup, Rebuild, Crash, LateAnswer, Recover, world, vars
  <2> QED
    BY <2>1, <2>2, <2>3
<1>2. ExecutorInv /\ [Next]_vars => [\A e \in results : starts'[e] = starts[e]]_vars
  BY <1>1
<1> QED
  BY <1>2, Invariance, PTL DEF Spec, CompletedIsNotRerun

-----------------------------------------------------------------------------
(* The fifo                                                                *)

Listed(order) == {order[i] : i \in DOMAIN order}

(* Positions are numbered by how many of them come up to each.             *)
LEMMA Numbering ==
  ASSUME NEW P \in SUBSET Nat, IsFiniteSet(P)
  PROVE  /\ Cardinality(P) \in Nat
         /\ \A i \in P : Cardinality({j \in P : j <= i}) \in 1..Cardinality(P)
         /\ \A n \in 1..Cardinality(P) : \E i \in P : Cardinality({j \in P : j <= i}) = n
         /\ \A i, k \in P : Cardinality({j \in P : j <= i}) = Cardinality({j \in P : j <= k}) => i = k
<1> DEFINE upTo(i) == {j \in P : j <= i}
           top == Cardinality(P)
           rank == [i \in P |-> Cardinality(upTo(i))]
<1>1. top \in Nat
  BY FS_CardinalityType
<1>2. ASSUME NEW i \in P
      PROVE  Cardinality(upTo(i)) \in 1..top
  <2>1. upTo(i) \in SUBSET P /\ i \in upTo(i)
    OBVIOUS
  <2>2. IsFiniteSet(upTo(i)) /\ Cardinality(upTo(i)) <= top
    BY <2>1, FS_Subset
  <2>3. Cardinality(upTo(i)) \in Nat /\ Cardinality(upTo(i)) # 0
    BY <2>1, <2>2, FS_CardinalityType, FS_EmptySet
  <2> HIDE DEF upTo, top
  <2> QED
    BY <1>1, <2>2, <2>3
<1>3. ASSUME NEW i \in P, NEW k \in P, i < k
      PROVE  Cardinality(upTo(i)) # Cardinality(upTo(k))
  <2>1. upTo(i) \in SUBSET upTo(k) /\ k \in upTo(k) /\ k \notin upTo(i)
    <3>1. P \subseteq Nat
      OBVIOUS
    <3>2. i \in Nat /\ k \in Nat
      BY <3>1
    <3>3. \A j \in P : j \in Nat /\ (j <= i => j <= k)
      BY <1>3, <3>1, <3>2
    <3>4. upTo(i) \in SUBSET upTo(k)
      <4>1. ASSUME NEW j \in upTo(i) PROVE j \in upTo(k)
        BY <3>3
      <4> QED
        BY <4>1
    <3>5. k \in upTo(k) /\ k \notin upTo(i)
      BY <1>3, <3>2
    <3> QED
      BY <3>4, <3>5
  <2>2. upTo(k) \in SUBSET P
    OBVIOUS
  <2>3. IsFiniteSet(upTo(k))
    BY <2>2, FS_Subset
  <2> HIDE DEF upTo
  <2> QED
    BY <2>1, <2>3, FS_Subset
<1>4. rank \in [P -> 1..top]
  BY <1>2
<1>5. \A i, k \in P : Cardinality(upTo(i)) = Cardinality(upTo(k)) => i = k
  <2>1. \A i, k \in P : i < k \/ k < i \/ i = k
    OBVIOUS
  <2> HIDE DEF upTo
  <2> QED
    BY <1>3, <2>1
<1>6. rank \in Injection(P, 1..top)
  BY <1>4, <1>5 DEF Injection, IsInjective
<1>7. IsFiniteSet(1..top) /\ Cardinality(1..top) = top
  <2> HIDE DEF top
  <2> QED
    BY <1>1, FS_Interval
<1>8. rank \in Surjection(P, 1..top)
  <2> HIDE DEF rank
  <2> QED
    BY <1>6, <1>7, FS_Injection
<1>9. \A n \in 1..top : \E i \in P : rank[i] = n
  BY <1>8 DEF Surjection
<1> QED
  BY <1>1, <1>2, <1>5, <1>9

(* What is taken out of the fifo is gone, and nothing else.                *)
LEMMA WithoutListed ==
  ASSUME NEW order \in Seq(Envelopes), NEW e
  PROVE  /\ Without(order, e) \in Seq(Envelopes)
         /\ Listed(Without(order, e)) = Listed(order) \ {e}
<1> DEFINE others == {i \in DOMAIN order : order[i] # e}
           upTo(i) == {j \in others : j <= i}
           position(n) == CHOOSE i \in others : Cardinality(upTo(i)) = n
           rest == [n \in 1..Cardinality(others) |-> order[position(n)]]
<1>1. Without(order, e) = rest
  BY DEF Without
<1>2. others \in SUBSET Nat /\ IsFiniteSet(others)
  <2>1. DOMAIN order = 1..Len(order) /\ Len(order) \in Nat
    OBVIOUS
  <2>2. IsFiniteSet(DOMAIN order)
    BY <2>1, FS_Interval
  <2>3. others \in SUBSET DOMAIN order
    OBVIOUS
  <2> QED
    BY <2>1, <2>2, <2>3, FS_Subset
<1>3. /\ Cardinality(others) \in Nat
      /\ \A i \in others : Cardinality(upTo(i)) \in 1..Cardinality(others)
      /\ \A n \in 1..Cardinality(others) : \E i \in others : Cardinality(upTo(i)) = n
      /\ \A i, k \in others : Cardinality(upTo(i)) = Cardinality(upTo(k)) => i = k
  <2> HIDE DEF others
  <2> QED
    BY <1>2, Numbering
<1>4. ASSUME NEW n \in 1..Cardinality(others)
      PROVE  position(n) \in others /\ Cardinality(upTo(position(n))) = n
  <2> HIDE DEF others, upTo
  <2> QED
    BY <1>3
<1>5. ASSUME NEW n \in 1..Cardinality(others)
      PROVE  rest[n] = order[position(n)] /\ position(n) \in others
  BY <1>4
<1>6. \A i \in others : order[i] \in Envelopes /\ order[i] # e /\ i \in DOMAIN order
  OBVIOUS
<1>7. DOMAIN rest = 1..Cardinality(others)
  OBVIOUS
<1>8. rest \in [1..Cardinality(others) -> Envelopes]
  <2> HIDE DEF position, others
  <2> QED
    BY <1>5, <1>6
<1>9. rest \in Seq(Envelopes)
  <2> HIDE DEF rest, others
  <2> QED
    BY <1>3, <1>8
<1>10. Listed(rest) \subseteq Listed(order) \ {e}
  <2> HIDE DEF rest, others, position
  <2> QED
    BY <1>5, <1>6, <1>7 DEF Listed
<1>11. ASSUME NEW d \in Listed(order) \ {e}
       PROVE  d \in Listed(rest)
  <2>1. PICK i \in DOMAIN order : order[i] = d
    BY DEF Listed
  <2>2. i \in others
    BY <2>1
  <2> DEFINE n == Cardinality(upTo(i))
  <2>3. n \in 1..Cardinality(others)
    <3> HIDE DEF others, upTo
    <3> QED
      BY <1>3, <2>2
  <2>4. position(n) \in others /\ Cardinality(upTo(position(n))) = n
    <3> HIDE DEF n, position, others, upTo
    <3> QED
      BY <1>4, <2>3
  <2>5. position(n) = i
    <3> HIDE DEF position, others, upTo
    <3> QED
      BY <1>3, <2>2, <2>4 DEF n
  <2>6. rest[n] = d
    <3> HIDE DEF n, position, others, rest
    <3> QED
      BY <1>5, <2>1, <2>3, <2>5
  <2> HIDE DEF n, rest, others
  <2> QED
    BY <1>7, <2>3, <2>6 DEF Listed
<1> QED
  BY <1>1, <1>9, <1>10, <1>11

LEMMA Queueing ==
  ASSUME NEW order \in Seq(Envelopes), NEW e \in Envelopes
  PROVE  /\ Append(order, e) \in Seq(Envelopes)
         /\ Listed(Append(order, e)) = Listed(order) \cup {e}
         /\ <<e>> \o order \in Seq(Envelopes)
         /\ Listed(<<e>> \o order) = Listed(order) \cup {e}
<1>1. Append(order, e) \in Seq(Envelopes) /\ <<e>> \o order \in Seq(Envelopes)
  OBVIOUS
<1>2. Listed(Append(order, e)) = Listed(order) \cup {e}
  <2> DEFINE longer == Append(order, e)
  <2>1. /\ Len(longer) = Len(order) + 1 /\ Len(order) \in Nat
        /\ \A i \in 1..Len(order) : longer[i] = order[i]
        /\ longer[Len(order) + 1] = e
        /\ DOMAIN longer = 1..(Len(order) + 1) /\ DOMAIN order = 1..Len(order)
    OBVIOUS
  <2> HIDE DEF longer
  <2>2. \A i \in DOMAIN longer : i \in DOMAIN order \/ i = Len(order) + 1
    BY <2>1
  <2>3. Listed(longer) \subseteq Listed(order) \cup {e}
    BY <2>1, <2>2 DEF Listed
  <2>4. Listed(order) \cup {e} \subseteq Listed(longer)
    BY <2>1 DEF Listed
  <2> QED
    BY <2>3, <2>4 DEF longer
<1>3. Listed(<<e>> \o order) = Listed(order) \cup {e}
  <2> DEFINE longer == <<e>> \o order
  <2>1. /\ Len(longer) = Len(order) + 1 /\ Len(order) \in Nat
        /\ longer[1] = e
        /\ \A i \in 1..Len(order) : longer[i + 1] = order[i]
        /\ DOMAIN longer = 1..(Len(order) + 1) /\ DOMAIN order = 1..Len(order)
    OBVIOUS
  <2> HIDE DEF longer
  <2>2. \A i \in DOMAIN longer : i = 1 \/ (i - 1 \in DOMAIN order /\ longer[i] = order[i - 1])
    <3> TAKE i \in DOMAIN longer
    <3>1. i \in Nat /\ i >= 1 /\ i <= Len(order) + 1
      BY <2>1
    <3>2. CASE i # 1
      <4>1. i - 1 \in 1..Len(order) /\ (i - 1) + 1 = i
        BY <2>1, <3>1, <3>2
      <4> QED
        BY <2>1, <4>1
    <3> QED
      BY <3>2
  <2>3. Listed(longer) \subseteq Listed(order) \cup {e}
    BY <2>1, <2>2 DEF Listed
  <2>4. Listed(order) \cup {e} \subseteq Listed(longer)
    <3>1. \A i \in DOMAIN order : i + 1 \in DOMAIN longer /\ longer[i + 1] = order[i]
      BY <2>1
    <3>2. 1 \in DOMAIN longer
      BY <2>1
    <3> QED
      BY <2>1, <3>1, <3>2 DEF Listed
  <2> QED
    BY <2>3, <2>4 DEF longer
<1> QED
  BY <1>1, <1>2, <1>3

(* What a start reads into the fifo is what is queued.                     *)
LEMMA Loading ==
  ASSUME NEW q \in [Envelopes -> Entry], NEW order \in Orders(q)
  PROVE  order \in Seq(Envelopes) /\ Listed(order) = InState(q, "queued")
<1> DEFINE waiting == InState(q, "queued")
<1>1. waiting \in SUBSET Envelopes
  BY DEF InState
<1>2. PICK n \in 0..Cardinality(waiting) : order \in [1..n -> waiting]
  BY DEF Orders
<1>3. IsFiniteSet(waiting)
  BY <1>1, QueueAssumption, FS_Subset
<1>4. Cardinality(waiting) \in Nat
  BY <1>3, FS_CardinalityType
<1>5. n \in Nat
  <2> HIDE DEF waiting
  <2> QED
    BY <1>4
<1>6. order \in [1..n -> Envelopes]
  BY <1>1, <1>2
<1> QED
  BY <1>5, <1>6 DEF Listed, Orders, LoadedOrder

-----------------------------------------------------------------------------
(* Which steps change what                                                 *)

MarksFailed(l) == \E why \in {"transient", "permanent"} : MarkFailed(l, why)

Admitting(e) == \E c \in Callers : Admit(c, e)

LEMMA ResultsChange ==
  ASSUME [Next]_vars
  PROVE  (\E l \in Loops : Succeed(l)) \/ Crash \/ UNCHANGED results
BY DEF Next, Attempt, Answer, Serve, LineFails, FindNothing, SkipExecuted, Begin, Execute,
  Completed, TimeOut, TimeoutHandled, ScheduleRetry, DeadLetter, Buried, Fail, Submit, Requeue,
  Cancel, WaitEnds, Enqueued, Requeued, Cancelled, CallFails, RetryTimer, Pause, Resume, Cleanup,
  Rebuild, LateAnswer, Recover, store, world, vars

LEMMA LettersChange ==
  ASSUME [Next]_vars
  PROVE  \/ \E l \in Loops : DeadLetter(l)
         \/ \E c \in Callers, e \in Envelopes : Requeue(c, e) \/ Cancel(c, e)
         \/ Crash
         \/ \E e \in Envelopes : Recover(e) /\ GiveUp(e)
         \/ UNCHANGED dlq
BY DEF Next, Attempt, Answer, Serve, LineFails, FindNothing, SkipExecuted, Begin, Execute,
  Completed, TimeOut, TimeoutHandled, ScheduleRetry, DeadLetter, Buried, Fail, Succeed, Submit,
  Requeue, Cancel, WaitEnds, Enqueued, Requeued, Cancelled, CallFails, RetryTimer, Pause, Resume,
  Cleanup, Crash, Rebuild, LateAnswer, Recover, Block, Reset, vars

LEMMA LetterFileChanges ==
  ASSUME [Next]_vars
  PROVE  \/ \E l \in Loops : Buried(l)
         \/ \E c \in Callers : Requeued(c) \/ Cancelled(c)
         \/ \E e \in Envelopes : Recover(e) /\ GiveUp(e)
         \/ UNCHANGED dlqFile
BY DEF Next, Attempt, Answer, Serve, LineFails, FindNothing, SkipExecuted, Begin, Execute,
  Completed, TimeOut, TimeoutHandled, ScheduleRetry, DeadLetter, Buried, Fail, Succeed, Submit,
  Requeue, Cancel, WaitEnds, Enqueued, Requeued, Cancelled, CallFails, RetryTimer, Pause, Resume,
  Cleanup, Crash, Rebuild, LateAnswer, Recover, Block, Reset, vars

LEMMA WorldChanges ==
  ASSUME [Next]_vars
  PROVE  /\ Pause \/ Resume \/ UNCHANGED paused
         /\ Cleanup \/ Rebuild \/ Crash \/ UNCHANGED rebuild
         /\ Crash \/ (\E e \in Envelopes : Recover(e)) \/ UNCHANGED recovering
         /\ Crash \/ UNCHANGED orphans
         /\ (\E l \in Loops : TimeOut(l)) \/ Crash \/ (\E e \in Envelopes : LateAnswer(e)) \/ UNCHANGED overdue
         /\ (\E l \in Loops : Execute(l)) \/ UNCHANGED starts
         /\ (\E c \in Callers : Enqueued(c)) \/ UNCHANGED acked
BY DEF Next, Attempt, Answer, Serve, LineFails, FindNothing, SkipExecuted, Begin, Execute,
  Completed, TimeOut, TimeoutHandled, ScheduleRetry, DeadLetter, Buried, Fail, Succeed, Submit,
  Requeue, Cancel, WaitEnds, Enqueued, Requeued, Cancelled, CallFails, RetryTimer, Pause, Resume,
  Cleanup, Crash, Rebuild, LateAnswer, Recover, world, vars

LEMMA FifoChanges ==
  ASSUME ExecutorInv, [Next]_vars
  PROVE  \/ \E l \in Loops : (\E e \in Envelopes : SkipExecuted(l, e)) \/ Completed(l) \/ Buried(l)
         \/ \E e \in Envelopes : Admitting(e)
         \/ Crash
         \/ \E e \in Envelopes : Recover(e) /\ (GiveUp(e) \/ Reset(e))
         \/ UNCHANGED fifo
<1>1. ASSUME NEW c \in Callers, NEW e \in Envelopes, Enqueue(c, e)
      PROVE  Admitting(e) \/ UNCHANGED fifo
  BY <1>1 DEF Enqueue, Admitting
<1>2. ASSUME NEW c \in Callers, Serve(c)
      PROVE  (\E e \in Envelopes : Admitting(e)) \/ UNCHANGED fifo
  <2>1. /\ (WaitEnds(c) \/ Requeued(c)) /\ (Admit(c, call[c].env) \/ Enqueue(c, call[c].env))
        \/ UNCHANGED fifo
    BY <1>2 DEF Serve, WaitEnds, Enqueued, Requeued, Cancelled, store
  <2>2. ASSUME WaitEnds(c) \/ Requeued(c)
        PROVE  call[c].env \in Envelopes
    BY <2>2 DEF WaitEnds, Requeued, ExecutorInv, Typed
  <2> QED
    BY <1>1, <2>1, <2>2 DEF Admitting
<1> QED
  BY <1>1, <1>2 DEF Next, Attempt, Answer, LineFails, FindNothing, SkipExecuted, Begin,
  Execute, Completed, TimeOut, TimeoutHandled, ScheduleRetry, DeadLetter, Buried, Fail, Succeed,
  Submit, Requeue, Cancel, CallFails, RetryTimer, Pause, Resume, Cleanup, Crash, Rebuild,
  LateAnswer, Recover, Block, store, vars

(* What a step may make of one loop.                                       *)
LoopMade(l) ==
  \/ loop'[l] = loop[l]
  \/ loop'[l].pc \in Resting
  \/ \E e \in Envelopes : Begin(l, e) /\ loop'[l] = LoopAt("marking", e, queue'[e], "none")
  \/ Execute(l) /\ loop'[l] = LoopAt("running", loop[l].env, NoEntry, "none")
  \/ TimeOut(l) /\ loop'[l] = LoopAt("timing_out", loop[l].env, NoEntry, "none")
  \/ Succeed(l) /\ loop'[l] = LoopAt("completing", loop[l].env, queue'[loop[l].env], "none")
  \/ DeadLetter(l) /\ loop'[l] = LoopAt("burying", loop[l].env, NoEntry, "none")
  \/ /\ MarksFailed(l) /\ Busy(l) /\ queue'[loop[l].env].state = "failed"
     /\ \E why \in {"transient", "permanent"} :
          loop'[l] = LoopAt("failing", loop[l].env, queue'[loop[l].env], why)

LEMMA LoopChanges ==
  ASSUME ExecutorInv, [Next]_vars, NEW l \in Loops
  PROVE  LoopMade(l)
<1>1. Typed /\ loop \in [Loops -> LoopRecord] /\ queue \in [Envelopes -> Entry]
  BY DEF ExecutorInv, Typed
<1>2. ASSUME loop' = loop \/ Triggered
      PROVE  loop'[l] = loop[l] \/ loop'[l].pc \in Resting
  BY <1>1, <1>2, Triggers DEF Resting
<1>3. ASSUME NEW c \in Callers, NEW e \in Envelopes, Enqueue(c, e) \/ Admit(c, e)
      PROVE  loop' = loop \/ Triggered
  BY <1>3 DEF Enqueue, Admit
<1>4. ASSUME NEW c \in Callers,
             \/ \E e \in Envelopes : Submit(c, e) \/ Requeue(c, e) \/ Cancel(c, e)
             \/ Serve(c) \/ CallFails(c)
      PROVE  loop' = loop \/ Triggered
  <2>1. WaitEnds(c) \/ Requeued(c) => call[c].env \in Envelopes
    BY DEF WaitEnds, Requeued, ExecutorInv, Typed
  <2> QED
    BY <1>3, <1>4, <2>1 DEF Serve, Submit, Requeue, Cancel, WaitEnds, Enqueued, Requeued, Cancelled, CallFails
<1>5. ASSUME Crash
      PROVE  loop'[l].pc \in Resting
  BY <1>5, Rests DEF Crash, Resting
<1>6. ASSUME \/ RetryTimer \/ Pause \/ Resume \/ Cleanup \/ Rebuild
             \/ \E e \in Envelopes : LateAnswer(e) \/ Recover(e)
             \/ UNCHANGED vars
      PROVE  loop' = loop \/ Triggered
  BY <1>6 DEF RetryTimer, Pause, Resume, Cleanup, Rebuild, LateAnswer, Recover, vars
<1>7. ASSUME NEW m \in Loops, NEW to, loop' = [loop EXCEPT ![m] = to]
      PROVE  /\ m # l => loop'[l] = loop[l]
             /\ m = l => loop'[l] = to
  BY <1>1, <1>7
<1>8. ASSUME NEW m \in Loops, NEW why \in {"transient", "permanent"}, MarkFailed(m, why), Busy(m)
      PROVE  \/ loop'[l] = loop[l]
             \/ loop'[l].pc \in Resting
             \/ /\ m = l /\ MarksFailed(l) /\ Busy(l) /\ queue'[loop[l].env].state = "failed"
                /\ loop'[l] = LoopAt("failing", loop[l].env, queue'[loop[l].env], why)
  <2>1. CASE queue[loop[m].env].state = "absent"
    <3>1. loop' = [loop EXCEPT ![m] = Idle]
      BY <1>8, <2>1 DEF MarkFailed, Abandon, Goes
    <3> QED
      BY <1>7, <3>1, Rests DEF Resting
  <2>2. CASE queue[loop[m].env].state # "absent"
    <3>1. loop' = [loop EXCEPT ![m] = LoopAt("failing", loop[m].env, queue'[loop[m].env], why)]
      BY <1>8, <2>2 DEF MarkFailed, Goes
    <3>2. m = l => queue'[loop[l].env].state = "failed"
      <4>1. loop[m].env \in Envelopes
        BY <1>1, <1>8 DEF Typed
      <4>2. queue' = [queue EXCEPT ![loop[m].env] = [state |-> "failed", retries |-> @.retries + 1]]
        BY <1>8, <2>2 DEF MarkFailed
      <4> QED
        BY <1>1, <4>1, <4>2
    <3> QED
      BY <1>7, <1>8, <3>1, <3>2 DEF MarksFailed
  <2> QED
    BY <2>1, <2>2
<1>9. ASSUME NEW m \in Loops, \E why \in {"transient", "permanent"} : Fail(m, why)
                              \/ TimeoutHandled(m) \/ LineFails(m)
      PROVE  \/ loop'[l] = loop[l]
             \/ loop'[l].pc \in Resting
             \/ /\ MarksFailed(l) /\ Busy(l) /\ queue'[loop[l].env].state = "failed"
                /\ \E why \in {"transient", "permanent"} :
                     loop'[l] = LoopAt("failing", loop[l].env, queue'[loop[l].env], why)
  <2>1. \/ loop' = [loop EXCEPT ![m] = Idle]
        \/ \E why \in {"transient", "permanent"} : MarkFailed(m, why) /\ Busy(m)
    BY <1>9 DEF Fail, TimeoutHandled, LineFails, Abandon, Goes, Busy, Waits
  <2>2. CASE loop' = [loop EXCEPT ![m] = Idle]
    BY <1>1, <2>2, Rests DEF Resting
  <2>3. ASSUME NEW why \in {"transient", "permanent"}, MarkFailed(m, why), Busy(m)
        PROVE  \/ loop'[l] = loop[l]
               \/ loop'[l].pc \in Resting
               \/ /\ MarksFailed(l) /\ Busy(l) /\ queue'[loop[l].env].state = "failed"
                  /\ \E w \in {"transient", "permanent"} :
                       loop'[l] = LoopAt("failing", loop[l].env, queue'[loop[l].env], w)
    BY <1>8, <2>3
  <2> QED
    BY <2>1, <2>2, <2>3
<1>10. ASSUME NEW m \in Loops,
              \/ FindNothing(m) \/ Completed(m) \/ ScheduleRetry(m) \/ Buried(m)
              \/ \E e \in Envelopes : SkipExecuted(m, e)
       PROVE  loop'[l] = loop[l] \/ loop'[l].pc \in Resting
  <2>1. PICK to \in {Idle, Scheduled} : loop' = [loop EXCEPT ![m] = to]
    BY <1>10, Rests DEF FindNothing, Completed, ScheduleRetry, Buried, SkipExecuted, Goes
  <2> QED
    BY <1>7, <2>1, Rests DEF Resting
<1>11. ASSUME NEW m \in Loops, NEW e \in Envelopes, Begin(m, e)
       PROVE  loop'[l] = loop[l] \/ (m = l /\ loop'[l] = LoopAt("marking", e, queue'[e], "none"))
  BY <1>1, <1>11 DEF Begin, Goes
<1>12. ASSUME NEW m \in Loops, Execute(m)
       PROVE  loop'[l] = loop[l] \/ (m = l /\ loop'[l] = LoopAt("running", loop[l].env, NoEntry, "none"))
  BY <1>1, <1>12 DEF Execute, Goes
<1>13. ASSUME NEW m \in Loops, TimeOut(m)
       PROVE  loop'[l] = loop[l] \/ (m = l /\ loop'[l] = LoopAt("timing_out", loop[l].env, NoEntry, "none"))
  BY <1>1, <1>13 DEF TimeOut, Goes
<1>14. ASSUME NEW m \in Loops, Succeed(m)
       PROVE  loop'[l] = loop[l] \/ (m = l /\ loop'[l] = LoopAt("completing", loop[l].env, queue'[loop[l].env], "none"))
  BY <1>1, <1>14 DEF Succeed, Goes
<1>15. ASSUME NEW m \in Loops, DeadLetter(m)
       PROVE  loop'[l] = loop[l] \/ (m = l /\ loop'[l] = LoopAt("burying", loop[l].env, NoEntry, "none"))
  BY <1>1, <1>15 DEF DeadLetter, Goes
<1>16. ASSUME NEW m \in Loops, Attempt(m) \/ Answer(m) \/ LineFails(m)
       PROVE  LoopMade(l)
  BY <1>9, <1>10, <1>11, <1>12, <1>13, <1>14, <1>15, <1>16 DEF Attempt, Answer, LoopMade
<1> QED
  BY <1>2, <1>4, <1>5, <1>6, <1>16 DEF Next, LoopMade

(* A caller that had not stored an entry stores one.                       *)
Admits(d) ==
  \E c \in Callers : call[c].pc # "enqueuing" /\ Admit(c, d) /\ ~Duplicate(queue, results, d)

(* What a step may make of one entry.                                      *)
EntryMade(d) ==
  \/ queue'[d] = queue[d]
  \/ Crash
  \/ /\ queue'[d] = NoEntry
     /\ \/ \E l \in Loops : SkipExecuted(l, d) \/ (Buried(l) /\ loop[l].env = d)
        \/ Cleanup /\ queue[d].state = "completed"
        \/ Recover(d) /\ GiveUp(d)
  \/ \E l \in Loops : Begin(l, d) /\ queue'[d] = [queue[d] EXCEPT !.state = "executing"]
  \/ \E l \in Loops :
       /\ loop[l].env = d /\ Busy(l) /\ MarksFailed(l) /\ queue[d].state # "absent"
       /\ queue'[d].state = "failed"
  \/ \E l \in Loops :
       /\ Succeed(l) /\ loop[l].env = d /\ queue[d].state # "absent"
       /\ queue'[d].state = "completed"
  \/ Admits(d) /\ queue'[d] = FreshEntry
  \/ Recover(d) /\ Block(d) /\ queue'[d] = [queue[d] EXCEPT !.state = "blocked"]
  \/ /\ Recover(d) /\ Reset(d)
     /\ queue'[d] = [state |-> "queued", retries |-> queue[d].retries + 1]

LEMMA EntryChanges ==
  ASSUME ExecutorInv, [Next]_vars, NEW d \in Envelopes
  PROVE  EntryMade(d)
<1>1. Typed /\ queue \in [Envelopes -> Entry] /\ queue[d] \in Entry
  BY DEF ExecutorInv, Typed
<1>2. ASSUME NEW e \in Envelopes, NEW q, queue' = [queue EXCEPT ![e] = q]
      PROVE  IF e = d THEN queue'[d] = q ELSE queue'[d] = queue[d]
  BY <1>1, <1>2
<1>3. ASSUME NEW l \in Loops, NEW e \in Envelopes, SkipExecuted(l, e)
      PROVE  EntryMade(d)
  <2>1. queue' = [queue EXCEPT ![e] = NoEntry]
    BY <1>3 DEF SkipExecuted
  <2>2. e = d => SkipExecuted(l, d)
    BY <1>3
  <2> QED
    BY <1>2, <2>1, <2>2 DEF EntryMade
<1>4. ASSUME NEW l \in Loops, NEW e \in Envelopes, Begin(l, e)
      PROVE  EntryMade(d)
  <2>1. queue' = [queue EXCEPT ![e].state = "executing"]
    BY <1>4 DEF Begin
  <2>2. e # d => queue'[d] = queue[d]
    BY <1>1, <2>1
  <2>3. e = d => queue'[d] = [queue[d] EXCEPT !.state = "executing"]
    BY <1>1, <2>1
  <2>4. e = d => Begin(l, d)
    BY <1>4
  <2> QED
    BY <2>2, <2>3, <2>4 DEF EntryMade
<1>5. ASSUME NEW l \in Loops, NEW why \in {"transient", "permanent"}, MarkFailed(l, why), Busy(l)
      PROVE  EntryMade(d)
  <2>1. loop[l].env \in Envelopes
    BY <1>1, <1>5 DEF Typed
  <2>2. CASE queue[loop[l].env].state = "absent"
    BY <1>5, <2>2 DEF MarkFailed, Abandon, EntryMade
  <2>3. CASE queue[loop[l].env].state # "absent"
    <3> DEFINE q == [state |-> "failed", retries |-> queue[loop[l].env].retries + 1]
    <3>1. queue' = [queue EXCEPT ![loop[l].env] = q]
      BY <1>5, <2>3 DEF MarkFailed
    <3>2. q.state = "failed"
      OBVIOUS
    <3> HIDE DEF q
    <3>3. MarksFailed(l)
      BY <1>5 DEF MarksFailed
    <3> QED
      BY <1>2, <1>5, <2>1, <2>3, <3>1, <3>2, <3>3 DEF EntryMade
  <2> QED
    BY <2>2, <2>3
<1>6. ASSUME NEW l \in Loops, \E why \in {"transient", "permanent"} : Fail(l, why)
                              \/ TimeoutHandled(l) \/ LineFails(l)
      PROVE  EntryMade(d)
  <2>1. \/ UNCHANGED queue
        \/ \E why \in {"transient", "permanent"} : MarkFailed(l, why) /\ Busy(l)
    BY <1>6 DEF Fail, TimeoutHandled, LineFails, Abandon, Busy, Waits
  <2>2. CASE UNCHANGED queue
    BY <2>2 DEF EntryMade
  <2> QED
    BY <1>5, <2>1, <2>2
<1>7. ASSUME NEW l \in Loops, Succeed(l)
      PROVE  EntryMade(d)
  <2>1. /\ loop[l].env \in Envelopes /\ queue[loop[l].env].state # "absent"
        /\ queue' = [queue EXCEPT ![loop[l].env].state = "completed"]
    BY <1>1, <1>7 DEF Succeed, Typed, Busy, Waits
  <2>2. loop[l].env # d => queue'[d] = queue[d]
    BY <1>1, <2>1
  <2>3. loop[l].env = d => queue'[d].state = "completed"
    BY <1>1, <2>1 DEF Entry
  <2> QED
    BY <1>7, <2>1, <2>2, <2>3 DEF EntryMade
<1>8. ASSUME NEW l \in Loops, Buried(l)
      PROVE  EntryMade(d)
  <2>1. loop[l].env \in Envelopes /\ queue' = [queue EXCEPT ![loop[l].env] = NoEntry]
    BY <1>1, <1>8 DEF Buried, Typed, Busy, Waits
  <2> QED
    BY <1>2, <1>8, <2>1 DEF EntryMade
<1>9. ASSUME NEW l \in Loops,
             FindNothing(l) \/ Execute(l) \/ Completed(l) \/ TimeOut(l) \/ ScheduleRetry(l) \/ DeadLetter(l)
      PROVE  EntryMade(d)
  <2>1. queue' = queue
    BY <1>9 DEF FindNothing, Execute, Completed, TimeOut, ScheduleRetry, DeadLetter, store
  <2> QED
    BY <2>1 DEF EntryMade
<1>10. ASSUME NEW c \in Callers, NEW e \in Envelopes, Enqueue(c, e) \/ Admit(c, e),
              call[c].pc # "enqueuing"
       PROVE  EntryMade(d)
  <2>1. UNCHANGED queue \/ Admit(c, e)
    BY <1>10 DEF Enqueue
  <2>2. CASE UNCHANGED queue
    BY <2>2 DEF EntryMade
  <2>3. CASE Admit(c, e) /\ ~Duplicate(queue, results, e)
    <3>1. queue' = [queue EXCEPT ![e] = FreshEntry]
      BY <2>3 DEF Admit
    <3>2. e # d => queue'[d] = queue[d]
      BY <1>2, <3>1
    <3>3. e = d => queue'[d] = FreshEntry /\ Admits(d)
      BY <1>2, <1>10, <2>3, <3>1 DEF Admits
    <3> QED
      BY <3>2, <3>3 DEF EntryMade
  <2>4. CASE Admit(c, e) /\ Duplicate(queue, results, e)
    BY <2>4 DEF Admit, EntryMade
  <2> QED
    BY <2>1, <2>2, <2>3, <2>4
<1>11. ASSUME NEW c \in Callers,
              \/ \E e \in Envelopes : Submit(c, e) \/ Requeue(c, e) \/ Cancel(c, e)
              \/ Serve(c) \/ CallFails(c)
       PROVE  EntryMade(d)
  <2>1. WaitEnds(c) \/ Requeued(c) => call[c].env \in Envelopes
    BY DEF WaitEnds, Requeued, ExecutorInv, Typed
  <2>2. \/ UNCHANGED queue
        \/ call[c].pc # "enqueuing" /\ \E e \in Envelopes : Enqueue(c, e) \/ Admit(c, e)
    BY <1>11, <2>1 DEF Serve, Submit, Requeue, Cancel, WaitEnds, Enqueued, Requeued, Cancelled, CallFails,
      store, Returned, CallAt
  <2>3. CASE UNCHANGED queue
    BY <2>3 DEF EntryMade
  <2> QED
    BY <1>10, <2>2, <2>3
<1>12. CASE Cleanup
  <2>1. queue' = [e \in Envelopes |-> IF queue[e].state = "completed" THEN NoEntry ELSE queue[e]]
    BY <1>12 DEF Cleanup
  <2>2. queue'[d] = IF queue[d].state = "completed" THEN NoEntry ELSE queue[d]
    BY <2>1
  <2> QED
    BY <1>12, <2>2 DEF EntryMade
<1>13. ASSUME NEW e \in Envelopes, Recover(e)
       PROVE  EntryMade(d)
  <2>1. CASE Block(e)
    <3>1. queue' = [queue EXCEPT ![e].state = "blocked"]
      BY <2>1 DEF Block
    <3>2. e # d => queue'[d] = queue[d]
      BY <1>1, <3>1
    <3>3. e = d => queue'[d] = [queue[d] EXCEPT !.state = "blocked"] /\ Recover(d) /\ Block(d)
      BY <1>1, <1>13, <2>1, <3>1
    <3> QED
      BY <3>2, <3>3 DEF EntryMade
  <2>2. CASE GiveUp(e)
    <3>1. queue' = [queue EXCEPT ![e] = NoEntry]
      BY <2>2 DEF GiveUp
    <3>2. e = d => Recover(d) /\ GiveUp(d)
      BY <1>13, <2>2
    <3> QED
      BY <1>2, <3>1, <3>2 DEF EntryMade
  <2>3. CASE Reset(e)
    <3> DEFINE q == [state |-> "queued", retries |-> queue[e].retries + 1]
    <3>1. queue' = [queue EXCEPT ![e] = q]
      BY <2>3 DEF Reset
    <3>2. e = d => Recover(d) /\ Reset(d) /\ q = [state |-> "queued", retries |-> queue[d].retries + 1]
      BY <1>13, <2>3
    <3> HIDE DEF q
    <3> QED
      BY <1>2, <3>1, <3>2 DEF EntryMade
  <2> QED
    BY <1>13, <2>1, <2>2, <2>3 DEF Recover
<1>14. ASSUME RetryTimer \/ Pause \/ Resume \/ Rebuild \/ (\E e \in Envelopes : LateAnswer(e)) \/ UNCHANGED vars
       PROVE  EntryMade(d)
  <2>1. queue' = queue
    BY <1>14 DEF RetryTimer, Pause, Resume, Rebuild, LateAnswer, vars, store
  <2> QED
    BY <2>1 DEF EntryMade
<1>15. ASSUME NEW l \in Loops, Attempt(l) \/ Answer(l) \/ LineFails(l)
       PROVE  EntryMade(d)
  BY <1>3, <1>4, <1>6, <1>7, <1>8, <1>9, <1>15 DEF Attempt, Answer
<1>16. CASE Crash
  BY <1>16 DEF EntryMade
<1> QED
  BY <1>11, <1>12, <1>13, <1>14, <1>15, <1>16 DEF Next

(* What a step may make of one caller.                                     *)
CallMade(c) ==
  \/ call'[c] = call[c]
  \/ call'[c] = Returned
  \/ \E e \in Envelopes :
       /\ call'[c] = CallAt("enqueuing", e) /\ call[c].pc # "enqueuing"
       /\ Admit(c, e) /\ ~Duplicate(queue, results, e)
  \/ \E e \in Envelopes :
       /\ call'[c] = CallAt("waiting", e)
       /\ Submit(c, e) \/ (Requeued(c) /\ call[c].env = e)
  \/ \E e \in Envelopes : call'[c] = CallAt("requeuing", e) /\ Requeue(c, e)
  \/ \E e \in Envelopes : call'[c] = CallAt("cancelling", e) /\ Cancel(c, e)

LEMMA CallChanges ==
  ASSUME ExecutorInv, [Next]_vars, NEW c \in Callers
  PROVE  CallMade(c)
<1>1. call \in [Callers -> CallRecord]
  BY DEF ExecutorInv, Typed
<1>2. ASSUME NEW b \in Callers, NEW r, call' = [call EXCEPT ![b] = r]
      PROVE  IF b = c THEN call'[c] = r ELSE call'[c] = call[c]
  BY <1>1, <1>2
<1>3. ASSUME call' = call
      PROVE  CallMade(c)
  BY <1>3 DEF CallMade
<1>4. ASSUME NEW b \in Callers, call' = [call EXCEPT ![b] = Returned]
      PROVE  CallMade(c)
  BY <1>2, <1>4 DEF CallMade
<1>5. ASSUME NEW b \in Callers, NEW e \in Envelopes, Admit(b, e), call[b].pc # "enqueuing"
      PROVE  CallMade(c)
  <2>1. CASE Duplicate(queue, results, e)
    BY <1>4, <1>5, <2>1 DEF Admit
  <2>2. CASE ~Duplicate(queue, results, e)
    <3>1. call' = [call EXCEPT ![b] = CallAt("enqueuing", e)]
      BY <1>5, <2>2 DEF Admit
    <3> QED
      BY <1>2, <1>5, <2>2, <3>1 DEF CallMade
  <2> QED
    BY <2>1, <2>2
<1>6. ASSUME NEW b \in Callers, NEW e \in Envelopes, Enqueue(b, e),
             Submit(b, e) \/ (Requeued(b) /\ call[b].env = e)
      PROVE  CallMade(c)
  <2> call[b].pc # "enqueuing"
    BY <1>6 DEF Submit, Requeued, Returned, CallAt
  <2>1. \/ Admit(b, e)
        \/ call' = [call EXCEPT ![b] = Returned]
        \/ call' = [call EXCEPT ![b] = CallAt("waiting", e)]
    BY <1>6 DEF Enqueue
  <2>2. CASE call' = [call EXCEPT ![b] = CallAt("waiting", e)]
    BY <1>2, <1>6, <2>2 DEF CallMade
  <2> QED
    BY <1>4, <1>5, <2>1, <2>2
<1>7. ASSUME NEW b \in Callers, NEW e \in Envelopes, Submit(b, e) \/ Requeue(b, e) \/ Cancel(b, e)
      PROVE  CallMade(c)
  <2>1. CASE Submit(b, e)
    BY <1>6, <2>1 DEF Submit
  <2>2. CASE Requeue(b, e)
    <3>1. call' = [call EXCEPT ![b] = CallAt("requeuing", e)]
      BY <2>2 DEF Requeue
    <3> QED
      BY <1>2, <2>2, <3>1 DEF CallMade
  <2>3. CASE Cancel(b, e)
    <3>1. call' = [call EXCEPT ![b] = CallAt("cancelling", e)]
      BY <2>3 DEF Cancel
    <3> QED
      BY <1>2, <2>3, <3>1 DEF CallMade
  <2> QED
    BY <1>7, <2>1, <2>2, <2>3
<1>8. ASSUME NEW b \in Callers, Serve(b) \/ CallFails(b)
      PROVE  CallMade(c)
  <2>1. CASE Enqueued(b) \/ Cancelled(b) \/ CallFails(b)
    BY <1>4, <2>1 DEF Enqueued, Cancelled, CallFails
  <2>2. CASE WaitEnds(b)
    <3>1. call[b].env \in Envelopes
      BY <2>2 DEF WaitEnds, ExecutorInv, Typed
    <3>2. call[b].pc # "enqueuing"
      BY <2>2 DEF WaitEnds
    <3> QED
      BY <1>4, <1>5, <2>2, <3>1, <3>2 DEF WaitEnds
  <2>3. CASE Requeued(b)
    <3>1. call[b].env \in Envelopes
      BY <2>3 DEF Requeued, ExecutorInv, Typed
    <3>2. Enqueue(b, call[b].env)
      BY <2>3 DEF Requeued
    <3> QED
      BY <1>6, <2>3, <3>1, <3>2
  <2> QED
    BY <1>8, <2>1, <2>2, <2>3 DEF Serve
<1>9. ASSUME NEW l \in Loops, Attempt(l) \/ Answer(l) \/ LineFails(l)
      PROVE  call' = call
  BY <1>9 DEF Attempt, Answer, LineFails, FindNothing, SkipExecuted, Begin, Execute, Completed,
    TimeOut, TimeoutHandled, ScheduleRetry, DeadLetter, Buried, Succeed, Fail
<1>10. ASSUME \/ RetryTimer \/ Pause \/ Resume \/ Cleanup \/ Rebuild
              \/ \E e \in Envelopes : LateAnswer(e) \/ Recover(e)
              \/ UNCHANGED vars
       PROVE  call' = call
  BY <1>10 DEF RetryTimer, Pause, Resume, Cleanup, Rebuild, LateAnswer, Recover, vars
<1>11. CASE Crash
  BY <1>11 DEF Crash, CallMade
<1> QED
  BY <1>3, <1>7, <1>8, <1>9, <1>10, <1>11 DEF Next

(* What a step may make of the last line of one envelope.                  *)
LineMade(d) ==
  \/ file'[d] = file[d]
  \/ \E l \in Loops :
       /\ loop[l].env = d /\ file'[d] = loop[l].line
       /\ Execute(l) \/ Completed(l) \/ ScheduleRetry(l) \/ DeadLetter(l)
  \/ \E c \in Callers : Enqueued(c) /\ call[c].env = d /\ file'[d] = FreshEntry
  \/ Rebuild
  \/ Recover(d) /\ Block(d) /\ file'[d] = queue'[d]

LEMMA LineChanges ==
  ASSUME ExecutorInv, [Next]_vars, NEW d \in Envelopes
  PROVE  LineMade(d)
<1>1. Typed /\ file \in [Envelopes -> Entry]
  BY DEF ExecutorInv, Typed
<1>2. ASSUME NEW e \in Envelopes, NEW q, file' = [file EXCEPT ![e] = q]
      PROVE  IF e = d THEN file'[d] = q ELSE file'[d] = file[d]
  BY <1>1, <1>2
<1>3. ASSUME NEW l \in Loops, Execute(l) \/ Completed(l) \/ ScheduleRetry(l) \/ DeadLetter(l)
      PROVE  LineMade(d)
  <2>1. loop[l].env \in Envelopes /\ file' = [file EXCEPT ![loop[l].env] = loop[l].line]
    BY <1>1, <1>3 DEF Execute, Completed, ScheduleRetry, DeadLetter, Typed, Busy, Waits
  <2> QED
    BY <1>2, <1>3, <2>1 DEF LineMade
<1>4. ASSUME NEW c \in Callers, Enqueued(c)
      PROVE  LineMade(d)
  <2>1. call[c].env \in Envelopes /\ file' = [file EXCEPT ![call[c].env] = FreshEntry]
    BY <1>1, <1>4 DEF Enqueued, Typed
  <2> QED
    BY <1>2, <1>4, <2>1 DEF LineMade
<1>5. ASSUME NEW e \in Envelopes, Recover(e)
      PROVE  LineMade(d)
  <2>1. CASE Block(e)
    <3>1. file' = [file EXCEPT ![e] = queue'[e]]
      BY <2>1 DEF Block
    <3>2. e # d => file'[d] = file[d]
      BY <1>1, <3>1
    <3>3. e = d => file'[d] = queue'[d] /\ Recover(d) /\ Block(d)
      BY <1>1, <1>5, <2>1, <3>1
    <3> QED
      BY <3>2, <3>3 DEF LineMade
  <2>2. CASE GiveUp(e) \/ Reset(e)
    BY <2>2 DEF GiveUp, Reset, LineMade
  <2> QED
    BY <1>5, <2>1, <2>2 DEF Recover
<1>6. CASE Rebuild
  BY <1>6 DEF LineMade
<1>7. CASE file' = file
  BY <1>7 DEF LineMade
<1>8. \/ \E l \in Loops : Execute(l) \/ Completed(l) \/ ScheduleRetry(l) \/ DeadLetter(l)
      \/ \E c \in Callers : Enqueued(c)
      \/ \E e \in Envelopes : Recover(e)
      \/ Rebuild \/ UNCHANGED file
  BY DEF Next, Attempt, Answer, Serve, LineFails, FindNothing, SkipExecuted, Begin, TimeOut,
    TimeoutHandled, Buried, Fail, Succeed, Submit, Requeue, Cancel, WaitEnds, Requeued, Cancelled,
    CallFails, RetryTimer, Pause, Resume, Cleanup, Crash, LateAnswer, store, vars
<1> QED
  BY <1>3, <1>4, <1>5, <1>6, <1>7, <1>8
-----------------------------------------------------------------------------
(* The types                                                               *)

MoreTyped ==
  /\ fifo \in Seq(Envelopes) /\ results \subseteq Envelopes
  /\ dlq \in [Envelopes -> DLQStates] /\ dlqFile \in [Envelopes -> DLQStates]
  /\ paused \in BOOLEAN
  /\ rebuild.pc \in {"none", "opening", "writing"}
  /\ recovering \subseteq Envelopes /\ orphans \subseteq Envelopes
  /\ overdue \in [Envelopes -> Nat] /\ starts \in [Envelopes -> Nat]
  /\ acked \subseteq Envelopes

LEMMA FifoTyped ==
  ASSUME ExecutorInv, MoreTyped, [Next]_vars
  PROVE  fifo' \in Seq(Envelopes)
<1>1. fifo \in Seq(Envelopes) /\ file \in [Envelopes -> Entry] /\ queue \in [Envelopes -> Entry]
  BY DEF MoreTyped, ExecutorInv, Typed
<1>2. \A e \in Envelopes : Without(fifo, e) \in Seq(Envelopes)
  BY <1>1, WithoutListed
<1>3. ASSUME NEW l \in Loops, (\E e \in Envelopes : SkipExecuted(l, e)) \/ Completed(l) \/ Buried(l)
      PROVE  fifo' \in Seq(Envelopes)
  <2>1. Completed(l) \/ Buried(l) => loop[l].env \in Envelopes
    BY DEF Completed, Buried, ExecutorInv, Typed, Busy, Waits
  <2>2. \E e \in Envelopes : fifo' = Without(fifo, e)
    BY <1>3, <2>1 DEF SkipExecuted, Completed, Buried
  <2> QED
    BY <1>2, <2>2
<1>4. ASSUME NEW e \in Envelopes, Admitting(e)
      PROVE  fifo' \in Seq(Envelopes)
  <2>1. fifo' = Append(fifo, e) \/ fifo' = fifo
    BY <1>4 DEF Admitting, Admit
  <2>2. Append(fifo, e) \in Seq(Envelopes)
    BY <1>1, Queueing
  <2> QED
    BY <1>1, <2>1, <2>2
<1>5. CASE Crash
  <2>1. fifo' \in Orders(file)
    BY <1>5 DEF Crash
  <2> QED
    BY <1>1, <2>1, Loading
<1>6. ASSUME NEW e \in Envelopes, GiveUp(e) \/ Reset(e)
      PROVE  fifo' \in Seq(Envelopes)
  <2>1. fifo' = Without(fifo, e) \/ fifo' = <<e>> \o Without(fifo, e)
    BY <1>6 DEF GiveUp, Reset
  <2>2. Without(fifo, e) \in Seq(Envelopes)
    BY <1>2
  <2>3. <<e>> \o Without(fifo, e) \in Seq(Envelopes)
    BY <2>2, Queueing
  <2> QED
    BY <2>1, <2>2, <2>3
<1> QED
  BY <1>1, <1>3, <1>4, <1>5, <1>6, FifoChanges

LEMMA LettersTyped ==
  ASSUME ExecutorInv, MoreTyped, [Next]_vars
  PROVE  dlq' \in [Envelopes -> DLQStates] /\ dlqFile' \in [Envelopes -> DLQStates]
<1>1. /\ dlq \in [Envelopes -> DLQStates] /\ dlqFile \in [Envelopes -> DLQStates]
      /\ {"absent", "dead_lettered", "requeued", "cancelled"} \subseteq DLQStates
  BY DEF MoreTyped, DLQStates
<1>2. \A l \in Loops : Busy(l) => loop[l].env \in Envelopes
  BY DEF ExecutorInv, Typed
<1>3. \A c \in Callers : call[c].pc # "returned" => call[c].env \in Envelopes
  BY DEF ExecutorInv, Typed
<1>4. dlq' \in [Envelopes -> DLQStates]
  <2>1. ASSUME NEW l \in Loops, DeadLetter(l)
        PROVE  dlq' \in [Envelopes -> DLQStates]
    BY <1>1, <2>1 DEF DeadLetter
  <2>2. ASSUME NEW c \in Callers, NEW e \in Envelopes, Requeue(c, e) \/ Cancel(c, e)
        PROVE  dlq' \in [Envelopes -> DLQStates]
    BY <1>1, <2>2 DEF Requeue, Cancel
  <2>3. Crash => dlq' \in [Envelopes -> DLQStates]
    BY <1>1 DEF Crash
  <2>4. ASSUME NEW e \in Envelopes, GiveUp(e)
        PROVE  dlq' \in [Envelopes -> DLQStates]
    BY <1>1, <2>4 DEF GiveUp
  <2> QED
    BY <1>1, <2>1, <2>2, <2>3, <2>4, LettersChange
<1>5. dlqFile' \in [Envelopes -> DLQStates]
  <2>1. ASSUME NEW l \in Loops, Buried(l)
        PROVE  dlqFile' \in [Envelopes -> DLQStates]
    BY <1>1, <2>1 DEF Buried
  <2>2. ASSUME NEW c \in Callers, Requeued(c) \/ Cancelled(c)
        PROVE  dlqFile' \in [Envelopes -> DLQStates]
    <3>1. /\ call[c].env \in Envelopes
          /\ \E s \in DLQStates : dlqFile' = Noted(dlqFile, call[c].env, s)
      BY <1>1, <1>3, <2>2 DEF Requeued, Cancelled
    <3> QED
      BY <1>1, <3>1 DEF Noted
  <2>3. ASSUME NEW e \in Envelopes, GiveUp(e)
        PROVE  dlqFile' \in [Envelopes -> DLQStates]
    BY <1>1, <2>3 DEF GiveUp
  <2> QED
    BY <1>1, <2>1, <2>2, <2>3, LetterFileChanges
<1> QED
  BY <1>4, <1>5

LEMMA MoreTypedStays ==
  ASSUME ExecutorInv, MoreTyped, [Next]_vars
  PROVE  MoreTyped'
<1>1. \A l \in Loops : Busy(l) => loop[l].env \in Envelopes
  BY DEF ExecutorInv, Typed
<1>2. \A c \in Callers : call[c].pc # "returned" => call[c].env \in Envelopes
  BY DEF ExecutorInv, Typed
<1>3. results' \subseteq Envelopes
  <2>1. ASSUME NEW l \in Loops, Succeed(l)
        PROVE  results' \subseteq Envelopes
    BY <1>1, <2>1 DEF Succeed, MoreTyped, Busy, Waits
  <2>2. Crash => results' \subseteq Envelopes
    BY DEF Crash
  <2> QED
    BY <2>1, <2>2, ResultsChange DEF MoreTyped
<1>4. paused' \in BOOLEAN
  BY WorldChanges DEF MoreTyped, Pause, Resume
<1>5. rebuild'.pc \in {"none", "opening", "writing"}
  <2>1. Cleanup => rebuild'.pc = "opening"
    BY DEF Cleanup
  <2>2. Crash => rebuild'.pc = "none"
    BY DEF Crash, NoRebuild
  <2>3. Rebuild => rebuild'.pc \in {"writing", "none"}
    <3>1. rebuild = [pc |-> rebuild.pc, lines |-> rebuild.lines]
      BY DEF ExecutorInv, Typed
    <3>2. ASSUME rebuild' = [rebuild EXCEPT !.pc = "writing"]
          PROVE  rebuild'.pc = "writing"
      BY <3>1, <3>2
    <3>3. NoRebuild.pc = "none"
      BY DEF NoRebuild
    <3> QED
      BY <3>2, <3>3 DEF Rebuild
  <2> QED
    BY <2>1, <2>2, <2>3, WorldChanges DEF MoreTyped
<1>6. recovering' \subseteq Envelopes /\ orphans' \subseteq Envelopes
  <2>1. Crash => recovering' \subseteq Envelopes /\ orphans' \subseteq Envelopes
    BY DEF Crash, InState
  <2>2. ASSUME NEW e \in Envelopes, Recover(e)
        PROVE  recovering' \subseteq Envelopes
    BY <2>2 DEF Recover, MoreTyped
  <2>3. /\ Crash \/ (\E e \in Envelopes : Recover(e)) \/ UNCHANGED recovering
        /\ Crash \/ UNCHANGED orphans
    BY WorldChanges
  <2>4. recovering' \subseteq Envelopes
    BY <2>1, <2>2, <2>3 DEF MoreTyped
  <2>5. orphans' \subseteq Envelopes
    BY <2>1, <2>3 DEF MoreTyped
  <2> QED
    BY <2>4, <2>5
<1>7. overdue' \in [Envelopes -> Nat]
  <2>1. ASSUME NEW l \in Loops, TimeOut(l)
        PROVE  overdue' \in [Envelopes -> Nat]
    <3>1. overdue' = [overdue EXCEPT ![loop[l].env] = @ + 1]
      BY <2>1 DEF TimeOut
    <3>2. overdue \in [Envelopes -> Nat] /\ loop[l].env \in Envelopes
      BY <1>1, <2>1 DEF MoreTyped, TimeOut, Busy, Waits
    <3> QED
      BY <3>1, <3>2
  <2>2. Crash => overdue' \in [Envelopes -> Nat]
    BY DEF Crash, Zeros
  <2>3. ASSUME NEW e \in Envelopes, LateAnswer(e)
        PROVE  overdue' \in [Envelopes -> Nat]
    <3>1. overdue[e] \in Nat /\ overdue[e] - 1 \in Nat
      BY <2>3 DEF LateAnswer, MoreTyped
    <3> QED
      BY <2>3, <3>1 DEF LateAnswer, MoreTyped
  <2> QED
    BY <2>1, <2>2, <2>3, WorldChanges DEF MoreTyped
<1>8. starts' \in [Envelopes -> Nat]
  BY WorldChanges DEF MoreTyped, Execute
<1>9. acked' \subseteq Envelopes
  <2>1. ASSUME NEW c \in Callers, Enqueued(c)
        PROVE  acked' \subseteq Envelopes
    BY <1>2, <2>1 DEF Enqueued, MoreTyped
  <2> QED
    BY <2>1, WorldChanges DEF MoreTyped
<1> QED
  BY <1>3, <1>4, <1>5, <1>6, <1>7, <1>8, <1>9, FifoTyped, LettersTyped DEF MoreTyped

LEMMA MoreTypedAtFirst == Init => MoreTyped
<1> SUFFICES ASSUME Init PROVE MoreTyped
  OBVIOUS
<1>1. fifo \in Seq(Envelopes)
  BY DEF Init
<1>2. rebuild.pc = "none"
  BY DEF Init, NoRebuild
<1> QED
  BY <1>1, <1>2 DEF Init, MoreTyped, NoLetters, DLQStates, Zeros

TypedInv == ExecutorInv /\ MoreTyped

LEMMA TypedAlways == Spec => []TypedInv
<1>1. Init => TypedInv
  BY Initially, MoreTypedAtFirst DEF TypedInv
<1>2. TypedInv /\ [Next]_vars => TypedInv'
  BY Inductive, MoreTypedStays DEF TypedInv
<1> QED
  BY <1>1, <1>2, PTL DEF Spec

(* Every variable keeps its type, the fifo among them, from which          *)
(* envelopes are taken wherever they stand.                                *)
THEOREM TypesHold == Spec => []TypeOK
<1>1. TypedInv => TypeOK
  <2> SUFFICES ASSUME TypedInv PROVE TypeOK
    OBVIOUS
  <2>1. rebuild \in [pc : {"none", "opening", "writing"}, lines : [Envelopes -> Entry]]
    BY DEF TypedInv, ExecutorInv, Typed, MoreTyped
  <2>2. Waits \cup Resting = Waits \cup {"idle", "scheduled"}
    BY DEF Resting
  <2>3. loop \in [Loops -> [pc : Waits \cup {"idle", "scheduled"}, env : Envelopes \cup {None},
                            line : Entry, why : {"none", "transient", "permanent"}]]
    BY <2>2 DEF TypedInv, ExecutorInv, Typed, LoopRecord
  <2> QED
    BY <2>1, <2>3 DEF TypeOK, TypedInv, ExecutorInv, Typed, MoreTyped, CallRecord
<1> QED
  BY <1>1, TypedAlways, PTL
-----------------------------------------------------------------------------
(* What is queued can be found                                             *)

AnswersCached == \A l \in Loops : loop[l].pc = "completing" => loop[l].env \in results

QueuedIsListed ==
  \A e \in InState(queue, "queued") : e \in results \/ e \in Listed(fifo)

ListedInv == TypedInv /\ AnswersCached /\ QueuedIsListed

LEMMA Placed ==
  \A pc, e, line, why :
    /\ LoopAt(pc, e, line, why).pc = pc /\ LoopAt(pc, e, line, why).env = e
    /\ LoopAt(pc, e, line, why).line = line
BY DEF LoopAt

LEMMA AnswersStayCached ==
  ASSUME ListedInv, [Next]_vars
  PROVE  AnswersCached'
<1> SUFFICES ASSUME NEW l \in Loops, loop'[l].pc = "completing"
             PROVE  loop'[l].env \in results'
  BY DEF AnswersCached
<1>1. LoopMade(l)
  BY LoopChanges DEF ListedInv, TypedInv
<1>2. ~Crash
  <2>1. Crash => loop'[l] = Idle
    BY DEF Crash
  <2> QED
    BY <2>1, Rests
<1>3. loop'[l] = loop[l] \/ (Succeed(l) /\ loop'[l].env = loop[l].env)
  BY <1>1, Placed DEF LoopMade, Resting
<1>4. CASE Succeed(l)  /\ loop'[l].env = loop[l].env
  <2>1. loop'[l].env = loop[l].env
    BY <1>4
  <2> QED
    BY <1>4, <2>1 DEF Succeed
<1>5. CASE loop'[l] = loop[l]
  <2>1. loop[l].env \in results
    BY <1>5 DEF ListedInv, AnswersCached
  <2>2. results \subseteq results'
    BY <1>2, ResultsChange DEF Succeed
  <2> QED
    BY <1>5, <2>1, <2>2
<1> QED
  BY <1>3, <1>4, <1>5

LEMMA QueuedStaysListed ==
  ASSUME ListedInv, [Next]_vars
  PROVE  QueuedIsListed'
<1> SUFFICES ASSUME NEW d \in Envelopes, queue'[d].state = "queued", d \notin results'
             PROVE  d \in Listed(fifo)'
  BY DEF QueuedIsListed, InState
<1>1. /\ ExecutorInv /\ MoreTyped /\ fifo \in Seq(Envelopes)
      /\ file \in [Envelopes -> Entry] /\ queue \in [Envelopes -> Entry]
  BY DEF ListedInv, TypedInv, ExecutorInv, Typed, MoreTyped
<1>2. EntryMade(d)
  BY <1>1, EntryChanges
<1>3. \A e \in Envelopes : /\ Without(fifo, e) \in Seq(Envelopes)
                           /\ Listed(Without(fifo, e)) = Listed(fifo) \ {e}
  BY <1>1, WithoutListed
<1>4. CASE Crash
  <2>1. queue' = file /\ fifo' \in Orders(file)
    BY <1>4 DEF Crash
  <2>2. Listed(fifo') = InState(file, "queued")
    BY <1>1, <2>1, Loading
  <2> QED
    BY <2>1, <2>2 DEF InState, Listed
<1>5. CASE Recover(d) /\ Reset(d)
  <2>1. fifo' = <<d>> \o Without(fifo, d)
    BY <1>5 DEF Reset
  <2>2. d \in Listed(fifo')
    BY <1>3, <2>1, Queueing
  <2> QED
    BY <2>2 DEF Listed
<1>6. CASE Admits(d)
  <2>1. fifo' = Append(fifo, d)
    BY <1>6 DEF Admits, Admit
  <2>2. Listed(Append(fifo, d)) = Listed(fifo) \cup {d}
    BY <1>1, Queueing
  <2>3. d \in Listed(fifo')
    BY <2>1, <2>2
  <2> QED
    BY <2>3 DEF Listed
<1>7. CASE queue'[d] = queue[d] /\ ~Crash
  <2>1. results \subseteq results'
    BY <1>7, ResultsChange DEF Succeed
  <2>2. d \in Listed(fifo)
    BY <1>7, <2>1 DEF ListedInv, QueuedIsListed, InState
  <2>3. ASSUME NEW e \in Envelopes, fifo' = Without(fifo, e), e # d
        PROVE  d \in Listed(fifo')
    BY <1>3, <2>2, <2>3
  <2>4. ASSUME NEW l \in Loops, (\E e \in Envelopes : SkipExecuted(l, e)) \/ Completed(l) \/ Buried(l)
        PROVE  d \in Listed(fifo')
    <3>1. ASSUME NEW e \in Envelopes, SkipExecuted(l, e)
          PROVE  d \in Listed(fifo')
      <4>1. fifo' = Without(fifo, e) /\ queue' = [queue EXCEPT ![e] = NoEntry]
        BY <3>1 DEF SkipExecuted
      <4>2. e # d
        BY <1>1, <4>1, Blank
      <4> QED
        BY <2>3, <4>1, <4>2
    <3>2. CASE Completed(l)
      <4>1. loop[l].env \in Envelopes /\ loop[l].env \in results /\ fifo' = Without(fifo, loop[l].env)
        BY <3>2 DEF Completed, ListedInv, TypedInv, ExecutorInv, Typed, AnswersCached, Busy, Waits
      <4>2. loop[l].env # d
        BY <2>1, <4>1
      <4> QED
        BY <2>3, <4>1, <4>2
    <3>3. CASE Buried(l)
      <4>1. /\ loop[l].env \in Envelopes /\ fifo' = Without(fifo, loop[l].env)
            /\ queue' = [queue EXCEPT ![loop[l].env] = NoEntry]
        BY <3>3 DEF Buried, ListedInv, TypedInv, ExecutorInv, Typed, Busy, Waits
      <4>2. loop[l].env # d
        BY <1>1, <4>1, Blank
      <4> QED
        BY <2>3, <4>1, <4>2
    <3> QED
      BY <2>4, <3>1, <3>2, <3>3
  <2>5. ASSUME NEW e \in Envelopes, Admitting(e)
        PROVE  d \in Listed(fifo')
    <3>1. fifo' = Append(fifo, e) \/ fifo' = fifo
      BY <2>5 DEF Admitting, Admit
    <3> QED
      BY <1>1, <2>2, <3>1, Queueing
  <2>6. ASSUME NEW e \in Envelopes, Recover(e), GiveUp(e) \/ Reset(e)
        PROVE  d \in Listed(fifo')
    <3>1. CASE e = d
      <4>1. CASE Reset(d)
        BY <1>5, <2>6, <3>1, <4>1 DEF Listed
      <4>2. CASE GiveUp(d)
        <5>1. queue'[d] = NoEntry
          BY <1>1, <4>2 DEF GiveUp
        <5> QED
          BY <5>1, Blank
      <4> QED
        BY <2>6, <3>1, <4>1, <4>2
    <3>2. CASE e # d
      <4>1. fifo' = Without(fifo, e) \/ fifo' = <<e>> \o Without(fifo, e)
        BY <2>6 DEF GiveUp, Reset
      <4>2. Without(fifo, e) \in Seq(Envelopes) /\ d \in Listed(Without(fifo, e))
        BY <1>3, <2>2, <3>2
      <4>3. Listed(<<e>> \o Without(fifo, e)) = Listed(Without(fifo, e)) \cup {e}
        BY <4>2, Queueing
      <4> QED
        BY <4>1, <4>2, <4>3
    <3> QED
      BY <3>1, <3>2
  <2>7. d \in Listed(fifo')
    BY <1>1, <1>7, <2>2, <2>4, <2>5, <2>6, FifoChanges
  <2> QED
    BY <2>7 DEF Listed
<1>8. queue'[d].state = "queued" =>
        \/ queue'[d] = queue[d] \/ Crash \/ (Recover(d) /\ Reset(d))
        \/ Admits(d)
  <2>1. \A s \in {"executing", "blocked"} : [queue[d] EXCEPT !.state = s].state = s
    <3>1. queue[d] \in Entry
      BY <1>1
    <3> QED
      BY <3>1, Marks DEF States
  <2> QED
    BY <1>2, <2>1, Blank DEF EntryMade
<1> QED
  BY <1>4, <1>5, <1>6, <1>7, <1>8

(* A queued envelope stands in the fifo, or its result is cached, however  *)
(* completions, clean-ups, requeues and crashes interleave.                *)
THEOREM Reachable == Spec => []QueuedIsReachable
<1>1. Init => AnswersCached /\ QueuedIsListed
  <2> SUFFICES ASSUME Init PROVE AnswersCached /\ QueuedIsListed
    OBVIOUS
  <2>1. AnswersCached
    BY Rests DEF Init, AnswersCached
  <2>2. QueuedIsListed
    BY Blank DEF Init, QueuedIsListed, InState, Nothing
  <2> QED
    BY <2>1, <2>2
<1>2. TypedInv /\ AnswersCached /\ QueuedIsListed /\ [Next]_vars => AnswersCached' /\ QueuedIsListed'
  BY AnswersStayCached, QueuedStaysListed DEF ListedInv
<1>3. QueuedIsListed => QueuedIsReachable
  BY DEF QueuedIsListed, QueuedIsReachable, Listed
<1> QED
  BY <1>1, <1>2, <1>3, TypedAlways, PTL DEF Spec

-----------------------------------------------------------------------------
(* What was acknowledged is kept                                           *)

Held(e) == starts[e] > 0 \/ queue[e].state # "absent" \/ dlq[e] # "absent"

ResultsStarted == \A e \in results : starts[e] > 0
RunningStarted == \A l \in Loops : loop[l].pc = "running" => starts[loop[l].env] > 0
BuryingIsLettered == \A l \in Loops : loop[l].pc = "burying" => dlq[loop[l].env] # "absent"

(* Without crashes what has completed was started by this process.         *)
CompletedStarted ==
  Budget["crashes"] = 0 => \A e \in InState(queue, "completed") : starts[e] > 0

AckedIsHeld == \A e \in acked : Held(e)
EnqueuingIsHeld == \A c \in Callers : call[c].pc = "enqueuing" => Held(call[c].env)

(* Without clean-ups no line says absent once an envelope was acknowledged. *)
AckedIsOnFile ==
  Budget["cleanups"] = 0 =>
    /\ rebuild.pc = "none"
    /\ \A l \in Loops : loop[l].pc \in {"marking", "completing", "failing"} => loop[l].line.state # "absent"
    /\ \A e \in acked : file[e].state # "absent"

KeptInv ==
  /\ TypedInv /\ ResultsStarted /\ RunningStarted /\ BuryingIsLettered /\ CompletedStarted
  /\ AckedIsHeld /\ EnqueuingIsHeld /\ AckedIsOnFile

OneKindSpared == Budget["cleanups"] = 0 \/ Budget["crashes"] = 0

LEMMA Unbudgeted ==
  ASSUME TypedInv
  PROVE  /\ Budget["cleanups"] = 0 => ~Cleanup
         /\ Budget["crashes"] = 0 => ~Crash
<1>1. spent["cleanups"] \in Nat /\ spent["crashes"] \in Nat
  BY DEF TypedInv, ExecutorInv, Typed, Kinds
<1> QED
  BY <1>1 DEF Cleanup, Crash, Spend

LEMMA StartsGrow ==
  ASSUME TypedInv, [Next]_vars, NEW e \in Envelopes
  PROVE  /\ starts[e] \in Nat /\ starts'[e] \in Nat /\ starts'[e] >= starts[e]
         /\ \A l \in Loops : Execute(l) /\ loop[l].env = e => starts'[e] = starts[e] + 1
<1>1. starts \in [Envelopes -> Nat]
  BY DEF TypedInv, MoreTyped
<1>2. ASSUME NEW l \in Loops, Execute(l)
      PROVE  /\ starts'[e] \in Nat /\ starts'[e] >= starts[e]
             /\ loop[l].env = e => starts'[e] = starts[e] + 1
  <2>1. starts' = [starts EXCEPT ![loop[l].env] = @ + 1]
    BY <1>2 DEF Execute
  <2>2. loop[l].env = e => starts'[e] = starts[e] + 1
    BY <1>1, <2>1
  <2>3. loop[l].env # e => starts'[e] = starts[e]
    BY <1>1, <2>1
  <2>4. starts[e] \in Nat
    BY <1>1
  <2> QED
    BY <2>2, <2>3, <2>4
<1>3. (\E l \in Loops : Execute(l)) \/ UNCHANGED starts
  BY WorldChanges
<1>4. ASSUME UNCHANGED starts
      PROVE  starts'[e] \in Nat /\ starts'[e] >= starts[e]
  BY <1>1, <1>4
<1> QED
  BY <1>1, <1>2, <1>3, <1>4

(* A dead letter is not forgotten by the process that has it.              *)
LEMMA LettersStay ==
  ASSUME TypedInv, [Next]_vars, ~Crash, NEW e \in Envelopes, dlq[e] # "absent"
  PROVE  dlq'[e] # "absent"
<1>1. dlq \in [Envelopes -> DLQStates]
  BY DEF TypedInv, MoreTyped
<1>2. ASSUME NEW d, NEW s, s # "absent", dlq' = [dlq EXCEPT ![d] = s]
      PROVE  dlq'[e] # "absent"
  BY <1>1, <1>2
<1>3. ASSUME NEW l \in Loops, DeadLetter(l)
      PROVE  dlq'[e] # "absent"
  BY <1>2, <1>3 DEF DeadLetter
<1>4. ASSUME NEW c \in Callers, NEW d \in Envelopes, Requeue(c, d) \/ Cancel(c, d)
      PROVE  dlq'[e] # "absent"
  BY <1>2, <1>4 DEF Requeue, Cancel
<1>5. ASSUME NEW d \in Envelopes, GiveUp(d)
      PROVE  dlq'[e] # "absent"
  BY <1>2, <1>5 DEF GiveUp
<1> QED
  BY <1>3, <1>4, <1>5, LettersChange

LEMMA HeldStays ==
  ASSUME KeptInv, OneKindSpared, [Next]_vars, ~Crash, NEW e \in Envelopes, Held(e)
  PROVE  Held(e)'
<1>1. TypedInv /\ ExecutorInv /\ queue[e] \in Entry /\ dlq \in [Envelopes -> DLQStates]
  BY DEF KeptInv, TypedInv, ExecutorInv, Typed, MoreTyped
<1>2. starts[e] > 0 => starts'[e] > 0
  BY <1>1, StartsGrow
<1>3. dlq[e] # "absent" => dlq'[e] # "absent"
  BY <1>1, LettersStay
<1>4. ASSUME queue[e].state # "absent", queue'[e] = NoEntry
      PROVE  starts'[e] > 0 \/ dlq'[e] # "absent"
  <2>1. \/ queue[e] = NoEntry
        \/ \E l \in Loops : SkipExecuted(l, e) \/ (Buried(l) /\ loop[l].env = e)
        \/ Cleanup /\ queue[e].state = "completed"
        \/ GiveUp(e)
    <3>1. \A s \in {"executing", "blocked"} : [queue[e] EXCEPT !.state = s].state = s
      BY <1>1, Marks DEF States
    <3>2. EntryMade(e)
      BY <1>1, EntryChanges
    <3>3. NoEntry.state = "absent" /\ FreshEntry.state = "queued"
      BY Blank DEF FreshEntry
    <3>4. [state |-> "queued", retries |-> queue[e].retries + 1] # NoEntry
      BY <3>3
    <3> QED
      BY <1>4, <3>1, <3>2, <3>3, <3>4 DEF EntryMade
  <2>2. queue[e] # NoEntry
    BY <1>4, Blank
  <2>3. ASSUME NEW l \in Loops, SkipExecuted(l, e)
        PROVE  starts[e] > 0
    BY <2>3 DEF SkipExecuted, AlreadyExecuted, KeptInv, ResultsStarted
  <2>4. ASSUME NEW l \in Loops, Buried(l), loop[l].env = e
        PROVE  dlq[e] # "absent"
    BY <2>4 DEF Buried, KeptInv, BuryingIsLettered
  <2>5. CASE Cleanup /\ queue[e].state = "completed"
    <3>1. Budget["crashes"] = 0
      BY <1>1, <2>5, Unbudgeted DEF OneKindSpared
    <3> QED
      BY <1>2, <2>5, <3>1 DEF KeptInv, CompletedStarted, InState
  <2>6. CASE GiveUp(e)
    BY <1>1, <2>6 DEF GiveUp
  <2> QED
    BY <1>2, <1>3, <2>1, <2>2, <2>3, <2>4, <2>5, <2>6
<1>5. ASSUME queue[e].state # "absent", queue'[e] # NoEntry
      PROVE  queue'[e].state # "absent"
  <2>1. queue[e].retries \in Nat
    BY <1>1 DEF Entry
  <2>2. \A s \in {"executing", "blocked"} : [queue[e] EXCEPT !.state = s].state = s
    BY <1>1, Marks DEF States
  <2>3. EntryMade(e)
    BY <1>1, EntryChanges
  <2>4. FreshEntry.state = "queued"
    BY DEF FreshEntry
  <2>5. [state |-> "queued", retries |-> queue[e].retries + 1].state = "queued"
    OBVIOUS
  <2> QED
    BY <1>5, <2>2, <2>3, <2>4, <2>5 DEF EntryMade
<1> QED
  BY <1>2, <1>3, <1>4, <1>5 DEF Held

(* After a crash the file, or the file of the dead letters, has it.        *)
LEMMA CrashesKeepAcked ==
  ASSUME KeptInv, OneKindSpared, [Next]_vars, Crash
  PROVE  AckedIsHeld' /\ EnqueuingIsHeld'
<1>1. Budget["cleanups"] = 0
  BY Unbudgeted DEF OneKindSpared, KeptInv
<1>2. queue' = file /\ acked' = acked /\ call' = [c \in Callers |-> Returned]
  BY DEF Crash
<1>3. \A e \in acked : file[e].state # "absent"
  BY <1>1 DEF KeptInv, AckedIsOnFile
<1>4. AckedIsHeld'
  BY <1>2, <1>3 DEF AckedIsHeld, Held
<1>5. EnqueuingIsHeld'
  BY <1>2 DEF EnqueuingIsHeld, Returned, CallAt
<1> QED
  BY <1>4, <1>5

LEMMA LoopsKeep ==
  ASSUME KeptInv, [Next]_vars
  PROVE  ResultsStarted' /\ RunningStarted' /\ BuryingIsLettered'
<1>1. TypedInv /\ ExecutorInv /\ results \subseteq Envelopes
  BY DEF KeptInv, TypedInv, MoreTyped
<1>2. \A l \in Loops : Busy(l) => loop[l].env \in Envelopes
  BY <1>1 DEF ExecutorInv, Typed
<1>3. \A e \in Envelopes : starts[e] > 0 => starts'[e] > 0
  BY <1>1, StartsGrow
<1>4. ResultsStarted'
  <2>1. ASSUME NEW l \in Loops, Succeed(l), NEW e \in results'
        PROVE  starts'[e] > 0
    <3>1. loop[l].env \in Envelopes /\ starts[loop[l].env] > 0
      BY <1>2, <2>1 DEF Succeed, KeptInv, RunningStarted, Busy, Waits
    <3>2. e \in results \/ e = loop[l].env
      BY <2>1 DEF Succeed
    <3> QED
      BY <1>1, <1>3, <3>1, <3>2 DEF KeptInv, ResultsStarted
  <2>2. Crash => results' = {}
    BY DEF Crash
  <2>3. ASSUME UNCHANGED results
        PROVE  ResultsStarted'
    BY <1>1, <1>3, <2>3 DEF KeptInv, ResultsStarted
  <2> QED
    BY <2>1, <2>2, <2>3, ResultsChange DEF ResultsStarted
<1>5. RunningStarted'
  <2> SUFFICES ASSUME NEW l \in Loops, loop'[l].pc = "running"
               PROVE  starts'[loop'[l].env] > 0
    BY DEF RunningStarted
  <2>1. LoopMade(l)
    BY <1>1, LoopChanges
  <2>2. loop'[l] = loop[l] \/ (Execute(l) /\ loop'[l].env = loop[l].env)
    BY <2>1, Placed DEF LoopMade, Resting
  <2>3. CASE loop'[l] = loop[l]
    BY <1>2, <1>3, <2>3 DEF KeptInv, RunningStarted, Busy, Waits
  <2>4. CASE Execute(l) /\ loop'[l].env = loop[l].env
    <3>1. loop[l].env \in Envelopes
      BY <1>2, <2>4 DEF Execute, Busy, Waits
    <3>2. /\ starts[loop[l].env] \in Nat
          /\ starts'[loop[l].env] = starts[loop[l].env] + 1
      BY <1>1, <2>4, <3>1, StartsGrow
    <3> QED
      BY <2>4, <3>2
  <2> QED
    BY <2>2, <2>3, <2>4
<1>6. BuryingIsLettered'
  <2> SUFFICES ASSUME NEW l \in Loops, loop'[l].pc = "burying"
               PROVE  dlq'[loop'[l].env] # "absent"
    BY DEF BuryingIsLettered
  <2>1. LoopMade(l)
    BY <1>1, LoopChanges
  <2>2. loop'[l] = loop[l] \/ (DeadLetter(l) /\ loop'[l].env = loop[l].env)
    BY <2>1, Placed DEF LoopMade, Resting
  <2>3. CASE loop'[l] = loop[l]
    <3>1. ~Crash
      <4>1. Crash => loop'[l] = Idle
        BY DEF Crash
      <4> QED
        BY <4>1, Rests
    <3>2. loop[l].env \in Envelopes /\ dlq[loop[l].env] # "absent"
      BY <1>2, <2>3 DEF KeptInv, BuryingIsLettered, Busy, Waits
    <3> QED
      BY <1>1, <2>3, <3>1, <3>2, LettersStay
  <2>4. CASE DeadLetter(l) /\ loop'[l].env = loop[l].env
    BY <1>1, <1>2, <2>4 DEF DeadLetter, Busy, Waits, TypedInv, MoreTyped
  <2> QED
    BY <2>2, <2>3, <2>4
<1> QED
  BY <1>4, <1>5, <1>6

LEMMA CompletionsKeep ==
  ASSUME KeptInv, [Next]_vars
  PROVE  CompletedStarted'
<1> SUFFICES ASSUME Budget["crashes"] = 0, NEW e \in Envelopes, queue'[e].state = "completed"
             PROVE  starts'[e] > 0
  BY DEF CompletedStarted, InState
<1>1. TypedInv /\ ExecutorInv /\ ~Crash /\ queue[e] \in Entry
  BY Unbudgeted DEF KeptInv, TypedInv, ExecutorInv, Typed
<1>2. starts[e] > 0 => starts'[e] > 0
  BY <1>1, StartsGrow
<1>3. \A s \in {"executing", "blocked"} : [queue[e] EXCEPT !.state = s].state = s
  BY <1>1, Marks DEF States
<1>4. EntryMade(e)
  BY <1>1, EntryChanges
<1>5. FreshEntry.state = "queued" /\ NoEntry.state = "absent"
  BY Blank DEF FreshEntry
<1>6. [state |-> "queued", retries |-> queue[e].retries + 1].state = "queued"
  OBVIOUS
<1>7. queue'[e] = queue[e] \/ \E l \in Loops : Succeed(l) /\ loop[l].env = e
  BY <1>1, <1>3, <1>4, <1>5, <1>6 DEF EntryMade
<1>8. ASSUME NEW l \in Loops, Succeed(l), loop[l].env = e
      PROVE  starts[e] > 0
  BY <1>8 DEF Succeed, KeptInv, RunningStarted
<1>9. CASE queue'[e] = queue[e]
  BY <1>2, <1>9 DEF KeptInv, CompletedStarted, InState
<1> QED
  BY <1>2, <1>7, <1>8, <1>9

LEMMA FilesKeep ==
  ASSUME KeptInv, [Next]_vars
  PROVE  AckedIsOnFile'
<1> SUFFICES ASSUME Budget["cleanups"] = 0
             PROVE  /\ rebuild'.pc = "none"
                    /\ \A l \in Loops : loop'[l].pc \in {"marking", "completing", "failing"}
                                          => loop'[l].line.state # "absent"
                    /\ \A e \in acked' : file'[e].state # "absent"
  BY DEF AckedIsOnFile
<1>1. TypedInv /\ ExecutorInv /\ Typed /\ ~Cleanup /\ queue' \in [Envelopes -> Entry]
  BY Unbudgeted, Inductive DEF KeptInv, TypedInv, ExecutorInv, Typed
<1>2. /\ rebuild.pc = "none"
      /\ \A l \in Loops : loop[l].pc \in {"marking", "completing", "failing"} => loop[l].line.state # "absent"
      /\ \A e \in acked : file[e].state # "absent"
  BY DEF KeptInv, AckedIsOnFile
<1>3. ~Rebuild
  BY <1>2 DEF Rebuild
<1>4. rebuild'.pc = "none"
  <2>1. Crash => rebuild'.pc = "none"
    BY DEF Crash, NoRebuild
  <2> QED
    BY <1>1, <1>2, <1>3, <2>1, WorldChanges
<1>5. ASSUME NEW l \in Loops, loop'[l].pc \in {"marking", "completing", "failing"}
      PROVE  loop'[l].line.state # "absent"
  <2>1. LoopMade(l)
    BY <1>1, LoopChanges
  <2>2. CASE loop'[l] = loop[l]
    BY <1>2, <1>5, <2>2
  <2>3. ASSUME NEW e \in Envelopes, Begin(l, e), loop'[l] = LoopAt("marking", e, queue'[e], "none")
        PROVE  loop'[l].line.state # "absent"
    <3>1. queue' = [queue EXCEPT ![e].state = "executing"]
      BY <2>3 DEF Begin
    <3>2. queue'[e].state = "executing"
      BY <1>1, <3>1 DEF Typed, Entry
    <3> QED
      BY <2>3, <3>2, Placed
  <2>4. CASE Succeed(l) /\ loop'[l] = LoopAt("completing", loop[l].env, queue'[loop[l].env], "none")
    <3>1. loop[l].env \in Envelopes /\ queue' = [queue EXCEPT ![loop[l].env].state = "completed"]
      BY <1>1, <2>4 DEF Succeed, Typed, Busy, Waits
    <3>2. queue'[loop[l].env].state = "completed"
      BY <1>1, <3>1 DEF Typed, Entry
    <3> QED
      BY <2>4, <3>2, Placed
  <2>5. CASE /\ queue'[loop[l].env].state = "failed"
             /\ \E why \in {"transient", "permanent"} :
                  loop'[l] = LoopAt("failing", loop[l].env, queue'[loop[l].env], why)
    BY <2>5, Placed
  <2>6. \/ loop'[l] = loop[l]
        \/ \E e \in Envelopes : Begin(l, e) /\ loop'[l] = LoopAt("marking", e, queue'[e], "none")
        \/ Succeed(l) /\ loop'[l] = LoopAt("completing", loop[l].env, queue'[loop[l].env], "none")
        \/ /\ queue'[loop[l].env].state = "failed"
           /\ \E why \in {"transient", "permanent"} :
                loop'[l] = LoopAt("failing", loop[l].env, queue'[loop[l].env], why)
    BY <1>5, <2>1, Placed DEF LoopMade, Resting
  <2> QED
    BY <2>2, <2>3, <2>4, <2>5, <2>6
<1>6. ASSUME NEW e \in acked'
      PROVE  file'[e].state # "absent"
  <2>1. FreshEntry.state = "queued"
    BY DEF FreshEntry
  <2>2. ASSUME NEW c \in Callers, Enqueued(c), call[c].env = e
        PROVE  file'[e] = FreshEntry
    BY <1>1, <2>2 DEF Enqueued, Typed
  <2>3. e \in acked \/ \E c \in Callers : Enqueued(c) /\ call[c].env = e
    BY <1>6, WorldChanges DEF Enqueued
  <2>4. CASE e \in acked
    <3>1. e \in Envelopes /\ file[e].state # "absent"
      BY <1>1, <1>2, <2>4 DEF TypedInv, MoreTyped
    <3>2. LineMade(e)
      BY <1>1, <3>1, LineChanges
    <3>3. ASSUME NEW l \in Loops, Execute(l) \/ Completed(l) \/ ScheduleRetry(l) \/ DeadLetter(l)
          PROVE  loop[l].line.state # "absent"
      BY <1>2, <3>3 DEF Execute, Completed, ScheduleRetry, DeadLetter
    <3>4. Block(e) => queue'[e].state = "blocked"
      BY <1>1, <3>1 DEF Block, Typed, Entry
    <3> QED
      BY <1>3, <2>1, <3>1, <3>2, <3>3, <3>4 DEF LineMade
  <2> QED
    BY <2>1, <2>2, <2>3, <2>4
<1> QED
  BY <1>4, <1>5, <1>6

LEMMA AckedStaysHeld ==
  ASSUME KeptInv, OneKindSpared, [Next]_vars
  PROVE  AckedIsHeld' /\ EnqueuingIsHeld'
<1>1. TypedInv /\ ExecutorInv /\ Typed /\ acked \subseteq Envelopes
  BY DEF KeptInv, TypedInv, ExecutorInv, MoreTyped
<1>2. CASE Crash
  BY <1>2, CrashesKeepAcked
<1>3. ASSUME ~Crash, NEW e \in acked'
      PROVE  Held(e)'
  <2>1. e \in acked \/ \E c \in Callers : Enqueued(c) /\ call[c].env = e
    BY <1>3, WorldChanges DEF Enqueued
  <2>2. e \in Envelopes /\ Held(e)
    <3>1. CASE e \in acked
      BY <1>1, <3>1 DEF KeptInv, AckedIsHeld
    <3>2. ASSUME NEW c \in Callers, Enqueued(c), call[c].env = e
          PROVE  e \in Envelopes /\ Held(e)
      BY <1>1, <3>2 DEF Enqueued, Typed, KeptInv, EnqueuingIsHeld
    <3> QED
      BY <2>1, <3>1, <3>2
  <2> QED
    BY <1>3, <2>2, HeldStays
<1>4. ASSUME ~Crash, NEW c \in Callers, call'[c].pc = "enqueuing"
      PROVE  Held(call[c].env)'
  <2>1. CallMade(c)
    BY <1>1, CallChanges
  <2>2. \A pc, e : CallAt(pc, e).pc = pc /\ CallAt(pc, e).env = e
    BY DEF CallAt
  <2>3. Returned.pc = "returned"
    BY DEF Returned, CallAt
  <2>4. call'[c] = call[c] \/ \E e \in Envelopes :
          call'[c].env = e /\ Admit(c, e) /\ ~Duplicate(queue, results, e)
    BY <1>4, <2>1, <2>2, <2>3 DEF CallMade
  <2>5. CASE call'[c] = call[c]
    <3> DEFINE e == call[c].env
    <3>1. e \in Envelopes /\ Held(e) /\ call'[c].env = e
      BY <1>1, <1>4, <2>5 DEF Typed, KeptInv, EnqueuingIsHeld
    <3>2. Held(e)'
      BY <1>4, <3>1, HeldStays, <2>5
    <3> QED
      BY <3>1, <3>2, <2>5 DEF Held
  <2>6. ASSUME NEW e \in Envelopes, call'[c].env = e, Admit(c, e), ~Duplicate(queue, results, e)
        PROVE  Held(call[c].env)'
    <3>1. queue' = [queue EXCEPT ![e] = FreshEntry]
      BY <2>6 DEF Admit
    <3>2. queue'[e].state # "absent"
      BY <1>1, <3>1 DEF Typed, FreshEntry
    <3> QED
      BY <2>6, <3>2 DEF Held
  <2> QED
    BY <2>4, <2>5, <2>6
<1> QED
  BY <1>2, <1>3, <1>4 DEF AckedIsHeld, EnqueuingIsHeld

(* An acknowledged envelope that was never started is in the queue or is a *)
(* dead letter, through any number of crashes when the file is not written *)
(* anew, and through any number of clean-ups when the process does not     *)
(* crash.  Both together lose it: clearCompleted empties the file first.   *)
THEOREM AckedStay == OneKindSpared => (Spec => []AckedIsKept)
<1> SUFFICES ASSUME OneKindSpared PROVE Spec => []AckedIsKept
  OBVIOUS
<1>1. ASSUME Init PROVE KeptInv
  <2>1. TypedInv
    BY <1>1, Initially, MoreTypedAtFirst DEF TypedInv
  <2>2. \A l \in Loops : loop[l].pc = "idle"
    BY <1>1, Rests DEF Init
  <2>3. \A c \in Callers : call[c].pc = "returned"
    BY <1>1 DEF Init, Returned, CallAt
  <2>4. \A e \in Envelopes : queue[e].state = "absent"
    BY <1>1, Blank DEF Init, Nothing
  <2>5. rebuild.pc = "none"
    BY <1>1 DEF Init, NoRebuild
  <2>6. results = {} /\ acked = {}
    BY <1>1 DEF Init
  <2> QED
    BY <2>1, <2>2, <2>3, <2>4, <2>5, <2>6 DEF KeptInv, ResultsStarted, RunningStarted,
      BuryingIsLettered, CompletedStarted, AckedIsHeld, EnqueuingIsHeld, AckedIsOnFile, InState
<1>2. ASSUME KeptInv, [Next]_vars PROVE KeptInv'
  <2>1. TypedInv'
    BY <1>2, Inductive, MoreTypedStays DEF KeptInv, TypedInv
  <2> QED
    BY <1>2, <2>1, LoopsKeep, CompletionsKeep, FilesKeep, AckedStaysHeld DEF KeptInv
<1>3. KeptInv => AckedIsKept
  <2>1. ASSUME KeptInv, NEW e \in acked, starts[e] = 0
        PROVE  queue[e].state # "absent" \/ dlq[e] # "absent"
    BY <2>1 DEF KeptInv, AckedIsHeld, Held
  <2> QED
    BY <2>1 DEF AckedIsKept
<1> QED
  BY <1>1, <1>2, <1>3, PTL DEF Spec

-----------------------------------------------------------------------------
(* How often an envelope is started                                        *)
(*                                                                         *)
(* Each call pays for a share of starts.  What is paid is used by starts   *)
(* that happened, by the starts an entry can still lead to, and by the     *)
(* callers that have still to hand the envelope in.                        *)

Share == MaxRecoveryRetries + 2

(* How often crash recovery will still reset an entry.                     *)
Left(r) == IF r < MaxRecoveryRetries THEN MaxRecoveryRetries - r ELSE 0

Marked(e) == \E l \in Loops : loop[l].pc = "marking" /\ loop[l].env = e
Ready(e) == queue[e].state = "queued" \/ Marked(e)
Enqueuing(e) == \E c \in Callers : call[c].pc = "enqueuing" /\ call[c].env = e
Handing(e) == {c \in Callers : call[c].pc \in {"waiting", "requeuing"} /\ call[c].env = e}

(* The starts a restart would lead to, and those this process may add.     *)
LineLeft(line) ==
  IF line.state = "queued" THEN 1 + Left(line.retries)
  ELSE IF line.state = "executing" THEN Left(line.retries)
  ELSE 0
InMemory(e) == IF Ready(e) THEN 1 + Left(queue[e].retries) ELSE 0

(* A caller whose line has not landed may yet write a fresh one.           *)
Potential(e) ==
  IF Enqueuing(e) THEN (IF Ready(e) THEN 1 ELSE 0) + 1 + MaxRecoveryRetries
  ELSE IF LineLeft(file[e]) >= InMemory(e) THEN LineLeft(file[e])
  ELSE InMemory(e)

Times(n) == n * Share

LinesAreMarks ==
  \A l \in Loops :
    /\ loop[l].pc = "marking" => loop[l].line = queue[loop[l].env]
    /\ loop[l].pc = "completing" => loop[l].line.state = "completed"
    /\ loop[l].pc = "failing" => loop[l].line.state = "failed"

(* What recovery has still to handle is in memory as it is on file.        *)
RecoveringIsOnFile ==
  \A e \in recovering : queue[e] = file[e] /\ file[e].state = "executing"

PaidFor ==
  \A e \in Envelopes :
    /\ IsFiniteSet(Handing(e))
    /\ starts[e] + Potential(e) + Times(Cardinality(Handing(e))) <= Times(spent["calls"])

BoundInv == TypedInv /\ rebuild.pc = "none" /\ LinesAreMarks /\ RecoveringIsOnFile /\ PaidFor

LEMMA Products == \A m, n, k \in Nat : m <= n => m * k <= n * k
OBVIOUS

LEMMA Shares ==
  /\ MaxRecoveryRetries \in Nat /\ MaxRecoveryRetries >= 1
  /\ Share \in Nat /\ Share = MaxRecoveryRetries + 2
  /\ Times(0) = 0
  /\ \A n \in Nat : Times(n) \in Nat /\ Times(n + 1) = Times(n) + Share
  /\ \A m, n \in Nat : m <= n => Times(m) <= Times(n)
<1>1. MaxRecoveryRetries \in Nat /\ MaxRecoveryRetries >= 1
  BY ExecutorAssumption
<1>2. Share \in Nat /\ Share = MaxRecoveryRetries + 2
  BY <1>1 DEF Share
<1>3. Times(0) = 0 /\ \A n \in Nat : Times(n) \in Nat /\ Times(n + 1) = Times(n) + Share
  BY <1>2 DEF Times
<1>4. \A m, n \in Nat : m <= n => Times(m) <= Times(n)
  BY <1>2, Products DEF Times
<1> QED
  BY <1>1, <1>2, <1>3, <1>4

(* What is left of a line, or of an entry, is at most what a fresh one has. *)
LEMMA Remaining ==
  /\ \A r \in Nat : Left(r) \in Nat /\ Left(r) <= MaxRecoveryRetries
  /\ \A r \in Nat : r < MaxRecoveryRetries => Left(r) = 1 + Left(r + 1)
  /\ Left(0) = MaxRecoveryRetries
  /\ \A q \in Entry : LineLeft(q) \in Nat /\ LineLeft(q) <= 1 + MaxRecoveryRetries
<1>1. MaxRecoveryRetries \in Nat /\ MaxRecoveryRetries >= 1
  BY Shares
<1>2. \A r \in Nat : Left(r) \in Nat /\ Left(r) <= MaxRecoveryRetries
  BY <1>1 DEF Left
<1>3. \A r \in Nat : r < MaxRecoveryRetries => Left(r) = 1 + Left(r + 1)
  BY <1>1 DEF Left
<1>4. Left(0) = MaxRecoveryRetries
  BY <1>1 DEF Left
<1>5. ASSUME NEW q \in Entry
      PROVE  LineLeft(q) \in Nat /\ LineLeft(q) <= 1 + MaxRecoveryRetries
  <2>1. Left(q.retries) \in Nat /\ Left(q.retries) <= MaxRecoveryRetries
    BY <1>2 DEF Entry
  <2> QED
    BY <1>1, <2>1 DEF LineLeft
<1> QED
  BY <1>2, <1>3, <1>4, <1>5

LEMMA Potentials ==
  ASSUME TypedInv, NEW e \in Envelopes
  PROVE  /\ LineLeft(file[e]) \in Nat /\ LineLeft(file[e]) <= 1 + MaxRecoveryRetries
         /\ InMemory(e) \in Nat /\ InMemory(e) <= 1 + MaxRecoveryRetries
         /\ Potential(e) \in Nat /\ Potential(e) <= Share
         /\ Enqueuing(e) => Potential(e) >= 1 + MaxRecoveryRetries
         /\ Enqueuing(e) /\ Ready(e) => Potential(e) = 2 + MaxRecoveryRetries
         /\ Enqueuing(e) /\ ~Ready(e) => Potential(e) = 1 + MaxRecoveryRetries
         /\ ~Enqueuing(e) => /\ Potential(e) >= LineLeft(file[e]) /\ Potential(e) >= InMemory(e)
                             /\ Potential(e) \in {LineLeft(file[e]), InMemory(e)}
<1>1. file[e] \in Entry /\ queue[e].retries \in Nat
  BY DEF TypedInv, ExecutorInv, Typed, Entry
<1>2. LineLeft(file[e]) \in Nat /\ LineLeft(file[e]) <= 1 + MaxRecoveryRetries
  BY <1>1, Remaining
<1>3. MaxRecoveryRetries \in Nat /\ Share = MaxRecoveryRetries + 2
  BY Shares
<1>4. InMemory(e) \in Nat /\ InMemory(e) <= 1 + MaxRecoveryRetries
  <2>1. Left(queue[e].retries) \in Nat /\ Left(queue[e].retries) <= MaxRecoveryRetries
    BY <1>1, Remaining
  <2> QED
    BY <1>3, <2>1 DEF InMemory
<1> QED
  BY <1>2, <1>3, <1>4 DEF Potential

(* When the entry is no readier, its count the same and its line no        *)
(* fresher, no start is gained.                                            *)
LEMMA NothingGained ==
  ASSUME TypedInv, TypedInv', NEW e \in Envelopes,
         Enqueuing(e)' => Enqueuing(e),
         Ready(e)' => Ready(e) /\ queue'[e].retries = queue[e].retries,
         Enqueuing(e) \/ LineLeft(file'[e]) <= LineLeft(file[e])
  PROVE  Potential(e)' <= Potential(e)
<1> DEFINE new == Potential(e)'
           line == LineLeft(file'[e])
           memory == InMemory(e)'
<1>1. MaxRecoveryRetries \in Nat
  BY Shares
<1>2. /\ LineLeft(file[e]) \in Nat
      /\ InMemory(e) \in Nat
      /\ Potential(e) \in Nat
      /\ Enqueuing(e) => Potential(e) >= 1 + MaxRecoveryRetries
      /\ Enqueuing(e) /\ Ready(e) => Potential(e) = 2 + MaxRecoveryRetries
      /\ ~Enqueuing(e) => Potential(e) >= LineLeft(file[e]) /\ Potential(e) >= InMemory(e)
  BY Potentials
<1>3. file'[e] \in Entry /\ queue'[e].retries \in Nat
  BY DEF TypedInv, ExecutorInv, Typed, Entry
<1>4. line \in Nat /\ line <= 1 + MaxRecoveryRetries
  BY <1>3, Remaining
<1>5. memory \in Nat /\ memory <= 1 + MaxRecoveryRetries
  <2>1. Left(queue'[e].retries) \in Nat /\ Left(queue'[e].retries) <= MaxRecoveryRetries
    BY <1>3, Remaining
  <2> QED
    BY <1>1, <2>1 DEF InMemory
<1>6. memory <= InMemory(e)
  <2>1. ~Ready(e)' => memory = 0
    BY DEF InMemory
  <2>2. Ready(e)' => memory = InMemory(e)
    BY DEF InMemory
  <2> HIDE DEF memory
  <2> QED
    BY <1>2, <2>1, <2>2
<1>7. CASE Enqueuing(e)'
  <2>1. new = (IF Ready(e)' THEN 1 ELSE 0) + 1 + MaxRecoveryRetries
    BY <1>7 DEF Potential
  <2> HIDE DEF new
  <2> QED
    BY <1>1, <1>2, <1>7, <2>1 DEF new
<1>8. CASE ~Enqueuing(e)'
  <2>1. new = IF line >= memory THEN line ELSE memory
    BY <1>8 DEF Potential
  <2> HIDE DEF new, line, memory
  <2>2. CASE Enqueuing(e)
    <3>1. new <= 1 + MaxRecoveryRetries
      BY <1>1, <1>4, <1>5, <2>1
    <3> QED
      BY <1>1, <1>2, <1>4, <1>5, <2>1, <2>2, <3>1 DEF new
  <2>3. CASE ~Enqueuing(e)
    <3>1. line <= LineLeft(file[e])
      BY <2>3 DEF line
    <3>2. line <= Potential(e) /\ memory <= Potential(e)
      BY <1>2, <1>4, <1>5, <1>6, <2>3, <3>1
    <3> QED
      BY <2>1, <3>2 DEF new
  <2> QED
    BY <2>2, <2>3
<1> QED
  BY <1>7, <1>8

(* What every step of the system with no clean-up to come can rely on.     *)
LEMMA BoundSteps ==
  ASSUME BoundInv, Budget["cleanups"] = 0, [Next]_vars
  PROVE  /\ TypedInv /\ ExecutorInv /\ Typed /\ TypedInv' /\ ExecutorInv' /\ Typed'
         /\ ~Cleanup /\ ~Rebuild
<1>1. TypedInv /\ ExecutorInv /\ Typed
  BY DEF BoundInv, TypedInv, ExecutorInv
<1>2. TypedInv' /\ ExecutorInv' /\ Typed'
  BY <1>1, Inductive, MoreTypedStays DEF TypedInv, ExecutorInv
<1>3. ~Cleanup /\ ~Rebuild
  BY <1>1, Unbudgeted DEF BoundInv, Rebuild
<1> QED
  BY <1>1, <1>2, <1>3

(* An entry that is executing after a step and whose step was no crash was *)
(* executing before, as it is now, or has just begun.                      *)
LEMMA ExecutingEntry ==
  ASSUME BoundInv, Budget["cleanups"] = 0, [Next]_vars, ~Crash, NEW d \in Envelopes,
         queue'[d].state = "executing"
  PROVE  \/ queue'[d] = queue[d]
         \/ \E l \in Loops : Begin(l, d) /\ queue'[d] = [queue[d] EXCEPT !.state = "executing"]
<1>1. ExecutorInv /\ queue[d] \in Entry
  BY BoundSteps DEF Typed
<1>2. EntryMade(d)
  BY <1>1, EntryChanges
<1>3. NoEntry.state = "absent" /\ FreshEntry.state = "queued"
  BY Blank DEF FreshEntry
<1>4. [queue[d] EXCEPT !.state = "blocked"].state = "blocked"
  BY <1>1, Marks DEF States
<1>5. [state |-> "queued", retries |-> queue[d].retries + 1].state = "queued"
  OBVIOUS
<1> QED
  BY <1>2, <1>3, <1>4, <1>5 DEF EntryMade

LEMMA MarkedIsExecuting ==
  ASSUME ExecutorInv, NEW d \in Envelopes, Marked(d)
  PROVE  queue[d].state = "executing"
BY DEF ExecutorInv, AttemptIsExecuting, Marked, Attempting

(* Only an admission, a reset or a crash makes an entry ready.             *)
LEMMA ReadyBefore ==
  ASSUME BoundInv, Budget["cleanups"] = 0, [Next]_vars, ~Crash, NEW d \in Envelopes,
         ~Admits(d), ~(Recover(d) /\ Reset(d)), Ready(d)'
  PROVE  Ready(d) /\ queue'[d].retries = queue[d].retries
<1>1. ExecutorInv /\ ExecutorInv' /\ queue[d] \in Entry
  BY BoundSteps DEF Typed
<1>2. CASE queue'[d].state = "queued"
  <2>1. \A s \in {"executing", "blocked"} : [queue[d] EXCEPT !.state = s].state = s
    BY <1>1, Marks DEF States
  <2>2. EntryMade(d)
    BY <1>1, EntryChanges
  <2>3. queue'[d] = queue[d]
    BY <1>2, <2>1, <2>2, Blank DEF EntryMade
  <2> QED
    BY <1>2, <2>3 DEF Ready
<1>3. ASSUME NEW l \in Loops, loop'[l].pc = "marking", loop'[l].env = d
      PROVE  Ready(d) /\ queue'[d].retries = queue[d].retries
  <2>1. queue'[d].state = "executing"
    BY <1>1, <1>3 DEF ExecutorInv, AttemptIsExecuting, Attempting
  <2>2. \/ queue'[d] = queue[d]
        \/ \E m \in Loops : Begin(m, d) /\ queue'[d] = [queue[d] EXCEPT !.state = "executing"]
    BY <2>1, ExecutingEntry
  <2>3. [queue[d] EXCEPT !.state = "executing"].retries = queue[d].retries
    BY <1>1 DEF Entry
  <2>4. LoopMade(l)
    BY <1>1, LoopChanges
  <2>5. loop'[l] = loop[l] \/ Begin(l, d)
    BY <1>3, <2>4, Placed DEF LoopMade, Resting
  <2>6. Begin(l, d) => queue[d].state = "queued"
    BY DEF Begin, Found, IsNext
  <2> QED
    BY <1>3, <2>2, <2>3, <2>5, <2>6 DEF Ready, Marked
<1> QED
  BY <1>2, <1>3 DEF Ready, Marked

LEMMA EnqueuingBefore ==
  ASSUME BoundInv, Budget["cleanups"] = 0, [Next]_vars, NEW d \in Envelopes,
         ~Admits(d), Enqueuing(d)'
  PROVE  Enqueuing(d)
<1>1. PICK c \in Callers : call'[c].pc = "enqueuing" /\ call'[c].env = d
  BY DEF Enqueuing
<1>2. CallMade(c)
  BY BoundSteps, CallChanges
<1>3. \A pc, e : CallAt(pc, e).pc = pc /\ CallAt(pc, e).env = e
  BY DEF CallAt
<1>4. Returned.pc = "returned"
  BY <1>3 DEF Returned
<1>5. \A e \in Envelopes : call'[c] = CallAt("enqueuing", e) => e = d
  BY <1>1, <1>3
<1>6. call'[c] = call[c]
  BY <1>1, <1>2, <1>3, <1>4, <1>5 DEF CallMade, Admits
<1> QED
  BY <1>1, <1>6 DEF Enqueuing

(* The line of the start has landed: one start is used.                    *)
LEMMA StartUsed ==
  ASSUME BoundInv, Budget["cleanups"] = 0, [Next]_vars,
         NEW l \in Loops, Execute(l), NEW d \in Envelopes, loop[l].env = d
  PROVE  Potential(d)' + 1 <= Potential(d)
<1>1. /\ ExecutorInv /\ ExecutorInv' /\ TypedInv /\ TypedInv'
      /\ d \in Envelopes /\ queue[d] \in Entry /\ file \in [Envelopes -> Entry]
      /\ loop[l].pc = "marking" /\ loop \in [Loops -> LoopRecord]
  BY BoundSteps DEF Execute, Typed, Busy, Waits
<1>2. /\ queue' = queue /\ call' = call
      /\ file' = [file EXCEPT ![d] = loop[l].line]
      /\ loop' = [loop EXCEPT ![l] = LoopAt("running", d, NoEntry, "none")]
  BY DEF Execute, Goes, store
<1>3. queue[d].state = "executing" /\ loop[l].line = queue[d]
  BY <1>1 DEF ExecutorInv, AttemptIsExecuting, Attempting, BoundInv, LinesAreMarks
<1>4. Ready(d)
  BY <1>1 DEF Ready, Marked
<1>5. ~Ready(d)'
  <2>1. ASSUME NEW m \in Loops, loop'[m].pc = "marking"
        PROVE  FALSE
    <3>1. m # l
      BY <1>1, <1>2, <2>1, Placed
    <3>2. loop[m].pc = "marking"
      BY <1>1, <1>2, <2>1, <3>1
    <3> QED
      BY <1>1, <3>1, <3>2 DEF ExecutorInv, OneBusy, Busy, Waits
  <2>2. queue'[d].state # "queued"
    BY <1>2, <1>3
  <2> QED
    BY <2>1, <2>2, <1>2 DEF Ready, Marked
<1>6. Enqueuing(d)' <=> Enqueuing(d)
  BY <1>2 DEF Enqueuing
<1>7. LineLeft(file'[d]) = Left(queue[d].retries)
  <2>1. file'[d] = queue[d]
    BY <1>1, <1>2, <1>3
  <2> QED
    BY <1>3, <2>1 DEF LineLeft
<1>8. InMemory(d) = 1 + Left(queue[d].retries)
  BY <1>4 DEF InMemory
<1>9. /\ MaxRecoveryRetries \in Nat /\ Left(queue[d].retries) \in Nat
  BY <1>1, Shares, Remaining DEF Entry
<1>10. /\ Potential(d) \in Nat
       /\ Enqueuing(d) => Potential(d) = 2 + MaxRecoveryRetries
       /\ ~Enqueuing(d) => Potential(d) >= 1 + Left(queue[d].retries)
  BY <1>1, <1>4, <1>8, Potentials
<1> DEFINE new == Potential(d)'
<1>11. Enqueuing(d) => new = 1 + MaxRecoveryRetries
  BY <1>2, <1>5, <1>6, <1>9 DEF Potential
<1>12. ~Enqueuing(d) => new = Left(queue[d].retries)
  <2>1. InMemory(d)' = 0
    BY <1>5 DEF InMemory
  <2> QED
    BY <1>2, <1>6, <1>7, <1>9, <2>1 DEF Potential
<1> HIDE DEF new
<1>13. new + 1 <= Potential(d)
  BY <1>9, <1>10, <1>11, <1>12
<1> QED
  BY <1>13 DEF new

(* Crash recovery counts each reset.                                       *)
LEMMA ResetUsed ==
  ASSUME BoundInv, Budget["cleanups"] = 0, [Next]_vars, NEW d \in Envelopes, Recover(d), Reset(d)
  PROVE  Potential(d)' <= Potential(d)
<1> DEFINE r == queue[d].retries
<1>1. /\ ExecutorInv /\ TypedInv /\ TypedInv' /\ Typed
      /\ queue \in [Envelopes -> Entry] /\ queue[d] \in Entry /\ r \in Nat
  BY BoundSteps DEF Typed, Entry
<1>2. d \in recovering /\ file' = file /\ loop' = loop /\ call' = call
  BY DEF Recover, Reset
<1>3. queue'[d] = [state |-> "queued", retries |-> r + 1] /\ r < MaxRecoveryRetries
  <2>1. queue' = [queue EXCEPT ![d] = [state |-> "queued", retries |-> @.retries + 1]]
    BY DEF Reset
  <2>2. ~(r >= MaxRecoveryRetries)
    BY DEF Reset, RecoveryExhausted
  <2>3. MaxRecoveryRetries \in Nat
    BY Shares
  <2> QED
    BY <1>1, <2>1, <2>2, <2>3
<1>4. ~Enqueuing(d) /\ ~Enqueuing(d)'
  BY <1>1, <1>2 DEF ExecutorInv, Quiet, Enqueuing
<1>5. queue[d] = file[d] /\ file[d].state = "executing"
  BY <1>2 DEF BoundInv, RecoveringIsOnFile
<1>6. LineLeft(file[d]) = Left(r) /\ LineLeft(file'[d]) = Left(r)
  BY <1>2, <1>5 DEF LineLeft
<1>7. Left(r) \in Nat /\ Left(r + 1) \in Nat /\ Left(r) = 1 + Left(r + 1)
  BY <1>1, <1>3, Remaining
<1>8. InMemory(d)' = Left(r)
  <2>1. Ready(d)'
    BY <1>3 DEF Ready
  <2>2. queue'[d].retries = r + 1
    BY <1>3
  <2> HIDE DEF r
  <2> QED
    BY <1>7, <2>1, <2>2 DEF InMemory
<1> DEFINE new == Potential(d)'
<1>9. new = Left(r)
  BY <1>4, <1>6, <1>7, <1>8 DEF Potential
<1>10. Potential(d) \in Nat /\ Potential(d) >= Left(r)
  BY <1>1, <1>4, <1>6, Potentials
<1> QED
  BY <1>9, <1>10

(* After a crash there is what the file says, and it was paid for.         *)
LEMMA CrashGainsNothing ==
  ASSUME BoundInv, Budget["cleanups"] = 0, [Next]_vars, Crash, NEW d \in Envelopes
  PROVE  Potential(d)' <= Potential(d)
<1>1. TypedInv /\ TypedInv' /\ file[d] \in Entry /\ file[d].retries \in Nat
  BY BoundSteps DEF Typed, Entry
<1>2. /\ queue' = file /\ file' = file
      /\ loop' = [l \in Loops |-> Idle] /\ call' = [c \in Callers |-> Returned]
  BY DEF Crash
<1>3. ~Enqueuing(d)'
  BY <1>2 DEF Enqueuing, Returned, CallAt
<1>4. ~Marked(d)'
  <2>1. \A l \in Loops : loop'[l].pc = "idle"
    BY <1>2, Rests
  <2> QED
    BY <2>1 DEF Marked
<1>5. Left(file[d].retries) \in Nat /\ LineLeft(file[d]) \in Nat
  BY <1>1, Remaining
<1> DEFINE memory == InMemory(d)'
           new == Potential(d)'
<1>6. memory \in Nat /\ memory <= LineLeft(file[d])
  <2>1. CASE file[d].state = "queued"
    <3>1. memory = 1 + Left(file[d].retries) /\ LineLeft(file[d]) = 1 + Left(file[d].retries)
      BY <1>2, <2>1 DEF InMemory, Ready, LineLeft
    <3> QED
      BY <1>5, <3>1
  <2>2. CASE file[d].state # "queued"
    <3>1. ~Ready(d)'
      BY <1>2, <1>4, <2>2 DEF Ready
    <3>2. memory = 0
      BY <3>1 DEF InMemory
    <3> QED
      BY <1>5, <3>2
  <2> QED
    BY <2>1, <2>2
<1>7. new = LineLeft(file[d])
  <2>1. new = IF LineLeft(file'[d]) >= memory THEN LineLeft(file'[d]) ELSE memory
    BY <1>3 DEF Potential
  <2> HIDE DEF new, memory
  <2> QED
    BY <1>2, <1>5, <1>6, <2>1
<1>8. LineLeft(file[d]) <= Potential(d)
  <2>1. /\ MaxRecoveryRetries \in Nat
        /\ LineLeft(file[d]) \in Nat /\ LineLeft(file[d]) <= 1 + MaxRecoveryRetries
        /\ Potential(d) \in Nat
        /\ Enqueuing(d) => Potential(d) >= 1 + MaxRecoveryRetries
        /\ ~Enqueuing(d) => Potential(d) >= LineLeft(file[d])
    BY <1>1, Potentials, Shares
  <2> QED
    BY <2>1
<1> QED
  BY <1>7, <1>8

(* No step but an admission adds to what was started and may be.           *)
LEMMA LoadShrinks ==
  ASSUME BoundInv, Budget["cleanups"] = 0, [Next]_vars, NEW d \in Envelopes,
         Crash \/ ~Admits(d)
  PROVE  starts'[d] + Potential(d)' <= starts[d] + Potential(d)
<1> DEFINE new == Potential(d)'
<1>1. /\ TypedInv /\ TypedInv' /\ ExecutorInv /\ Typed /\ ~Rebuild
      /\ queue[d] \in Entry /\ queue \in [Envelopes -> Entry]
  BY BoundSteps DEF Typed
<1>2. new \in Nat
  <2>1. (Potential(d) \in Nat)'
    <3>1. /\ LineLeft(file[d])' \in Nat /\ InMemory(d)' \in Nat
      <4>1. file'[d] \in Entry /\ queue'[d].retries \in Nat
        BY BoundSteps DEF Typed, Entry
      <4>2. Left(queue'[d].retries) \in Nat
        BY <4>1, Remaining
      <4> QED
        BY <4>1, <4>2, Remaining DEF InMemory
    <3>2. MaxRecoveryRetries \in Nat
      BY Shares
    <3> QED
      BY <3>1, <3>2 DEF Potential
  <2> QED
    BY <2>1
<1>3. Potential(d) \in Nat /\ starts[d] \in Nat /\ starts \in [Envelopes -> Nat]
  BY <1>1, Potentials DEF TypedInv, MoreTyped
<1> HIDE DEF new
<1>4. ASSUME NEW l \in Loops, Execute(l), loop[l].env = d
      PROVE  starts'[d] + new <= starts[d] + Potential(d)
  <2>1. starts'[d] = starts[d] + 1
    BY <1>1, <1>4, StartsGrow
  <2>2. new + 1 <= Potential(d)
    BY <1>4, StartUsed DEF new
  <2> QED
    BY <1>2, <1>3, <2>1, <2>2
<1>5. ASSUME ~\E l \in Loops : Execute(l) /\ loop[l].env = d
      PROVE  starts'[d] = starts[d]
  <2>1. ASSUME NEW l \in Loops, Execute(l)
        PROVE  starts'[d] = starts[d]
    <3>1. starts' = [starts EXCEPT ![loop[l].env] = @ + 1] /\ loop[l].env # d
      BY <1>5, <2>1 DEF Execute
    <3> QED
      BY <1>3, <3>1
  <2> QED
    BY <2>1, WorldChanges
<1>6. ASSUME ~\E l \in Loops : Execute(l) /\ loop[l].env = d
      PROVE  new <= Potential(d)
  <2>1. CASE Crash
    BY <2>1, CrashGainsNothing DEF new
  <2>2. CASE Recover(d) /\ Reset(d)
    BY <2>2, ResetUsed DEF new
  <2>3. CASE ~Crash /\ ~Admits(d) /\ ~(Recover(d) /\ Reset(d))
    <3>1. Enqueuing(d)' => Enqueuing(d)
      BY <2>3, EnqueuingBefore
    <3>2. Ready(d)' => Ready(d) /\ queue'[d].retries = queue[d].retries
      BY <2>3, ReadyBefore
    <3>3. Enqueuing(d) \/ LineLeft(file'[d]) <= LineLeft(file[d])
      <4>1. LineMade(d)
        BY <1>1, LineChanges
      <4>2. LineLeft(file[d]) \in Nat
        BY <1>1, Potentials
      <4>3. ASSUME NEW l \in Loops, loop[l].env = d, file'[d] = loop[l].line,
                   Completed(l) \/ ScheduleRetry(l) \/ DeadLetter(l)
            PROVE  LineLeft(file'[d]) = 0
        <5>1. loop[l].line.state \in {"completed", "failed"}
          BY <4>3 DEF Completed, ScheduleRetry, DeadLetter, BoundInv, LinesAreMarks
        <5> QED
          BY <4>3, <5>1 DEF LineLeft
      <4>4. ASSUME Block(d), file'[d] = queue'[d]
            PROVE  LineLeft(file'[d]) = 0
        <5>1. queue' = [queue EXCEPT ![d].state = "blocked"]
          BY <4>4 DEF Block
        <5>2. queue'[d].state = "blocked"
          BY <1>1, <5>1 DEF Entry
        <5> QED
          BY <4>4, <5>2 DEF LineLeft
      <4>5. ASSUME NEW c \in Callers, Enqueued(c), call[c].env = d
            PROVE  Enqueuing(d)
        BY <4>5 DEF Enqueued, Enqueuing
      <4>6. file'[d] = file[d] => LineLeft(file'[d]) <= LineLeft(file[d])
        BY <4>2
      <4>7. LineLeft(file'[d]) = 0 => LineLeft(file'[d]) <= LineLeft(file[d])
        BY <4>2
      <4> QED
        BY <1>1, <1>6, <4>1, <4>3, <4>4, <4>5, <4>6, <4>7 DEF LineMade
    <3> QED
      BY <1>1, <3>1, <3>2, <3>3, NothingGained DEF new
  <2> QED
    BY <2>1, <2>2, <2>3
<1>7. starts'[d] + new <= starts[d] + Potential(d)
  BY <1>2, <1>3, <1>4, <1>5, <1>6
<1> QED
  BY <1>7 DEF new

(* What a step of one caller makes of those that hand d in.                *)
LEMMA HandingAt ==
  ASSUME Typed, NEW c \in Callers, NEW r, call' = [call EXCEPT ![c] = r],
         NEW d \in Envelopes, IsFiniteSet(Handing(d))
  PROVE  /\ IsFiniteSet(Handing(d)')
         /\ Cardinality(Handing(d)) \in Nat /\ Cardinality(Handing(d)') \in Nat
         /\ Cardinality(Handing(d)') <= Cardinality(Handing(d)) + 1
         /\ ~(r.pc \in {"waiting", "requeuing"} /\ r.env = d) \/ c \in Handing(d) =>
              Cardinality(Handing(d)') <= Cardinality(Handing(d))
         /\ ~(r.pc \in {"waiting", "requeuing"} /\ r.env = d) /\ c \in Handing(d) =>
              Cardinality(Handing(d)') + 1 <= Cardinality(Handing(d))
<1> DEFINE old == Handing(d)
           new == Handing(d)'
<1>1. /\ call'[c] = r /\ \A b \in Callers \ {c} : call'[b] = call[b]
  BY DEF Typed
<1>2. CASE r.pc \in {"waiting", "requeuing"} /\ r.env = d
  <2>1. new = old \cup {c}
    BY <1>1, <1>2 DEF Handing
  <2> HIDE DEF old, new
  <2>2. /\ IsFiniteSet(old \cup {c})
        /\ Cardinality(old \cup {c}) = IF c \in old THEN Cardinality(old) ELSE Cardinality(old) + 1
    BY FS_AddElement DEF old
  <2>3. Cardinality(old) \in Nat
    BY FS_CardinalityType DEF old
  <2>4. /\ IsFiniteSet(new) /\ Cardinality(new) \in Nat
        /\ Cardinality(new) <= Cardinality(old) + 1
        /\ c \in old => Cardinality(new) <= Cardinality(old)
    BY <2>1, <2>2, <2>3
  <2> QED
    BY <1>2, <2>3, <2>4 DEF old, new
<1>3. CASE ~(r.pc \in {"waiting", "requeuing"} /\ r.env = d)
  <2>1. new = old \ {c}
    BY <1>1, <1>3 DEF Handing
  <2> HIDE DEF old, new
  <2>2. /\ IsFiniteSet(old \ {c})
        /\ Cardinality(old \ {c}) = IF c \in old THEN Cardinality(old) - 1 ELSE Cardinality(old)
    BY FS_RemoveElement DEF old
  <2>3. Cardinality(old) \in Nat /\ Cardinality(new) \in Nat
    BY <2>1, <2>2, FS_CardinalityType DEF old
  <2>4. /\ IsFiniteSet(new)
        /\ Cardinality(new) <= Cardinality(old) /\ Cardinality(new) <= Cardinality(old) + 1
        /\ c \in old => Cardinality(new) + 1 <= Cardinality(old)
    BY <2>1, <2>2, <2>3
  <2> QED
    BY <1>3, <2>3, <2>4 DEF old, new
<1> QED
  BY <1>2, <1>3

(* An admission is paid for by a call, or by the caller that stops waiting *)
(* to hand the envelope in; whoever begins to wait has paid with a call.   *)
Pays(d) ==
  LET before == Cardinality(Handing(d))
      after == Cardinality(Handing(d)')
      calls == spent["calls"]
  IN
    \/ UNCHANGED starts /\ after <= before /\ spent'["calls"] = calls + 1
    \/ UNCHANGED starts /\ after + 1 <= before /\ spent'["calls"] = calls
    \/ (Crash \/ ~Admits(d)) /\ after <= before + 1 /\ spent'["calls"] = calls + 1
    \/ (Crash \/ ~Admits(d)) /\ after <= before /\ spent'["calls"] = calls

LEMMA CallerPays ==
  ASSUME BoundInv, Budget["cleanups"] = 0, [Next]_vars, NEW d \in Envelopes, NEW c \in Callers,
         \/ \E e \in Envelopes : Submit(c, e) \/ Requeue(c, e) \/ Cancel(c, e)
         \/ Serve(c) \/ CallFails(c)
  PROVE  IsFiniteSet(Handing(d)') /\ Pays(d)
<1>1. Typed /\ IsFiniteSet(Handing(d)) /\ spent["calls"] \in Nat /\ call \in [Callers -> CallRecord]
  BY BoundSteps DEF Typed, Kinds, BoundInv, PaidFor
<1>2. \A pc, e : CallAt(pc, e).pc = pc /\ CallAt(pc, e).env = e
  BY DEF CallAt
<1>3. Returned.pc = "returned"
  BY <1>2 DEF Returned
(* Only the caller that moves can have admitted.                           *)
<1>4. ASSUME NEW r, call' = [call EXCEPT ![c] = r], Admits(d)
      PROVE  r.pc = "enqueuing" /\ r.env = d
  <2>1. PICK b \in Callers : call[b].pc # "enqueuing" /\ Admit(b, d) /\ ~Duplicate(queue, results, d)
    BY <1>4 DEF Admits
  <2>2. call' = [call EXCEPT ![b] = CallAt("enqueuing", d)]
    BY <2>1 DEF Admit
  <2>3. call'[b] = CallAt("enqueuing", d)
    BY <1>1, <2>2
  <2>4. b = c
    BY <1>1, <1>2, <1>4, <2>1, <2>3
  <2>5. call'[c] = r
    BY <1>1, <1>4
  <2> QED
    BY <1>2, <2>3, <2>4, <2>5
<1>5. ASSUME NEW kind \in Kinds, Spend(kind)
      PROVE  IF kind = "calls" THEN spent'["calls"] = spent["calls"] + 1
                               ELSE spent'["calls"] = spent["calls"]
  BY <1>1, <1>5 DEF Spend, Typed, Kinds
<1>6. ASSUME NEW e \in Envelopes, Submit(c, e)
      PROVE  IsFiniteSet(Handing(d)') /\ Pays(d)
  <2>1. call[c] = Returned /\ Enqueue(c, e) /\ UNCHANGED starts /\ spent'["calls"] = spent["calls"] + 1
    BY <1>5, <1>6 DEF Submit, Kinds, world
  <2>2. \/ call' = [call EXCEPT ![c] = Returned]
        \/ call' = [call EXCEPT ![c] = CallAt("waiting", e)]
        \/ call' = [call EXCEPT ![c] = CallAt("enqueuing", e)]
    BY <2>1 DEF Enqueue, Admit
  <2>3. CASE call' = [call EXCEPT ![c] = CallAt("waiting", e)]
    <3> DEFINE r == CallAt("waiting", e)
    <3>1. r.pc = "waiting"
      BY <1>2
    <3> HIDE DEF r
    <3>2. call' = [call EXCEPT ![c] = r]
      BY <2>3 DEF r
    <3>3. ~Admits(d)
      BY <1>4, <3>1, <3>2
    <3>4. IsFiniteSet(Handing(d)') /\ Cardinality(Handing(d)') <= Cardinality(Handing(d)) + 1
      BY <1>1, <3>2, HandingAt
    <3> QED
      BY <2>1, <3>3, <3>4 DEF Pays
  <2>4. ASSUME NEW r \in {Returned, CallAt("enqueuing", e)}, call' = [call EXCEPT ![c] = r]
        PROVE  IsFiniteSet(Handing(d)') /\ Pays(d)
    <3>1. r.pc \notin {"waiting", "requeuing"}
      BY <1>2, <1>3
    <3> QED
      BY <1>1, <2>1, <2>4, <3>1, HandingAt DEF Pays
  <2> QED
    BY <2>2, <2>3, <2>4
<1>7. ASSUME NEW e \in Envelopes, Requeue(c, e) \/ Cancel(c, e)
      PROVE  IsFiniteSet(Handing(d)') /\ Pays(d)
  <2>1. spent'["calls"] = spent["calls"] + 1
    BY <1>5, <1>7 DEF Requeue, Cancel, Kinds
  <2>2. PICK r \in {CallAt("requeuing", e), CallAt("cancelling", e)} : call' = [call EXCEPT ![c] = r]
    BY <1>7 DEF Requeue, Cancel
  <2>3. r.pc # "enqueuing"
    BY <1>2
  <2>4. ~Admits(d)
    BY <1>4, <2>2, <2>3
  <2> QED
    BY <1>1, <2>1, <2>2, <2>4, HandingAt DEF Pays
<1>8. ASSUME WaitEnds(c) \/ Requeued(c)
      PROVE  IsFiniteSet(Handing(d)') /\ Pays(d)
  <2> DEFINE e == call[c].env
  <2>1. /\ UNCHANGED starts /\ spent'["calls"] = spent["calls"]
        /\ call[c].pc \in {"waiting", "requeuing"}
    BY <1>8 DEF WaitEnds, Requeued, world
  <2>2. \/ call' = [call EXCEPT ![c] = Returned]
        \/ call' = [call EXCEPT ![c] = CallAt("waiting", e)]
        \/ call' = [call EXCEPT ![c] = CallAt("enqueuing", e)]
    BY <1>8 DEF WaitEnds, Requeued, Enqueue, Admit
  <2>3. e = d => c \in Handing(d)
    BY <2>1 DEF Handing
  <2>4. CASE call' = [call EXCEPT ![c] = Returned]
    <3>1. ~Admits(d)
      BY <1>3, <1>4, <2>4
    <3> QED
      BY <1>1, <1>3, <2>1, <2>4, <3>1, HandingAt DEF Pays
  <2>5. CASE call' = [call EXCEPT ![c] = CallAt("waiting", e)]
    <3> DEFINE r == CallAt("waiting", e)
    <3>1. r.pc = "waiting" /\ r.env = e
      BY <1>2
    <3> HIDE DEF r
    <3>2. call' = [call EXCEPT ![c] = r]
      BY <2>5 DEF r
    <3>3. ~Admits(d)
      BY <1>4, <3>1, <3>2
    <3>4. ~(r.pc \in {"waiting", "requeuing"} /\ r.env = d) \/ c \in Handing(d)
      BY <2>3, <3>1
    <3>5. Cardinality(Handing(d)') <= Cardinality(Handing(d)) /\ IsFiniteSet(Handing(d)')
      BY <1>1, <3>2, <3>4, HandingAt
    <3> QED
      BY <2>1, <3>3, <3>5 DEF Pays
  <2>6. CASE call' = [call EXCEPT ![c] = CallAt("enqueuing", e)]
    <3> DEFINE r == CallAt("enqueuing", e)
    <3>1. r.pc = "enqueuing" /\ r.env = e
      BY <1>2
    <3> HIDE DEF r
    <3>2. call' = [call EXCEPT ![c] = r]
      BY <2>6 DEF r
    <3>3. /\ IsFiniteSet(Handing(d)')
          /\ Cardinality(Handing(d)') <= Cardinality(Handing(d))
          /\ c \in Handing(d) => Cardinality(Handing(d)') + 1 <= Cardinality(Handing(d))
      BY <1>1, <3>1, <3>2, HandingAt
    <3>4. Admits(d) => e = d
      BY <1>4, <3>1, <3>2
    <3> QED
      BY <2>1, <2>3, <3>3, <3>4 DEF Pays
  <2> QED
    BY <2>2, <2>4, <2>5, <2>6
<1>9. ASSUME Enqueued(c) \/ Cancelled(c) \/ CallFails(c)
      PROVE  IsFiniteSet(Handing(d)') /\ Pays(d)
  <2>1. call' = [call EXCEPT ![c] = Returned]
    BY <1>9 DEF Enqueued, Cancelled, CallFails
  <2>2. spent'["calls"] = spent["calls"]
    BY <1>5, <1>9 DEF Enqueued, Cancelled, CallFails, Kinds
  <2>3. ~Admits(d)
    BY <1>3, <1>4, <2>1
  <2> QED
    BY <1>1, <1>3, <2>1, <2>2, <2>3, HandingAt DEF Pays
<1> QED
  BY <1>6, <1>7, <1>8, <1>9 DEF Serve

LEMMA EveryonePays ==
  ASSUME BoundInv, Budget["cleanups"] = 0, [Next]_vars, NEW d \in Envelopes
  PROVE  IsFiniteSet(Handing(d)') /\ Pays(d)
<1>1. Typed /\ IsFiniteSet(Handing(d)) /\ spent["calls"] \in Nat /\ call \in [Callers -> CallRecord]
  BY BoundSteps DEF Typed, Kinds, BoundInv, PaidFor
<1>2. Cardinality(Handing(d)) \in Nat
  BY <1>1, FS_CardinalityType
<1>3. ASSUME NEW kind \in Kinds \ {"calls"}, Spend(kind)
      PROVE  spent'["calls"] = spent["calls"]
  BY <1>1, <1>3 DEF Spend, Typed, Kinds
<1>4. ASSUME call' = call, spent'["calls"] = spent["calls"]
      PROVE  IsFiniteSet(Handing(d)') /\ Pays(d)
  <2>1. Handing(d)' = Handing(d)
    BY <1>4 DEF Handing
  <2>2. ~Admits(d)
    <3>1. ASSUME NEW b \in Callers, call[b].pc # "enqueuing", Admit(b, d), ~Duplicate(queue, results, d)
          PROVE  FALSE
      <4>1. call' = [call EXCEPT ![b] = CallAt("enqueuing", d)]
        BY <3>1 DEF Admit
      <4>2. call'[b].pc = "enqueuing"
        BY <1>1, <4>1 DEF CallAt
      <4> QED
        BY <1>4, <3>1, <4>2
    <3> QED
      BY <3>1 DEF Admits
  <2> QED
    BY <1>1, <1>2, <1>4, <2>1, <2>2 DEF Pays
<1>5. CASE Crash
  <2>1. call' = [c \in Callers |-> Returned] /\ spent'["calls"] = spent["calls"]
    BY <1>3, <1>5 DEF Crash, Kinds
  <2>2. Handing(d)' = {}
    BY <2>1 DEF Handing, Returned, CallAt
  <2>3. IsFiniteSet({}) /\ Cardinality({}) = 0
    BY FS_EmptySet
  <2> QED
    BY <1>2, <1>5, <2>1, <2>2, <2>3 DEF Pays
<1>6. ASSUME NEW l \in Loops, Attempt(l) \/ Answer(l) \/ LineFails(l)
      PROVE  IsFiniteSet(Handing(d)') /\ Pays(d)
  <2>1. call' = call
    BY <1>6 DEF Attempt, Answer, LineFails, FindNothing, SkipExecuted, Begin, Execute, Completed,
      TimeOut, TimeoutHandled, ScheduleRetry, DeadLetter, Buried, Succeed, Fail
  <2>2. spent' = spent \/ Spend("faults")
    BY <1>6 DEF Attempt, Answer, LineFails, FindNothing, SkipExecuted, Begin, Execute, Completed,
      TimeOut, TimeoutHandled, ScheduleRetry, DeadLetter, Buried, Succeed, Fail
  <2> QED
    BY <1>3, <1>4, <2>1, <2>2 DEF Kinds
<1>7. ASSUME \/ RetryTimer \/ Pause \/ Resume \/ Cleanup \/ Rebuild
             \/ \E e \in Envelopes : LateAnswer(e) \/ Recover(e)
             \/ UNCHANGED vars
      PROVE  IsFiniteSet(Handing(d)') /\ Pays(d)
  <2>1. call' = call /\ (spent' = spent \/ Spend("pauses") \/ Spend("cleanups"))
    BY <1>7 DEF RetryTimer, Pause, Resume, Cleanup, Rebuild, LateAnswer, Recover, vars
  <2> QED
    BY <1>3, <1>4, <2>1 DEF Kinds
<1> QED
  BY <1>5, <1>6, <1>7, CallerPays DEF Next

LEMMA LinesStayMarks ==
  ASSUME BoundInv, Budget["cleanups"] = 0, [Next]_vars
  PROVE  LinesAreMarks'
<1>1. /\ ExecutorInv /\ ExecutorInv' /\ Typed /\ queue \in [Envelopes -> Entry]
      /\ loop \in [Loops -> LoopRecord]
  BY BoundSteps DEF Typed
<1>2. CASE Crash
  <2>1. \A l \in Loops : loop'[l].pc = "idle"
    BY <1>2, Rests DEF Crash
  <2> QED
    BY <2>1 DEF LinesAreMarks
<1>3. ASSUME ~Crash, NEW l \in Loops, loop'[l] = loop[l], loop[l].pc = "marking"
      PROVE  loop[l].line = queue'[loop[l].env]
  <2>1. PICK d \in Envelopes : d = loop[l].env
    BY <1>1, <1>3 DEF Typed, Busy, Waits
  <2>2. queue[d].state = "executing"
    BY <1>3, <2>1, <1>1, MarkedIsExecuting DEF Marked
  <2>3. queue'[d].state = "executing"
    BY <1>1, <1>3, <2>1 DEF ExecutorInv, AttemptIsExecuting, Attempting
  <2>4. ~\E m \in Loops : Begin(m, d)
    BY <2>2 DEF Begin, Found, IsNext
  <2>5. queue'[d] = queue[d]
    BY <1>3, <2>3, <2>4, ExecutingEntry
  <2>6. loop[l].line = queue[d]
    BY <1>3, <2>1 DEF BoundInv, LinesAreMarks
  <2> QED
    BY <2>1, <2>5, <2>6
<1>4. ASSUME ~Crash, NEW l \in Loops
      PROVE  /\ loop'[l].pc = "marking" => loop'[l].line = queue'[loop'[l].env]
             /\ loop'[l].pc = "completing" => loop'[l].line.state = "completed"
             /\ loop'[l].pc = "failing" => loop'[l].line.state = "failed"
  <2>1. LoopMade(l)
    BY <1>1, LoopChanges
  <2>2. CASE loop'[l] = loop[l]
    BY <1>3, <1>4, <2>2 DEF BoundInv, LinesAreMarks
  <2>3. CASE loop'[l].pc \in Resting
    BY <2>3 DEF Resting
  <2>4. ASSUME NEW e \in Envelopes, loop'[l] = LoopAt("marking", e, queue'[e], "none")
        PROVE  loop'[l].pc = "marking" /\ loop'[l].env = e /\ loop'[l].line = queue'[e]
    BY <2>4, Placed
  <2>5. CASE Succeed(l) /\ loop'[l] = LoopAt("completing", loop[l].env, queue'[loop[l].env], "none")
    <3>1. PICK d \in Envelopes : d = loop[l].env
      BY <1>1, <2>5 DEF Typed, Busy, Waits, Succeed
    <3>2. queue' = [queue EXCEPT ![d].state = "completed"]
      BY <2>5, <3>1 DEF Succeed
    <3>3. queue'[d].state = "completed"
      BY <1>1, <3>2 DEF Entry
    <3> QED
      BY <2>5, <3>1, <3>3, Placed
  <2>6. CASE /\ queue'[loop[l].env].state = "failed"
             /\ \E why \in {"transient", "permanent"} :
                  loop'[l] = LoopAt("failing", loop[l].env, queue'[loop[l].env], why)
    BY <2>6, Placed
  <2>7. loop'[l].pc \in {"running", "timing_out", "burying"} \/ loop'[l] = loop[l]
        \/ loop'[l].pc \in Resting
        \/ (\E e \in Envelopes : loop'[l] = LoopAt("marking", e, queue'[e], "none"))
        \/ (Succeed(l) /\ loop'[l] = LoopAt("completing", loop[l].env, queue'[loop[l].env], "none"))
        \/ (/\ queue'[loop[l].env].state = "failed"
            /\ \E why \in {"transient", "permanent"} :
                 loop'[l] = LoopAt("failing", loop[l].env, queue'[loop[l].env], why))
    BY <2>1, Placed DEF LoopMade
  <2> QED
    BY <2>2, <2>3, <2>4, <2>5, <2>6, <2>7
<1> QED
  BY <1>2, <1>4 DEF LinesAreMarks

(* While anything is left to recover, nothing else runs that would change  *)
(* it, in memory or on file.                                               *)
LEMMA RecoveringStaysOnFile ==
  ASSUME BoundInv, Budget["cleanups"] = 0, [Next]_vars
  PROVE  RecoveringIsOnFile'
<1>1. /\ ExecutorInv /\ ExecutorInv' /\ Typed /\ TypedInv /\ queue \in [Envelopes -> Entry]
      /\ file \in [Envelopes -> Entry] /\ ~Cleanup /\ ~Rebuild
  BY BoundSteps DEF Typed
<1>2. CASE Crash
  <2>1. queue' = file /\ file' = file /\ recovering' \subseteq InState(file, "executing")
    BY <1>2 DEF Crash
  <2> QED
    BY <2>1 DEF RecoveringIsOnFile, InState
<1>3. ASSUME ~Crash, NEW d \in recovering'
      PROVE  queue'[d] = file'[d] /\ file'[d].state = "executing"
  <2>1. d \in recovering /\ ~Recover(d)
    <3>1. CASE UNCHANGED recovering
      <4>1. d \in recovering'
        BY <1>3
      <4> QED
        BY <1>3, <3>1, <4>1 DEF Recover
    <3>2. ASSUME NEW e \in Envelopes, Recover(e)
          PROVE  d \in recovering /\ ~Recover(d)
      BY <1>3, <3>2 DEF Recover
    <3> QED
      BY <1>3, <3>1, <3>2, WorldChanges
  <2>2. d \in Envelopes
    BY <1>1, <2>1 DEF TypedInv, MoreTyped
  <2>3. queue[d] = file[d] /\ file[d].state = "executing"
    BY <2>1 DEF BoundInv, RecoveringIsOnFile
  <2>4. /\ \A l \in Loops : loop[l].pc = "idle"
        /\ \A c \in Callers : call[c].pc = "returned"
    BY <1>1, <2>1 DEF ExecutorInv, Quiet
  <2>5. ~Admits(d)
    <3>1. \A c \in Callers : call'[c].pc = "returned"
      BY <1>1, <1>3 DEF ExecutorInv, Quiet
    <3>2. ASSUME NEW c \in Callers, Admit(c, d), ~Duplicate(queue, results, d)
          PROVE  FALSE
      <4>1. call' = [call EXCEPT ![c] = CallAt("enqueuing", d)]
        BY <3>2 DEF Admit
      <4>2. call'[c].pc = "enqueuing"
        BY <1>1, <4>1 DEF Typed, CallAt
      <4> QED
        BY <3>1, <4>2
    <3> QED
      BY <3>2 DEF Admits
  <2>6. queue'[d] = queue[d]
    <3>1. EntryMade(d)
      BY <1>1, <2>2, EntryChanges
    <3>2. \A l \in Loops : ~SkipExecuted(l, d) /\ ~Buried(l) /\ ~Begin(l, d) /\ ~Busy(l) /\ ~Succeed(l)
      BY <2>4 DEF SkipExecuted, Buried, Begin, Busy, Waits, Succeed
    <3> QED
      BY <1>1, <1>3, <2>1, <2>5, <3>1, <3>2 DEF EntryMade
  <2>7. file'[d] = file[d]
    <3>1. LineMade(d)
      BY <1>1, <2>2, LineChanges
    <3>2. \A l \in Loops : ~Execute(l) /\ ~Completed(l) /\ ~ScheduleRetry(l) /\ ~DeadLetter(l)
      BY <2>4 DEF Execute, Completed, ScheduleRetry, DeadLetter
    <3>3. \A c \in Callers : ~Enqueued(c)
      BY <2>4 DEF Enqueued
    <3> QED
      BY <1>1, <2>1, <3>1, <3>2, <3>3 DEF LineMade
  <2> QED
    BY <2>3, <2>6, <2>7
<1> QED
  BY <1>2, <1>3 DEF RecoveringIsOnFile

LEMMA SharesApart ==
  ASSUME NEW m \in Nat, NEW n \in Nat
  PROVE  /\ m + 1 <= n => Times(m) + Share <= Times(n)
         /\ m <= n + 1 => Times(m) <= Times(n) + Share
<1>1. /\ \A k \in Nat : Times(k + 1) = Times(k) + Share
      /\ \A j, k \in Nat : j <= k => Times(j) <= Times(k)
  BY Shares
<1>2. m + 1 \in Nat /\ n + 1 \in Nat
  OBVIOUS
<1>3. Times(m + 1) = Times(m) + Share /\ Times(n + 1) = Times(n) + Share
  BY <1>1
<1>4. m + 1 <= n => Times(m + 1) <= Times(n)
  BY <1>1, <1>2
<1>5. m <= n + 1 => Times(m) <= Times(n + 1)
  BY <1>1, <1>2
<1> QED
  BY <1>3, <1>4, <1>5

(* What a step adds is covered by what its call pays, or by the caller     *)
(* that hands the envelope in.                                             *)
LEMMA StaysPaidFor ==
  ASSUME BoundInv, Budget["cleanups"] = 0, [Next]_vars, NEW d \in Envelopes
  PROVE  /\ IsFiniteSet(Handing(d)')
         /\ starts'[d] + Potential(d)' + Times(Cardinality(Handing(d)')) <= Times(spent'["calls"])
<1> DEFINE before == Cardinality(Handing(d))
           after == Cardinality(Handing(d)')
           calls == spent["calls"]
           load == starts[d] + Potential(d)
           next == starts'[d] + Potential(d)'
<1>1. /\ IsFiniteSet(Handing(d)) /\ IsFiniteSet(Handing(d)') /\ Pays(d)
      /\ load + Times(before) <= Times(calls)
  BY EveryonePays DEF BoundInv, PaidFor
<1>2. before \in Nat /\ after \in Nat
  BY <1>1, FS_CardinalityType
<1>3. TypedInv /\ TypedInv' /\ calls \in Nat /\ starts[d] \in Nat /\ starts'[d] \in Nat
  BY BoundSteps DEF TypedInv, MoreTyped, Typed, Kinds
<1>4. Potential(d) \in Nat /\ load \in Nat
  BY <1>3, Potentials
<1>5. Potential(d)' \in Nat /\ Potential(d)' <= Share
  <2>1. (MaxRecoveryRetries \in Nat) /\ Share = MaxRecoveryRetries + 2
    BY Shares
  <2>2. /\ LineLeft(file'[d]) \in Nat /\ LineLeft(file'[d]) <= 1 + MaxRecoveryRetries
        /\ Left(queue'[d].retries) \in Nat /\ Left(queue'[d].retries) <= MaxRecoveryRetries
    <3>1. file'[d] \in Entry /\ queue'[d].retries \in Nat
      BY BoundSteps DEF Typed, Entry
    <3> QED
      BY <3>1, Remaining
  <2>3. InMemory(d)' \in Nat /\ InMemory(d)' <= 1 + MaxRecoveryRetries
    BY <2>1, <2>2 DEF InMemory
  <2> QED
    BY <2>1, <2>2, <2>3 DEF Potential
<1>6. Share \in Nat /\ Times(before) \in Nat /\ Times(after) \in Nat /\ Times(calls) \in Nat
  BY <1>2, <1>3, Shares
<1>7. Times(calls + 1) = Times(calls) + Share
  BY <1>3, Shares
<1>8. after <= before => Times(after) <= Times(before)
  BY <1>2, Shares
<1>9. after + 1 <= before => Times(after) + Share <= Times(before)
  BY <1>2, SharesApart
<1>10. after <= before + 1 => Times(after) <= Times(before) + Share
  BY <1>2, SharesApart
<1>11. \/ starts'[d] = starts[d] /\ after <= before /\ spent'["calls"] = calls + 1
       \/ starts'[d] = starts[d] /\ after + 1 <= before /\ spent'["calls"] = calls
       \/ next <= load /\ after <= before + 1 /\ spent'["calls"] = calls + 1
       \/ next <= load /\ after <= before /\ spent'["calls"] = calls
  BY <1>1, LoadShrinks DEF Pays
<1>12. next + Times(after) <= Times(spent'["calls"])
  <2> DEFINE was == Potential(d)
             new == Potential(d)'
             t == Times(before)
             u == Times(after)
             v == Times(calls)
             w == Times(spent'["calls"])
  <2>1. \/ starts'[d] = starts[d] /\ u <= t /\ w = v + Share
        \/ starts'[d] = starts[d] /\ u + Share <= t /\ w = v
        \/ next <= load /\ u <= t + Share /\ w = v + Share
        \/ next <= load /\ u <= t /\ w = v
    BY <1>7, <1>8, <1>9, <1>10, <1>11
  <2>2. /\ was \in Nat /\ new \in Nat /\ new <= Share /\ Share \in Nat
        /\ t \in Nat /\ u \in Nat /\ v \in Nat
        /\ load = starts[d] + was /\ next = starts'[d] + new
        /\ load + t <= v
    BY <1>1, <1>4, <1>5, <1>6
  <2> HIDE DEF was, new, t, u, v, w, load, next
  <2> QED
    BY <1>3, <2>1, <2>2 DEF u, w
<1> QED
  BY <1>1, <1>12

LEMMA BoundAlways == Budget["cleanups"] = 0 => (Spec => []BoundInv)
<1> SUFFICES ASSUME Budget["cleanups"] = 0 PROVE Spec => []BoundInv
  OBVIOUS
<1>1. ASSUME Init PROVE BoundInv
  <2>1. TypedInv
    BY <1>1, Initially, MoreTypedAtFirst DEF TypedInv
  <2>2. \A l \in Loops : loop[l].pc = "idle"
    BY <1>1, Rests DEF Init
  <2>3. \A c \in Callers : call[c].pc = "returned"
    BY <1>1 DEF Init, Returned, CallAt
  <2>4. rebuild.pc = "none" /\ recovering = {}
    BY <1>1 DEF Init, NoRebuild
  <2>5. LinesAreMarks /\ RecoveringIsOnFile
    BY <2>2, <2>4 DEF LinesAreMarks, RecoveringIsOnFile
  <2>6. ASSUME NEW e \in Envelopes
        PROVE  /\ IsFiniteSet(Handing(e))
               /\ starts[e] + Potential(e) + Times(Cardinality(Handing(e))) <= Times(spent["calls"])
    <3>1. Handing(e) = {} /\ ~Enqueuing(e)
      BY <2>3 DEF Handing, Enqueuing
    <3>2. IsFiniteSet({}) /\ Cardinality({}) = 0
      BY FS_EmptySet
    <3>3. queue[e].state = "absent" /\ file[e].state = "absent"
      BY <1>1, Blank DEF Init, Nothing
    <3>4. ~Ready(e)
      BY <2>2, <3>3 DEF Ready, Marked
    <3>5. Potential(e) = 0
      BY <3>1, <3>3, <3>4 DEF Potential, LineLeft, InMemory
    <3>6. starts[e] = 0 /\ spent["calls"] = 0
      BY <1>1 DEF Init, Zeros, Kinds
    <3>7. Times(0) = 0
      BY Shares
    <3>8. Cardinality(Handing(e)) = 0
      BY <3>1, <3>2
    <3> QED
      BY <3>1, <3>2, <3>5, <3>6, <3>7, <3>8
  <2> QED
    BY <2>1, <2>4, <2>5, <2>6 DEF BoundInv, PaidFor
<1>2. ASSUME BoundInv, [Next]_vars PROVE BoundInv'
  <2>1. TypedInv'
    BY <1>2, BoundSteps
  <2>2. rebuild'.pc = "none"
    <3>1. Crash => rebuild'.pc = "none"
      BY DEF Crash, NoRebuild
    <3> QED
      BY <1>2, <3>1, WorldChanges, BoundSteps DEF BoundInv
  <2>3. PaidFor'
    <3>1. ASSUME NEW d \in Envelopes
          PROVE  (/\ IsFiniteSet(Handing(d))
                  /\ starts[d] + Potential(d) + Times(Cardinality(Handing(d))) <= Times(spent["calls"]))'
      BY <1>2, StaysPaidFor
    <3> QED
      BY <3>1 DEF PaidFor
  <2> QED
    BY <1>2, <2>1, <2>2, <2>3, LinesStayMarks, RecoveringStaysOnFile DEF BoundInv
<1> QED
  BY <1>1, <1>2, PTL DEF Spec

(* An envelope is started at most MaxRecoveryRetries + 2 times for each    *)
(* call that may hand it in, whatever crashes: recovery counts what it     *)
(* resets, and a start whose line has landed is counted at the next start  *)
(* of the process.  Without clearCompleted, whose snapshot may put an      *)
(* entry back on file as it was before it was started.                     *)
THEOREM RecoveryEnds == Budget["cleanups"] = 0 => (Spec => []RecoveryBounded)
<1> SUFFICES ASSUME Budget["cleanups"] = 0 PROVE Spec => []RecoveryBounded
  OBVIOUS
<1>1. ASSUME BoundInv, NEW e \in Envelopes
      PROVE  starts[e] <= spent["calls"] * (MaxRecoveryRetries + 2)
  <2> DEFINE handing == Cardinality(Handing(e))
             t == Times(handing)
             calls == Times(spent["calls"])
             potential == Potential(e)
  <2>1. starts[e] + potential + t <= calls /\ handing \in Nat
    BY <1>1, FS_CardinalityType DEF BoundInv, PaidFor
  <2>2. starts[e] \in Nat /\ spent["calls"] \in Nat /\ TypedInv
    BY <1>1 DEF BoundInv, TypedInv, MoreTyped, ExecutorInv, Typed, Kinds
  <2>3. t \in Nat /\ calls \in Nat
    BY <2>1, <2>2, Shares
  <2>4. potential \in Nat
    BY <2>2, Potentials
  <2>5. calls = spent["calls"] * (MaxRecoveryRetries + 2)
    BY DEF Times, Share
  <2> HIDE DEF handing, t, calls, potential
  <2>6. starts[e] <= calls
    BY <2>1, <2>2, <2>3, <2>4
  <2> QED
    BY <2>5, <2>6
<1>2. BoundInv => RecoveryBounded
  BY <1>1 DEF RecoveryBounded
<1> QED
  BY <1>2, BoundAlways, PTL
=============================================================================
