--------------------------- MODULE QueuedExecutor ---------------------------
(***************************************************************************)
(* The queued executor, execution/queued-executor.js, with the queue of    *)
(* ExecutionQueue, the dead letter queue, the retry policy, the pause      *)
(* switch, and the crash recovery of core/crash-recovery-manager.js.       *)
(*                                                                         *)
(* A loop is one setImmediate callback of _triggerExecution and all it     *)
(* awaits; a caller is a submit, a requeue or a cancel that has not        *)
(* returned.  Both stop only where the code waits: for a line to be        *)
(* appended, for the executor, for the timeout handler, for room in the    *)
(* queue.  Between two waits everything is one step.  Lines of different   *)
(* flows may land in any order.                                            *)
(*                                                                         *)
(* Left out: what admission looks at (a refused submit changes nothing),   *)
(* the budget of an agent, the logs, the metrics and the trackers.         *)
(***************************************************************************)
EXTENDS ExecutionQueue

CONSTANTS
  None,                \* no envelope
  Loops, Callers,      \* how many of each may be under way at once
  Mode,                \* backpressureMode: "reject" or "wait"
  MaxConcurrency, MaxRetries, MaxRecoveryRetries,
  Automatic,           \* what enableAutomaticRecovery may be at a start
  Budget               \* how often the environment may act, of each kind

Kinds == {"calls", "crashes", "faults", "cleanups", "pauses"}

ASSUME ExecutorAssumption ==
  /\ None \notin Envelopes
  /\ IsFiniteSet(Loops)
  /\ Mode \in {"reject", "wait"}
  /\ MaxConcurrency \in Nat \ {0}
  /\ MaxRetries \in Nat \ {0} /\ MaxRecoveryRetries \in Nat \ {0}
  /\ Automatic \subseteq BOOLEAN
  /\ Budget \in [Kinds -> Nat]

VARIABLES
  queue,       \* the entry of each envelope
  fifo,        \* the envelopes in the order next() scans them
  results,     \* executionResults: the envelopes with a cached result
  file,        \* the last line of each envelope in the queue's file
  dlq,         \* the state of each dead letter
  dlqFile,     \* what the file of the dead letters says of it
  executing,   \* the executor's flag
  current,     \* currentExecutions
  paused,      \* the pause switch, which is written through to disk
  timers,      \* retry timers that have not fired
  loop,        \* the loops
  call,        \* the callers
  rebuild,     \* clearCompleted: what is left to do, and what it will write
  recovering,  \* the executions that crash recovery has still to handle
  orphans,     \* executions found at the last start and judged too young
  overdue,     \* executors that still run after their timeout
  starts,      \* how often the executor was started on each envelope
  acked,       \* the envelopes whose submit or requeue stored a new entry
  spent        \* what the environment has used of its budget

store == <<queue, fifo, results>>
slots == <<executing, current>>
world == <<recovering, orphans, overdue, starts, acked>>
vars == <<store, file, dlq, dlqFile, slots, paused, timers, loop, call, rebuild, world, spent>>

DLQStates == {"absent", "dead_lettered", "requeued", "cancelled"}
Waits == {"marking", "running", "timing_out", "completing", "failing", "burying"}

LoopAt(pc, e, line, why) == [pc |-> pc, env |-> e, line |-> line, why |-> why]
Idle == LoopAt("idle", None, NoEntry, "none")
Scheduled == LoopAt("scheduled", None, NoEntry, "none")

CallAt(pc, e) == [pc |-> pc, env |-> e]
Returned == CallAt("returned", None)

NoRebuild == [pc |-> "none", lines |-> [e \in Envelopes |-> NoEntry]]

Nothing == [e \in Envelopes |-> NoEntry]
NoLetters == [e \in Envelopes |-> "absent"]
Zeros == [e \in Envelopes |-> 0]

Spend(kind) == spent[kind] < Budget[kind] /\ spent' = [spent EXCEPT ![kind] = @ + 1]

Busy(l) == loop[l].pc \in Waits
Started == recovering = {}

Init ==
  /\ queue = Nothing /\ fifo = <<>> /\ results = {}
  /\ file = Nothing
  /\ dlq = NoLetters /\ dlqFile = NoLetters
  /\ executing = FALSE /\ current = 0
  /\ paused = FALSE /\ timers = 0
  /\ loop = [l \in Loops |-> Idle]
  /\ call = [c \in Callers |-> Returned]
  /\ rebuild = NoRebuild
  /\ recovering = {} /\ orphans = {}
  /\ overdue = Zeros /\ starts = Zeros /\ acked = {}
  /\ spent = [k \in Kinds |-> 0]
-----------------------------------------------------------------------------
(***************************************************************************)
(* _triggerExecution.  A loop is scheduled when none executes and there is *)
(* a slot.  When every loop is taken one of them is scheduled already, and *)
(* one more would do what that one does.                                   *)
(***************************************************************************)

(* Mutant: only the counter is looked at.                                  *)
MayStartBeside(flag, n) == n < MaxConcurrency

MayStart(flag, n) == ~flag /\ n < MaxConcurrency

Triggered ==
  LET idle == {l \in Loops : loop[l].pc = "idle"} IN
  IF MayStart(executing, current) /\ idle # {}
  THEN \E l \in idle : loop' = [loop EXCEPT ![l] = Scheduled]
  ELSE UNCHANGED loop

(* The tail of the loop: once more if entries are queued.                  *)
Next_(q, flag, n) == IF InState(q, "queued") # {} /\ MayStart(flag, n) THEN Scheduled ELSE Idle

Goes(l, to) == loop' = [loop EXCEPT ![l] = to]

(* executeNext returns null: executing, no slot, paused, or nothing next.  *)
Found(e) == IsNext(queue, fifo, e)

FindNothing(l) ==
  /\ loop[l].pc = "scheduled"
  /\ ~MayStart(executing, current) \/ paused \/ \A e \in Envelopes : ~Found(e)
  /\ Goes(l, Next_(queue, executing, current))
  /\ UNCHANGED <<store, file, dlq, dlqFile, slots, paused, timers, call, rebuild, world, spent>>

(* Mutant: no entry is recognised as executed already.                     *)
NeverExecuted(e) == FALSE

(* isAlreadyExecuted                                                       *)
AlreadyExecuted(e) == e \in results

SkipExecuted(l, e) ==
  /\ loop[l].pc = "scheduled"
  /\ MayStart(executing, current) /\ ~paused /\ Found(e)
  /\ AlreadyExecuted(e)
  /\ queue' = [queue EXCEPT ![e] = NoEntry]
  /\ fifo' = Without(fifo, e)
  /\ Goes(l, Next_(queue', executing, current))
  /\ UNCHANGED <<results, file, dlq, dlqFile, slots, paused, timers, call, rebuild, world, spent>>

Begin(l, e) ==
  /\ loop[l].pc = "scheduled"
  /\ MayStart(executing, current) /\ ~paused /\ Found(e)
  /\ ~AlreadyExecuted(e)
  /\ executing' = TRUE
  /\ current' = current + 1
  /\ queue' = [queue EXCEPT ![e].state = "executing"]
  /\ Goes(l, LoopAt("marking", e, queue'[e], "none"))
  /\ UNCHANGED <<fifo, results, file, dlq, dlqFile, paused, timers, call, rebuild, world, spent>>

(* The line of markExecuting is written: the executor starts.              *)
Execute(l) ==
  LET e == loop[l].env IN
  /\ loop[l].pc = "marking"
  /\ file' = [file EXCEPT ![e] = loop[l].line]
  /\ starts' = [starts EXCEPT ![e] = @ + 1]
  /\ Goes(l, LoopAt("running", e, NoEntry, "none"))
  /\ UNCHANGED <<store, dlq, dlqFile, slots, paused, timers, call, rebuild,
                 recovering, orphans, overdue, acked, spent>>
-----------------------------------------------------------------------------
(***************************************************************************)
(* How an attempt ends.                                                    *)
(***************************************************************************)

(* Mutant: the slot is given back twice, here and by the loop.             *)
ReleasedTwice == executing' = FALSE /\ current' = current - 2

Released == executing' = FALSE /\ current' = current - 1

(* An error inside the catch block of executeNext: only the flag is reset, *)
(* by the loop, and the slot stays taken.                                  *)
Abandon(l) ==
  /\ executing' = FALSE
  /\ Goes(l, Idle)
  /\ UNCHANGED <<queue, current>>

(* Mutant: the failure is counted but the entry keeps its state.           *)
MarkCounted(l, why) ==
  LET e == loop[l].env IN
  /\ queue' = [queue EXCEPT ![e].retries = @ + 1]
  /\ Goes(l, LoopAt("failing", e, queue'[e], why))
  /\ UNCHANGED slots

(* The catch block up to the line of markFailed.                           *)
MarkFailed(l, why) ==
  LET e == loop[l].env IN
  IF queue[e].state = "absent" THEN Abandon(l)
  ELSE /\ queue' = [queue EXCEPT ![e] = [state |-> "failed", retries |-> @.retries + 1]]
       /\ Goes(l, LoopAt("failing", e, queue'[e], why))
       /\ UNCHANGED slots

Fail(l, why) ==
  /\ loop[l].pc = "running"
  /\ MarkFailed(l, why)
  /\ UNCHANGED <<fifo, results, file, dlq, dlqFile, paused, timers, call, rebuild, world, spent>>

(* Mutant: no timer is set.                                                *)
NoTimeOut(l) == FALSE

(* The timer of _executeWithTimeout fires.  The executor is not stopped;   *)
(* what it answers later is ignored.                                       *)
TimeOut(l) ==
  LET e == loop[l].env IN
  /\ loop[l].pc = "running"
  /\ overdue' = [overdue EXCEPT ![e] = @ + 1]
  /\ Goes(l, LoopAt("timing_out", e, NoEntry, "none"))
  /\ UNCHANGED <<store, file, dlq, dlqFile, slots, paused, timers, call, rebuild,
                 recovering, orphans, starts, acked, spent>>

TimeoutHandled(l) ==
  /\ loop[l].pc = "timing_out"
  /\ MarkFailed(l, "permanent")
  /\ UNCHANGED <<fifo, results, file, dlq, dlqFile, paused, timers, call, rebuild, world, spent>>

LateAnswer(e) ==
  /\ overdue[e] > 0
  /\ overdue' = [overdue EXCEPT ![e] = @ - 1]
  /\ UNCHANGED <<store, file, dlq, dlqFile, slots, paused, timers, loop, call, rebuild,
                 recovering, orphans, starts, acked, spent>>

Succeed(l) ==
  LET e == loop[l].env IN
  /\ loop[l].pc = "running"
  /\ queue[e].state # "absent"
  /\ queue' = [queue EXCEPT ![e].state = "completed"]
  /\ results' = results \cup {e}
  /\ Goes(l, LoopAt("completing", e, queue'[e], "none"))
  /\ UNCHANGED <<fifo, file, dlq, dlqFile, slots, paused, timers, call, rebuild, world, spent>>

Completed(l) ==
  LET e == loop[l].env IN
  /\ loop[l].pc = "completing"
  /\ file' = [file EXCEPT ![e] = loop[l].line]
  /\ fifo' = Without(fifo, e)
  /\ Released
  /\ Goes(l, Next_(queue, executing', current'))
  /\ UNCHANGED <<queue, results, dlq, dlqFile, paused, timers, call, rebuild, world, spent>>

(* shouldRetry, with the count of the entry as it is now.                  *)
ShouldRetry(e, why) == why = "transient" /\ queue[e].retries < MaxRetries

(* A retry is a timer that triggers the loop; the entry stays failed.      *)
ScheduleRetry(l) ==
  LET e == loop[l].env IN
  /\ loop[l].pc = "failing"
  /\ ShouldRetry(e, loop[l].why)
  /\ file' = [file EXCEPT ![e] = loop[l].line]
  /\ timers' = timers + 1
  /\ Released
  /\ Goes(l, Idle)
  /\ UNCHANGED <<store, dlq, dlqFile, paused, call, rebuild, world, spent>>

DeadLetter(l) ==
  LET e == loop[l].env IN
  /\ loop[l].pc = "failing"
  /\ ~ShouldRetry(e, loop[l].why)
  /\ file' = [file EXCEPT ![e] = loop[l].line]
  /\ dlq' = [dlq EXCEPT ![e] = "dead_lettered"]
  /\ Goes(l, LoopAt("burying", e, NoEntry, "none"))
  /\ UNCHANGED <<store, dlqFile, slots, paused, timers, call, rebuild, world, spent>>

Buried(l) ==
  LET e == loop[l].env IN
  /\ loop[l].pc = "burying"
  /\ dlqFile' = [dlqFile EXCEPT ![e] = "dead_lettered"]
  /\ queue' = [queue EXCEPT ![e] = NoEntry]
  /\ fifo' = Without(fifo, e)
  /\ Released
  /\ Goes(l, Idle)
  /\ UNCHANGED <<results, file, dlq, paused, timers, call, rebuild, world, spent>>

(* An append of the loop fails.  In the try block it is one more failure,  *)
(* in the catch block it ends the loop there.                              *)
LineFails(l) ==
  /\ Spend("faults")
  /\ \/ loop[l].pc \in {"marking", "completing"} /\ MarkFailed(l, "permanent")
     \/ loop[l].pc \in {"failing", "burying"} /\ Abandon(l)
  /\ UNCHANGED <<fifo, results, file, dlq, dlqFile, paused, timers, call, rebuild, world>>

RetryTimer ==
  /\ timers > 0
  /\ timers' = timers - 1
  /\ Triggered
  /\ UNCHANGED <<store, file, dlq, dlqFile, slots, paused, call, rebuild, world, spent>>
-----------------------------------------------------------------------------
(***************************************************************************)
(* The callers.                                                            *)
(***************************************************************************)

(* Mutant: an envelope that is known keeps its place in the fifo.          *)
AdmitInPlace(c, e) ==
  IF Duplicate(queue, results, e)
  THEN /\ Triggered
       /\ call' = [call EXCEPT ![c] = Returned]
       /\ UNCHANGED <<queue, fifo>>
  ELSE /\ queue' = [queue EXCEPT ![e] = FreshEntry]
       /\ fifo' = IF queue[e].state = "absent" THEN Append(fifo, e) ELSE fifo
       /\ call' = [call EXCEPT ![c] = CallAt("enqueuing", e)]
       /\ UNCHANGED loop

(* enqueue once there is room.                                             *)
Admit(c, e) ==
  IF Duplicate(queue, results, e)
  THEN /\ Triggered
       /\ call' = [call EXCEPT ![c] = Returned]
       /\ UNCHANGED <<queue, fifo>>
  ELSE /\ queue' = [queue EXCEPT ![e] = FreshEntry]
       /\ fifo' = Append(fifo, e)
       /\ call' = [call EXCEPT ![c] = CallAt("enqueuing", e)]
       /\ UNCHANGED loop

(* enqueue; without room it throws, or waits.                              *)
Enqueue(c, e) ==
  IF ~Full(queue) THEN Admit(c, e)
  ELSE /\ call' = [call EXCEPT ![c] = IF Mode = "wait" THEN CallAt("waiting", e) ELSE Returned]
       /\ UNCHANGED <<queue, fifo, loop>>

Submit(c, e) ==
  /\ Started /\ call[c] = Returned
  /\ Spend("calls")
  /\ Enqueue(c, e)
  /\ UNCHANGED <<results, file, dlq, dlqFile, slots, paused, timers, rebuild, world>>

(* _waitForQueueSpace finds room, or gives up.                             *)
WaitEnds(c) ==
  /\ call[c].pc = "waiting"
  /\ \/ ~Full(queue) /\ Admit(c, call[c].env)
     \/ call' = [call EXCEPT ![c] = Returned] /\ UNCHANGED <<queue, fifo, loop>>
  /\ UNCHANGED <<results, file, dlq, dlqFile, slots, paused, timers, rebuild, world, spent>>

(* Mutant: the caller is answered before the line has landed.              *)
EnqueuedEarly(c) ==
  LET e == call[c].env IN
  /\ call[c].pc = "enqueuing"
  /\ acked' = acked \cup {e}
  /\ Triggered
  /\ call' = [call EXCEPT ![c] = Returned]
  /\ UNCHANGED <<store, file, dlq, dlqFile, slots, paused, timers, rebuild,
                 recovering, orphans, overdue, starts, spent>>

Enqueued(c) ==
  LET e == call[c].env IN
  /\ call[c].pc = "enqueuing"
  /\ file' = [file EXCEPT ![e] = FreshEntry]
  /\ acked' = acked \cup {e}
  /\ Triggered
  /\ call' = [call EXCEPT ![c] = Returned]
  /\ UNCHANGED <<store, dlq, dlqFile, slots, paused, timers, rebuild,
                 recovering, orphans, overdue, starts, spent>>

(* requeueDeadLetter up to the line of the dead letter.                    *)
Requeue(c, e) ==
  /\ Started /\ call[c] = Returned
  /\ dlq[e] = "dead_lettered"
  /\ Spend("calls")
  /\ dlq' = [dlq EXCEPT ![e] = "requeued"]
  /\ call' = [call EXCEPT ![c] = CallAt("requeuing", e)]
  /\ UNCHANGED <<store, file, dlqFile, slots, paused, timers, loop, rebuild, world>>

(* A line that says what became of a dead letter counts only after the     *)
(* line of the dead letter itself.                                         *)
Noted(lines, e, state) ==
  IF lines[e] = "absent" THEN lines ELSE [lines EXCEPT ![e] = state]

Requeued(c) ==
  LET e == call[c].env IN
  /\ call[c].pc = "requeuing"
  /\ dlqFile' = Noted(dlqFile, e, "requeued")
  /\ Enqueue(c, e)
  /\ UNCHANGED <<results, file, dlq, slots, paused, timers, rebuild, world, spent>>

Cancel(c, e) ==
  /\ Started /\ call[c] = Returned
  /\ dlq[e] \in {"dead_lettered", "requeued"}
  /\ Spend("calls")
  /\ dlq' = [dlq EXCEPT ![e] = "cancelled"]
  /\ call' = [call EXCEPT ![c] = CallAt("cancelling", e)]
  /\ UNCHANGED <<store, file, dlqFile, slots, paused, timers, loop, rebuild, world>>

Cancelled(c) ==
  /\ call[c].pc = "cancelling"
  /\ dlqFile' = Noted(dlqFile, call[c].env, "cancelled")
  /\ call' = [call EXCEPT ![c] = Returned]
  /\ UNCHANGED <<store, file, dlq, slots, paused, timers, loop, rebuild, world, spent>>

(* The append of a caller fails: it throws, and what memory says stays.    *)
CallFails(c) ==
  /\ Spend("faults")
  /\ call[c].pc \in {"enqueuing", "requeuing", "cancelling"}
  /\ call' = [call EXCEPT ![c] = Returned]
  /\ UNCHANGED <<store, file, dlq, dlqFile, slots, paused, timers, loop, rebuild, world>>

Pause ==
  /\ Started /\ ~paused /\ Spend("pauses")
  /\ paused' = TRUE
  /\ UNCHANGED <<store, file, dlq, dlqFile, slots, timers, loop, call, rebuild, world>>

Resume ==
  /\ Started /\ paused
  /\ paused' = FALSE
  /\ Triggered
  /\ UNCHANGED <<store, file, dlq, dlqFile, slots, timers, call, rebuild, world, spent>>

(* clearCompleted: the completed entries are dropped and what is left is   *)
(* written over the file, which is emptied first.                          *)
Cleanup ==
  /\ Started /\ rebuild = NoRebuild /\ Spend("cleanups")
  /\ queue' = [e \in Envelopes |-> IF queue[e].state = "completed" THEN NoEntry ELSE queue[e]]
  /\ rebuild' = [pc |-> "opening", lines |-> queue']
  /\ UNCHANGED <<fifo, results, file, dlq, dlqFile, slots, paused, timers, loop, call, world>>

Rebuild ==
  \/ /\ rebuild.pc = "opening"
     /\ file' = Nothing
     /\ rebuild' = [rebuild EXCEPT !.pc = "writing"]
     /\ UNCHANGED <<store, dlq, dlqFile, slots, paused, timers, loop, call, world, spent>>
  \/ /\ rebuild.pc = "writing"
     /\ file' = rebuild.lines
     /\ rebuild' = NoRebuild
     /\ UNCHANGED <<store, dlq, dlqFile, slots, paused, timers, loop, call, world, spent>>
-----------------------------------------------------------------------------
(***************************************************************************)
(* A crash, the start after it, and crash recovery.                        *)
(***************************************************************************)

(* What was in memory is lost and the files are read.  Of the executions   *)
(* found, those older than orphanedExecutionThresholdMs will be recovered. *)
Crash ==
  /\ Spend("crashes")
  /\ queue' = file
  /\ fifo' \in Orders(file)
  /\ results' = {}
  /\ dlq' = dlqFile
  /\ executing' = FALSE /\ current' = 0 /\ timers' = 0
  /\ loop' = [l \in Loops |-> Idle]
  /\ call' = [c \in Callers |-> Returned]
  /\ rebuild' = NoRebuild
  /\ recovering' \in SUBSET InState(file, "executing")
  /\ orphans' = InState(file, "executing") \ recovering'
  /\ overdue' = Zeros
  /\ UNCHANGED <<file, dlqFile, paused, starts, acked>>

(* Mutant: the count of the entry is not looked at.                        *)
NeverExhausted(e) == FALSE

RecoveryExhausted(e) == queue[e].retries >= MaxRecoveryRetries

(* recoverOrphanedEnvelope, one alternative each.  Nothing else runs yet,  *)
(* so that the wait for its line is not a step of its own.                 *)
Block(e) ==
  /\ FALSE \in Automatic
  /\ queue' = [queue EXCEPT ![e].state = "blocked"]
  /\ file' = [file EXCEPT ![e] = queue'[e]]
  /\ UNCHANGED <<fifo, dlq, dlqFile>>

GiveUp(e) ==
  /\ TRUE \in Automatic /\ RecoveryExhausted(e)
  /\ dlq' = [dlq EXCEPT ![e] = "dead_lettered"]
  /\ dlqFile' = [dlqFile EXCEPT ![e] = "dead_lettered"]
  /\ queue' = [queue EXCEPT ![e] = NoEntry]
  /\ fifo' = Without(fifo, e)
  /\ UNCHANGED file

(* Mutant: the entry goes to the fifo as it is.                            *)
ResetOrder(e) ==
  /\ TRUE \in Automatic /\ ~RecoveryExhausted(e)
  /\ fifo' = <<e>> \o Without(fifo, e)
  /\ UNCHANGED <<queue, file, dlq, dlqFile>>

(* The entry is queued again in memory only.                               *)
Reset(e) ==
  /\ TRUE \in Automatic /\ ~RecoveryExhausted(e)
  /\ queue' = [queue EXCEPT ![e] = [state |-> "queued", retries |-> @.retries + 1]]
  /\ fifo' = <<e>> \o Without(fifo, e)
  /\ UNCHANGED <<file, dlq, dlqFile>>

Recover(e) ==
  /\ e \in recovering
  /\ Block(e) \/ GiveUp(e) \/ Reset(e)
  /\ recovering' = recovering \ {e}
  /\ UNCHANGED <<results, slots, paused, timers, loop, call, rebuild,
                 orphans, overdue, starts, acked, spent>>
-----------------------------------------------------------------------------
Attempt(l) ==
  \/ FindNothing(l)
  \/ \E e \in Envelopes : SkipExecuted(l, e) \/ Begin(l, e)
  \/ Execute(l) \/ Completed(l) \/ TimeOut(l) \/ TimeoutHandled(l)
  \/ ScheduleRetry(l) \/ DeadLetter(l) \/ Buried(l)

(* The executor's answer.                                                  *)
Answer(l) == Succeed(l) \/ \E why \in {"transient", "permanent"} : Fail(l, why)

Serve(c) == WaitEnds(c) \/ Enqueued(c) \/ Requeued(c) \/ Cancelled(c)

Next ==
  \/ \E l \in Loops : Attempt(l) \/ Answer(l) \/ LineFails(l)
  \/ \E c \in Callers :
       \/ \E e \in Envelopes : Submit(c, e) \/ Requeue(c, e) \/ Cancel(c, e)
       \/ Serve(c) \/ CallFails(c)
  \/ RetryTimer \/ Pause \/ Resume \/ Cleanup \/ Rebuild \/ Crash
  \/ \E e \in Envelopes : LateAnswer(e) \/ Recover(e)

Spec == Init /\ [][Next]_vars

(* The callbacks run: a wait for a line ends, a timer fires.  Whether an   *)
(* executor answers at all is not assumed; its timer ends the wait.        *)
Fairness ==
  /\ \A l \in Loops : WF_vars(Attempt(l))
  /\ \A c \in Callers : WF_vars(Serve(c))
  /\ WF_vars(RetryTimer) /\ WF_vars(Rebuild)

FairSpec == Spec /\ Fairness
-----------------------------------------------------------------------------
(***************************************************************************)
(* Properties.                                                             *)
(***************************************************************************)

(* What every variable may hold.                                           *)
TypeOK ==
  /\ queue \in [Envelopes -> Entry] /\ file \in [Envelopes -> Entry]
  /\ fifo \in Seq(Envelopes) /\ results \subseteq Envelopes
  /\ dlq \in [Envelopes -> DLQStates] /\ dlqFile \in [Envelopes -> DLQStates]
  /\ executing \in BOOLEAN /\ current \in Nat /\ paused \in BOOLEAN /\ timers \in Nat
  /\ loop \in [Loops -> [pc : Waits \cup {"idle", "scheduled"}, env : Envelopes \cup {None},
                         line : Entry, why : {"none", "transient", "permanent"}]]
  /\ call \in [Callers -> [pc : {"returned", "waiting", "enqueuing", "requeuing", "cancelling"},
                           env : Envelopes \cup {None}]]
  /\ rebuild \in [pc : {"none", "opening", "writing"}, lines : [Envelopes -> Entry]]
  /\ recovering \subseteq Envelopes /\ orphans \subseteq Envelopes
  /\ overdue \in [Envelopes -> Nat] /\ starts \in [Envelopes -> Nat]
  /\ acked \subseteq Envelopes
  /\ spent \in [Kinds -> Nat]

BusyLoops == {l \in Loops : Busy(l)}

(* One envelope is executed at a time, whatever maxConcurrency says: the   *)
(* flag is set exactly while one loop is between its start and its last    *)
(* step.  The counter agrees with it except for the slots that failed      *)
(* appends have cost (queued-executor.js:446-618).                         *)
SlotsAccounted ==
  /\ executing = (BusyLoops # {})
  /\ Cardinality(BusyLoops) <= 1
  /\ current >= Cardinality(BusyLoops)
  /\ current <= Cardinality(BusyLoops) + spent["faults"]

(* An entry that is executing has a loop that will settle it, or was found *)
(* at the start: no path leaves one behind (execution-queue.js:169).       *)
ExecutingIsOwned ==
  \A e \in InState(queue, "executing") :
    \/ \E l \in Loops : loop[l].env = e /\ loop[l].pc \in {"marking", "running", "timing_out"}
    \/ e \in recovering \cup orphans

(* A queued entry is in the fifo, where next() can find it, unless its     *)
(* result is cached: the completion of an earlier attempt may still be     *)
(* about to take it out (execution-queue.js:196).                          *)
QueuedIsReachable ==
  \A e \in InState(queue, "queued") : e \in results \/ \E i \in DOMAIN fifo : fifo[i] = e

(* An envelope that completed is not executed again by this process, even  *)
(* when it was dropped from the queue and submitted once more              *)
(* (queued-executor.js:326).                                               *)
CompletedIsNotRerun == [][\A e \in results : starts'[e] = starts[e]]_vars

(* An acknowledged envelope that was never started is in the queue, or is  *)
(* a dead letter, through any number of crashes (execution-queue.js:124)   *)
(* where no clean-up empties the file, and through any clean-ups where the *)
(* process stays up.                                                       *)
AckedIsKept ==
  \A e \in acked : starts[e] = 0 => queue[e].state # "absent" \/ dlq[e] # "absent"

(* Crash recovery gives up: an envelope that brings the process down each  *)
(* time is started at most MaxRecoveryRetries + 2 times for each time it   *)
(* was handed in.  It would be one less if the line of the enqueue could   *)
(* not land after the line that says executing                             *)
(* (crash-recovery-manager.js:210).  Without clean-ups: one may write an   *)
(* entry back as it was before its last start.                             *)
RecoveryBounded ==
  \A e \in Envelopes : starts[e] <= spent["calls"] * (MaxRecoveryRetries + 2)

(* Every attempt ends, also when the executor never answers.               *)
AttemptsEnd == \A l \in Loops : Busy(l) ~> ~Busy(l)

(* A queued entry is taken, unless its result is cached, execution is      *)
(* paused, or no loop is left to take it: a loop that ends with an error   *)
(* does not look at the queue again (queued-executor.js:1140).             *)
QueuedIsServed ==
  \A e \in Envelopes :
    (queue[e].state = "queued" /\ e \notin results /\ ~paused)
      ~> (queue[e].state # "queued" \/ paused \/ \A l \in Loops : loop[l].pc = "idle")

(* A transient failure is retried: when the timer of the retry is set and  *)
(* nothing is in its way, the envelope is executed again                   *)
(* (queued-executor.js:581).                                               *)
TransientIsRetried ==
  \A e \in Envelopes :
    (\E l \in Loops : loop[l].pc = "failing" /\ loop[l].env = e /\ ShouldRetry(e, loop[l].why))
      ~> (queue[e].state = "executing")
=============================================================================
