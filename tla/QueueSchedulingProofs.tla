----------------------- MODULE QueueSchedulingProofs -----------------------
(***************************************************************************)
(* Theorems about QueueScheduling, for any items, scheduler cycles,        *)
(* workers and retry policies: an item is executed at most once, is        *)
(* running only once it is claimed, and keeps its outcome.                 *)
(***************************************************************************)
EXTENDS QueueScheduling, TLAPS

Holder == Cycles \cup {None}
Statuses == Open \cup {"NONE", "COMPLETED", "FAILED", "ABANDONED"}

ItemRecord == [state : States, lease : Holder, fresh : BOOLEAN]
RowRecord == [active : BOOLEAN, holder : Holder, fresh : BOOLEAN,
              expired : BOOLEAN, released : BOOLEAN]
ClaimRecord == [status : Statuses, worker : Workers \cup {None}, aged : BOOLEAN]
CycleRecord == [pc : PCs, item : Items \cup {None}, to : States]
WatchRecord == [pc : {"none", "leases", "stuck"}, expired : BOOLEAN, reclaim : BOOLEAN]

(* A cycle that stands at an await of processQueueItem processes an item.  *)
Busy(r) == r.pc \notin {"idle", "down"} => r.item \in Items

(* The awaits between the insertion of the claim and governance re-entry.  *)
Entering == {"claimed", "running", "started"}

EnteringIsClaimed ==
  \A c \in Cycles : cycle[c].pc \in Entering =>
    claim[cycle[c].item].status # "NONE" /\ runs[cycle[c].item] = 0

(* The claim row is what makes them exclude each other.                    *)
EnteringAlone ==
  \A c, d \in Cycles :
    cycle[c].pc \in Entering /\ cycle[d].pc \in Entering /\ cycle[c].item = cycle[d].item
      => c = d

ExecutedIsClaimed ==
  \A i \in Items : runs[i] # 0 => claim[i].status # "NONE"

QueueInv ==
  /\ TypeOK
  /\ EnteringIsClaimed /\ EnteringAlone /\ ExecutedIsClaimed
  /\ ExecutedOnce /\ RunningIsClaimed
-----------------------------------------------------------------------------
(* What a step does to the rows of each table                              *)

LEMMA Typed ==
  ASSUME TypeOK
  PROVE  /\ item \in [Items -> ItemRecord] /\ row \in [Items -> RowRecord]
         /\ claim \in [Items -> ClaimRecord] /\ cycle \in [Cycles -> CycleRecord]
         /\ watch \in [Items -> WatchRecord] /\ runs \in [Items -> Nat]
         /\ \A c \in Cycles : Busy(cycle[c])
BY DEF TypeOK, ItemRecord, RowRecord, ClaimRecord, CycleRecord, WatchRecord, Busy, Holder, Statuses

(* The states an item may go to, and what a cycle may go to next.          *)
LEMMA Targets ==
  /\ \A from \in States : ALLOWED_QUEUE_TRANSITIONS[from] \subseteq States
  /\ \A from \in Terminal : ALLOWED_QUEUE_TRANSITIONS[from] = {}
  /\ \A from \in States : "RUNNING" \in ALLOWED_QUEUE_TRANSITIONS[from] => from = "READY"
BY DEF ALLOWED_QUEUE_TRANSITIONS, States, Terminal

(* A cycle takes up an item, stands elsewhere with the one it has, or ends. *)
CycleEffect ==
  \/ UNCHANGED cycle
  \/ \E c \in Cycles, i \in Items :
       cycle' = [cycle EXCEPT ![c] = [Idle EXCEPT !.pc = "picked", !.item = i]]
  \/ \E c \in Cycles : cycle' = [cycle EXCEPT ![c] = Idle]
  \/ \E c \in Cycles, next \in PCs, to \in States :
       /\ cycle[c].pc \notin {"idle", "down"}
       /\ cycle' = [cycle EXCEPT ![c].pc = next, ![c].to = to]
  \/ \E w \in Workers : cycle' = [c \in Cycles |-> IF WorkerOf[c] = w THEN Down ELSE cycle[c]]

LEMMA CyclesTyped ==
  ASSUME TypeOK, CycleEffect
  PROVE  cycle' \in [Cycles -> CycleRecord] /\ \A c \in Cycles : Busy(cycle'[c])
<1>1. cycle \in [Cycles -> CycleRecord] /\ \A c \in Cycles : Busy(cycle[c])
  BY Typed
<1>2. CASE UNCHANGED cycle
  BY <1>1, <1>2
<1>3. Idle \in CycleRecord /\ Busy(Idle) /\ Down \in CycleRecord /\ Busy(Down)
  BY DEF Idle, Down, CycleRecord, Busy, PCs, States
<1>4. ASSUME NEW c \in Cycles, NEW i \in Items,
             cycle' = [cycle EXCEPT ![c] = [Idle EXCEPT !.pc = "picked", !.item = i]]
      PROVE  cycle' \in [Cycles -> CycleRecord] /\ \A d \in Cycles : Busy(cycle'[d])
  <2>1. LET r == [Idle EXCEPT !.pc = "picked", !.item = i] IN r \in CycleRecord /\ Busy(r)
    BY DEF Idle, CycleRecord, Busy, PCs, States
  <2> QED
    BY <1>1, <1>4, <2>1
<1>5. ASSUME NEW c \in Cycles, cycle' = [cycle EXCEPT ![c] = Idle]
      PROVE  cycle' \in [Cycles -> CycleRecord] /\ \A d \in Cycles : Busy(cycle'[d])
  BY <1>1, <1>3, <1>5
<1>6. ASSUME NEW c \in Cycles, NEW next \in PCs, NEW to \in States,
             cycle[c].pc \notin {"idle", "down"},
             cycle' = [cycle EXCEPT ![c].pc = next, ![c].to = to]
      PROVE  cycle' \in [Cycles -> CycleRecord] /\ \A d \in Cycles : Busy(cycle'[d])
  <2>1. cycle[c].item \in Items
    BY <1>1, <1>6 DEF Busy
  <2> QED
    BY <1>1, <1>6, <2>1 DEF CycleRecord, Busy
<1>7. ASSUME NEW w \in Workers,
             cycle' = [c \in Cycles |-> IF WorkerOf[c] = w THEN Down ELSE cycle[c]]
      PROVE  cycle' \in [Cycles -> CycleRecord] /\ \A d \in Cycles : Busy(cycle'[d])
  BY <1>1, <1>3, <1>7
<1> QED
  BY <1>2, <1>4, <1>5, <1>6, <1>7 DEF CycleEffect

(* Every action of a cycle names the await it comes from.                  *)
LEMMA CycleSteps ==
  ASSUME TypeOK, [Next]_vars
  PROVE  CycleEffect
<1>1. /\ cycle \in [Cycles -> CycleRecord]
      /\ Requeues \subseteq States
  BY Typed, QueueAssumption
<1>2. ASSUME NEW c \in Cycles, NEW next \in PCs, Goes(c, next),
             cycle[c].pc \notin {"idle", "down"}
      PROVE  CycleEffect
  <2>1. cycle[c].to \in States
    BY <1>1 DEF CycleRecord
  <2>2. cycle' = [cycle EXCEPT ![c].pc = next, ![c].to = cycle[c].to]
    BY <1>1, <1>2 DEF Goes, CycleRecord
  <2> QED
    BY <1>2, <2>1, <2>2 DEF CycleEffect
<1>3. ASSUME NEW c \in Cycles, NEW next \in PCs, NEW to \in States, GoesFor(c, next, to),
             cycle[c].pc \notin {"idle", "down"}
      PROVE  CycleEffect
  BY <1>3 DEF GoesFor, CycleEffect
<1>4. ASSUME NEW c \in Cycles, CycleStep(c)
      PROVE  CycleEffect
  <2>1. ASSUME NEW i \in Items, PickItem(c, i)
        PROVE  CycleEffect
    BY <2>1 DEF PickItem, CycleEffect
  <2>2. CASE LeaseRefused(c) \/ ReleaseLease(c)
    BY <2>2 DEF LeaseRefused, ReleaseLease, CycleEffect
  <2>3. CASE AcquireLease(c) \/ AcquireClaim(c) \/ ClaimRefused(c) \/ MarkStarted(c)
             \/ Execute(c) \/ MarkClaim(c) \/ FailClaim(c) \/ FailItem(c)
    BY <1>2, <2>3 DEF AcquireLease, AcquireClaim, ClaimRefused, MarkStarted, Execute,
         MarkClaim, FailClaim, FailItem, PCs
  <2>4. CASE BeginRunning(c)
    BY <1>2, <2>4 DEF BeginRunning, PCs
  <2>5. CASE Throws(c) \/ Conclude(c)
    BY <1>3, <2>5 DEF Throws, Conclude, PCs, States
  <2>6. ASSUME NEW to \in {"COMPLETED", "CANCELLED"} \cup Requeues, Answered(c, to)
        PROVE  CycleEffect
    <3>1. to \in States
      BY <1>1 DEF States
    <3> QED
      BY <1>3, <2>6, <3>1 DEF Answered, PCs
  <2> QED
    BY <1>4, <2>1, <2>2, <2>3, <2>4, <2>5, <2>6 DEF CycleStep
<1>5. ASSUME NEW i \in Items, ItemStep(i)
      PROVE  UNCHANGED cycle
  BY <1>5 DEF ItemStep, LeaseRunsOut, ExpireLease, ClaimAges, MarkAbandoned, WatchItem,
       JudgeItem, RecoverItem, Supersede, WakeDependent
<1>6. ASSUME NEW w \in Workers, Crash(w)
      PROVE  CycleEffect
  BY <1>6 DEF Crash, CycleEffect
<1>7. CASE UNCHANGED vars
  BY <1>7 DEF vars, CycleEffect
<1> QED
  BY <1>4, <1>5, <1>6, <1>7 DEF Next, CycleEffect

(* An item moves only along the allowed transitions, and becomes RUNNING   *)
(* only when a cycle that has claimed it begins.                           *)
ItemWrite(i, r) ==
  /\ item' = [item EXCEPT ![i] = r]
  /\ \/ r.state = item[i].state
     \/ /\ r.state \in ALLOWED_QUEUE_TRANSITIONS[item[i].state]
        /\ r.state = "RUNNING" =>
             \E c \in Cycles : cycle[c].pc = "claimed" /\ cycle[c].item = i

ItemEffect == UNCHANGED item \/ \E i \in Items, r \in ItemRecord : ItemWrite(i, r)

LEMMA StateWrites ==
  ASSUME TypeOK, NEW i \in Items, NEW to \in States, Moves(i, item[i].state, to), SetState(i, to),
         to = "RUNNING" => \E c \in Cycles : cycle[c].pc = "claimed" /\ cycle[c].item = i
  PROVE  ItemEffect
<1> DEFINE r == [item[i] EXCEPT !.state = to]
<1>1. item \in [Items -> ItemRecord]
  BY Typed
<1>2. r \in ItemRecord /\ r.state = to
  BY <1>1 DEF ItemRecord
<1>3. item' = [item EXCEPT ![i] = r]
  BY <1>1 DEF SetState
<1> HIDE DEF r
<1> QED
  BY <1>2, <1>3 DEF ItemEffect, ItemWrite, Moves

(* Writes to the lease of an item leave its state alone.                   *)
LEMMA LeaseWrites ==
  ASSUME TypeOK, NEW i \in Items, NEW lease \in Holder, NEW fresh \in BOOLEAN,
         item' = [item EXCEPT ![i].lease = lease, ![i].fresh = fresh]
  PROVE  ItemEffect
<1> DEFINE r == [item[i] EXCEPT !.lease = lease, !.fresh = fresh]
<1>1. item \in [Items -> ItemRecord]
  BY Typed
<1>2. r \in ItemRecord /\ r.state = item[i].state
  BY <1>1 DEF ItemRecord
<1>3. item' = [item EXCEPT ![i] = r]
  BY <1>1, Zenon
<1> HIDE DEF r
<1> QED
  BY <1>2, <1>3 DEF ItemEffect, ItemWrite

LEMMA FreshWrites ==
  ASSUME TypeOK, NEW i \in Items, NEW fresh \in BOOLEAN,
         item' = [item EXCEPT ![i].fresh = fresh]
  PROVE  ItemEffect
<1> DEFINE r == [item[i] EXCEPT !.fresh = fresh]
<1>1. item \in [Items -> ItemRecord]
  BY Typed
<1>2. r \in ItemRecord /\ r.state = item[i].state
  BY <1>1 DEF ItemRecord
<1>3. item' = [item EXCEPT ![i] = r]
  BY <1>1, Zenon
<1> HIDE DEF r
<1> QED
  BY <1>2, <1>3 DEF ItemEffect, ItemWrite

LEMMA Clears ==
  ASSUME TypeOK, NEW i \in Items, NEW c, item' = WithoutLease(i, c)
  PROVE  ItemEffect
<1>1. CASE item' = item
  BY <1>1 DEF ItemEffect
<1>2. CASE item' = [item EXCEPT ![i].lease = None, ![i].fresh = FALSE]
  BY <1>2, LeaseWrites DEF Holder
<1> QED
  BY <1>1, <1>2 DEF WithoutLease

LEMMA ItemSteps ==
  ASSUME TypeOK, [Next]_vars
  PROVE  ItemEffect
<1>1. /\ item \in [Items -> ItemRecord] /\ row \in [Items -> RowRecord]
      /\ cycle \in [Cycles -> CycleRecord] /\ watch \in [Items -> WatchRecord]
      /\ \A c \in Cycles : Busy(cycle[c])
  BY Typed
<1>2. ASSUME NEW c \in Cycles, CycleStep(c)
      PROVE  ItemEffect
  <2> DEFINE i == cycle[c].item
  <2>1. CASE AcquireLease(c)
    <3>1. i \in Items
      BY <1>1, <2>1 DEF AcquireLease, Busy
    <3> QED
      BY <2>1, <3>1, LeaseWrites DEF AcquireLease, Holder
  <2>2. CASE ReleaseLease(c)
    <3>1. i \in Items
      BY <1>1, <2>2 DEF ReleaseLease, Busy
    <3> QED
      BY <2>2, <3>1, Clears DEF ReleaseLease
  <2>3. CASE BeginRunning(c)
    <3>1. i \in Items
      BY <1>1, <2>3 DEF BeginRunning, Busy
    <3>2. CASE Moves(i, "READY", "RUNNING")
      <4>1. Moves(i, item[i].state, "RUNNING") /\ SetState(i, "RUNNING") /\ cycle[c].pc = "claimed"
        BY <2>3, <3>2 DEF BeginRunning, Moves
      <4> QED
        BY <3>1, <4>1, StateWrites DEF States
    <3>3. CASE ~Moves(i, "READY", "RUNNING")
      BY <2>3, <3>3 DEF BeginRunning, ItemEffect
    <3> QED
      BY <3>2, <3>3
  <2>4. CASE Conclude(c)
    <3>1. i \in Items /\ cycle[c].to \in States
      BY <1>1, <2>4 DEF Conclude, Busy, CycleRecord
    <3>2. CASE Moves(i, "RUNNING", cycle[c].to)
      <4>1. Moves(i, item[i].state, cycle[c].to) /\ SetState(i, cycle[c].to)
        BY <2>4, <3>2 DEF Conclude, Moves
      <4>2. cycle[c].to # "RUNNING"
        BY <3>2, Targets DEF Moves, States
      <4> QED
        BY <3>1, <4>1, <4>2, StateWrites
    <3>3. CASE ~Moves(i, "RUNNING", cycle[c].to)
      BY <2>4, <3>3 DEF Conclude, ItemEffect
    <3> QED
      BY <3>2, <3>3
  <2>5. CASE FailItem(c)
    <3>1. i \in Items
      BY <1>1, <2>5 DEF FailItem, Busy
    <3>2. PICK to \in {"RETRY_SCHEDULED", "FAILED"} :
            (Moves(i, "RUNNING", to) /\ SetState(i, to)) \/ UNCHANGED item
      BY <2>5 DEF FailItem
    <3>3. CASE Moves(i, "RUNNING", to) /\ SetState(i, to)
      <4>1. Moves(i, item[i].state, to) /\ to \in States /\ to # "RUNNING"
        BY <3>3 DEF Moves, States
      <4> QED
        BY <3>1, <3>3, <4>1, StateWrites
    <3> QED
      BY <3>2, <3>3 DEF ItemEffect
  <2>6. CASE \/ \E j \in Items : PickItem(c, j)
             \/ LeaseRefused(c) \/ Throws(c) \/ AcquireClaim(c) \/ ClaimRefused(c)
             \/ MarkStarted(c) \/ Execute(c) \/ MarkClaim(c) \/ FailClaim(c)
             \/ \E to \in {"COMPLETED", "CANCELLED"} \cup Requeues : Answered(c, to)
    BY <2>6 DEF PickItem, LeaseRefused, Throws, AcquireClaim, ClaimRefused, MarkStarted,
         Execute, MarkClaim, FailClaim, Answered, ItemEffect
  <2> QED
    BY <1>2, <2>1, <2>2, <2>3, <2>4, <2>5, <2>6 DEF CycleStep
<1>3. ASSUME NEW i \in Items, ItemStep(i)
      PROVE  ItemEffect
  <2>1. CASE LeaseRunsOut(i)
    <3>1. CASE UNCHANGED row
      BY <2>1, <3>1, FreshWrites DEF LeaseRunsOut
    <3>2. CASE item' = [item EXCEPT ![i].fresh = item[i].fresh /\ item[i].lease # row[i].holder]
      BY <3>2, FreshWrites
    <3>3. \/ item' = [item EXCEPT ![i].fresh = FALSE]
          \/ item' = [item EXCEPT ![i].fresh = item[i].fresh /\ item[i].lease # row[i].holder]
      BY <1>1, <2>1 DEF LeaseRunsOut
    <3> QED
      BY <3>2, <3>3, FreshWrites
  <2>2. CASE ExpireLease(i)
    BY <2>2, Clears DEF ExpireLease
  <2>3. CASE RecoverItem(i)
    <3>1. PICK to \in {"RETRY_SCHEDULED", "FAILED"} :
            (Moves(i, "RUNNING", to) /\ SetState(i, to)) \/ UNCHANGED item
      BY <2>3 DEF RecoverItem
    <3>2. CASE Moves(i, "RUNNING", to) /\ SetState(i, to)
      <4>1. Moves(i, item[i].state, to) /\ to \in States /\ to # "RUNNING"
        BY <3>2 DEF Moves, States
      <4> QED
        BY <3>2, <4>1, StateWrites
    <3> QED
      BY <3>1, <3>2 DEF ItemEffect
  <2>4. CASE Supersede(i)
    BY <2>4, StateWrites DEF Supersede, States
  <2>5. CASE WakeDependent(i)
    <3>1. Moves(i, item[i].state, "READY")
      BY <2>5 DEF WakeDependent, Moves
    <3> QED
      BY <2>5, <3>1, StateWrites DEF WakeDependent, States
  <2>6. CASE ClaimAges(i) \/ MarkAbandoned(i) \/ WatchItem(i) \/ JudgeItem(i)
    BY <2>6 DEF ClaimAges, MarkAbandoned, WatchItem, JudgeItem, ItemEffect
  <2> QED
    BY <1>3, <2>1, <2>2, <2>3, <2>4, <2>5, <2>6 DEF ItemStep
<1>4. CASE (\E w \in Workers : Crash(w)) \/ UNCHANGED vars
  BY <1>4 DEF Crash, vars, ItemEffect
<1> QED
  BY <1>2, <1>3, <1>4 DEF Next

(* Marks and insertions keep the rows of a lease well formed.              *)
LEMMA RowWrites ==
  ASSUME NEW r \in RowRecord, NEW c \in Cycles
  PROVE  /\ MarkExpired(r) \in RowRecord /\ MarkReleased(r) \in RowRecord
         /\ InsertActive(r, c) \in RowRecord
<1>1. NoActive(r) \in RowRecord
  BY DEF NoActive, RowRecord, Holder
<1>2. MarkExpired(r) \in RowRecord
  <2>1. [NoActive(r) EXCEPT !.expired = TRUE] \in RowRecord
    BY <1>1 DEF RowRecord
  <2> QED
    BY <2>1 DEF MarkExpired
<1>3. MarkReleased(r) \in RowRecord
  <2>1. [NoActive(r) EXCEPT !.released = TRUE] \in RowRecord
    BY <1>1 DEF RowRecord
  <2>2. [r EXCEPT !.holder = None] \in RowRecord
    BY DEF RowRecord, Holder
  <2> QED
    BY <2>1, <2>2 DEF MarkReleased
<1>4. InsertActive(r, c) \in RowRecord
  <2>1. [r EXCEPT !.active = TRUE, !.holder = c, !.fresh = TRUE] \in RowRecord
    BY DEF RowRecord, Holder
  <2> QED
    BY <2>1 DEF InsertActive
<1> QED
  BY <1>2, <1>3, <1>4

LEMMA RowSteps ==
  ASSUME TypeOK, [Next]_vars
  PROVE  row' \in [Items -> RowRecord]
<1>1. row \in [Items -> RowRecord] /\ \A c \in Cycles : Busy(cycle[c])
  BY Typed
<1>2. ASSUME NEW c \in Cycles, CycleStep(c)
      PROVE  row' \in [Items -> RowRecord]
  <2>1. CASE AcquireLease(c)
    <3>1. cycle[c].item \in Items
      BY <1>1, <2>1 DEF AcquireLease, Busy
    <3>2. PICK r \in RowRecord : row' = [row EXCEPT ![cycle[c].item] = InsertActive(r, c)]
      BY <1>1, <2>1, <3>1, RowWrites DEF AcquireLease
    <3> QED
      BY <1>1, <3>1, <3>2, RowWrites
  <2>2. CASE ReleaseLease(c)
    <3>1. cycle[c].item \in Items
      BY <1>1, <2>2 DEF ReleaseLease, Busy
    <3>2. row' = [row EXCEPT ![cycle[c].item] = MarkReleased(row[cycle[c].item])] \/ row' = row
      BY <2>2 DEF ReleaseLease
    <3> QED
      BY <1>1, <3>1, <3>2, RowWrites
  <2>3. CASE ~AcquireLease(c) /\ ~ReleaseLease(c)
    BY <1>1, <1>2, <2>3 DEF CycleStep, PickItem, LeaseRefused, Throws, AcquireClaim, ClaimRefused,
         BeginRunning, MarkStarted, Execute, MarkClaim, Conclude, FailClaim, FailItem, Answered
  <2> QED
    BY <2>1, <2>2, <2>3
<1>3. ASSUME NEW i \in Items, ItemStep(i)
      PROVE  row' \in [Items -> RowRecord]
  <2>1. CASE LeaseRunsOut(i)
    <3>1. [row[i] EXCEPT !.fresh = FALSE] \in RowRecord
      BY <1>1 DEF RowRecord
    <3>2. row' = [row EXCEPT ![i] = [row[i] EXCEPT !.fresh = FALSE]] \/ row' = row
      BY <1>1, <2>1 DEF LeaseRunsOut
    <3> QED
      BY <1>1, <3>1, <3>2
  <2>2. CASE ExpireLease(i)
    <3>1. MarkExpired(row[i]) \in RowRecord
      <4>1. row[i] \in RowRecord
        BY <1>1
      <4>2. NoActive(row[i]) \in RowRecord
        BY <4>1 DEF NoActive, RowRecord, Holder
      <4>3. [NoActive(row[i]) EXCEPT !.expired = TRUE] \in RowRecord
        BY <4>2 DEF RowRecord
      <4> QED
        BY <4>1, <4>3 DEF MarkExpired
    <3> QED
      BY <1>1, <2>2, <3>1 DEF ExpireLease
  <2>3. CASE ~LeaseRunsOut(i) /\ ~ExpireLease(i)
    BY <1>1, <1>3, <2>3 DEF ItemStep, ClaimAges, MarkAbandoned, WatchItem, JudgeItem,
         RecoverItem, Supersede, WakeDependent
  <2> QED
    BY <2>1, <2>2, <2>3
<1>4. CASE (\E w \in Workers : Crash(w)) \/ UNCHANGED vars
  BY <1>1, <1>4 DEF Crash, vars
<1> QED
  BY <1>2, <1>3, <1>4 DEF Next

(* A claim is made once, where there is none, and changes only while open. *)
ClaimWrite(i, r) ==
  /\ claim' = [claim EXCEPT ![i] = r]
  /\ claim[i].status \in Open \cup {"NONE"}
  /\ r.status # "NONE"

ClaimEffect == UNCHANGED claim \/ \E i \in Items, r \in ClaimRecord : ClaimWrite(i, r)

LEMMA StatusWrites ==
  ASSUME TypeOK, NEW i \in Items, NEW to \in Statuses \ {"NONE"},
         claim[i].status \in Open, SetStatus(i, to)
  PROVE  ClaimEffect
<1> DEFINE r == [claim[i] EXCEPT !.status = to]
<1>1. claim \in [Items -> ClaimRecord]
  BY Typed
<1>2. r \in ClaimRecord /\ r.status = to
  BY <1>1 DEF ClaimRecord
<1>3. claim' = [claim EXCEPT ![i] = r]
  BY <1>1 DEF SetStatus
<1> HIDE DEF r
<1> QED
  BY <1>2, <1>3 DEF ClaimEffect, ClaimWrite

LEMMA ClaimSteps ==
  ASSUME TypeOK, [Next]_vars
  PROVE  ClaimEffect
<1>1. claim \in [Items -> ClaimRecord] /\ \A c \in Cycles : Busy(cycle[c])
  BY Typed
<1>2. ASSUME NEW c \in Cycles, CycleStep(c)
      PROVE  ClaimEffect
  <2> DEFINE i == cycle[c].item
  <2>1. CASE AcquireClaim(c)
    <3> DEFINE r == [status |-> "CLAIMED", worker |-> WorkerOf[c], aged |-> FALSE]
    <3>1. i \in Items
      BY <1>1, <2>1 DEF AcquireClaim, Busy
    <3>2. r \in ClaimRecord /\ r.status # "NONE"
      BY QueueAssumption DEF ClaimRecord, Statuses, Open
    <3>3. claim' = [claim EXCEPT ![i] = r] /\ claim[i].status = "NONE"
      BY <2>1 DEF AcquireClaim, ClaimExists
    <3> HIDE DEF r
    <3> QED
      BY <3>1, <3>2, <3>3 DEF ClaimEffect, ClaimWrite
  <2>2. CASE MarkStarted(c)
    <3>1. i \in Items
      BY <1>1, <2>2 DEF MarkStarted, Busy
    <3>2. CASE UNCHANGED claim
      BY <3>2 DEF ClaimEffect
    <3>3. CASE claim[i].status = "CLAIMED" /\ SetStatus(i, "STARTED")
      BY <3>1, <3>3, StatusWrites DEF Open, Statuses
    <3> QED
      BY <2>2, <3>2, <3>3 DEF MarkStarted
  <2>3. CASE MarkClaim(c) \/ FailClaim(c)
    <3>1. i \in Items
      BY <1>1, <2>3 DEF MarkClaim, FailClaim, Busy
    <3>2. PICK to \in {"COMPLETED", "FAILED"} : Closed(i, c, to)
      BY <2>3 DEF MarkClaim, FailClaim
    <3>3. CASE UNCHANGED claim
      BY <3>3 DEF ClaimEffect
    <3>4. CASE Own(i, c) /\ SetStatus(i, to)
      BY <3>1, <3>4, StatusWrites DEF Own, Statuses
    <3> QED
      BY <3>2, <3>3, <3>4 DEF Closed
  <2>4. CASE ~AcquireClaim(c) /\ ~MarkStarted(c) /\ ~MarkClaim(c) /\ ~FailClaim(c)
    BY <1>2, <2>4 DEF CycleStep, PickItem, AcquireLease, LeaseRefused, ReleaseLease, Throws,
         ClaimRefused, BeginRunning, Execute, Conclude, FailItem, Answered, ClaimEffect
  <2> QED
    BY <2>1, <2>2, <2>3, <2>4
<1>3. ASSUME NEW i \in Items, ItemStep(i)
      PROVE  ClaimEffect
  <2>1. CASE ClaimAges(i)
    <3> DEFINE r == [claim[i] EXCEPT !.aged = TRUE]
    <3>1. r \in ClaimRecord /\ r.status = claim[i].status
      BY <1>1 DEF ClaimRecord
    <3>2. claim' = [claim EXCEPT ![i] = r] /\ claim[i].status \in Open
      BY <1>1, <2>1 DEF ClaimAges
    <3> HIDE DEF r
    <3> QED
      BY <3>1, <3>2 DEF ClaimEffect, ClaimWrite, Open
  <2>2. CASE MarkAbandoned(i)
    BY <2>2, StatusWrites DEF MarkAbandoned, Abandonable, Statuses
  <2>3. CASE ~ClaimAges(i) /\ ~MarkAbandoned(i)
    BY <1>3, <2>3 DEF ItemStep, LeaseRunsOut, ExpireLease, WatchItem, JudgeItem, RecoverItem,
         Supersede, WakeDependent, ClaimEffect
  <2> QED
    BY <2>1, <2>2, <2>3
<1>4. CASE (\E w \in Workers : Crash(w)) \/ UNCHANGED vars
  BY <1>4 DEF Crash, vars, ClaimEffect
<1> QED
  BY <1>2, <1>3, <1>4 DEF Next

LEMMA WatchSteps ==
  ASSUME TypeOK, [Next]_vars
  PROVE  watch' \in [Items -> WatchRecord]
<1>1. watch \in [Items -> WatchRecord]
  BY Typed
<1>2. ASSUME NEW c \in Cycles, CycleStep(c)
      PROVE  UNCHANGED watch
  BY <1>2 DEF CycleStep, PickItem, AcquireLease, LeaseRefused, ReleaseLease, Throws,
       AcquireClaim, ClaimRefused, BeginRunning, MarkStarted, Execute, MarkClaim, Conclude,
       FailClaim, FailItem, Answered
<1>3. ASSUME NEW i \in Items, ItemStep(i)
      PROVE  watch' \in [Items -> WatchRecord]
  <2>1. CASE WatchItem(i)
    <3>1. [pc |-> "leases", expired |-> ~(row[i].active /\ row[i].fresh), reclaim |-> FALSE]
            \in WatchRecord
      BY DEF WatchRecord
    <3> QED
      BY <1>1, <2>1, <3>1 DEF WatchItem
  <2>2. CASE JudgeItem(i)
    <3>1. Unwatched \in WatchRecord
      BY DEF Unwatched, WatchRecord
    <3>2. [Unwatched EXCEPT !.pc = "stuck", !.reclaim = claim[i].status = "CLAIMED"] \in WatchRecord
      BY DEF Unwatched, WatchRecord
    <3>3. PICK w \in WatchRecord : watch' = [watch EXCEPT ![i] = w]
      BY <2>2, <3>1, <3>2 DEF JudgeItem
    <3> QED
      BY <1>1, <3>3
  <2>3. CASE RecoverItem(i)
    <3>1. Unwatched \in WatchRecord
      BY DEF Unwatched, WatchRecord
    <3> QED
      BY <1>1, <2>3, <3>1 DEF RecoverItem
  <2>4. CASE ~WatchItem(i) /\ ~JudgeItem(i) /\ ~RecoverItem(i)
    BY <1>1, <1>3, <2>4 DEF ItemStep, LeaseRunsOut, ExpireLease, ClaimAges, MarkAbandoned,
         Supersede, WakeDependent
  <2> QED
    BY <2>1, <2>2, <2>3, <2>4
<1>4. CASE (\E w \in Workers : Crash(w)) \/ UNCHANGED vars
  BY <1>1, <1>4 DEF Crash, vars
<1> QED
  BY <1>1, <1>2, <1>3, <1>4 DEF Next

(* Only Execute counts an execution, of an item its cycle had entered.     *)
LEMMA RunsSteps ==
  ASSUME TypeOK, [Next]_vars
  PROVE  \/ UNCHANGED runs
         \/ \E c \in Cycles :
              /\ cycle[c].pc = "started" /\ cycle[c].item \in Items
              /\ runs' = [runs EXCEPT ![cycle[c].item] = @ + 1]
              /\ cycle' = [cycle EXCEPT ![c].pc = "executing"]
              /\ UNCHANGED claim
<1>1. \A c \in Cycles : Busy(cycle[c])
  BY Typed
<1>2. ASSUME NEW c \in Cycles, Execute(c)
      PROVE  /\ cycle[c].pc = "started" /\ cycle[c].item \in Items
             /\ runs' = [runs EXCEPT ![cycle[c].item] = @ + 1]
             /\ cycle' = [cycle EXCEPT ![c].pc = "executing"]
             /\ UNCHANGED claim
  BY <1>1, <1>2 DEF Execute, Goes, Busy
<1>3. ASSUME NEW c \in Cycles, CycleStep(c), ~Execute(c)
      PROVE  UNCHANGED runs
  BY <1>3 DEF CycleStep, PickItem, AcquireLease, LeaseRefused, ReleaseLease, Throws,
       AcquireClaim, ClaimRefused, BeginRunning, MarkStarted, MarkClaim, Conclude,
       FailClaim, FailItem, Answered
<1>4. ASSUME NEW i \in Items, ItemStep(i)
      PROVE  UNCHANGED runs
  BY <1>4 DEF ItemStep, LeaseRunsOut, ExpireLease, ClaimAges, MarkAbandoned, WatchItem,
       JudgeItem, RecoverItem, Supersede, WakeDependent
<1>5. CASE (\E w \in Workers : Crash(w)) \/ UNCHANGED vars
  BY <1>5 DEF Crash, vars
<1> QED
  BY <1>2, <1>3, <1>4, <1>5 DEF Next

(* A cycle enters by making its claim.                                     *)
Enters(c) ==
  /\ cycle[c].pc = "leased" /\ cycle[c].item \in Items
  /\ claim[cycle[c].item].status = "NONE"
  /\ cycle' = [cycle EXCEPT ![c].pc = "claimed"]
  /\ claim'[cycle[c].item].status = "CLAIMED"
  /\ UNCHANGED runs

LEMMA EnteringSteps ==
  ASSUME TypeOK, [Next]_vars
  PROVE  \/ \E c \in Cycles : Enters(c)
         \/ \A c \in Cycles : cycle'[c].pc \in Entering =>
              cycle[c].pc \in Entering /\ cycle'[c].item = cycle[c].item
<1> DEFINE Stays ==
      \A c \in Cycles : cycle'[c].pc \in Entering =>
        cycle[c].pc \in Entering /\ cycle'[c].item = cycle[c].item
<1>1. /\ cycle \in [Cycles -> CycleRecord] /\ claim \in [Items -> ClaimRecord]
      /\ \A c \in Cycles : Busy(cycle[c])
  BY Typed
<1>2. ASSUME NEW c \in Cycles, NEW next \in PCs \ Entering, Goes(c, next)
      PROVE  Stays
  BY <1>1, <1>2 DEF Goes, Entering, CycleRecord
<1>3. ASSUME NEW c \in Cycles, NEW next \in PCs, Goes(c, next), cycle[c].pc \in Entering
      PROVE  Stays
  BY <1>1, <1>3 DEF Goes, Entering, CycleRecord
<1>4. ASSUME NEW c \in Cycles, NEW next \in PCs \ Entering, NEW to \in States, GoesFor(c, next, to)
      PROVE  Stays
  BY <1>1, <1>4 DEF GoesFor, Entering, CycleRecord
<1>5. ASSUME NEW c \in Cycles, NEW r \in CycleRecord, r.pc \notin Entering,
             cycle' = [cycle EXCEPT ![c] = r]
      PROVE  Stays
  BY <1>1, <1>5 DEF CycleRecord
<1>6. Idle \in CycleRecord /\ Idle.pc \notin Entering
  BY DEF Idle, CycleRecord, PCs, States, Entering
<1>7. ASSUME NEW c \in Cycles, CycleStep(c)
      PROVE  Enters(c) \/ Stays
  <2>1. ASSUME NEW i \in Items, PickItem(c, i)
        PROVE  Stays
    <3>1. LET r == [Idle EXCEPT !.pc = "picked", !.item = i]
          IN  r \in CycleRecord /\ r.pc \notin Entering
      BY DEF Idle, CycleRecord, PCs, States, Entering
    <3> QED
      BY <1>5, <2>1, <3>1 DEF PickItem
  <2>2. CASE LeaseRefused(c) \/ ReleaseLease(c)
    BY <1>5, <1>6, <2>2 DEF LeaseRefused, ReleaseLease
  <2>3. CASE AcquireClaim(c)
    <3>1. cycle[c].item \in Items
      BY <1>1, <2>3 DEF AcquireClaim, Busy
    <3> QED
      BY <1>1, <2>3, <3>1 DEF AcquireClaim, ClaimExists, Goes, Enters
  <2>4. CASE AcquireLease(c) \/ ClaimRefused(c) \/ Execute(c) \/ MarkClaim(c)
             \/ FailClaim(c) \/ FailItem(c)
    BY <1>2, <2>4 DEF AcquireLease, ClaimRefused, Execute, MarkClaim, FailClaim, FailItem,
         PCs, Entering
  <2>5. CASE BeginRunning(c) \/ MarkStarted(c)
    BY <1>3, <2>5 DEF BeginRunning, MarkStarted, PCs, Entering
  <2>6. CASE Throws(c) \/ Conclude(c)
    BY <1>4, <2>6 DEF Throws, Conclude, PCs, States, Entering
  <2>7. ASSUME NEW to \in {"COMPLETED", "CANCELLED"} \cup Requeues, Answered(c, to)
        PROVE  Stays
    <3>1. to \in States
      BY QueueAssumption DEF States
    <3> QED
      BY <1>4, <2>7, <3>1 DEF Answered, PCs, Entering
  <2> QED
    BY <1>7, <2>1, <2>2, <2>3, <2>4, <2>5, <2>6, <2>7 DEF CycleStep
<1>8. ASSUME NEW i \in Items, ItemStep(i)
      PROVE  Stays
  BY <1>8 DEF ItemStep, LeaseRunsOut, ExpireLease, ClaimAges, MarkAbandoned, WatchItem,
       JudgeItem, RecoverItem, Supersede, WakeDependent
<1>9. ASSUME NEW w \in Workers, Crash(w)
      PROVE  Stays
  BY <1>9 DEF Crash, Down, Entering
<1>10. CASE UNCHANGED vars
  BY <1>10 DEF vars
<1> QED
  BY <1>7, <1>8, <1>9, <1>10 DEF Next
-----------------------------------------------------------------------------
(* The invariant                                                           *)

LEMMA Initially == Init => QueueInv
<1> SUFFICES ASSUME Init PROVE QueueInv
  OBVIOUS
<1>1. item \in [Items -> ItemRecord] /\ \A i \in Items : item[i].state # "RUNNING"
  <2>1. [state : {"BLOCKED_LOCK", "BLOCKED_APPROVAL", "BLOCKED_DEPENDENCY", "RETRY_SCHEDULED"},
         lease : {None}, fresh : {FALSE}] \subseteq ItemRecord
    BY DEF ItemRecord, States, Holder
  <2>2. item \in [Items -> [state : {"BLOCKED_LOCK", "BLOCKED_APPROVAL", "BLOCKED_DEPENDENCY", "RETRY_SCHEDULED"},
                            lease : {None}, fresh : {FALSE}]]
    BY DEF Init
  <2>3. \A i \in Items : item[i].state \in {"BLOCKED_LOCK", "BLOCKED_APPROVAL", "BLOCKED_DEPENDENCY", "RETRY_SCHEDULED"}
    BY <2>2
  <2> QED
    BY <2>1, <2>2, <2>3
<1>2. row \in [Items -> RowRecord]
  BY DEF Init, RowRecord, Holder
<1>3. claim \in [Items -> ClaimRecord]
  BY DEF Init, Unclaimed, ClaimRecord, Statuses
<1>4. cycle \in [Cycles -> CycleRecord] /\ \A c \in Cycles : cycle[c] = Idle
  BY DEF Init, Idle, CycleRecord, PCs, States
<1>5. watch \in [Items -> WatchRecord]
  BY DEF Init, Unwatched, WatchRecord
<1>6. runs \in [Items -> Nat] /\ \A i \in Items : runs[i] = 0
  BY DEF Init
<1>7. TypeOK
  BY <1>1, <1>2, <1>3, <1>4, <1>5, <1>6
     DEF TypeOK, ItemRecord, RowRecord, ClaimRecord, CycleRecord, WatchRecord, Holder, Statuses, Idle
<1>8. EnteringIsClaimed /\ EnteringAlone
  BY <1>4 DEF EnteringIsClaimed, EnteringAlone, Entering, Idle
<1> QED
  BY <1>1, <1>6, <1>7, <1>8 DEF QueueInv, ExecutedIsClaimed, ExecutedOnce, RunningIsClaimed

(* A claim once made is never unmade.                                      *)
LEMMA ClaimsStay ==
  ASSUME TypeOK, ClaimEffect, NEW i \in Items, claim[i].status # "NONE"
  PROVE  claim'[i].status # "NONE"
<1>1. claim \in [Items -> ClaimRecord]
  BY Typed
<1> QED
  BY <1>1 DEF ClaimEffect, ClaimWrite

LEMMA Inductive == QueueInv /\ [Next]_vars => QueueInv'
<1> SUFFICES ASSUME QueueInv, [Next]_vars PROVE QueueInv'
  OBVIOUS
<1>1. TypeOK
  BY DEF QueueInv
<1>2. /\ item \in [Items -> ItemRecord] /\ claim \in [Items -> ClaimRecord]
      /\ cycle \in [Cycles -> CycleRecord] /\ runs \in [Items -> Nat]
      /\ \A c \in Cycles : Busy(cycle[c])
  BY <1>1, Typed
<1>3. ItemEffect /\ ClaimEffect
  BY <1>1, ItemSteps, ClaimSteps
<1>4. ASSUME NEW i \in Items, claim[i].status # "NONE"
      PROVE  claim'[i].status # "NONE"
  BY <1>1, <1>3, <1>4, ClaimsStay
<1>5. ASSUME NEW c \in Cycles, cycle[c].pc \in Entering
      PROVE  cycle[c].item \in Items
  BY <1>2, <1>5 DEF Busy, Entering
<1>6. TypeOK'
  <2>1. item' \in [Items -> ItemRecord]
    BY <1>2, <1>3 DEF ItemEffect, ItemWrite
  <2>2. claim' \in [Items -> ClaimRecord]
    BY <1>2, <1>3 DEF ClaimEffect, ClaimWrite
  <2>3. cycle' \in [Cycles -> CycleRecord] /\ \A c \in Cycles : Busy(cycle'[c])
    BY <1>1, CycleSteps, CyclesTyped
  <2>4. runs' \in [Items -> Nat]
    BY <1>1, <1>2, RunsSteps
  <2>5. row' \in [Items -> RowRecord] /\ watch' \in [Items -> WatchRecord]
    BY <1>1, RowSteps, WatchSteps
  <2> QED
    BY <2>1, <2>2, <2>3, <2>4, <2>5
       DEF TypeOK, ItemRecord, RowRecord, ClaimRecord, CycleRecord, WatchRecord, Busy, Holder, Statuses
<1>7. EnteringIsClaimed' /\ EnteringAlone'
  <2>1. ASSUME NEW c \in Cycles, Enters(c)
        PROVE  EnteringIsClaimed' /\ EnteringAlone'
    <3> DEFINE i == cycle[c].item
    <3>1. /\ i \in Items /\ claim[i].status = "NONE" /\ runs[i] = 0
          /\ runs' = runs /\ claim'[i].status = "CLAIMED"
      BY <2>1 DEF Enters, QueueInv, ExecutedIsClaimed
    <3>2. /\ cycle'[c].item = i
          /\ \A d \in Cycles \ {c} : cycle'[d] = cycle[d]
      BY <1>2, <2>1 DEF Enters, CycleRecord
    <3>3. ASSUME NEW d \in Cycles \ {c}, cycle'[d].pc \in Entering
          PROVE  cycle'[d].item # i
      BY <3>1, <3>2, <3>3 DEF QueueInv, EnteringIsClaimed
    <3>4. EnteringIsClaimed'
      <4>1. ASSUME NEW d \in Cycles \ {c}, cycle'[d].pc \in Entering
            PROVE  claim'[cycle'[d].item].status # "NONE" /\ runs'[cycle'[d].item] = 0
        BY <1>4, <1>5, <3>1, <3>2, <4>1 DEF QueueInv, EnteringIsClaimed
      <4> QED
        BY <3>1, <3>2, <4>1 DEF EnteringIsClaimed
    <3>5. EnteringAlone'
      BY <3>2, <3>3 DEF QueueInv, EnteringAlone
    <3> QED
      BY <3>4, <3>5
  <2>2. CASE \A c \in Cycles : cycle'[c].pc \in Entering =>
               cycle[c].pc \in Entering /\ cycle'[c].item = cycle[c].item
    <3>1. EnteringAlone'
      BY <2>2 DEF QueueInv, EnteringAlone
    <3>2. ASSUME NEW c \in Cycles, cycle'[c].pc \in Entering
          PROVE  claim'[cycle'[c].item].status # "NONE" /\ runs'[cycle'[c].item] = 0
      <4> DEFINE i == cycle[c].item
      <4>1. /\ cycle[c].pc \in Entering /\ cycle'[c].item = i
            /\ i \in Items /\ claim[i].status # "NONE" /\ runs[i] = 0
        BY <1>5, <2>2, <3>2 DEF QueueInv, EnteringIsClaimed
      <4>2. ASSUME NEW d \in Cycles, cycle[d].pc = "started", cycle[d].item = i,
                   cycle' = [cycle EXCEPT ![d].pc = "executing"]
            PROVE  FALSE
        <5>1. d = c
          BY <4>1, <4>2 DEF QueueInv, EnteringAlone, Entering
        <5> QED
          BY <1>2, <3>2, <4>2, <5>1 DEF Entering, CycleRecord
      <4>3. runs'[i] = 0
        BY <1>1, <1>2, <4>1, <4>2, RunsSteps
      <4> QED
        BY <1>4, <4>1, <4>3
    <3> QED
      BY <3>1, <3>2 DEF EnteringIsClaimed
  <2> QED
    BY <1>1, <2>1, <2>2, EnteringSteps
<1>8. ExecutedIsClaimed' /\ ExecutedOnce'
  <2>1. CASE UNCHANGED runs
    BY <1>4, <2>1 DEF QueueInv, ExecutedIsClaimed, ExecutedOnce
  <2>2. ASSUME NEW c \in Cycles, cycle[c].pc = "started", cycle[c].item \in Items,
               runs' = [runs EXCEPT ![cycle[c].item] = @ + 1]
        PROVE  ExecutedIsClaimed' /\ ExecutedOnce'
    <3>1. claim[cycle[c].item].status # "NONE" /\ runs[cycle[c].item] = 0
      BY <2>2 DEF QueueInv, EnteringIsClaimed, Entering
    <3>2. ExecutedOnce'
      BY <1>2, <2>2, <3>1 DEF QueueInv, ExecutedOnce
    <3>3. ExecutedIsClaimed'
      BY <1>2, <1>4, <2>2, <3>1 DEF QueueInv, ExecutedIsClaimed
    <3> QED
      BY <3>2, <3>3
  <2> QED
    BY <1>1, <2>1, <2>2, RunsSteps
<1>9. RunningIsClaimed'
  <2>1. CASE UNCHANGED item
    BY <1>4, <2>1 DEF QueueInv, RunningIsClaimed
  <2>2. ASSUME NEW i \in Items, NEW r \in ItemRecord, ItemWrite(i, r)
        PROVE  RunningIsClaimed'
    <3>1. /\ item'[i] = r
          /\ \A j \in Items \ {i} : item'[j] = item[j]
      BY <1>2, <2>2 DEF ItemWrite
    <3>2. r.state = "RUNNING" => claim[i].status # "NONE"
      BY <2>2 DEF ItemWrite, QueueInv, RunningIsClaimed, EnteringIsClaimed, Entering
    <3> QED
      BY <1>4, <3>1, <3>2 DEF QueueInv, RunningIsClaimed
  <2> QED
    BY <1>3, <2>1, <2>2 DEF ItemEffect
<1> QED
  BY <1>6, <1>7, <1>8, <1>9 DEF QueueInv
-----------------------------------------------------------------------------
(* The tables keep their types, and a cycle between its lease and its end  *)
(* processes an item.                                                      *)
THEOREM Types == Spec => []TypeOK
<1>1. QueueInv => TypeOK
  BY DEF QueueInv
<1> QED
  BY <1>1, Initially, Inductive, PTL DEF Spec

(* Governance re-entry is begun at most once for an item, by whatever      *)
(* number of schedulers that crash and whose leases run out.               *)
THEOREM Once == Spec => []ExecutedOnce
<1>1. QueueInv => ExecutedOnce
  BY DEF QueueInv
<1> QED
  BY <1>1, Initially, Inductive, PTL DEF Spec

(* An item that is RUNNING has a claim.                                    *)
THEOREM Claimed == Spec => []RunningIsClaimed
<1>1. QueueInv => RunningIsClaimed
  BY DEF QueueInv
<1> QED
  BY <1>1, Initially, Inductive, PTL DEF Spec

(* The outcome of an item and of a claim stay, whatever a cycle, recovery  *)
(* or a detector read before.                                              *)
THEOREM Outcomes == Spec => OutcomeStays
<1> DEFINE Stays(i) ==
      /\ item[i].state \in Terminal => item'[i].state = item[i].state
      /\ claim[i].status \notin Open \cup {"NONE"} => claim'[i].status = claim[i].status
<1>1. ASSUME TypeOK, [Next]_vars, NEW i \in Items
      PROVE  Stays(i)
  <2>1. item \in [Items -> ItemRecord] /\ claim \in [Items -> ClaimRecord]
    BY <1>1, Typed
  <2>2. ItemEffect /\ ClaimEffect
    BY <1>1, ItemSteps, ClaimSteps
  <2>3. item[i].state \in Terminal => item'[i].state = item[i].state
    BY <2>1, <2>2, Targets DEF ItemEffect, ItemWrite
  <2>4. claim[i].status \notin Open \cup {"NONE"} => claim'[i].status = claim[i].status
    BY <2>1, <2>2 DEF ClaimEffect, ClaimWrite
  <2> QED
    BY <2>3, <2>4
<1>2. TypeOK /\ [Next]_vars => [\A i \in Items : Stays(i)]_vars
  BY <1>1
<1> QED
  BY <1>2, Types, PTL DEF Spec, OutcomeStays
=============================================================================
