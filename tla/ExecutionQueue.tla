--------------------------- MODULE ExecutionQueue ---------------------------
(***************************************************************************)
(* The persistent queue of envelopes, execution/execution-queue.js: a map  *)
(* of entries, the fifo that next() scans, and a file to which every       *)
(* change of an entry is appended as a line.                               *)
(*                                                                         *)
(* An entry changes in memory at once and its line is appended while the   *)
(* caller waits, so what memory holds and what a restart would read differ *)
(* until the line has landed.  Only the last line of an envelope counts    *)
(* when the file is read, and it is all that is kept of the file.          *)
(***************************************************************************)
EXTENDS Naturals, Sequences, FiniteSets

CONSTANTS
  Envelopes,    \* the envelope_ids
  MaxQueueSize  \* how many entries may be queued or executing

ASSUME QueueAssumption == MaxQueueSize \in Nat \ {0} /\ IsFiniteSet(Envelopes)

States == {"absent", "queued", "executing", "completed", "failed", "blocked"}

(* What is kept of an entry, and of its line.                              *)
Entry == [state : States, retries : Nat]

NoEntry == [state |-> "absent", retries |-> 0]
FreshEntry == [state |-> "queued", retries |-> 0]

InState(q, s) == {e \in Envelopes : q[e].state = s}

Active(q) == InState(q, "queued") \cup InState(q, "executing")

(* _checkBackpressure                                                      *)
Full(q) == Cardinality(Active(q)) >= MaxQueueSize

(* An envelope that enqueue answers without a new entry: it is on its way, *)
(* or completed with its result in the cache.                              *)
Duplicate(q, done, e) ==
  \/ q[e].state = "completed" /\ e \in done
  \/ q[e].state \in {"queued", "executing"}

(* Mutant: only the head of the fifo is looked at.                         *)
IsHead(q, order, e) == order # <<>> /\ order[1] = e /\ q[e].state = "queued"

(* next: the first envelope of the fifo whose entry is queued.             *)
IsNext(q, order, e) ==
  \E i \in DOMAIN order :
    /\ order[i] = e
    /\ q[e].state = "queued"
    /\ \A j \in 1..(i - 1) : q[order[j]].state # "queued"

(* The order in which the other envelopes stay when e is taken out,        *)
(* wherever it stands and however often: the n-th is at the position with  *)
(* n positions of others up to it.                                         *)
Without(order, e) ==
  LET others == {i \in DOMAIN order : order[i] # e}
      upTo(i) == {j \in others : j <= i}
      position(n) == CHOOSE i \in others : Cardinality(upTo(i)) = n
  IN [n \in 1..Cardinality(others) |-> order[position(n)]]

(* _loadFromDisk sorts the queued entries by the time they were queued at, *)
(* which is not kept: they may come in any order.                          *)
LoadedOrder(q, order) ==
  /\ Len(order) = Cardinality(InState(q, "queued"))
  /\ {order[i] : i \in DOMAIN order} = InState(q, "queued")

(* The orders LoadedOrder allows, as a set to choose from.                 *)
Orders(q) ==
  {order \in UNION {[1..n -> InState(q, "queued")] : n \in 0..Cardinality(InState(q, "queued"))} :
     LoadedOrder(q, order)}
=============================================================================
