------------------------- MODULE MCQueueScheduling -------------------------
(***************************************************************************)
(* Instances of QueueScheduling: one item, with three cycles of two        *)
(* workers, the first of which has two that overlap.                       *)
(***************************************************************************)
EXTENDS QueueScheduling, TLC

CONSTANTS i1, c1, c2, c3, w1, w2

MCItems == {i1}
MCCycles == {c1, c2, c3}
MCWorkers == {w1, w2}
MCWorkerOf == [c \in MCCycles |-> IF c = c3 THEN w2 ELSE w1]
Retried == [i \in MCItems |-> 2]
MCRequeues == {"READY", "BLOCKED_DEPENDENCY"}

(* The two cycles of the first worker.                                     *)
Overlapping == Permutations({c1, c2})
=============================================================================
