-------------------------- MODULE MCQueuedExecutor --------------------------
(***************************************************************************)
(* Instances of QueuedExecutor: two envelopes, two loops, one or two       *)
(* callers.                                                                *)
(***************************************************************************)
EXTENDS QueuedExecutor

CONSTANTS e1, e2, l1, l2, c1, c2

MCEnvelopes == {e1, e2}
MCLoops == {l1, l2}
OneCaller == {c1}
TwoCallers == {c1, c2}

Always == {TRUE}
Either == BOOLEAN

(* What the environment may do, by run.                                    *)
Used(calls, crashes, faults, cleanups, pauses) ==
  [k \in Kinds |-> CASE k = "calls" -> calls [] k = "crashes" -> crashes
                     [] k = "faults" -> faults [] k = "cleanups" -> cleanups
                     [] k = "pauses" -> pauses]

Daily == Used(2, 0, 1, 1, 0)
Crashing == Used(2, 3, 0, 0, 3)
Retrying == Used(2, 0, 0, 0, 0)
=============================================================================
