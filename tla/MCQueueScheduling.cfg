\* An item that a failed attempt would schedule again, three cycles.
SPECIFICATION Spec
CONSTANTS
  i1 = i1
  c1 = c1
  c2 = c2
  c3 = c3
  w1 = w1
  w2 = w2
  None = None
  Items <- MCItems
  Cycles <- MCCycles
  Workers <- MCWorkers
  WorkerOf <- MCWorkerOf
  MaxAttempts <- Retried
  Requeues <- MCRequeues
SYMMETRY Overlapping
INVARIANTS TypeOK ExecutedOnce RunningIsClaimed
PROPERTIES OutcomeStays
\* Every scheduler process may have died.
CHECK_DEADLOCK FALSE
