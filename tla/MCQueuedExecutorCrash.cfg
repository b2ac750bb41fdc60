\* Three crashes, each followed by crash recovery.
SPECIFICATION Spec
CONSTANTS
  e1 = e1
  e2 = e2
  l1 = l1
  l2 = l2
  c1 = c1
  c2 = c2
  None = None
  Envelopes <- MCEnvelopes
  Loops <- MCLoops
  Callers <- OneCaller
  MaxQueueSize = 2
  Mode = "reject"
  MaxConcurrency = 1
  MaxRetries = 2
  MaxRecoveryRetries = 1
  Automatic <- Either
  Budget <- Crashing
INVARIANTS ExecutingIsOwned QueuedIsReachable AckedIsKept RecoveryBounded
\* Once the calls are used up and every attempt has ended the system rests.
CHECK_DEADLOCK FALSE
