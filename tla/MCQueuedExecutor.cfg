\* One process that waits for room: failed appends, a cleanup, requeues,
\* cancels and timeouts, under fair callbacks.
SPECIFICATION FairSpec
CONSTANTS
  e1 = e1
  e2 = e2
  l1 = l1
  l2 = l2
  c1 = c1
  c2 = c2
  None = None
  Envelopes <- MCEnvelopes
  Loops <- MCLoops
  Callers <- TwoCallers
  MaxQueueSize = 1
  Mode = "wait"
  MaxConcurrency = 2
  MaxRetries = 2
  MaxRecoveryRetries = 1
  Automatic <- Always
  Budget <- Daily
INVARIANTS TypeOK SlotsAccounted
PROPERTIES CompletedIsNotRerun AttemptsEnd QueuedIsServed
\* Once the calls are used up and every attempt has ended the system rests.
CHECK_DEADLOCK FALSE
