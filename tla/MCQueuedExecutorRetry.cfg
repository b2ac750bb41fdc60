\* A retry of a transient failure, with fair callbacks.
SPECIFICATION FairSpec
CONSTANTS
  e1 = e1
  e2 = e2
  l1 = l1
  l2 = l2
  c1 = c1
  c2 = c2
  None = None
  Envelopes <- MCEnvelopes
  Loops <- MCLoops
  Callers <- OneCaller
  MaxQueueSize = 2
  Mode = "reject"
  MaxConcurrency = 1
  MaxRetries = 2
  MaxRecoveryRetries = 1
  Automatic <- Always
  Budget <- Retrying
PROPERTY TransientIsRetried
\* Once the calls are used up and every attempt has ended the system rests.
CHECK_DEADLOCK FALSE
