\* Two plans that take two targets in opposite orders, with retries, refused
\* approvals, failures and one crash of the process.
CONSTANTS
  e1 = e1
  e2 = e2
  s1 = s1
  s2 = s2
  Targets <- TwoTargets
  Executions <- TwoExecutions
  Plan <- CrossingPlans
  Buffer = 3
  Slack = 1
  Ledger = FALSE
  Resolutions <- AnyResolution
  MaxCrashes = 1
SPECIFICATION FairSpec
INVARIANTS
  TypeOK
  WorkIsLocked
  ExclusiveWork
  RefusedByRival
  NothingLeaked
  OrderRespected
PROPERTIES
  LiveLocksEndByOwner
  PlansEnd
\* Both plans may be over.
CHECK_DEADLOCK FALSE
