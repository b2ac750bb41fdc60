\* Every lease and every cooldown ends: crashes once a lease is written, any
\* observation and result, errors at any time.
CONSTANTS
  NoPolicy = NoPolicy
  o1 = o1
  o2 = o2
  Objectives <- OneObjective
  Evaluators <- OneEvaluator
  DefaultPolicy <- SmallDefault
  PolicyOf <- PolicyDefault
  Declarations <- NoDeclarations
  Timeout = 2
  Grace = 1
  Observations <- AnyObservation
  Results <- AnyResult
  StartEnvironments <- Ready
  Operations <- ResetAndCrashes
  ResetFrom <- FromDegraded
  LateErrors = TRUE
  RunToCompletion = TRUE
  MaxGeneration = 4
SPECIFICATION FairSpec
PROPERTIES
  ReconcilingEnds
  CooldownEnds
