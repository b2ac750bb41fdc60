\* After one timeout no later result is ever accepted.
CONSTANTS
  NoPolicy = NoPolicy
  o1 = o1
  o2 = o2
  Objectives <- OneObjective
  Evaluators <- OneEvaluator
  DefaultPolicy <- SmallDefault
  PolicyOf <- PolicyDefault
  Declarations <- NoDeclarations
  Timeout = 2
  Grace = 1
  Observations <- AnyObservation
  Results <- AnyResult
  StartEnvironments <- Ready
  Operations <- NoOperations
  ResetFrom <- FromDegraded
  LateErrors = FALSE
  RunToCompletion = TRUE
  MaxGeneration = 3
SPECIFICATION Spec
PROPERTIES
  CurrentResultsCount
