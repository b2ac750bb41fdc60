\* One objective under createDefaultPolicy's three strikes, every operator
\* action and crash; resets only while nothing is in flight.
CONSTANTS
  NoPolicy = NoPolicy
  o1 = o1
  o2 = o2
  Objectives <- OneObjective
  Evaluators <- OneEvaluator
  DefaultPolicy <- ThreeStrikes
  PolicyOf <- PolicyThreeStrikes
  Declarations <- CappedPolicies
  Timeout = 2
  Grace = 1
  Observations <- AnyObservation
  Results <- AnyResult
  StartEnvironments <- AnyEnvironment
  Operations <- EveryOperation
  ResetFrom <- FromSettled
  LateErrors = FALSE
  RunToCompletion = FALSE
  MaxGeneration = 5
SPECIFICATION Spec
INVARIANTS
  TypeOK
  FailuresCountedOnce
  SnapshotsCurrent
  ExhaustedIsDegraded
  BackoffAsDeclared
PROPERTIES
  DegradedNeedsOperator
  ImplementsBreaker
