\* Two evaluators race for two drifting objectives, one whose policy keeps its
\* counters across resets and one whose accounting throws.
CONSTANTS
  NoPolicy = NoPolicy
  o1 = o1
  o2 = o2
  Objectives <- TwoObjectives
  Evaluators <- TwoEvaluators
  DefaultPolicy <- SmallDefault
  PolicyOf <- PolicyUnusual
  Declarations <- NoDeclarations
  Timeout = 1
  Grace = 1
  Observations <- AlwaysDrift
  Results <- HealthyOrFailing
  StartEnvironments <- Ready
  Operations <- RaceOperations
  ResetFrom <- FromDegraded
  LateErrors = FALSE
  RunToCompletion = FALSE
  MaxGeneration = 3
SPECIFICATION Spec
INVARIANTS
  BreakerLimitsFailures
PROPERTIES
  SingleFlight
  ClosedByItsExecution
