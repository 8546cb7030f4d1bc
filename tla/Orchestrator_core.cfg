SPECIFICATION Spec
CONSTANTS
  a = a
  b = b
  StepLists <- MCStepLists
  MaxWorkflows = 1
  StepNames = {a, b}
  WorkflowListLimit = 100
  MaxExecutions = 1
  ExecutionListLimit = 10
  MaxFaults = 1
  MaxShutdowns = 1
  MaxCrashes = 1
  Editors = {}
  Triggerers = {t1}
  Cancelers = {k1}
  Readers = {}
  SeedWorkflows <- MCTwoSteps
INVARIANT TypeOK
INVARIANT RunsFollowPlan
INVARIANT SequentialSteps
INVARIANT SucceededMeansAllStepsRan
INVARIANT FinishedNeverRuns
INVARIANT CancelLatency
INVARIANT DispatchInv
PROPERTY OnlyCancelRaces
PROPERTY AbandonedByFailureOnly
PROPERTY IdleCancelFinal
PROPERTY OutcomeStable
PROPERTY StepTransitions
