SPECIFICATION Spec
CONSTANTS
  a = a
  b = b
  StepLists <- MCStepLists
  MaxWorkflows = 1
  StepNames = {a, b}
  WorkflowListLimit = 100
  MaxExecutions = 1
  ExecutionListLimit = 10
  MaxFaults = 1
  MaxShutdowns = 0
  MaxCrashes = 0
  Editors = {c1}
  Triggerers = {t1}
  Cancelers = {}
  Readers = {r1}
  SeedWorkflows <- MCEmpty
INVARIANT RunsFollowPlan
INVARIANT SucceededMeansAllStepsRan
INVARIANT RepliesConsistent
