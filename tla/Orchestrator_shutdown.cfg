SPECIFICATION Spec
CONSTANTS
  a = a
  b = b
  StepLists <- MCStepLists
  MaxWorkflows = 1
  StepNames = {a, b}
  WorkflowListLimit = 100
  MaxExecutions = 1
  ExecutionListLimit = 10
  MaxFaults = 0
  MaxShutdowns = 1
  MaxCrashes = 0
  Editors = {}
  Triggerers = {t1}
  Cancelers = {}
  Readers = {}
  SeedWorkflows <- MCTwoSteps
INVARIANT InterruptedIsCanceled
