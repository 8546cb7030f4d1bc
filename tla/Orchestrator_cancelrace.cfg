SPECIFICATION Spec
CONSTANTS
  a = a
  b = b
  StepLists <- MCStepLists
  MaxWorkflows = 1
  StepNames = {a, b}
  WorkflowListLimit = 100
  MaxExecutions = 1
  ExecutionListLimit = 10
  MaxFaults = 0
  MaxShutdowns = 0
  MaxCrashes = 0
  Editors = {}
  Triggerers = {t1}
  Cancelers = {k1}
  Readers = {}
  SeedWorkflows <- MCTwoSteps
PROPERTY ImplementsLifecycle
