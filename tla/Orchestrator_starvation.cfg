SPECIFICATION FairSpec
CONSTANTS
  a = a
  b = b
  StepLists <- MCStepLists
  MaxWorkflows = 1
  StepNames = {a, b}
  WorkflowListLimit = 100
  MaxExecutions = 2
  ExecutionListLimit = 1
  MaxFaults = 0
  MaxShutdowns = 0
  MaxCrashes = 0
  Editors = {}
  Triggerers = {t1}
  Cancelers = {}
  Readers = {}
  SeedWorkflows <- MCTwoSteps
PROPERTY PendingTakenUp
