SPECIFICATION FairSpec
CONSTANTS
  a = a
  b = b
  StepLists <- MCStepLists
  MaxWorkflows = 1
  StepNames = {a, b}
  WorkflowListLimit = 100
  MaxExecutions = 2
  ExecutionListLimit = 10
  MaxFaults = 1
  MaxShutdowns = 1
  MaxCrashes = 1
  Editors = {}
  Triggerers = {t1}
  Cancelers = {}
  Readers = {}
  SeedWorkflows <- MCOneStep
PROPERTY PendingTakenUp
PROPERTY ShutdownCompletes
PROPERTY ImplementsLifecycle
PROPERTY EveryExecutionSettles
