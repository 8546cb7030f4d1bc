SPECIFICATION Spec
CONSTANTS
  a = a
  long = long
  StepLists <- MCStepLists
  MaxWorkflows = 1
  StepNames = {a, long}
  WorkflowListLimit = 100
  MaxExecutions = 1
  ExecutionListLimit = 10
  MaxFaults = 1
  HttpClients = {h}
  RpcClients = {g}
  Editors = {h, g}
  Triggerers = {h, g}
  Cancelers = {h, g}
  Readers = {h, g}
  Oversized = {long}
INVARIANT TypeOK
INVARIANT ActiveHasSteps
INVARIANT RefusalsLeaveNoTrace
PROPERTY FreshWritesLegal
