SPECIFICATION WorkflowServiceSpec
CONSTANTS
  a = a
  b = b
  MaxWorkflows = 2
  StepNames = {a, b}
  WorkflowListLimit = 100
  MaxFaults = 0
  Editors = {c1, c2}
  StepLists <- MCStepLists
PROPERTY WorkflowTransitions
