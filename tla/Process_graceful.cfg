SPECIFICATION Spec
CONSTANTS
  MaxFaults = 1
  MaxCalls = 2
  Main = m
  Others = {}
  MaxOtherCalls = 0
  Wirings = {"local"}
  m = m
  o = o
CHECK_DEADLOCK FALSE
INVARIANT GracefulShutdown
