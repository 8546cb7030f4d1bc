SPECIFICATION FairSpec
CONSTANTS
  MaxFaults = 1
  MaxCalls = 1
  Main = m
  Others = {o}
  MaxOtherCalls = 1
  Wirings = {"local", "k8s"}
  m = m
  o = o
CHECK_DEADLOCK FALSE
INVARIANT TypeOK
INVARIANT OneLoop
INVARIANT StopWaits
INVARIANT OnlyMisusePanics
INVARIANT LocalCleanup
INVARIANT ExitCodeMeansEnded
PROPERTY ImplementsContract
PROPERTY EngineStops
PROPERTY CancelEndsCall
PROPERTY TimeoutEndsCall
PROPERTY FinishedJobEndsWait
PROPERTY TimedJobsGo
