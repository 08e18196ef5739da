CONSTANTS
  TimeMin <- MCTimeMin
  TimeMax = 6
  None = None
  Timestamps <- MCTimes
  Clocks <- MCTimes
  RequestedLateness = 2
  MAX_LATENESS_MS = 6
  MaxArrivals = 2
  Runtimes <- MCTickOverBuffer
  Evaluate <- MCEvaluate
  MAX_IN_FLIGHT = 2
  MaxResets = 0
SPECIFICATION Spec
INVARIANTS
  DrivenRunEqualsBatchRun
