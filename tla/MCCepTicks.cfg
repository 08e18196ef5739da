CONSTANTS
  TimeMin <- MCTimeMin
  TimeMax = 6
  None = None
  Timestamps <- MCFewTimes
  Clocks <- MCTimes
  RequestedLateness = 1
  MAX_LATENESS_MS = 6
  MaxArrivals = 2
  Runtimes <- MCTicked
  Evaluate <- MCEvaluate
  MAX_IN_FLIGHT = 2
  MaxResets = 1
SPECIFICATION FairSpec
INVARIANTS
  OneOutcomePerOpening
PROPERTIES
  TickLeavesNothingOverdue
  NoBoundedWaitForever
  EveryEventReachesTheMatcher
