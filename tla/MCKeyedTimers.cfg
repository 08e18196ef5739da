CONSTANTS
  TimeMin <- MCTimeMin
  TimeMax = 30
  None = None
  Setups <- MCTimers
  MAX_LATENESS_MS = 5
  Gap = 2
  BucketSize = 3
  MinWidth = 2
  MaxWidth = 3
  Values <- AnyInput
  Timestamps <- FourTimes
  Watermarks <- SomeWatermarks
  MaxArrivals = 4
SPECIFICATION Spec
INVARIANTS
  TimersFollowTheWindows
  WindowsSplitTheRecords
  EmissionsInEventTimeOrder
  PulsesAreJudged
