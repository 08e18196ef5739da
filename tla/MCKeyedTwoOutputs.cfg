CONSTANTS
  TimeMin <- MCTimeMin
  TimeMax = 30
  None = None
  Setups <- MCTwoOutputs
  MAX_LATENESS_MS = 5
  Gap = 2
  BucketSize = 3
  MinWidth = 2
  MaxWidth = 3
  Values <- HighOnly
  Timestamps <- FourTimes
  Watermarks <- SomeWatermarks
  MaxArrivals = 3
SPECIFICATION Spec
INVARIANTS
  OneEmissionPerWindow
