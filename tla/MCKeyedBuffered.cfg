CONSTANTS
  TimeMin <- MCTimeMin
  TimeMax = 30
  None = None
  Setups <- MCBuffered
  MAX_LATENESS_MS = 5
  Gap = 2
  BucketSize = 3
  MinWidth = 2
  MaxWidth = 3
  Values <- AnyInput
  Timestamps <- FourTimes
  Watermarks <- LateWatermarks
  MaxArrivals = 4
SPECIFICATION FairSpec
INVARIANTS
  OneEmissionPerWindow
PROPERTIES
  ImplementsOrderedDelivery
  OpenWindowsClose
