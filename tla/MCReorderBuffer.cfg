CONSTANTS
  TimeMin <- MCTimeMin
  TimeMax = 6
  None = None
  Timestamps <- MCTimestamps
  Clocks <- MCAllClocks
  RequestedLateness = 2
  MAX_LATENESS_MS = 5
  MaxArrivals = 4
SPECIFICATION FairSpec
INVARIANTS
  TypeOK
  InEventTimeOrder
  EveryRecordAccountedFor
  HeapWithinWindow
PROPERTIES
  LatenessHonoured
  ImplementsOrderedDelivery
  QuietStreamDrains
