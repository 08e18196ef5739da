CONSTANTS
  k1 = k1
  k2 = k2
  None = None
  Key <- TwoKeys
  circuit_threshold = 1
  Surviving <- NoLeg
  MaxEvents = 2
  MaxCalls = 3
  MaxCrashes = 1
SPECIFICATION FairSpec
INVARIANTS
  CursorNeverAheadOfState
  NoEventLost
  BreakerLimitsFailures
  FailuresCountedOnce
PROPERTIES
  DurableProgressIsKept
  EveryCommitReturns
