CONSTANTS
  k1 = k1
  k2 = k2
  None = None
  Key <- OneKey
  circuit_threshold = 3
  Surviving <- StateLeg
  MaxEvents = 2
  MaxCalls = 2
  MaxCrashes = 0
SPECIFICATION Spec
INVARIANTS
  CursorNeverAheadOfState
