SPECIFICATION Spec
CHECK_DEADLOCK FALSE
CONSTANTS
  Parts = {"adaptor", "sink", "dedup", "shard", "iter", "timers", "mqtt", "graph", "pattern", "scripts", "rules", "operator"}
  Workers = {w1, w2}
  Pushers = {p1}
  Ticker = tk
  Partitions = {q1, q2}
  Nodes = {n1, n2}
  Keys = {k1, k2}
  DedupRecords = 4
  DedupCrashes = 1
  LogEnd = 2
  MaxRebalances = 3
  Stamps = {1, 2}
  MaxTimers = 3
  PacketIds = {1, 2, 3}
  Capacities = {0, 1, 2, 3}
  MAX_QOS2_WINDOW_SIZE = 2
  MaxProcessed = 4
  MqttCrashes = 1
  Sizes = {1, 2}
  FlushAt = 4
  MaxBuffer = 4
  MaxAge = 2
  MaxPushes = 3
  None = None
INVARIANTS
  AdaptorsMeanTheirDefinition
  EveryLineAccountedFor
  OnlyMarkedKeysAreSuppressed
  EachKeyGetsItsAnswers
  EveryTimerFiresOnce
  WindowRecognisesRedeliveries
  GraphsComputeTheirProgram
  PatternsMeanTheirCalls
  ScriptsDecideAsLoaded
  WindowsMeanTheirHistory
  StateLooksBack
  IndicatorsAreTheirFormula
PROPERTIES
  BufferedLinesAreFlushed
  RebalancesAreFenced
