CONSTANTS
  RTE_MAX_LCORE = 3
  MaskBits = {0, 1, 2, 3, 4}
  MAX_PORTS = 4
  MAX_RX_QUEUE_PER_LCORE = 3
  MAX_TIMER_PERIOD = 2
  MAX_CHECK_TIME = 2
  LcoreSets <- AnyLcores
  DeviceCounts = {0, 3, 5}
  MaskArgs <- Masks
  NqueueArgs <- Nqueues
  TimerArgs <- Timers
  Malformed = Malformed
SPECIFICATION MainSpec
CHECK_DEADLOCK FALSE
INVARIANTS EveryPortPolledOnce RefusalIsRight LinksReported SlavesReady StatesTrue
PROPERTIES EveryLcoreLoops
