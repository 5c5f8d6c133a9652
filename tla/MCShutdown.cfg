SPECIFICATION FairSpec
CONSTANTS
  Scan = FALSE
  Gps = TRUE
  JIT_QUEUE_MAX = 2
  JIT_NUM_BEACON_IN_QUEUE = 1
INVARIANTS
  StopsAlone
PROPERTIES
  Ends
  ExitStops
