SPECIFICATION Spec
CONSTANTS
  CounterMod = 100
  TX_START_DELAY = 1
  TX_MARGIN_DELAY = 1
  TX_JIT_DELAY = 5
  TX_MAX_ADVANCE_DELAY = 40
  BEACON_GUARD = 1
  BEACON_RESERVED = 1
  JIT_QUEUE_MAX = 3
  JIT_NUM_BEACON_IN_QUEUE = 1
  TimesOnAir = {2}
  BeaconPeriod = 20
  BEACON_HORIZON = 59
  RefAges = {2}
  TargetCounts = {55}
  RequestTypes = {"CLASS_A"}
  MaxRequests = 1
  GpsStates = {"xtal"}
  DOWN_LATENCY = 2
  PULL_TIMEOUT = 6
  JIT_LATENCY = 1
INVARIANTS
  PurgedWasMissed
