SPECIFICATION Spec
CONSTANTS
  CounterMod = 64
  TX_START_DELAY = 1
  TX_MARGIN_DELAY = 1
  TX_JIT_DELAY = 4
  TX_MAX_ADVANCE_DELAY = 31
  BEACON_GUARD = 2
  BEACON_RESERVED = 2
  JIT_QUEUE_MAX = 2
  JIT_NUM_BEACON_IN_QUEUE = 1
  TimesOnAir = {2}
  BeaconPeriod = 0
  BEACON_HORIZON = 0
  RefAges = {2}
  TargetCounts = {13, 22, 31}
  RequestTypes = {"CLASS_A", "CLASS_B"}
  MaxRequests = 3
  GpsStates = {"unlocked"}
  DOWN_LATENCY = 1
  PULL_TIMEOUT = 5
  JIT_LATENCY = 6
INVARIANTS
  TypeOK
  QueueBounded
  ExpiredPurged
