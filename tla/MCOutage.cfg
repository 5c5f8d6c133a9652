SPECIFICATION FairSpec
CONSTANTS
  CounterMod = 60
  TX_START_DELAY = 1
  TX_MARGIN_DELAY = 1
  TX_JIT_DELAY = 4
  TX_MAX_ADVANCE_DELAY = 24
  BEACON_GUARD = 1
  BEACON_RESERVED = 1
  JIT_QUEUE_MAX = 3
  JIT_NUM_BEACON_IN_QUEUE = 1
  TimesOnAir = {1}
  BeaconPeriod = 12
  BEACON_HORIZON = 28
  RefAges = {2}
  TargetCounts = {28}
  RequestTypes = {"CLASS_A"}
  MaxRequests = 0
  GpsStates = {"unlocked", "xtal"}
  DOWN_LATENCY = 1
  PULL_TIMEOUT = 5
  JIT_LATENCY = 1
INVARIANTS
  BeaconCount
PROPERTIES
  BeaconsResume
