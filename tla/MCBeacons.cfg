SPECIFICATION Spec
CONSTANTS
  CounterMod = 160
  TX_START_DELAY = 1
  TX_MARGIN_DELAY = 1
  TX_JIT_DELAY = 5
  TX_MAX_ADVANCE_DELAY = 79
  BEACON_GUARD = 1
  BEACON_RESERVED = 1
  JIT_QUEUE_MAX = 3
  JIT_NUM_BEACON_IN_QUEUE = 1
  TimesOnAir = {2}
  BeaconPeriod = 20
  BEACON_HORIZON = 79
  RefAges = {2}
  TargetCounts = {55}
  RequestTypes = {"CLASS_A", "CLASS_B", "CLASS_C"}
  MaxRequests = 2
  GpsStates = {"xtal"}
  DOWN_LATENCY = 2
  PULL_TIMEOUT = 6
  JIT_LATENCY = 1
INVARIANTS
  DequeuesPeeked
  NoRadioConflict
  NoOverlap
  ProgrammedInTime
  NoDownlinkExpires
PROPERTIES
  ImplementsSchedule
