SPECIFICATION FairSpec
CONSTANTS
  CounterWrap = 4
  GPS_REF_MAX_AGE = 2
  XERR_INIT_AVG = 2
  MaxBehind = 1
  MaxBad = 3
  MaxOutage = 5
  VALID_LATENCY = 1
INVARIANTS
  RefUsable
  CorrectionFresh
  RefStaysRight
PROPERTIES
  RefRecovers
