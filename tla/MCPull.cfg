SPECIFICATION FairSpec
CONSTANTS
  Token = {1, 2}
  keepalive_time = 2
  autoquit_threshold = 3
  MaxPulls = 3
INVARIANTS
  AutoquitJustified
  AcksBounded
PROPERTIES
  AutoquitPrompt
  AckedOrQuits
