SPECIFICATION ReceptionSpec
CONSTANTS
  CntMod = 3
  WrapMod = 3
  NB_PKT_MAX = 2
  MaxPkts = 3
  PpsRegular = TRUE
  CounterMod = 8
  Tolerance = 1
  Times = {7, 0, 1}
  Sames = {s1, s2}
  MaxIn = 4
CHECK_DEADLOCK FALSE
INVARIANTS
  InstExact
  PpsExact
  PktExact
  NoDuplicateLeft
  BestKept
PROPERTIES
  LostWithBad
