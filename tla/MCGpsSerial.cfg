SPECIFICATION Spec
CONSTANTS
  BUFF_SIZE = 10
  LGW_GPS_MIN_MSG_SIZE = 3
  NmeaLengths = {6}
  UbxLengths = {7}
  UbxLfLengths = {3}
  FALSE_SIZE = 4
  MaxFrames = 3
  MaxStray = 3
INVARIANTS
  NoFrameLost
  OnceInOrder
CHECK_DEADLOCK FALSE
