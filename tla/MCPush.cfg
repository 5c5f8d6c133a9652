SPECIFICATION PushFairSpec
CONSTANTS
  UpToken = {1, 2}
  PktStatus = {"CRC_OK", "CRC_BAD"}
  Forwarded = {"CRC_OK"}
  NB_PKT_MAX = 1
  MaxRx = 1
  MaxDgrams = 1
  MaxSock = 3
CHECK_DEADLOCK FALSE
INVARIANTS
  ReportConsistent
  NoReportTwice
PROPERTIES
  ReportSent
  AcksCaught
