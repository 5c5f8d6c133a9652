SPECIFICATION ScanFairSpec
CONSTANTS
  Chains = {c1, c2}
  NbChan = 2
  MaxSends = 4
INVARIANTS
  NoScanDuringTx
  FailedNotLeft
PROPERTIES
  NoFrequencySkipped
  ListenBeforeTalk
  AllScanned
