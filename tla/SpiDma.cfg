SPECIFICATION FairSpec
CONSTANTS
  MaxLen = 5
INVARIANTS
  ReceivedWhole
  QuietBetween
PROPERTIES
  LostOnlyInSetup
  TransferReturns
