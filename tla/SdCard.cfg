SPECIFICATION FairSpec
CONSTANTS
  Ncr = {0, 8, 9}
  ReadyMs = 1
  InitMs = 2
INVARIANTS
  DeselectedBetween
  ReadyIsReady
  TimeoutMeansBusy
PROPERTIES
  CallReturns
