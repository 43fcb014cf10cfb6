SPECIFICATION Spec
CONSTANTS
  Ncr = {0, 4, 7, 8}
  ReadyMs = 1
  InitMs = 2
INVARIANTS
  ErrorIsTransferError
