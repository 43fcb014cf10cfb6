SPECIFICATION WaitFairSpec
CONSTANTS
  Word = 16
  Delays = {1, 2, 3, 5, 8, 13, 15}
  MaxTicks = 64
INVARIANTS
  WaitsWholeTurns
PROPERTIES
  DelayReturns
