SPECIFICATION Spec
CONSTANTS
  Word = 3
  HighMax = 2
INVARIANTS
  NeverBehind
  ExactWithoutCarry
