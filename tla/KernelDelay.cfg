SPECIFICATION FairSpec
CONSTANTS
  t1 = t1
  t2 = t2
  t3 = t3
  None = None
  Tasks = {t1, t2, t3}
  portMAX_DELAY = 2
  MaxPended = 2
INVARIANTS
  NobodyLeftBehind
  TickCountDoesNotSlip
  AwakeWithNews
PROPERTIES
  DelaysAreExact
  DelayEnds
