SPECIFICATION FairSpec
CONSTANTS
  low = low
  mid1 = mid1
  mid2 = mid2
  high = high
  None = None
  Tasks = {low, mid1, mid2, high}
  BasePriority <- MCPriority
INVARIANTS
  NoLostWakeup
  NoPriorityInversion
  InheritedOnlyByHolder
PROPERTIES
  MutexImplemented
  UrgentServed
