SPECIFICATION CalendarSpec
CONSTANTS
  LastYear = 2099
  Stride = 7919
CHECK_DEADLOCK FALSE
INVARIANTS
  SetTimeCounts
  GetTimeShowsDate
