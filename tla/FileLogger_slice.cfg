SPECIFICATION Spec
CONSTANTS
  DateSlice = "h"
  MaxLine = 4
  MaxSize = 4
  Sizes = {1, 2}
  Newlines = {1, 2}
  NoFile = NoFile
  PerDay = 4
  MaxTime = 5
  MaxMsgs = 4
  MaxRuns = 2
  MaxFaults = 2
INVARIANTS TypeOK DaysApart LineLimit
PROPERTY LinesKept
CHECK_DEADLOCK FALSE
