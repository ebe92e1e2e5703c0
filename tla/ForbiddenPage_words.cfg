SPECIFICATION PageFairSpec
CONSTANTS
  End = 100
  ScanAt = 62
INVARIANT FontFits
PROPERTY Alternates
CHECK_DEADLOCK FALSE
