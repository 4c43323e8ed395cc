SPECIFICATION FairSpec
CONSTANTS
  MaxProcs = 4
  InitProcs = 3
  Interval = 2
PROPERTY KeyboardWorksInKend
CHECK_DEADLOCK FALSE
