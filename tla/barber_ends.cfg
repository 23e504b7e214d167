SPECIFICATION FairSpec
CONSTANTS
  N = 2
  Q = 2
  MaxCalls = 3
PROPERTIES Ends
CHECK_DEADLOCK FALSE
