SPECIFICATION FairSpec
CONSTANTS
  Requests = 4
  Broken = {2}
  Kinds = {1, 2}
  Room = 7
  MaxNoise = 1
PROPERTY Stops
CHECK_DEADLOCK FALSE
