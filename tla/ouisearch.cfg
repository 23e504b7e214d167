SPECIFICATION FairSpec
CONSTANTS
  QueueMax = 3
  Total = 5
  Alive = {2, 4}
  EndWait = 2
  Interval = 1
INVARIANTS TypeOK NothingSkipped FoundAnswered
PROPERTY Ends
CHECK_DEADLOCK FALSE
