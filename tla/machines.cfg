SPECIFICATION Spec
CONSTANT none = none
INVARIANTS DeskPlaysOn DeskReplays NetFailsForAReason IfjReads IfjRuns FilterAsProgram CourseworkIsRight
PROPERTIES NetPlayersAgree
CHECK_DEADLOCK FALSE
