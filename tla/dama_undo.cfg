SPECIFICATION DeskSpec
CONSTANT none = none
INVARIANT DeskRecordIsKept
CHECK_DEADLOCK FALSE
