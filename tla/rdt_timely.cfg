SPECIFICATION Spec
CONSTANTS
  SeqSpace = 16
  InitSeq = 3
  WindowSize = 2
  Chunks = 5
  MaxResend = 1
  MaxLoss = 1
  Late = {}
  CliBufMax = 1
  CliDataMax = 2
  SrvDataMax = 1
  SrvBufMax = 1
  ShortWrites = FALSE
INVARIANTS TypeOK AckedIsHeld DoneIsComplete FinIsLast FreeNodeLeft
PROPERTIES ReleaseIsSafe
