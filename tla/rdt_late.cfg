SPECIFICATION Spec
CONSTANTS
  SeqSpace = 16
  InitSeq = 3
  WindowSize = 2
  Chunks = 2
  MaxResend = 1
  MaxLoss = 0
  Late = {"DATA"}
  CliBufMax = 1
  CliDataMax = 2
  SrvDataMax = 1
  SrvBufMax = 1
  ShortWrites = FALSE
INVARIANT ExpectedIsAvailable
PROPERTY IsReliable
