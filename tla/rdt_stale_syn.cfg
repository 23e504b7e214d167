SPECIFICATION Spec
CONSTANTS
  SeqSpace = 16
  InitSeq = 3
  WindowSize = 2
  Chunks = 2
  MaxResend = 1
  MaxLoss = 0
  Late = {"SYN", "DATA"}
  CliBufMax = 1
  CliDataMax = 2
  SrvDataMax = 2
  SrvBufMax = 2
  ShortWrites = FALSE
INVARIANTS InOrder
