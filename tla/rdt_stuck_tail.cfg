SPECIFICATION FairSpecSmall
CONSTANTS
  SeqSpace = 16
  InitSeq = 3
  WindowSize = 3
  Chunks = 3
  MaxResend = 1
  MaxLoss = 0
  Late = {}
  CliBufMax = 1
  CliDataMax = 3
  SrvDataMax = 1
  SrvBufMax = 1
  ShortWrites = FALSE
PROPERTIES DoneIsDelivered
