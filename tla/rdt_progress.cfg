SPECIFICATION FairSpec
CONSTANTS
  SeqSpace = 16
  InitSeq = 0
  WindowSize = 2
  Chunks = 4
  MaxResend = 2
  MaxLoss = 1
  Late = {}
  CliBufMax = 1
  CliDataMax = 2
  SrvDataMax = 4
  SrvBufMax = 2
  ShortWrites = FALSE
PROPERTIES Terminates Completes DoneIsDelivered
