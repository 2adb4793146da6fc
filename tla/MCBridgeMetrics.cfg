\* Metrics filled in advance; a failure, a crash, and old blocks read again after it.
CONSTANTS
  teleport = teleport
  bsc = bsc
  in = in
  out = out
  Chains = {teleport, bsc}
  Packets = {in}
  Src <- MCSrc
  Dst <- MCDst
  Teleport = {teleport}
  Listed = {in}
  Unbridged = {}
  BridgeNameAdjList <- MCAdjList
  Filled = TRUE
  StartHeight = 2
  RevisedHeights = {0, 2}
  BatchNumber = 1
  Word = 64
  FirstHead = 2
  MaxHead = 5
  MaxCrashes = 1
  MaxFailures = 1
SPECIFICATION MSpec
INVARIANTS ValueAtMostOnce
PROPERTIES ColumnsStay
