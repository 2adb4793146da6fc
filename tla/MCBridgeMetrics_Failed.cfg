\* Metrics filled in advance; nothing fails.
CONSTANTS
  teleport = teleport
  bsc = bsc
  in = in
  out = out
  Chains = {teleport, bsc}
  Packets = {in}
  Src <- MCSrc
  Dst <- MCDst
  Teleport = {teleport}
  Listed = {in}
  Unbridged = {}
  BridgeNameAdjList <- MCAdjList
  Filled = TRUE
  StartHeight = 2
  RevisedHeights = {0}
  BatchNumber = 1
  Word = 64
  FirstHead = 2
  MaxHead = 5
  MaxCrashes = 0
  MaxFailures = 0
SPECIFICATION MSpec
INVARIANTS FailedIsCounted
