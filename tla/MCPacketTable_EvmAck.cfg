\* A packet from teleport, acknowledged by an EVM chain.
CONSTANTS
  teleport = teleport
  bsc = bsc
  in = in
  out = out
  Chains = {teleport, bsc}
  Packets = {out}
  Src <- MCSrc
  Dst <- MCDst
  Teleport = {teleport}
  Listed = {out}
  Unbridged = {}
  StartHeight = 2
  RevisedHeights = {0}
  BatchNumber = 1
  Word = 64
  FirstHead = 2
  MaxHead = 5
  MaxCrashes = 0
  MaxFailures = 0
SPECIFICATION Spec
INVARIANTS ReceivedNotPending
