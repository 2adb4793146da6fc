\* A packet each way; the one that leaves teleport makes its job panic on every run.
\* A crash and a failure; whatever the Teleport client passes over.
CONSTANTS
  teleport = teleport
  bsc = bsc
  in = in
  out = out
  Chains = {teleport, bsc}
  Packets = {in, out}
  Src <- MCSrc
  Dst <- MCDst
  Teleport = {teleport}
  Listed = {in, out}
  Unbridged = {out}
  StartHeight = 3
  RevisedHeights = {0}
  BatchNumber = 1
  Word = 64
  FirstHead = 2
  MaxHead = 5
  MaxCrashes = 1
  MaxFailures = 1
SPECIFICATION FairSpec
INVARIANTS TypeOK NothingMissed NothingInvented StatusFitsHeights
PROPERTIES ImplementsSyncHeight RefundArrives
