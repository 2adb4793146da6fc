\* An EVM chain, longer than a batch; the configuration may revise the cursor
\* at a boot, backwards (2) or forwards (6).
CONSTANTS
  StartHeight = 0
  RevisedHeights = {0, 2, 6}
  BatchNumber = 3
  RejectsFuture = FALSE
  Word = 64
  FirstHead = 4
  MaxHead = 11
  MaxCrashes = 2
SPECIFICATION FairSpec
INVARIANTS TypeOK ExactlyOnce DelaysOneBlock
PROPERTIES CatchesUp
