\* A range of two blocks.
CONSTANTS
  Blocks <- MCBlocks
  Contents <- MCContents
SPECIFICATION FairSpec
INVARIANTS AllBlocksOrError ErrorIffFailed
PROPERTIES CallEnds
