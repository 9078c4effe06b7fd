SPECIFICATION Spec
CONSTANTS
  ann = ann
  bob = bob
  Uploaders <- two
  s_size = 3
  Bitmaps <- seeds
  block_size = 3
  chunk_blocks = 2
  range_size <- twoSizes
  MaxRanges = 2
  Endgame = 50
INVARIANTS
  RemainingIsRight
CHECK_DEADLOCK FALSE
