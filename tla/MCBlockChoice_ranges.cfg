SPECIFICATION Spec
CONSTANTS
  ann = ann
  bob = bob
  Uploaders <- two
  s_size = 5
  Bitmaps <- anything
  block_size = 3
  chunk_blocks = 2
  range_size <- oneSize
  MaxRanges = 2
  Endgame = 50
SYMMETRY interchangeable
INVARIANTS
  UploadersCounted
  RangesInvariant
  RemainingIsRight
CHECK_DEADLOCK FALSE
