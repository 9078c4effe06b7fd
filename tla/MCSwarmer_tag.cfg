SPECIFICATION Spec
CONSTANTS
  prim = prim
  sec = sec
  Size = 3
  Frontends <- twoFrontends
  Primary = prim
  t_chunk_size <- nested
  FirstVerifiers <- chunkHashes
  SoloChunks <- nothing
  EnvBound <- noFaults
INVARIANTS
  SecondaryIsTagged
CHECK_DEADLOCK FALSE
