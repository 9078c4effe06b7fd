SPECIFICATION FairSpec
CONSTANTS
  prim = prim
  sec = sec
  Size = 3
  Frontends <- twoFrontends
  Primary = prim
  t_chunk_size <- nested
  FirstVerifiers <- chunkHashes
  SoloChunks <- nothing
  EnvBound <- crashFaults
INVARIANTS
  VerifiedDataIsGood
  PrimaryCoherent
  SavedStaysVerified
PROPERTIES
  PrimaryFinishes
CHECK_DEADLOCK FALSE
