SPECIFICATION Spec
CONSTANTS
  prim = prim
  sec = sec
  Size = 3
  Frontends <- oneFrontend
  Primary = prim
  t_chunk_size <- alone
  FirstVerifiers <- anyHashes
  SoloChunks <- nothing
  EnvBound <- recheckFaults
INVARIANTS
  VerifiedDataIsGood
CHECK_DEADLOCK FALSE
