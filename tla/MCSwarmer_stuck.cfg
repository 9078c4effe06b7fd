SPECIFICATION FairSpec
CONSTANTS
  prim = prim
  sec = sec
  Size = 3
  Frontends <- oneFrontend
  Primary = prim
  t_chunk_size <- alone
  FirstVerifiers <- aloneHashes
  SoloChunks <- nothing
  EnvBound <- plainRecheck
PROPERTIES
  PrimaryFinishes
CHECK_DEADLOCK FALSE
