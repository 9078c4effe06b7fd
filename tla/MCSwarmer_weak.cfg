SPECIFICATION Spec
CONSTANTS
  prim = prim
  sec = sec
  Size = 3
  Frontends <- oneFrontend
  Primary = prim
  t_chunk_size <- alone
  FirstVerifiers <- weakVerifiers
  SoloChunks <- nothing
  EnvBound <- weakFaults
INVARIANTS
  FinishedIsStored
CHECK_DEADLOCK FALSE
