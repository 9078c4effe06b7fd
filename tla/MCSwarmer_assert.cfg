SPECIFICATION Spec
CONSTANTS
  prim = prim
  sec = sec
  Size = 4
  Frontends <- twoFrontends
  Primary = prim
  t_chunk_size <- crossing
  FirstVerifiers <- lateHashes
  SoloChunks <- nothing
  EnvBound <- mergeFaults
INVARIANTS
  SecondariesCanFail
CHECK_DEADLOCK FALSE
