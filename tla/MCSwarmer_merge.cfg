SPECIFICATION Spec
CONSTANTS
  prim = prim
  sec = sec
  Size = 4
  Frontends <- twoFrontends
  Primary = prim
  t_chunk_size <- crossing
  FirstVerifiers <- lateHashes
  SoloChunks <- nothing
  EnvBound <- mergeFaults
INVARIANTS
  TypeOK
  SecondaryVerifiedIsGood
  SwarmerInvariant
  SecondaryCoherent
  FrontendInvariant
  DownloadedIsPresent
  PartialBlocksHaveHoles
  CompletionEscalates
  PrimaryCanFail
CHECK_DEADLOCK FALSE
