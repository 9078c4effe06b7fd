SPECIFICATION FairSpec
CONSTANTS
  song = song
  film = film
  Nothing = Nothing
  Files <- files
  size <- sizes
  block_size = 2
  DiskFaults = 1
  Verifications = 1
INVARIANTS
  ChunksInPlace
  OneJobEach
PROPERTIES
  DonkeyHashesAll
  HasherIsAsyncJob
CHECK_DEADLOCK FALSE
