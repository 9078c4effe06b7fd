SPECIFICATION FairSpec
CONSTANTS
  ann = ann
  bob = bob
  cyd = cyd
  f1 = f1
  f2 = f2
  NoFile = NoFile
  Clients <- two
  max_upload_slots = 1
  min_upload_slots = 1
  dynamic_slots <- both
  upload_complete_chunks <- no
  Turns = 1
  friends <- annOnly
  Files <- oneFile
  release <- noFiles
  small <- noFiles
  shared_dir <- dirs
  shared_prio <- noPrio
  allowed_release_slots = 0
  streaming_amount = 3
  packet_size = 2
  CreditLimit = 1
  MaxChunks = 1
  FifoBound = 3
INVARIANTS
  Scheduled
  StreamBounds
PROPERTIES
  NextUploadsReturns
  NoStarvation
  NobodyWaitsForEver
