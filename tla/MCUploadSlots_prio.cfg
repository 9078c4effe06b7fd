SPECIFICATION Spec
CONSTANTS
  ann = ann
  bob = bob
  cyd = cyd
  f1 = f1
  f2 = f2
  NoFile = NoFile
  Clients <- two
  max_upload_slots = 1
  min_upload_slots = 1
  dynamic_slots <- both
  upload_complete_chunks <- both
  Turns = 2
  friends <- noFiles
  Files <- twoFiles
  release <- noFiles
  small <- noFiles
  shared_dir <- dirs
  shared_prio <- onePrio
  allowed_release_slots = 1
  streaming_amount = 1
  packet_size = 1
  CreditLimit = 1
  MaxChunks = 1
  FifoBound = 1
INVARIANTS
  PrioLimit
