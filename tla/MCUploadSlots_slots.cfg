SPECIFICATION Spec
CONSTANTS
  ann = ann
  bob = bob
  cyd = cyd
  f1 = f1
  f2 = f2
  NoFile = NoFile
  Clients <- three
  max_upload_slots = 1
  min_upload_slots = 1
  dynamic_slots <- both
  upload_complete_chunks <- yes
  Turns = 2
  friends <- three
  Files <- twoFiles
  release <- oneFile
  small <- oneFile
  shared_dir <- dirs
  shared_prio <- onePrio
  allowed_release_slots = 1
  streaming_amount = 1
  packet_size = 1
  CreditLimit = 1
  MaxChunks = 1
  FifoBound = 1
SYMMETRY alike
INVARIANTS
  TypeOK
  SlotsExclusive
  SlotLimits
  BlocksNeedSlot
  CreditConserved
