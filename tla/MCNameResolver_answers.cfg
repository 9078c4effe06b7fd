SPECIFICATION FairSpec
CONSTANTS
  r1 = r1
  r2 = r2
  r3 = r3
  r4 = r4
  hub = hub
  tracker = tracker
  long = long
  Nothing = Nothing
  Requests <- four
  Names <- names
  LongNames <- longNames
  NameOf <- asked
  use_threads <- both
INVARIANTS
  AddressesBelong
  EventLoopNotBlocked
  WaitingIsQueued
PROPERTIES
  EveryRequestEnds
  ResolverIsAsyncJob
