SPECIFICATION FairSpec
CONSTANTS
  Ports <- onePort
  MAX_MAPS = 2
  Routers <- onlyUpnp
  Faults = 1
INVARIANTS
  LeasesAreKnown
  OneThread
PROPERTIES
  ForgottenIsNoticed
CHECK_DEADLOCK FALSE
