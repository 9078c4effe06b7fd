SPECIFICATION Spec
CONSTANTS
  Ports <- onePort
  MAX_MAPS = 1
  Routers <- onlyUpnp
  Faults = 0
PROPERTIES
  TakenBack
CHECK_DEADLOCK FALSE
