SPECIFICATION Spec
CONSTANTS
  Ports <- onePort
  MAX_MAPS = 1
  Routers <- bothProtocols
  Faults = 1
PROPERTIES
  RouterIsCleared
CHECK_DEADLOCK FALSE
