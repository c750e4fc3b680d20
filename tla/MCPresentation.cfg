\* Any three of a resize, a switch, new content, two keys, a hover and a reconnection.
SPECIFICATION FairSpec
CONSTANTS
  None = None
  Paced = TRUE
  Pixels = TRUE
  KeyCap = 1
  WireCap = 1
  MaxConns = 2
  MaxResizes = 1
  MaxToggles = 1
  MaxContent = 2
  MaxEvents = 2
  MaxHovers = 1
  MaxDisturbances = 3
INVARIANTS TypeOK KeysKept WaitsForSomething
PROPERTIES NeverBackwards ResizeSettles
CHECK_DEADLOCK FALSE
