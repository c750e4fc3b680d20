\* The handshake of one attachment with the cell renderer and nothing else.
SPECIFICATION FairSpec
CONSTANTS
  None = None
  Paced = TRUE
  Pixels = FALSE
  KeyCap = 2
  WireCap = 1
  MaxConns = 1
  MaxResizes = 0
  MaxToggles = 0
  MaxContent = 1
  MaxEvents = 0
  MaxHovers = 0
  MaxDisturbances = 3
PROPERTIES HandshakeEnablesInput
CHECK_DEADLOCK FALSE
