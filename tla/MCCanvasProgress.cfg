\* Leased frames: a control channel with room for every message.  Lossless
\* pictures: one layer for two streams, channels with room for every message but
\* the encoder's output, a picture too large to send.
SPECIFICATION Progress
CONSTANTS
  Parts = {"leases", "pixels"}
  Streams = {a, b}
  None = None
  Size <- MCSize
  MaxStreams = 2
  Budget = 4
  ControlCap = 4
  MaxGen = 2
  MaxUpdates = 3
  MaxOther = 0
  MaxAttach = 1
  dark = dark
  light = light
  large = large
  Pictures = {dark, large}
  TooBig = {large}
  PMaxStreams = 1
  PBudget = 4
  PMaxUpdates = 3
  MaxLeased = 1
  AckCap = 3
  OutCap = 1
  PControlCap = 5
INVARIANTS LayersFit
PROPERTIES FramesSettle StopEndsEncoder
CHECK_DEADLOCK FALSE
