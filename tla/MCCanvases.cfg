\* Leased frames: one stream identity too many, a control channel that fills,
\* frames that exceed the byte budget, two attachments.  Lossless pictures:
\* channels that fill, two sizes, a budget that two streams exceed.
SPECIFICATION Canvases
CONSTANTS
  Parts = {"leases", "pixels"}
  Streams = {a, b}
  None = None
  Size <- MCSize
  MaxStreams = 1
  Budget = 1
  ControlCap = 2
  MaxGen = 2
  MaxUpdates = 4
  MaxOther = 1
  MaxAttach = 2
  dark = dark
  light = light
  large = large
  Pictures = {dark, light, large}
  TooBig = {}
  PMaxStreams = 2
  PBudget = 2
  AckCap = 1
  OutCap = 1
  PControlCap = 1
  PMaxUpdates = 3
  MaxLeased = 1
INVARIANTS TypeOK RetiredStaysClosed InGenerationOrder LeasesHeld PixelsInSync
CHECK_DEADLOCK FALSE
