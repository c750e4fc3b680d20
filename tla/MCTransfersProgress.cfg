\* Everything but drops and the clock, to its end.  One quality: a change of quality can leave
\* the older movie.
SPECIFICATION Progress
CONSTANTS
  Parts = {"exports", "playback", "remote", "pcm", "video", "screen"}
  None = None
  Roots = {1}
  Nested = {2}
  Dir = 1
  RequestCap = 2
  ReplyCap = 2
  MayMove = {2}
  MaxDrops = 1
  MaxDropTroubles = 1
  Sizes = {0, 1, 3}
  ExportWindow = 2
  MaxExports = 3
  MaxExportFailures = 2
  Frames = 2
  Samples = 2
  AudioLead = 1
  VideoLead = 2
  RingCap = 1
  Prebuffer = 1
  Lookahead = 2
  StallAfter = 1
  MaxTroubles = 1
  Readers = {r1}
  MaxPeriods = 4
  Blocks = 3
  Window = 2
  InFlight = 2
  MediaRoom = 2
  WireRoom = 2
  OutRoom = 2
  Switches = FALSE
  MaxRestarts = 1
  MaxFailures = 1
  SongBlocks = 3
  PcmWindow = 2
  RingBlocks = 1
  PcmRoom = 2
  MaxSongs = 1
  MaxAudioFailures = 1
  FrameWindow = 2
  VideoWireRoom = 3
  MaxVideos = 2
  MaxBroken = 1
  Texts = {t1}
  Heavy = {}
  WireCap = 2
  FileCap = 1
  MaxScenes = 1
  MaxFrames = 1
  MaxResizes = 1
  MaxToggles = 0
  MaxKeys = 0
  MaxEvents = 3
  MaxLosses = 1
PROPERTIES WorkEnds Repaired
CHECK_DEADLOCK FALSE
