\* Two drops of a directory with a file; a movie whose picture ends long after its sound; three
\* generations of a remote movie, in two qualities; two songs.
SPECIFICATION Transfers
CONSTANTS
  Parts = {"drops", "exports", "playback", "clock", "remote", "pcm", "video", "screen"}
  None = None
  Roots = {1}
  Nested = {2}
  Dir = 1
  RequestCap = 2
  ReplyCap = 2
  MayMove = {2}
  MaxDrops = 2
  MaxDropTroubles = 1
  Sizes = {0, 1, 3}
  ExportWindow = 2
  MaxExports = 3
  MaxExportFailures = 2
  Frames = 5
  Samples = 2
  AudioLead = 1
  VideoLead = 4
  RingCap = 1
  Prebuffer = 1
  Lookahead = 2
  StallAfter = 1
  MaxTroubles = 0
  Readers = {r1}
  MaxPeriods = 4
  Blocks = 4
  Window = 3
  InFlight = 3
  MediaRoom = 3
  WireRoom = 2
  OutRoom = 2
  Switches = TRUE
  MaxRestarts = 2
  MaxFailures = 1
  SongBlocks = 3
  PcmWindow = 2
  RingBlocks = 1
  PcmRoom = 2
  MaxSongs = 2
  MaxAudioFailures = 1
  FrameWindow = 2
  VideoWireRoom = 3
  MaxVideos = 2
  MaxBroken = 1
  Texts = {t1, t2}
  Heavy = {t2}
  WireCap = 2
  FileCap = 1
  MaxScenes = 2
  MaxFrames = 2
  MaxResizes = 1
  MaxToggles = 1
  MaxKeys = 1
  MaxEvents = 4
  MaxLosses = 0
INVARIANTS FilesSafe CreditsKept InTime MediaIntact ScreenKept
CHECK_DEADLOCK FALSE
