\* Two processes and three versions; three connections of two windows and a probe; scenes
\* with more pictures than are kept; a dock of four panels, rows of three panes, four panes
\* and two modal scopes.
SPECIFICATION Services
CONSTANTS
  Active = {"update", "attachment", "assets", "dock", "panes", "focus"}
  Procs = {p, q}
  Newest = 3
  Nobody = Nobody
  Windows = {w1, w2}
  Probe = Probe
  Exclusivity = {TRUE, FALSE}
  Candidates = 2
  Room = 2
  LinkLimit = 1
  MaxSockets = 3
  MaxLinks = 2
  MaxEvents = 2
  Skins = {s1}
  Previews = {p1, p2, p3, p4}
  NoScene = NoScene
  Keep = 2
  SkinCount = 1
  AssetRoom = 2
  MaxScenes = 3
  MaxAttachments = 2
  Row <- ARow
  Starts <- SomeStarts
  Areas <- SomeAreas
  MaxDrag = 2
  MaxMoves = 2
  Trees <- SomeTrees
  Viewports <- SomeViewports
  MaxChoices = 1
  PaneCount = 4
  Direct = {3}
  Never = {4}
  MaxScopes = 2
INVARIANTS PendingPaired OncePerWindow EffectsKept SkinsStay FramesKept
PROPERTIES InstallsSafely
SYMMETRY Alike
CHECK_DEADLOCK FALSE
