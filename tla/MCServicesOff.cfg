\* Update off, said by the policy or the environment, and a process that goes on.
SPECIFICATION Services
CONSTANTS
  Active = {"update"}
  Procs = {p, q}
  Newest = 3
  Nobody = Nobody
  Windows = {w1, w2}
  Probe = Probe
  Exclusivity = {TRUE, FALSE}
  Candidates = 2
  Room = 2
  LinkLimit = 1
  MaxSockets = 3
  MaxLinks = 2
  MaxEvents = 2
  Skins = {s1}
  Previews = {p1, p2, p3, p4}
  NoScene = NoScene
  Keep = 2
  SkinCount = 1
  AssetRoom = 2
  MaxScenes = 3
  MaxAttachments = 2
  Row <- ARow
  Starts <- SomeStarts
  Areas <- SomeAreas
  MaxDrag = 2
  MaxMoves = 2
  Trees <- SomeTrees
  Viewports <- SomeViewports
  MaxChoices = 1
  PaneCount = 4
  Direct = {3}
  Never = {4}
  MaxScopes = 2
PROPERTY OffMeansOff
CHECK_DEADLOCK FALSE
