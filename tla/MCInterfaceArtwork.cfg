\* A skin that comes after the first painting of its surface, and an animation that is repeated.
SPECIFICATION Interface
CONSTANTS
  Active = {"painter"}
  Chars = {"letter", "emoji", "space", "joiner"}
  Pasted <- SomePasted
  Widths = {2, 3}
  Heights = {1}
  MaxChars = 3
  NoBar = NoBar
  ItemHeights = {0, 3}
  Views = {2, 3}
  Wheels <- SomeWheels
  Scales <- SomeScales
  MaxItems = 3
  MaxTrims = 1
  Nobody = Nobody
  Lists <- SomeLists
  Off = {1}
  RowCounts = {1, 2}
  Wants = {"slider"}
  Hides = {"slider"}
  Interrupts = FALSE
  Vetoes = FALSE
  MaxTicks = 2
  MaxResizes = 1
  MaxInputs = 3
  MaxTurns = 4
  Spellings <- SomeSpellings
  Presses <- SomePresses
  Application = Application
  Scopes = {"a", "b"}
  Trees <- SomeTrees
  MaxCommands = 2
  Texts <- SomeTexts
  Scores <- SomeScores
  Nope = Nope
  Categories = 2
  CellAreas <- SomeCells
  PixelAreas <- SomePixels
  ChromeAreas <- SomeAreas
  Words <- SomeWords
  Counts = {0, 2, 5}
  Questions <- SomeQuestions
  Skins = {s1, s2, s3}
  s1 = s1
  s2 = s2
  s3 = s3
  Surfaces <- SomeSurfaces
  NoScene = NoScene
  RasterRoom = 2
  SkinRoom = 2
  Frames = 2
  Plays = 2
  MaxScenesPainted = 2
  MaxSessions = 1
INVARIANT ArtworkStays
CHECK_DEADLOCK FALSE
