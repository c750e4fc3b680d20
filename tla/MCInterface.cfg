\* A field of three characters, a list of three items, four turns of the controls, two
\* commands, every step of the dialogs in three windows, of what frames them in
\* sixty-three, two scenes to paint.
SPECIFICATION Interface
CONSTANTS
  Active = {"text", "lists", "controls", "commands", "dialogs", "chrome", "painter"}
  Chars = {"letter", "emoji", "space", "joiner"}
  Pasted <- SomePasted
  Widths = {2, 3}
  Heights = {1}
  MaxChars = 3
  NoBar = NoBar
  ItemHeights = {0, 3}
  Views = {2, 3}
  Wheels <- SomeWheels
  Scales <- SomeScales
  MaxItems = 3
  MaxTrims = 1
  Nobody = Nobody
  Lists <- SomeLists
  Off = {1}
  RowCounts = {1, 2}
  Wants = {"slider"}
  Hides = {"slider"}
  Interrupts = FALSE
  Vetoes = FALSE
  MaxTicks = 2
  MaxResizes = 1
  MaxInputs = 3
  MaxTurns = 4
  Spellings <- SomeSpellings
  Presses <- SomePresses
  Application = Application
  Scopes = {"a", "b"}
  Trees <- SomeTrees
  MaxCommands = 2
  Texts <- SomeTexts
  Scores <- SomeScores
  Nope = Nope
  Categories = 2
  CellAreas <- SomeCells
  PixelAreas <- SomePixels
  ChromeAreas <- SomeAreas
  Words <- SomeWords
  Counts = {0, 2, 5}
  Questions <- SomeQuestions
  Skins = {s1, s2, s3}
  s1 = s1
  s2 = s2
  s3 = s3
  Surfaces <- SomeSurfaces
  NoScene = NoScene
  RasterRoom = 2
  SkinRoom = 2
  Frames = 2
  Plays = 2
  MaxScenesPainted = 2
  MaxSessions = 1
INVARIANTS TextRight ListsRight ControlsRight DialogsRight
PROPERTIES StepsRight
CHECK_DEADLOCK FALSE
