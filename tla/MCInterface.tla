---------------------------- MODULE MCInterface ----------------------------
(* What an application's user meets: a field of text (E), a long list and its bar (S),   *)
(* the Runtime of its controls (R), its commands (K), the dialogs of the theme and the    *)
(* guide (D), what frames them (H), and the painter of all that (P).  They share no state: *)
(* part picks the one that moves, the others stay as they are.                            *)
EXTENDS Integers, Sequences, TLC

CONSTANTS Active,
          Chars, Pasted, Widths, Heights, MaxChars,
          NoBar, ItemHeights, Views, Wheels, Scales, MaxItems, MaxTrims,
          Nobody, Lists, Off, RowCounts, Wants, Hides, Interrupts, Vetoes,
          MaxTicks, MaxResizes, MaxInputs, MaxTurns,
          Spellings, Presses, Application, Scopes, Trees, MaxCommands,
          Texts, Scores, Nope, Categories, CellAreas, PixelAreas,
          ChromeAreas, Words, Counts, Questions,
          Skins, Surfaces, NoScene, RasterRoom, SkinRoom, Frames, Plays,
          MaxScenesPainted, MaxSessions,
          s1, s2, s3

VARIABLES part,
          field,
          items, list, rows, drawn, held, trims,
          view, rt, app, screen, user, spent,
          commands, tree, table,
          dialog, chrome,
          fed, input, worker, painter, onscreen, elapsed

scrollVars == <<items, list, rows, drawn, held, trims>>
controlVars == <<view, rt, app, screen, user, spent>>
commandVars == <<commands, tree, table>>
paintVars == <<fed, input, worker, painter, onscreen, elapsed>>

E == INSTANCE Editor
S == INSTANCE Scrolling WITH view <- rows
R == INSTANCE Runtime
K == INSTANCE Commands
D == INSTANCE Dialogs
H == INSTANCE Chrome
P == INSTANCE Painter

ASSUME InterfaceAssumption ==
  /\ E!EditorAssumption /\ S!ScrollingAssumption /\ R!RuntimeAssumption
  /\ K!CommandsAssumption /\ D!DialogsAssumption /\ P!PainterAssumption

Unused == <<>>
Start ==
  /\ part \in Active
  /\ IF part = "text" THEN E!EditorInit ELSE field = Unused
  /\ IF part = "lists" THEN S!ScrollInit
     ELSE items = Unused /\ list = Unused /\ rows = Unused /\ drawn = Unused /\ held = Unused /\ trims = Unused
  /\ IF part = "controls" THEN R!RuntimeInit
     ELSE view = Unused /\ rt = Unused /\ app = Unused /\ screen = Unused /\ user = Unused /\ spent = Unused
  /\ IF part = "commands" THEN K!CommandsInit ELSE commands = Unused /\ tree = Unused /\ table = Unused
  /\ IF part = "dialogs" THEN D!DialogsInit ELSE dialog = Unused
  /\ IF part = "chrome" THEN H!ChromeInit ELSE chrome = Unused
  /\ IF part = "painter" THEN P!PainterInit
     ELSE fed = Unused /\ input = Unused /\ worker = Unused /\ painter = Unused /\ onscreen = Unused /\ elapsed = Unused

Turn ==
  /\ part' = part
  /\ \/ part = "text" /\ E!EditorNext
        /\ UNCHANGED <<scrollVars, controlVars, commandVars, dialog, chrome, paintVars>>
     \/ part = "lists" /\ S!ScrollNext
        /\ UNCHANGED <<field, controlVars, commandVars, dialog, chrome, paintVars>>
     \/ part = "controls" /\ R!RuntimeNext
        /\ UNCHANGED <<field, scrollVars, commandVars, dialog, chrome, paintVars>>
     \/ part = "commands" /\ K!CommandsNext
        /\ UNCHANGED <<field, scrollVars, controlVars, dialog, chrome, paintVars>>
     \/ part = "dialogs" /\ D!DialogsNext
        /\ UNCHANGED <<field, scrollVars, controlVars, commandVars, chrome, paintVars>>
     \/ part = "chrome" /\ H!ChromeNext
        /\ UNCHANGED <<field, scrollVars, controlVars, commandVars, dialog, paintVars>>
     \/ part = "painter" /\ P!PainterNext
        /\ UNCHANGED <<field, scrollVars, controlVars, commandVars, dialog, chrome>>

Interface == Start /\ [][Turn]_<<part, field, scrollVars, controlVars, commandVars, dialog, chrome, paintVars>>

(* The properties of the instances under names of this module. *)
\* Text wraps and is edited by clusters, and the caret is where the text says.
TextRight ==
  part = "text" => E!EditorTypeOK /\ E!ClustersAgree /\ E!WrapsRight /\ E!CaretInPlace /\ E!StepsByRows
\* A list shows the rows it is scrolled to and its bar says so.
ListsRight == part = "lists" => S!ShowsItsRows /\ S!BarFollows
\* Focus, capture, what the application believes and the shown selection agree; a key has
\* one meaning.
ControlsRight ==
  /\ part = "controls" => /\ R!RuntimeTypeOK /\ R!FocusSound /\ R!CaptureSound
                         /\ R!AppInStep /\ R!SelectionShown
  /\ part = "commands" => K!OneMeaning /\ K!TableAgrees
\* A click in a dialog or on what frames it means what is drawn there; the painter shows
\* the artwork it was given, refuses none of it in a first session, and sleeps on no moving
\* picture.
DialogsRight ==
  /\ part = "dialogs" => D!DialogsSound
  /\ part = "chrome" => H!ChromeSound
  /\ part = "painter" => P!ArtworkWhole /\ P!PainterHolds /\ P!NoneStuck
\* A reader keeps the place, a click selects what was pressed, an entry is read whole.
StepsRight ==
  [][/\ part = "lists" => S!ScrollStep
     /\ part = "controls" => R!ClickSelects
     /\ part = "dialogs" => D!ReadingStep]_<<scrollVars, controlVars, dialog>>
\* What the documents say and TLC refutes.
SelectionRevealed == part = "controls" => R!SelectionShown
ArtworkStays == part = "painter" => P!ArtworkStays

(* The instances. *)
SomePasted == {<<>>, <<"letter", "newline">>}
SomeLists == {<<1, 2>>, <<2, 1, 3>>}
SomeWheels == {-2, 1}
SomeScales == {[unit |-> 3, least |-> 2]}

Pressed(c, m) == [code |-> c, mods |-> m]
SomeSpellings ==
  {Pressed("d", {}), Pressed("d", {"shift"}), Pressed("D", {}), Pressed("tab", {"shift"}),
   Pressed("backtab", {}), Pressed("f1", {"shift"})}
SomePresses ==
  {Pressed(c, m) : c \in {"d", "D", "tab", "backtab", "f1"}, m \in {{}, {"shift"}}}
SomeTrees ==
  {[r |-> Application], [r |-> Application, a |-> "r", b |-> "a"], [r |-> Application, a |-> "r", b |-> "r"]}

Entry(category, title, text) == [category |-> category, title |-> title, text |-> text]
SomeTexts == <<Entry(1, 30, 40), Entry(2, 60, 300), Entry(1, 10, 420), Entry(2, 20, 100)>>
SomeScores == ("" :> <<0, 0, 0, 0>>) @@ ("a" :> <<4, 1, 8, Nope>>) @@ ("z" :> <<Nope, Nope, Nope, Nope>>)
SomeCells == {<<9, 5>>, <<44, 14>>, <<116, 15>>}
SomePixels == {<<240, 220>>, <<960, 240>>, <<500, 400>>}

SomeAreas == {1, 2, 3, 7, 13, 20, 30, 34, 62} \X {1, 2, 3, 4, 6, 8, 11}
SomeWords == {<<4>>, <<6, 8, 5>>}
SomeQuestions == {[body |-> <<30, 0, 60>>, yes |-> 6, no |-> 4]}

SomeSurfaces == {{s3}, {s1, s2}}
=============================================================================
