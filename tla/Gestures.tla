------------------------------ MODULE Gestures ------------------------------
(***************************************************************************)
(* A gesture of the pointer, from the terminal to the control it lands on. *)
(*                                                                         *)
(* The frontend (client.rs) offers every event to the Router of embedded   *)
(* canvases (embedded_input.rs) and sends what is left as Pointer input,   *)
(* stamped with the picture on the terminal.  The session (session.rs)     *)
(* admits it by what the frontend has presented (protocol.rs, Admission),  *)
(* possibly as CancelPointer.  The application's Host (ui/application.rs)  *)
(* gives it to the Runtime (ui/runtime.rs), whose capture decides whether  *)
(* a release activates what was pressed.  Meanwhile the application        *)
(* changes its targets, the terminal is resized, the presentation switched *)
(* and the attachment lost, and each of them may end a gesture.            *)
(*                                                                         *)
(* On the screen there are a row of a list and an interactive canvas, a    *)
(* custom control of the Runtime like any other.  How long a frame takes   *)
(* is the subject of Presentation: here a scene is sent, replaces the one  *)
(* before it in its slot, arrives and is shown at any time.  Drags and     *)
(* moves change no capture and are left out; so are the identities of      *)
(* inputs, which increase along the one ordered channel of an attachment,  *)
(* and the controls that act on a press (a slider, a scrollbar).           *)
(***************************************************************************)
EXTENDS Naturals, Sequences

CONSTANTS None,
          Buttons,                \* buttons of the pointer; 0 is the left one
          MaxEvents, MaxWork, MaxResizes, MaxToggles, MaxBreaks,
          MaxDisturbances         \* bounds; the last on all but events together

ASSUME GesturesAssumption ==
  /\ None \notin Nat /\ Buttons \subseteq 0 .. 2
  /\ MaxEvents \in Nat /\ MaxWork \in Nat
  /\ MaxResizes \in Nat /\ MaxToggles \in Nat /\ MaxBreaks \in Nat
  /\ MaxDisturbances \in Nat

VARIABLES ui,      \* the Runtime and its Host: contents, frame and capture
          ctl,     \* what the application believes: attachments, its canvas
          se,      \* the session: peer, viewport, scene, Admission
          fe,      \* the frontend: geometry, pictures, Router, the user's hands
          up,      \* inputs and Presented on their way to the session
          down,    \* controls on their way to the frontend
          slot,    \* the newest scene on its way to the frontend
          link,    \* "open" or "cut"
          fired    \* history: the last activation of a row

vars == <<ui, ctl, se, fe, up, down, slot, link, fired>>

Row(u) == [area |-> u.area, items |-> u.items, off |-> u.off]

----------------------------------------------------------------------------
(* The Runtime and its Host. *)

Uncaptured(u) == [u EXCEPT !.capture = None]

\* (mutant) a view with other targets leaves the capture alone
RetargetedOnly(u, part) == [u EXCEPT ![part] = @ + 1]
\* Runtime.update with a view of other rows or another geometry.
Retargeted(u, part) == Uncaptured([u EXCEPT ![part] = @ + 1])

\* A press captures what it hits, in the geometry of the retained frame.
Down(u, m) == [u EXCEPT !.capture = [place |-> m.place, gen |-> u.gen, row |-> Row(u)]]

\* A release at the place of the press, in its geometry, activates the row there.
Activates(u, m) == /\ u.capture # None /\ u.capture.gen = u.gen
                   /\ u.capture.place = "row" /\ m.place = "row"
Activation(u) == [pressed |-> u.capture.row, row |-> Row(u)]

\* The wheel over the list cancels a click that has begun.
Wheel(u, m) == IF m.place = "row" THEN Uncaptured([u EXCEPT !.off = @ + 1]) ELSE u

Pointed(u, m) ==
  IF m.button # 0 THEN u
  ELSE CASE m.act = "down"  -> Down(u, m)
         [] m.act = "up"    -> Uncaptured(u)
         [] m.act = "wheel" -> Wheel(u, m)
         [] OTHER           -> u

\* (mutant) a new viewport keeps the capture
FramedKeeping(u, view) == [u EXCEPT !.gen = view]
\* Host.scene for a viewport: another one cancels the pointer.
Framed(u, view) == IF u.gen = view THEN u ELSE Uncaptured([u EXCEPT !.gen = view])

Changes == ui.area + ui.items + ui.rev + ui.shows
Calm == Changes + se.toggles + fe.resizes + fe.breaks < MaxDisturbances

\* The application changes its view: rows, layout, a custom control's revision, or
\* the canvas (a menu over it, its tab).
Work ==
  /\ Calm /\ Changes < MaxWork
  /\ \/ \E part \in {"items", "area"} : ui' = Retargeted(ui, part)
     \/ ui' = [ui EXCEPT !.rev = @ + 1]
     \/ ui' = [ui EXCEPT !.canvas = ~@, !.shows = @ + 1]
  /\ UNCHANGED <<ctl, se, fe, up, down, slot, link, fired>>

----------------------------------------------------------------------------
(* The session. *)

\* The scene of the Runtime's frame: interaction changes with its targets, the
\* area with the destinations of the wheel.
SceneOf(u, rev) == [rev |-> rev, gen |-> u.gen, canvas |-> u.canvas, area |-> u.area,
                    interaction |-> [row |-> Row(u), rev |-> u.rev]]

AskToggle == /\ Calm /\ se.peer /\ se.toggles < MaxToggles
             /\ se' = [se EXCEPT !.toggles = @ + 1] /\ down' = Append(down, "toggle")
             /\ UNCHANGED <<ui, ctl, fe, up, slot, link, fired>>

\* Controller.detached: captures and what the canvas holds are given up.
Detached == /\ ui' = Uncaptured(ui)
            /\ ctl' = [ctl EXCEPT !.attached = @ - 1, !.buttons = {}, !.key = FALSE]

Idle(s) == [s EXCEPT !.peer = FALSE]

\* The session reads the end of a broken connection; what it has not read is lost.
Eof == /\ link = "cut" /\ se.peer
       /\ Detached /\ se' = Idle(se) /\ up' = <<>> /\ down' = <<>> /\ slot' = None
       /\ UNCHANGED <<fe, link, fired>>

\* Hello of a new connection, which takes over from a peer not yet known to be lost.
Attach ==
  /\ fe.calling /\ fe' = [fe EXCEPT !.calling = FALSE]
  /\ IF se.peer
       THEN ui' = Uncaptured(ui) /\ ctl' = [ctl EXCEPT !.buttons = {}, !.key = FALSE]
       ELSE ui' = ui /\ ctl' = [ctl EXCEPT !.attached = @ + 1]
  /\ se' = [se EXCEPT !.peer = TRUE, !.view = fe.gen, !.unsent = TRUE]
  /\ up' = <<>> /\ down' = <<"hello">> /\ slot' = None /\ link' = "open"
  /\ UNCHANGED fired

Matches(m) == /\ se.target # None /\ se.target.rev = m.rev /\ se.target.gen = m.gen
              /\ se.target.interaction = se.scene.interaction
              /\ m.gen = se.scene.gen

SameScroll(m) == /\ se.scroll # None /\ se.scroll.rev = m.rev /\ se.scroll.gen = m.gen
                 /\ se.scroll.area = se.scene.area

\* Admission.cancel_release.
CancelRelease(m) == ~(se.press = m.gen /\ m.gen = se.scene.gen) /\ ~Matches(m)

\* (mutant) a release is admitted like any other event
AdmitsFresh(m) == Matches(m) \/ (m.act = "wheel" /\ m.gen = se.scene.gen /\ SameScroll(m))

\* Admission.admit: a captured release is always balanced, the wheel needs only its
\* destinations unchanged.
Admits(m) == \/ m.act = "up" /\ se.press # None
             \/ Matches(m)
             \/ m.act = "wheel" /\ m.gen = se.scene.gen /\ SameScroll(m)

Press(m) == CASE m.act = "up" -> None
              [] m.act = "down" /\ Matches(m) -> m.gen
              [] OTHER -> se.press

\* An input is answered with an Ack; alive is FALSE when its channel has gone,
\* and the session then drops the peer without another word.
Pointer(m, alive) ==
  /\ m.type = "pointer"
  /\ se' = [se EXCEPT !.press = Press(m), !.peer = alive]
  /\ IF ~Admits(m) THEN UNCHANGED <<ui, fired>>
     ELSE IF m.act = "up" /\ CancelRelease(m) THEN ui' = Uncaptured(ui) /\ fired' = fired
     ELSE /\ ui' = Pointed(ui, m)
          /\ fired' = IF m.act = "up" /\ m.button = 0 /\ Activates(ui, m)
                        THEN Activation(ui) ELSE fired
  /\ ctl' = ctl

CancelPointer(m, alive) ==
  /\ m.type = "cancel" /\ ui' = Uncaptured(ui) /\ se' = [se EXCEPT !.peer = alive]
  /\ UNCHANGED <<ctl, fired>>

ResizeInput(m, alive) ==
  /\ m.type = "resize" /\ se' = [se EXCEPT !.view = m.gen, !.peer = alive]
  /\ UNCHANGED <<ui, ctl, fired>>

Releases(m) == m.act \in {"release", "keyup"}
\* A release of the canvas's button, whatever has been painted since.
OwnUp(m) == m.act = "up" /\ se.embedded # None

\* (mutant) releases have to be of the current geometry
EmbeddedAdmitsCurrent(m) ==
  /\ se.scene.canvas /\ m.gen = se.scene.gen
  /\ m.act \in {"down", "up", "wheel"} => se.embedded = m.gen \/ Matches(m)
EmbeddedAdmits(m) ==
  \/ Releases(m) \/ OwnUp(m)
  \/ /\ se.scene.canvas /\ m.gen = se.scene.gen
     /\ m.act \in {"down", "up", "wheel"} => se.embedded = m.gen \/ Matches(m)

\* The application holds what is pressed in its canvas until it is released.
Embodied(m) ==
  CASE m.act = "release" -> [ctl EXCEPT !.buttons = {}, !.key = FALSE]
    [] m.act = "keydown" -> [ctl EXCEPT !.key = TRUE]
    [] m.act = "keyup"   -> [ctl EXCEPT !.key = FALSE]
    [] m.act = "down"    -> [ctl EXCEPT !.buttons = @ \cup {m.button}]
    [] m.act = "up"      -> [ctl EXCEPT !.buttons = @ \ {m.button}]
    [] OTHER             -> ctl

Embedded(m, alive) ==
  /\ m.type = "embedded"
  /\ se' = [se EXCEPT !.peer = alive,
                      !.embedded = IF Releases(m) \/ OwnUp(m) THEN None
                                   ELSE IF m.act = "down" /\ EmbeddedAdmits(m) THEN m.gen ELSE @]
  /\ ctl' = IF EmbeddedAdmits(m) THEN Embodied(m) ELSE ctl
  /\ UNCHANGED <<ui, fired>>

Presented(m) ==
  /\ m.type = "presented"
  /\ se' = IF \E h \in se.history : h.rev = m.rev /\ h.gen = m.gen
             THEN LET h == CHOOSE h \in se.history : h.rev = m.rev /\ h.gen = m.gen
                  IN [se EXCEPT !.target = h, !.scroll = h]
             ELSE se
  /\ UNCHANGED <<ui, ctl, fired>>

\* The frontend has switched the presentation: the Host cancels the pointer.
SwitchInput(m) ==
  /\ m.type = "presentation"
  /\ IF m.gen > se.view THEN se' = [se EXCEPT !.view = m.gen] /\ ui' = Uncaptured(ui)
                        ELSE UNCHANGED <<se, ui>>
  /\ UNCHANGED <<ctl, fired>>

\* One message of the peer.
Receive ==
  /\ se.peer /\ up # <<>>
  /\ LET m == Head(up) IN
       \/ \E alive \in {TRUE, link = "open"} :
            \/ Pointer(m, alive) \/ CancelPointer(m, alive)
            \/ ResizeInput(m, alive) \/ Embedded(m, alive)
       \/ Presented(m) \/ SwitchInput(m)
  /\ up' = IF se'.peer THEN Tail(up) ELSE <<>>
  /\ UNCHANGED <<fe, down, slot, link>>

\* The end of a turn: the Host paints for the session's viewport and the scene goes
\* out.  One that the presentation budget holds back is one that waits in the slot.
Paint ==
  /\ se.peer
  /\ LET u == Framed(ui, se.view)
         same == SceneOf(u, se.scene.rev) = se.scene
         scene == IF same THEN se.scene ELSE SceneOf(u, se.scene.rev + 1)
     IN /\ ~same \/ se.unsent
        /\ ui' = u /\ slot' = scene
        /\ se' = [se EXCEPT !.scene = scene, !.unsent = FALSE, !.history = @ \cup {scene}]
  /\ UNCHANGED <<ctl, fe, up, down, link, fired>>

----------------------------------------------------------------------------
(* The frontend and its user. *)

FeStep == UNCHANGED <<ui, ctl, se, fired>>
Sent(msgs) == IF fe.conn /\ link = "open" THEN up \o msgs ELSE up
When(c, m) == IF c THEN <<m>> ELSE <<>>

Ready == fe.connected /\ fe.last # None /\ fe.shown # None /\ fe.shown.gen = fe.gen
\* What an event is stamped with.
Rev == IF fe.shown = None THEN 0 ELSE fe.shown.rev
Gen == IF fe.shown = None THEN fe.gen ELSE fe.shown.gen

\* Router.release.
LetGo(f) == [f EXCEPT !.active = FALSE, !.pressed = {}]
ToCanvas(act, b) ==
  [type |-> "embedded", act |-> act, button |-> b, rev |-> Rev, gen |-> Gen]
Release == ToCanvas("release", 0)

HandleHello ==
  /\ fe.conn /\ ~fe.calling /\ down # <<>> /\ Head(down) = "hello"
  /\ fe' = [fe EXCEPT !.connected = TRUE, !.last = None, !.shown = None, !.course = "none"]
  /\ up' = Sent(<<[type |-> "resize", gen |-> fe.gen]>>)
  /\ down' = Tail(down)
  /\ FeStep /\ UNCHANGED <<slot, link>>

HandleToggle ==
  /\ fe.conn /\ ~fe.calling /\ down # <<>> /\ Head(down) = "toggle"
  /\ fe' = [fe EXCEPT !.pixels = ~@, !.gen = @ + 1, !.last = None, !.shown = None,
                      !.course = "none"]
  /\ up' = Sent(<<[type |-> "presentation", gen |-> fe.gen + 1]>>)
  /\ down' = Tail(down)
  /\ FeStep /\ UNCHANGED <<slot, link>>

\* A canvas that was captured when the terminal was resized is captured again; if
\* the new scene has none, the Router lets go and its release is dropped.
Refocused(f) == IF ~f.refocus \/ ~f.focused THEN f
                ELSE IF f.last.canvas THEN [f EXCEPT !.active = TRUE, !.refocus = FALSE]
                ELSE LetGo(f)

Arrive == /\ fe.conn /\ ~fe.calling /\ slot # None
          /\ slot' = None
          /\ fe' = IF slot.gen = fe.gen THEN Refocused([fe EXCEPT !.last = slot]) ELSE fe
          /\ FeStep /\ UNCHANGED <<up, down, link>>

Show == /\ fe.last # None /\ fe.shown # fe.last /\ fe.last.gen = fe.gen
        /\ fe' = [fe EXCEPT !.shown = fe.last]
        /\ up' = IF fe.connected
                   THEN Sent(<<[type |-> "presented", rev |-> fe.last.rev, gen |-> fe.last.gen]>>)
                   ELSE up
        /\ FeStep /\ UNCHANGED <<down, slot, link>>

\* The connection breaks; what had left may still arrive.
Lose == /\ Calm /\ fe.breaks < MaxBreaks /\ link = "open"
        /\ link' = "cut" /\ fe' = [fe EXCEPT !.breaks = @ + 1]
        /\ FeStep /\ UNCHANGED <<up, down, slot>>

\* The loop notices.  (An attachment that dies before its Hello is left out.)
Dead == /\ fe.conn /\ link = "cut" /\ fe.connected
        /\ fe' = [LetGo(fe) EXCEPT !.conn = FALSE, !.connected = FALSE, !.shown = None,
                                   !.refocus = FALSE]
        /\ FeStep /\ UNCHANGED <<up, down, slot, link>>

Reconnect == /\ ~fe.conn
             /\ fe' = [fe EXCEPT !.conn = TRUE, !.calling = TRUE, !.gen = @ + 1,
                                    !.course = "none"]
             /\ FeStep /\ UNCHANGED <<up, down, slot, link>>

Routed == fe.pixels /\ fe.last # None
\* The canvas of the Router has gone, or a menu is open.
Gone == Routed /\ fe.active /\ ~fe.last.canvas

Counted(f) == [f EXCEPT !.events = @ + 1]

\* History: "plain" when the last left press of this geometry went to no canvas, "astray"
\* once such a gesture's release went to the canvas, or another button was let go over a
\* control before it.
Course(act, b, taken) ==
  IF fe.course # "astray" /\ act = "down" /\ b = 0 THEN IF taken THEN "none" ELSE "plain"
  ELSE IF /\ fe.course = "plain" /\ act = "up" /\ 0 \in fe.held
          /\ IF b = 0 THEN taken ELSE Ready /\ ~taken THEN "astray"
  ELSE fe.course

\* The user presses, releases or turns the wheel.
Mouse(act, b, place) ==
  /\ fe.events < MaxEvents /\ fe.focused
  /\ IF act = "down" THEN b \notin fe.held ELSE act = "wheel" \/ b \in fe.held
  /\ LET f == IF Gone THEN LetGo(fe) ELSE fe
         taken == Routed /\ fe.last.canvas /\ (place = "canvas" \/ f.pressed # {})
         outside == Routed /\ ~taken /\ act = "down" /\ f.active
         routed == IF outside THEN LetGo(f)
                   ELSE IF ~taken THEN f
                   ELSE IF act = "down" THEN [f EXCEPT !.active = TRUE, !.pressed = @ \cup {b}]
                   ELSE IF act = "up" THEN [f EXCEPT !.pressed = @ \ {b}] ELSE f
         event == IF taken THEN ToCanvas(act, b)
                  ELSE [type |-> "pointer", act |-> act, button |-> b, place |-> place,
                        rev |-> Rev, gen |-> Gen]
     IN /\ up' = Sent(When(Gone \/ outside, Release) \o When(Ready, event))
        /\ fe' = Counted([routed EXCEPT
                   !.refocus = @ /\ act # "down",
                   !.course = Course(act, b, taken),
                   !.held = IF act = "down" THEN @ \cup {b} ELSE IF act = "up" THEN @ \ {b} ELSE @])
  /\ FeStep /\ UNCHANGED <<down, slot, link>>

\* A key goes to the captured canvas; Ctrl+Esc lets go of it.  Keys that wait for a
\* picture are Presentation's.
Key(act) ==
  /\ fe.events < MaxEvents /\ fe.focused /\ (Ready \/ ~fe.connected)
  /\ Routed /\ fe.active /\ (act = "keyup" => fe.key)
  /\ LET sends == IF Gone \/ act = "escape" THEN Release ELSE ToCanvas(act, 0)
     IN up' = IF Ready \/ Gone THEN Sent(<<sends>>) ELSE up
  /\ fe' = Counted([IF Gone \/ act = "escape" THEN LetGo(fe) ELSE fe EXCEPT
                      !.refocus = FALSE, !.key = (act = "keydown" \/ @) /\ act # "keyup"])
  /\ FeStep /\ UNCHANGED <<down, slot, link>>

LoseFocus ==
  /\ fe.events < MaxEvents /\ fe.focused
  /\ up' = Sent(When(Routed /\ fe.active, Release) \o When(Ready, [type |-> "cancel"]))
  /\ fe' = Counted([IF Routed THEN LetGo(fe) ELSE fe EXCEPT
                      !.focused = FALSE, !.refocus = FALSE, !.held = {}, !.key = FALSE,
                      !.course = IF Ready THEN "none" ELSE @])
  /\ FeStep /\ UNCHANGED <<down, slot, link>>

GainFocus == /\ ~fe.focused /\ fe' = [fe EXCEPT !.focused = TRUE, !.refocus = FALSE]
             /\ FeStep /\ UNCHANGED <<up, down, slot, link>>

Resize ==
  /\ Calm /\ fe.resizes < MaxResizes
  /\ up' = Sent(When(Routed /\ fe.active, Release)
                  \o When(fe.connected, [type |-> "resize", gen |-> fe.gen + 1]))
  /\ fe' = [IF Routed THEN LetGo(fe) ELSE fe EXCEPT
              !.refocus = @ \/ (fe.focused /\ fe.active), !.resizes = @ + 1,
              !.gen = @ + 1, !.last = None, !.shown = None, !.course = "none"]
  /\ FeStep /\ UNCHANGED <<down, slot, link>>

User == \/ \E act \in {"down", "up", "wheel"}, b \in Buttons, place \in {"row", "canvas"} :
             Mouse(act, b, place)
        \/ \E act \in {"keydown", "keyup", "escape"} : Key(act)
        \/ LoseFocus \/ GainFocus \/ Resize

----------------------------------------------------------------------------
\* An attachment whose Hello has just been answered.
Init ==
  /\ ui = [area |-> 0, items |-> 0, off |-> 0, rev |-> 0, shows |-> 0, canvas |-> TRUE,
           gen |-> 1, capture |-> None]
  /\ ctl = [attached |-> 1, buttons |-> {}, key |-> FALSE]
  /\ LET scene == SceneOf(ui, 1)
     IN se = [peer |-> TRUE, view |-> 1, scene |-> scene, unsent |-> TRUE, history |-> {scene},
              press |-> None, embedded |-> None, target |-> None, scroll |-> None, toggles |-> 0]
  /\ fe = [conn |-> TRUE, calling |-> FALSE, connected |-> FALSE, breaks |-> 0, gen |-> 1,
           pixels |-> TRUE, last |-> None, shown |-> None, active |-> FALSE, pressed |-> {},
           focused |-> TRUE, refocus |-> FALSE, held |-> {}, course |-> "none",
           key |-> FALSE, events |-> 0, resizes |-> 0]
  /\ up = <<>> /\ down = <<"hello">> /\ slot = None /\ link = "open"
  /\ fired = None

Next == \/ Work \/ AskToggle \/ Eof \/ Attach \/ Receive \/ Paint
        \/ HandleHello \/ HandleToggle \/ Arrive \/ Show \/ Lose \/ Dead \/ Reconnect \/ User

Spec == Init /\ [][Next]_vars

----------------------------------------------------------------------------
(* Properties. *)

\* Types; a capture belongs to the geometry of the retained frame.
TypeOK ==
  /\ ui.gen \in Nat /\ ui.canvas \in BOOLEAN
  /\ ui.capture # None => ui.capture.gen = ui.gen
  /\ ctl.attached \in Nat /\ ctl.buttons \subseteq Buttons /\ ctl.key \in BOOLEAN
  /\ se.peer \in BOOLEAN /\ se.view \in Nat
  /\ se.scene \in se.history \/ se.unsent
  /\ fe.pressed \subseteq Buttons /\ fe.held \subseteq Buttons
  /\ fe.pressed # {} => fe.active
  /\ link \in {"open", "cut"}

\* A release activates the row its press hit: no change of rows, of scrolling or of
\* geometry between the two, by whichever way it came ("release must match its
\* press target and viewport generation", docs/application-ui.md).
ReleaseMatchesPress == fired # None => fired.row = fired.pressed

\* Everything the user did has been heard, in the present geometry.
Heard == fe.connected /\ link = "open" /\ up = <<>> /\ se.peer /\ ui.gen = fe.gen

\* A gesture ends with the hand that makes it: once the user has let the left button go
\* and all is heard, no control is captured, whatever was painted, resized, switched or
\* reattached in between (protocol.rs, "Always balance a captured release").  One that went
\* astray may last, but no longer than to the next resize, switch, loss of focus or
\* reattachment.
GestureEnds == Heard /\ 0 \notin fe.held /\ fe.course # "astray" => ui.capture = None

\* The same of those that went astray: the code does not keep it (README.md of this model,
\* section 3).
GestureAlwaysEnds == Heard /\ fe.held = {} => ui.capture = None

\* When the Router has let go of the canvas and all is heard, the application holds
\* no key and no button of the canvas, in a session whose presentation was never
\* switched and that was told of every detachment.
CanvasInStep ==
  (Heard /\ ~fe.active /\ se.toggles = 0 /\ ctl.attached = 1) => ctl.buttons = {} /\ ~ctl.key

\* A gesture means what the user saw when it began, for a row and for the canvas:
\* no click of another row, no key or button that stays down.
GesturesMatch == ReleaseMatchesPress /\ CanvasInStep

\* "Ctrl+Esc, focus loss, resize, a toolbar click and detach release capture"
\* (README.md): without a peer nothing is captured.  An Ack that cannot be sent breaks it
\* (README.md of this model, section 3).
DetachReleases == ~se.peer => ui.capture = None /\ ctl.buttons = {} /\ ~ctl.key
=============================================================================
