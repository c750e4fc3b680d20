---------------------------- MODULE Presentation ----------------------------
(***************************************************************************)
(* How a picture of the application reaches the terminal and input comes   *)
(* back: the session loop of session.rs, the reader and writer threads of  *)
(* the attachment, and the loop of one frontend (client.rs) with its       *)
(* renderer thread (renderer.rs) or synchronous cell renderer (cells.rs).  *)
(*                                                                         *)
(* The frontend numbers its geometries with generations: it takes a new    *)
(* one on a resize, on a switch of presentation and on every reconnection. *)
(* The session numbers its scenes with revisions and, with Paced, sends    *)
(* one scene of a generation at a time, waiting for Presented.  Scenes     *)
(* travel apart from controls: newest only, from the session's frame slot, *)
(* behind the controls, to the frontend's frame slot.  Keys wait until a   *)
(* frame of the current generation is on the terminal.                     *)
(*                                                                         *)
(* One client name; its connections may overlap, since the session learns  *)
(* late of a lost one.  A scene's content stands for everything            *)
(* same_content compares except the viewport, its interaction included.    *)
(* Acks, pings, assets, effects and live canvases have no state here; what *)
(* a click means to the application is the subject of Gestures.            *)
(***************************************************************************)
EXTENDS Naturals, Sequences, SequencesExt, FiniteSets

CONSTANTS None,
          Paced,                \* the frontend acknowledges presentations
          Pixels,               \* it starts with the pixel renderer
          KeyCap,               \* events PendingKeyboard holds (256)
          WireCap,              \* messages the socket or pipe buffers
          MaxConns, MaxResizes, MaxToggles, MaxContent, MaxEvents, MaxHovers,
          MaxDisturbances       \* bounds, each and together

VARIABLES app,       \* content: of the application; toggles: switches it has asked for
          se,        \* the session
          up,        \* messages on their way to the session, by connection
          down,      \* channels to the frontend, by connection
          link,      \* "new", "open" or "cut", by connection
          fe,        \* the frontend's loop
          paint,     \* the renderer
          delivered  \* history: keys given to the application

vars == <<app, se, up, down, link, fe, paint, delivered>>

Conns == 1 .. MaxConns
Scene == [rev : Nat, gen : Nat, content : Nat]
Shot(s) == [rev |-> s.rev, gen |-> s.gen]     \* what Presented and inputs carry

ASSUME PresentationAssumption ==
  /\ Paced \in BOOLEAN /\ Pixels \in BOOLEAN
  /\ KeyCap \in Nat /\ WireCap \in Nat \ {0} /\ MaxConns \in Nat \ {0}
  /\ MaxResizes \in Nat /\ MaxToggles \in Nat /\ MaxContent \in Nat \ {0}
  /\ MaxEvents \in Nat /\ MaxHovers \in Nat /\ MaxDisturbances \in Nat
  /\ None \notin Scene \cup [rev : Nat, gen : Nat]

NoChannels == [control |-> <<>>, slot |-> None, wire |-> <<>>, messages |-> <<>>, frames |-> None]

----------------------------------------------------------------------------
(* Shared steps.  A message sent on a cut link is lost. *)

\* What the application and the user have done so far; a connection's end counts twice.
Disturbances == (app.content - 1) + app.toggles + fe.resizes + fe.typed + fe.hovers
                  + 2 * Cardinality({c \in Conns : link[c] = "cut"})
Calm == Disturbances < MaxDisturbances
CalmEnough == Disturbances + 2 <= MaxDisturbances

\* Outbox.push from the frontend's loop, and the writer behind it.
Sent(c, msgs) == IF c # 0 /\ link[c] = "open" THEN [up EXCEPT ![c] = @ \o msgs] ELSE up

\* The connection ends: the session reads what had left, then the end.
CutUp(c) == \E n \in 0 .. Len(up[c]) :
              up' = [up EXCEPT ![c] = SubSeq(@, 1, n) \o <<[type |-> "eof"]>>]

----------------------------------------------------------------------------
(* The session loop. *)

\* (mutant) a scene not yet acknowledged holds back those of other geometries too
ReadyAcked(gen) == Paced => se.budget = None
Ready(gen) == Paced /\ se.budget # None => se.budget.gen # gen

\* The application changes on its own.
Work == /\ Calm /\ app.content < MaxContent
        /\ app' = [app EXCEPT !.content = @ + 1]
        /\ UNCHANGED <<se, up, down, link, fe, paint, delivered>>

\* An effect of the application asks for the other presentation.
AskToggle == /\ Calm /\ se.peer # 0 /\ app.toggles < MaxToggles
             /\ app' = [app EXCEPT !.toggles = @ + 1]
             /\ down' = [down EXCEPT ![se.peer].control = Append(@, [type |-> "toggle"])]
             /\ UNCHANGED <<se, up, link, fe, paint, delivered>>

\* Dropping a peer shuts its socket down; its writer and its queues end.
Dropped(d, c) == [d EXCEPT ![c].control = <<>>, ![c].slot = None]
CutLink(l, c) == [l EXCEPT ![c] = "cut"]

\* A candidate's Hello takes the attachment over and is answered in the same turn.
Attach(c, m) ==
  /\ m.type = "hello" /\ c # se.peer
  /\ se' = [se EXCEPT !.peer = c, !.view = m.gen, !.attached = TRUE, !.budget = None]
  /\ LET d == IF se.peer = 0 THEN down ELSE Dropped(down, se.peer)
     IN down' = [d EXCEPT ![c].control = <<[type |-> "hello"]>>]
  /\ link' = IF se.peer = 0 THEN link ELSE CutLink(link, se.peer)
  /\ up' = [up EXCEPT ![c] = Tail(@)]
  /\ UNCHANGED <<app, fe, paint, delivered>>

FromPeer(c) == /\ c = se.peer
               /\ up' = [up EXCEPT ![c] = Tail(@)]
               /\ UNCHANGED <<app, fe, paint>>

Eof(c, m) == /\ m.type = "eof" /\ FromPeer(c)
             /\ se' = [se EXCEPT !.peer = 0]
             /\ down' = Dropped(down, c)
             /\ link' = CutLink(link, c)
             /\ UNCHANGED delivered

Newer(m) == m.id > se.last

ResizeInput(c, m) ==
  /\ m.type = "resize" /\ FromPeer(c)
  /\ se' = IF Newer(m) THEN [se EXCEPT !.last = m.id, !.view = m.gen, !.dirty = TRUE] ELSE se
  /\ UNCHANGED <<down, link, delivered>>

KeyInput(c, m) ==
  /\ m.type = "key" /\ FromPeer(c)
  /\ se' = IF Newer(m) THEN [se EXCEPT !.last = m.id, !.dirty = TRUE] ELSE se
  /\ delivered' = IF Newer(m)
                    THEN Append(delivered, [n |-> m.n, typed |-> m.typed, conn |-> c,
                                            gen |-> m.gen, view |-> se.view,
                                            seen |-> IF se.target = None THEN 0 ELSE se.target.gen])
                    ELSE delivered
  /\ UNCHANGED <<down, link>>

Presented(c, m) ==
  /\ m.type = "presented" /\ FromPeer(c)
  /\ LET same(s) == Shot(s) = [rev |-> m.rev, gen |-> m.gen]
     IN se' = [se EXCEPT !.budget = IF @ # None /\ same(@) THEN None ELSE @,
                         !.target = IF \E h \in se.history : same(h)
                                      THEN CHOOSE h \in se.history : same(h) ELSE @]
  /\ UNCHANGED <<down, link, delivered>>

SwitchInput(c, m) ==
  /\ m.type = "presentation" /\ FromPeer(c)
  /\ se' = IF m.gen > se.view THEN [se EXCEPT !.view = m.gen, !.dirty = TRUE] ELSE se
  /\ UNCHANGED <<down, link, delivered>>

Receive(c) ==
  /\ up[c] # <<>>
  /\ LET m == Head(up[c])
     IN \/ Attach(c, m) \/ Eof(c, m) \/ ResizeInput(c, m) \/ KeyInput(c, m)
        \/ Presented(c, m) \/ SwitchInput(c, m)

NextScene(s) == [rev |-> s.rev + 1, gen |-> se.view, content |-> app.content]
\* The scene of this turn: a new revision only if anything differs.
Built == LET same == se.scene.content = app.content /\ se.scene.gen = se.view
         IN IF same THEN se.scene ELSE NextScene(se.scene)

\* The end of a turn: build the scene if there is a reason, and offer it to the peer.
Paint ==
  /\ se.peer # 0
  /\ \/ se.attached /\ Ready(se.view)
     \/ se.dirty
     \/ app.content # se.scene.content          \* scene_dirty, at the frame interval
  /\ LET scene == Built
         due == se.attached \/ scene # se.scene
         sent == due /\ Ready(scene.gen)
     IN /\ se' = [se EXCEPT !.scene = scene, !.dirty = FALSE, !.attached = due /\ ~sent,
                            !.budget = IF sent /\ Paced THEN Shot(scene) ELSE @,
                            !.history = IF sent THEN @ \cup {scene} ELSE @]
        /\ down' = IF sent THEN [down EXCEPT ![se.peer].slot = scene] ELSE down
  /\ UNCHANGED <<app, up, link, fe, paint, delivered>>

----------------------------------------------------------------------------
(* The attachment's threads and the renderer's. *)

\* star-session-output: controls before the frame slot.
Write(c) ==
  /\ c = se.peer /\ Len(down[c].wire) < WireCap
  /\ LET d == down[c] IN
     \/ /\ d.control # <<>>
        /\ down' = [down EXCEPT ![c].control = Tail(@), ![c].wire = Append(@, Head(d.control))]
     \/ /\ d.control = <<>> /\ d.slot # None
        /\ down' = [down EXCEPT ![c].slot = None,
                                ![c].wire = Append(@, [type |-> "scene", scene |-> d.slot])]
  /\ UNCHANGED <<app, se, up, link, fe, paint, delivered>>

\* The frontend's reader: a scene replaces the one nobody has taken.
Read(c) ==
  /\ c = fe.conn /\ down[c].wire # <<>>
  /\ LET m == Head(down[c].wire) IN
       down' = IF m.type = "scene"
                 THEN [down EXCEPT ![c].wire = Tail(@), ![c].frames = m.scene]
                 ELSE [down EXCEPT ![c].wire = Tail(@), ![c].messages = Append(@, m)]
  /\ UNCHANGED <<app, se, up, link, fe, paint, delivered>>

\* The connection breaks under both sides.
Lose(c) == /\ CalmEnough /\ link[c] = "open"
           /\ link' = CutLink(link, c) /\ CutUp(c)
           /\ UNCHANGED <<app, se, down, fe, paint, delivered>>

NoPaint == [input |-> None, busy |-> None, output |-> <<>>]

\* Frontend.scene: the worker's newest input, or a cell frame drawn at once.
Submitted(p, scene) == IF fe.pixels THEN [p EXCEPT !.input = scene]
                                    ELSE [p EXCEPT !.output = <<scene>>]

RenderTake == /\ paint.input # None /\ paint.busy = None
              /\ paint' = [paint EXCEPT !.input = None, !.busy = paint.input]
              /\ UNCHANGED <<app, se, up, down, link, fe, delivered>>

\* Two finished frames wait at most; the older one makes room.
\* (mutant) nothing makes room
QueuedAll(out, scene) == Append(out, scene)
Queued(out, scene) == Append(IF Len(out) = 2 THEN Tail(out) ELSE out, scene)

RenderPut == /\ paint.busy # None
             /\ paint' = [paint EXCEPT !.busy = None, !.output = Queued(@, paint.busy)]
             /\ UNCHANGED <<app, se, up, down, link, fe, delivered>>

----------------------------------------------------------------------------
(* The frontend's loop in stages: "controls" until the frame slot is read,   *)
(* "output", "link", "input".  todo counts the controls drained at its start *)
(* and not yet handled.                                                      *)

FeStep(stage) == /\ fe.pc = stage
                 /\ UNCHANGED <<app, se, delivered>>

\* Inputs are numbered.
ResizeTo(gen) == [type |-> "resize", gen |-> gen, id |-> fe.id + 1]

\* Geometry may have changed since Hello left: ask for a fresh scene.
\* (mutant) what is on the terminal stays
KeptScene(f) == f
Forgotten(f) == [f EXCEPT !.last = None, !.shown = None]

HandleHello(m) ==
  /\ m.type = "hello"
  /\ fe' = [Forgotten(fe) EXCEPT !.connected = TRUE, !.known = TRUE, !.id = @ + 1, !.todo = @ - 1]
  /\ up' = Sent(fe.conn, <<ResizeTo(fe.gen)>>)
  /\ UNCHANGED <<link, paint>>

HandleToggle(m) ==
  /\ m.type = "toggle"
  /\ fe' = [fe EXCEPT !.pixels = ~@, !.gen = @ + 1, !.last = None, !.shown = None, !.todo = @ - 1]
  /\ up' = Sent(fe.conn, <<[type |-> "presentation", gen |-> fe.gen + 1]>>)
  /\ paint' = NoPaint
  /\ UNCHANGED link

Handle == /\ FeStep("controls") /\ fe.todo > 0
          /\ LET m == Head(down[fe.conn].messages) IN HandleHello(m) \/ HandleToggle(m)
          /\ down' = [down EXCEPT ![fe.conn].messages = Tail(@)]

\* The scene that has arrived, if it is of this geometry.
TakeFrame ==
  /\ FeStep("controls") /\ fe.todo = 0
  /\ LET scene == IF fe.conn = 0 THEN None ELSE down[fe.conn].frames
         mine == scene # None /\ scene.gen = fe.gen
     IN /\ fe' = [fe EXCEPT !.pc = "output", !.last = IF mine THEN scene ELSE @]
        /\ paint' = IF mine THEN Submitted(paint, scene) ELSE paint
        /\ down' = IF scene = None THEN down ELSE [down EXCEPT ![fe.conn].frames = None]
  /\ UNCHANGED <<up, link>>

\* A finished frame of this geometry.
Finished(i) == IF i \in DOMAIN paint.output /\ paint.output[i].gen = fe.gen
                 THEN <<paint.output[i]>> ELSE <<>>
Shows(s) == [type |-> "presented", rev |-> s.rev, gen |-> s.gen]

\* Each of the two there may be goes to the terminal and is acknowledged.
Show ==
  /\ FeStep("output")
  /\ LET mine == Finished(1) \o Finished(2)
         acks == [i \in DOMAIN mine |-> Shows(mine[i])]
     IN /\ fe' = [fe EXCEPT !.pc = "link", !.shown = IF mine = <<>> THEN @ ELSE Last(mine)]
        /\ up' = IF fe.connected THEN Sent(fe.conn, acks) ELSE up
  /\ paint' = [paint EXCEPT !.output = <<>>]
  /\ UNCHANGED <<down, link>>

\* (mutant) keys typed before a disconnection are kept
Kept(pending) == pending
Cleared(pending) == <<>>

\* The child has exited or nothing has been heard for too long.  Before the
\* first Hello this is fatal.
Dead ==
  /\ FeStep("link") /\ fe.conn # 0 /\ (link[fe.conn] = "open" => CalmEnough)
  /\ fe' = [fe EXCEPT !.conn = 0, !.connected = FALSE, !.shown = None,
                      !.pending = Cleared(@), !.pc = IF fe.known THEN "input" ELSE "stopped"]
  /\ paint' = IF fe.known /\ fe.last # None THEN Submitted(paint, fe.last) ELSE paint
  /\ IF link[fe.conn] = "open" THEN link' = CutLink(link, fe.conn) /\ CutUp(fe.conn)
                               ELSE UNCHANGED <<link, up>>
  /\ UNCHANGED down

Reconnect ==
  /\ FeStep("link") /\ fe.conn = 0 /\ fe.tried < MaxConns
  /\ LET c == fe.tried + 1 IN
     /\ fe' = [fe EXCEPT !.conn = c, !.tried = c, !.gen = @ + 1, !.hello = fe.gen + 1, !.pc = "input"]
     /\ link' = [link EXCEPT ![c] = "open"]
     /\ up' = [up EXCEPT ![c] = <<[type |-> "hello", gen |-> fe.gen + 1]>>]
  /\ UNCHANGED <<down, paint>>

\* The connection is alive, or this round has dealt with it.
InputStage == \/ fe.pc = "input"
              \/ fe.pc = "link" /\ (fe.conn # 0 => link[fe.conn] = "open")

SceneReady == fe.last # None /\ fe.shown # None /\ fe.shown.gen = fe.gen
Dispatches == fe.connected /\ SceneReady /\ fe.pending # <<>>
\* Keys, pointer and the clock come only when no key waits to be dispatched; a resize and a
\* loss of focus that are pending come before the keys that wait.
\* (mutant) a new event may overtake the keys that wait
ReadsAlways == TRUE
Reads == ~Dispatches

Again(f) == [f EXCEPT !.pc = "controls",
                      !.todo = IF f.conn = 0 THEN 0 ELSE Len(down[f.conn].messages)]

Key(n, typed) == [type |-> "key", n |-> n, typed |-> typed, rev |-> fe.shown.rev,
                  gen |-> fe.shown.gen, id |-> fe.id + 1]

\* Keys that waited go first, one each time round.
Dispatch ==
  /\ InputStage /\ FeStep(fe.pc) /\ Dispatches
  /\ LET k == Head(fe.pending) IN up' = Sent(fe.conn, <<Key(k.n, k.typed)>>)
  /\ fe' = Again([fe EXCEPT !.pending = Tail(@), !.id = @ + 1])
  /\ UNCHANGED <<down, link, paint>>

Typed == [fe EXCEPT !.typed = @ + 1]
TypeKey ==
  /\ Calm /\ fe.typed < MaxEvents
  /\ LET n == fe.typed + 1 IN
     \/ /\ ~fe.connected /\ fe' = Again(Typed) /\ UNCHANGED <<up, link>>
     \/ /\ fe.connected /\ SceneReady
        /\ up' = Sent(fe.conn, <<Key(n, fe.conn)>>)
        /\ fe' = Again([Typed EXCEPT !.id = @ + 1]) /\ UNCHANGED link
     \/ /\ fe.connected /\ ~SceneReady /\ Len(fe.pending) < KeyCap
        /\ fe' = Again([Typed EXCEPT !.pending = Append(@, [n |-> n, typed |-> fe.conn])])
        /\ UNCHANGED <<up, link>>
     \/ /\ fe.connected /\ ~SceneReady /\ Len(fe.pending) >= KeyCap     \* an error ends run
        /\ fe' = [Typed EXCEPT !.pc = "stopped", !.conn = 0, !.connected = FALSE]
        /\ IF link[fe.conn] = "open" THEN link' = CutLink(link, fe.conn) /\ CutUp(fe.conn)
                                     ELSE UNCHANGED <<link, up>>
  /\ UNCHANGED paint

Resize ==
  /\ Calm /\ fe.resizes < MaxResizes
  /\ up' = IF fe.connected THEN Sent(fe.conn, <<ResizeTo(fe.gen + 1)>>) ELSE up
  /\ fe' = Again([fe EXCEPT !.resizes = @ + 1, !.gen = @ + 1, !.last = None, !.shown = None,
                            !.id = IF fe.connected THEN @ + 1 ELSE @])
  /\ UNCHANGED <<link, paint>>

\* (mutant) the picture on the terminal is painted again instead of the newest scene
RepaintedShown == fe.shown
Repainted == fe.last

\* The keys that wait are dropped and the rows lose their hover.  With none waiting it does
\* what Hover does.
LoseFocus == /\ fe.pending # <<>>
             /\ fe' = Again([fe EXCEPT !.pending = <<>>])
             /\ paint' = IF fe.pixels /\ fe.last # None /\ Repainted # None
                           THEN Submitted(paint, Repainted) ELSE paint
             /\ UNCHANGED <<up, link>>

\* The pointer moves over rows: the newest scene again, with its hover.
Hover == /\ Calm /\ fe.hovers < MaxHovers /\ fe.pixels /\ fe.last # None /\ Repainted # None
         /\ paint' = Submitted(paint, Repainted)
         /\ fe' = Again([fe EXCEPT !.hovers = @ + 1])
         /\ UNCHANGED <<up, link>>

Quiet == fe' = Again(fe) /\ UNCHANGED <<up, link, paint>>

TerminalEvent == /\ InputStage /\ FeStep(fe.pc)
                 /\ \/ Reads /\ (TypeKey \/ Hover \/ Quiet)
                    \/ Resize \/ LoseFocus
                 /\ UNCHANGED down

Frontend == \/ Handle \/ TakeFrame \/ Show \/ Dead \/ Reconnect
            \/ Dispatch \/ TerminalEvent

----------------------------------------------------------------------------
Init ==
  /\ app = [content |-> 1, toggles |-> 0]
  /\ \E gen \in {0, 1} :      \* 0: the default viewport is not this terminal's
       LET scene == [rev |-> 1, gen |-> gen, content |-> 1]
       IN se = [peer |-> 0, view |-> gen, scene |-> scene, attached |-> TRUE, dirty |-> FALSE,
                budget |-> None, last |-> 0, target |-> None, history |-> {scene}]
  /\ up = [c \in Conns |-> IF c = 1 THEN <<[type |-> "hello", gen |-> 1]>> ELSE <<>>]
  /\ down = [c \in Conns |-> NoChannels]
  /\ link = [c \in Conns |-> IF c = 1 THEN "open" ELSE "new"]
  /\ fe = [conn |-> 1, tried |-> 1, connected |-> FALSE, known |-> FALSE, gen |-> 1, hello |-> 1,
           last |-> None, shown |-> None, pixels |-> Pixels, pending |-> <<>>, id |-> 0,
           typed |-> 0, resizes |-> 0, hovers |-> 0, pc |-> "controls", todo |-> 0]
  /\ paint = NoPaint
  /\ delivered = <<>>

Next == \/ Work \/ AskToggle \/ Paint \/ RenderTake \/ RenderPut \/ Frontend
        \/ \E c \in Conns : Receive(c) \/ Write(c) \/ Read(c) \/ Lose(c)

Spec == Init /\ [][Next]_vars

\* Every thread keeps running.
FairSpec == /\ Spec /\ WF_vars(Paint) /\ WF_vars(RenderTake) /\ WF_vars(RenderPut)
            /\ WF_vars(Frontend)
            /\ \A c \in Conns : WF_vars(Receive(c)) /\ WF_vars(Write(c)) /\ WF_vars(Read(c))

----------------------------------------------------------------------------
(* Properties. *)

Opt(S) == S \cup {None}
Scenes(sq) == \A i \in DOMAIN sq : sq[i] \in Scene

\* Types and the bounds of the queues: two finished frames (renderer.rs), the
\* socket, the keys that wait (client.rs, PendingKeyboard).
TypeOK ==
  /\ app \in [content : 1 .. MaxContent, toggles : 0 .. MaxToggles]
  /\ se.peer \in 0 .. MaxConns /\ se.view \in Nat /\ se.scene \in Scene
  /\ se.budget \in Opt([rev : Nat, gen : Nat]) /\ se.target \in Opt(Scene)
  /\ se.history \subseteq Scene /\ se.last \in Nat
  /\ \A c \in Conns : /\ link[c] \in {"new", "open", "cut"}
                      /\ Len(down[c].wire) <= WireCap
                      /\ down[c].slot \in Opt(Scene) /\ down[c].frames \in Opt(Scene)
  /\ fe.conn \in 0 .. MaxConns /\ fe.last \in Opt(Scene) /\ fe.shown \in Opt(Scene)
  /\ fe.pc \in {"controls", "output", "link", "input", "stopped"}
  /\ Len(fe.pending) <= KeyCap
  /\ paint.input \in Opt(Scene) /\ paint.busy \in Opt(Scene)
  /\ Scenes(paint.output) /\ Len(paint.output) <= 2

\* Keys reach the application in the order they were typed, through all the
\* resizes, switches and reconnections they waited for (docs/terminal-graphics.md,
\* "retained in order until that geometry is visible").
KeysInOrder == \A i, j \in DOMAIN delivered : i < j => delivered[i].n < delivered[j].n

\* A key typed into one attachment never reaches the application through a later
\* one ("queued input cannot replay into a reattached session").
NotReplayed == \A i \in DOMAIN delivered : delivered[i].typed = delivered[i].conn

\* When the application gets a key it has the geometry the key was typed in, and
\* knows that a picture of that geometry was on the terminal by then.
SeenGeometry == \A i \in DOMAIN delivered :
                  delivered[i].gen = delivered[i].view /\ delivered[i].seen = delivered[i].view

\* Keys are given to the application once, in order, in the attachment and in the
\* geometry they were typed in ("retained in order until that geometry is visible").
KeysKept == KeysInOrder /\ NotReplayed /\ SeenGeometry

\* While connected, the terminal never goes back to an older scene: not across the
\* replaced slots, the renderer's queues and the repaints of the newest scene.
NeverBackwards ==
  [][fe.shown # None /\ fe'.shown # None /\ fe'.conn = fe.conn => fe'.shown.rev >= fe.shown.rev]_vars

\* The scene the session waits for is somewhere on its way to the terminal, or its
\* acknowledgement is on its way back, or a newer geometry will lift the wait:
\* PresentationBudget cannot stall an attachment whose frontend holds a scene.
OnItsWay(b) ==
  LET d == down[se.peer]
      is(s) == s # None /\ Shot(s) = b
  IN \/ is(d.slot) \/ is(d.frames) \/ is(paint.input) \/ is(paint.busy)
     \/ \E i \in DOMAIN d.wire : d.wire[i].type = "scene" /\ is(d.wire[i].scene)
     \/ \E i \in DOMAIN paint.output : is(paint.output[i])
     \/ \E i \in DOMAIN up[se.peer] : up[se.peer][i].type = "presented" /\ Shot(up[se.peer][i]) = b
WaitsForSomething ==
  (/\ se.peer # 0 /\ se.peer = fe.conn /\ link[se.peer] = "open" /\ se.budget # None
   /\ fe.connected /\ fe.last # None) => OnItsWay(se.budget) \/ fe.gen > se.budget.gen

\* After a resize or a switch of an attachment the terminal comes to show the
\* application's current content in the new geometry, and every key that waited
\* has been sent, unless the attachment ends.
UpToDate == SceneReady /\ fe.shown.content = app.content /\ fe.pending = <<>>
ResizeSettles == (fe.connected /\ fe.gen > fe.hello) ~> (UpToDate \/ ~fe.connected)

\* The handshake is followed by a scene that enables input, unless the attachment
\* ends (client.rs, "Always request a fresh scene before enabling user input").
HandshakeEnablesInput == fe.connected ~> (SceneReady \/ ~fe.connected)
=============================================================================
