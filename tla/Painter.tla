------------------------------ MODULE Painter ------------------------------
(* The worker that paints scenes (renderer.rs, spawn_with_options) and what its Painter   *)
(* keeps from one painting to the next (native.rs): decoded skins, rasters of surfaces by *)
(* the surface they were made from, and the frame an animated picture has reached.  The   *)
(* frontend puts the bytes it has into each scene and paints again when late ones come    *)
(* (client.rs); the worker repeats its last scene, without bytes, to move an animation.   *)
EXTENDS Naturals, Sequences, SequencesExt, FiniteSets

CONSTANTS Skins,         \* pictures that never change
          Surfaces,      \* what an application can show: sets of skins
          NoScene,
          RasterRoom,    \* 64 rasters, 16 MB
          SkinRoom,      \* skins the painter can hold (32 MB), as many as the frontend
          Frames, Plays, \* the animated picture
          MaxScenesPainted, MaxSessions

VARIABLES fed,      \* the frontend: [have, scene, sessions, count]
          input,    \* the scene that waits for the worker
          worker,   \* [pc, scene, previous, poll]
          painter,  \* [skins, rasters, picture]
          onscreen, \* the last painting: [surfaces, whole, frame]
          elapsed   \* since the animation started, in frames

paintVars == <<fed, input, worker, painter, onscreen, elapsed>>

PainterAssumption ==
  /\ Surfaces \subseteq SUBSET Skins /\ RasterRoom \in Nat \ {0} /\ SkinRoom \in Nat
  /\ Frames \in Nat \ {0} /\ Plays \in Nat \ {0}

\* A scene: its surfaces, the skins whose bytes are with it, an animated picture or not.
Hydrated(scene, have) == [scene EXCEPT !.filled = have \cap UNION scene.surfaces]
Stripped(scene) == [scene EXCEPT !.filled = {}]

Ending == Frames * Plays
Index(t) == IF t >= Ending THEN Frames - 1 ELSE t % Frames
Animating(p) == p.picture # 0 /\ Frames > 1 /\ elapsed < Ending
AnimationDue == painter.picture # 0 /\ painter.picture # Index(elapsed) + 1

-----------------------------------------------------------------------------
(* The frontend. *)
Give(scene) == input' = scene

\* A scene is taken; bytes that are still on their way are not with it.
NewScene ==
  /\ fed.count < MaxScenesPainted
  /\ \E S \in SUBSET Surfaces, picture \in BOOLEAN :
       LET scene == Hydrated([surfaces |-> S, picture |-> picture, filled |-> {}], fed.have)
       IN  /\ S # {} /\ (fed.scene # NoScene => S # fed.scene.surfaces \/ picture # fed.scene.picture)
           /\ fed' = [fed EXCEPT !.scene = scene, !.count = @ + 1]
           /\ Give(scene)
  /\ UNCHANGED <<worker, painter, onscreen, elapsed>>

\* Bytes come and are kept while there is room, as the session that sends them sees to; the
\* scene at hand is painted again if they are for it.
\* (mutant) one more is kept
AcceptsMore == Cardinality(fed.have) <= SkinRoom
Accepts == Cardinality(fed.have) < SkinRoom
Asset ==
  /\ \E k \in Skins \ fed.have :
       /\ Accepts
       /\ LET have == fed.have \cup {k}
              late == fed.scene # NoScene /\ k \in UNION fed.scene.surfaces
              scene == IF late THEN Hydrated(fed.scene, have) ELSE fed.scene
          IN  /\ fed' = [fed EXCEPT !.have = have, !.scene = scene]
              /\ IF late THEN Give(scene) ELSE UNCHANGED input
  /\ UNCHANGED <<worker, painter, onscreen, elapsed>>

\* The session is another one: the frontend forgets, its painter does not.
Restart ==
  /\ fed.sessions < MaxSessions
  /\ fed' = [fed EXCEPT !.have = {}, !.scene = NoScene, !.sessions = @ + 1]
  /\ UNCHANGED <<input, worker, painter, onscreen, elapsed>>

-----------------------------------------------------------------------------
(* The worker. *)
Take ==
  /\ worker.pc = "wait" /\ input # NoScene
  /\ worker' = [worker EXCEPT !.pc = "paint", !.scene = input]
  /\ input' = NoScene
  /\ UNCHANGED <<fed, painter, onscreen, elapsed>>

\* Woken within 20 ms, as long as something was moving when it went to sleep.
Wake ==
  /\ worker.pc = "wait" /\ input = NoScene /\ worker.poll /\ worker.previous # NoScene
  /\ AnimationDue
  /\ worker' = [worker EXCEPT !.pc = "paint", !.scene = worker.previous]
  /\ UNCHANGED <<fed, input, painter, onscreen, elapsed>>

\* One surface: its raster if there is one of the very same surface, else its skins are
\* taken in and those that are there are drawn.
\* (mutant) a raster is found by what is drawn, with whatever bytes it was drawn
KeyOfName(s, scene) == [surface |-> s]
Key(s, scene) == [surface |-> s, filled |-> scene.filled \cap s]
RasterAt(p, key) == SelectInSeq(p.rasters, LAMBDA r : r.key = key)
Drawn(p, s, scene) ==
  LET at == RasterAt(p, Key(s, scene))
      skins == p.skins \cup (scene.filled \cap s)
  IN  IF at > 0
      THEN [skins |-> p.skins, picture |-> p.picture, out |-> p.rasters[at].drawn,
            rasters |-> Append(RemoveAt(p.rasters, at), p.rasters[at])]
      ELSE [skins |-> skins, picture |-> p.picture, out |-> s \cap skins,
            rasters |-> Append(IF Len(p.rasters) < RasterRoom THEN p.rasters ELSE Tail(p.rasters),
                               [key |-> Key(s, scene), drawn |-> s \cap skins])]
\* A whole scene, surface by surface, then the picture at the frame of the moment.
RECURSIVE Layers(_, _, _, _)
Layers(p, order, scene, out) ==
  IF order = <<>> THEN [p |-> p, out |-> out]
  ELSE LET next == Drawn(p, Head(order), scene)
       IN  Layers([skins |-> next.skins, rasters |-> next.rasters, picture |-> p.picture],
                  Tail(order), scene, Append(out, next.out))
Failed(p) == Cardinality(p.skins) > SkinRoom
Order(scene) == SetToSortSeq(scene.surfaces, LAMBDA a, b : Cardinality(a) < Cardinality(b))
Paint ==
  /\ worker.pc = "paint"
  /\ LET scene == worker.scene
         done == Layers(painter, Order(scene), scene, <<>>)
         starts == scene.picture /\ painter.picture = 0
         frame == IF ~scene.picture THEN 0 ELSE IF starts THEN 1 ELSE Index(elapsed) + 1
     IN  IF Failed(done.p)
         THEN worker' = [worker EXCEPT !.pc = "failed"] /\ UNCHANGED <<painter, onscreen, elapsed>>
         ELSE /\ painter' = [done.p EXCEPT !.picture = frame]
              /\ elapsed' = IF starts THEN 0 ELSE elapsed
              /\ onscreen' = [surfaces |-> Order(scene), out |-> done.out, filled |-> scene.filled,
                              skins |-> done.p.skins]
              /\ worker' = [worker EXCEPT !.pc = "send"]
  /\ UNCHANGED <<fed, input>>

\* The frame is sent, the scene kept without its bytes, and the next sleep is measured.
\* (mutant) only a picture that has just begun moves
PollsAtFirst == Animating(painter) /\ painter.picture = 1
Polls == Animating(painter)
Send ==
  /\ worker.pc = "send"
  /\ worker' = [pc |-> "wait", scene |-> NoScene, previous |-> Stripped(worker.scene), poll |-> Polls]
  /\ UNCHANGED <<fed, input, painter, onscreen, elapsed>>

Tick == /\ elapsed < Ending /\ painter.picture # 0 /\ elapsed' = elapsed + 1
        /\ UNCHANGED <<fed, input, worker, painter, onscreen>>

PainterInit ==
  /\ fed = [have |-> {}, scene |-> NoScene, sessions |-> 0, count |-> 0]
  /\ input = NoScene /\ elapsed = 0
  /\ worker = [pc |-> "wait", scene |-> NoScene, previous |-> NoScene, poll |-> FALSE]
  /\ painter = [skins |-> {}, rasters |-> <<>>, picture |-> 0]
  /\ onscreen = [surfaces |-> <<>>, out |-> <<>>, filled |-> {}, skins |-> {}]
PainterNext == NewScene \/ Asset \/ Restart \/ Take \/ Wake \/ Paint \/ Send \/ Tick
PainterSpec == PainterInit /\ [][PainterNext]_paintVars

-----------------------------------------------------------------------------
(* Properties. *)
\* A surface painted from a scene that has all its bytes shows all its skins, whatever
\* rasters of it were made before they came.
ArtworkWhole ==
  \A n \in DOMAIN onscreen.surfaces :
    onscreen.surfaces[n] \subseteq onscreen.filled => onscreen.out[n] = onscreen.surfaces[n]
\* No more is kept than there is room for, and the painter refuses nothing that the frontend
\* accepts ("anticipates the native painter's retained storage", assets.rs:139) as long as the
\* session is the first.
PainterHolds ==
  /\ Len(painter.rasters) <= RasterRoom
  /\ \A m, n \in DOMAIN painter.rasters : m # n => painter.rasters[m].key # painter.rasters[n].key
  /\ worker.pc = "failed" => fed.sessions > 0
\* A worker that sleeps without a clock leaves no animation that is still to move.
NoneStuck ==
  (worker.pc = "wait" /\ ~worker.poll /\ painter.picture # 0) => elapsed >= Ending

\* docs/graphical/skin-system.md:77: "... scenes waiting for a late asset, so discarding
\* an obsolete scene does not lose artwork": what the painter has is drawn.
ArtworkStays == \A n \in DOMAIN onscreen.surfaces :
                  onscreen.out[n] = onscreen.surfaces[n] \cap onscreen.skins
\* The same in every session.  The painter keeps the skins of the sessions before, which the
\* frontend has forgotten, and refuses what does not fit beside them: its worker ends.
NoneRefused == worker.pc # "failed"
\* An animation that has ended shows its last frame.
LastFrameShown ==
  (worker.pc = "wait" /\ ~worker.poll /\ painter.picture # 0) => painter.picture = Frames
=============================================================================
