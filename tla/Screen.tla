------------------------------- MODULE Screen -------------------------------
(* What the frontend puts on a terminal that shows images: KittyPresenter for the scene, *)
(* VideoPresenter for a movie below it, the layer of a live canvas, and the loop that    *)
(* drives them.  The terminal reads what is written in order, shows nothing between      *)
(* "sync" and "end", and may lose an image.                                              *)
(*                                                                                       *)
(* A scene is its text and what its pane holds; it is drawn as two images, "chrome" and  *)
(* "pane", of which a transparent one is not sent.  The code counts image numbers up     *)
(* from a start of each owner; here an owner takes its smallest numbers that nobody      *)
(* mentions, so that a loop that repairs for ever stays finite.  Left out: pixels per    *)
(* cell and where a movie lies within the pane, tiles within the two images, inline      *)
(* transfer of canvases, a broken connection.                                            *)
EXTENDS Naturals, FiniteSets, SequencesExt

CONSTANTS Texts, Heavy, None, WireCap, FileCap,
          MaxScenes, MaxFrames, MaxResizes, MaxToggles, MaxKeys, MaxEvents, MaxLosses

ScreenAssumption ==
  /\ Heavy \subseteq Texts /\ None \notin Texts
  /\ {WireCap, FileCap} \subseteq Nat \ {0}
  /\ {MaxScenes, MaxFrames, MaxResizes, MaxToggles, MaxKeys, MaxEvents, MaxLosses} \subseteq Nat

VARIABLES tty,      \* what the terminal shows
          wire,     \* what it has not read
          regions,  \* KittyPresenter
          movie,    \* VideoPresenter
          layer,    \* the canvas's Layer
          paint,    \* the renderer's thread
          fe,       \* the loop
          done      \* how often each kind of event has happened
screenVars == <<tty, wire, regions, movie, layer, paint, fe, done>>

Places == {"chrome", "pane"}
Clear == "clear"

(* The terminal *)

Cmd(do, id, at, what) == [do |-> do, id |-> id, at |-> at, what |-> what]
Mark(do) == Cmd(do, None, None, None)
Deletes(ids) == [n \in DOMAIN ids |-> Cmd("delete", ids[n], None, None)]
Show(id, at, what) == <<Cmd("load", id, at, what), Cmd("place", id, at, what)>>
Present(ids) == SelectSeq(ids, LAMBDA i : i # None)

Without(images, id) == {i \in images : i.id # id}
\* The images of the scene over a place.
Over(images, place) == {i \in images : i.placed /\ i.at \in {place, "all"}}

\* What a command does to the images.  Loading a number again takes what it was.
After(images, c) ==
  CASE c.do = "load" -> Without(images, c.id) \cup
                          {[id |-> c.id, at |-> c.at, what |-> c.what, placed |-> FALSE]}
    [] c.do = "place" -> {IF i.id = c.id THEN [i EXCEPT !.placed = TRUE] ELSE i : i \in images}
    [] c.do = "delete" -> Without(images, c.id)
    [] c.do = "erase" -> {}
    [] OTHER -> images

\* The next command, or all from "sync" to "end".  Lit: the chrome is shown, and nobody has
\* asked to take it away.  "retire" is a mark of the model before a clear; "gone" names a
\* file that was removed before it was read.
Obey ==
  /\ wire # <<>>
  /\ LET ends == {n \in DOMAIN wire : wire[n].do = "end"}
         last == IF Head(wire).do = "sync" THEN CHOOSE n \in ends : \A m \in ends : n <= m ELSE 1
         read == SubSeq(wire, 1, last)
         images == FoldLeft(After, tty.images, read)
     IN /\ tty' = [images |-> images,
                   lit |-> Head(wire).do \notin {"erase", "retire"}
                           /\ (tty.lit \/ Over(images, "chrome") # {})]
        /\ wire' = SubSeq(wire, last + 1, Len(wire))
  /\ UNCHANGED <<regions, movie, layer, paint, fe, done>>

Settled == wire = <<>>
\* An idle terminal makes room.
Lose ==
  /\ done.losses < MaxLosses /\ Settled
  /\ \E i \in tty.images : tty' = [tty EXCEPT !.images = @ \ {i}, !.lit = FALSE]
  /\ done' = [done EXCEPT !.losses = @ + 1]
  /\ UNCHANGED <<wire, regions, movie, layer, paint, fe>>

(* Numbers of images *)

HeldIds == {regions.held[p] : p \in Places} \cup {regions.whole, movie.image, movie.back, layer.image}
Mentioned == HeldIds \cup {i.id : i \in tty.images} \cup {wire[n].id : n \in DOMAIN wire}
\* The kth number that the owner may take next.
Fresh(owner, k) ==
  LET unused == {n \in 1 .. Cardinality(Mentioned) + k : <<owner, n>> \notin Mentioned}
  IN <<owner, CHOOSE n \in unused : Cardinality({m \in unused : m <= n}) = k>>

(* KittyPresenter.  Each operator of a presenter returns what it writes and becomes. *)

Result(out, to) == [out |-> out, to |-> to]
NoRegions == [p \in Places |-> None]
Ids(held) == Present(<<held["chrome"], held["pane"]>>)
Retired(r) == Present(<<r.whole>>) \o Ids(r.held)
\* The old images are deleted before the new ones are shown.  (mutant)
SwapInTwoSteps(loads, retired) ==
  [n \in DOMAIN loads |-> [loads[n] EXCEPT !.do = "load"]] \o Deletes(retired) \o <<Mark("sync")>>
    \o [n \in DOMAIN loads |-> [loads[n] EXCEPT !.do = "place"]] \o <<Mark("end")>>
\* Images are sent, and in one step shown and the old ones deleted.
Swap(loads, retired) ==
  [n \in DOMAIN loads |-> [loads[n] EXCEPT !.do = "load"]] \o <<Mark("sync")>>
    \o [n \in DOMAIN loads |-> [loads[n] EXCEPT !.do = "place"]] \o Deletes(retired) \o <<Mark("end")>>

PresentWhole(r, picture) ==
  LET id == Fresh("scene", 1)
  IN IF r.whole # None /\ r.what = picture THEN Result(<<>>, r)
     ELSE Result(Swap(<<Cmd("load", id, "all", picture)>>, Retired(r)),
                 [held |-> NoRegions, whole |-> id, what |-> picture, gen |-> None, due |-> FALSE])

\* The places that changed since what the terminal was sent, or all of them.
PresentPixels(r, picture, gen) ==
  LET same == r.gen = gen
      changed == {p \in Places : ~same \/ picture[p] # r.what[p]}
      sent == SelectSeq(<<"chrome", "pane">>, LAMBDA p : p \in changed /\ picture[p] # Clear)
      Id(n) == Fresh("scene", n)
      retired == IF same THEN Ids([p \in Places |-> IF p \in changed THEN r.held[p] ELSE None])
                 ELSE Retired(r)
      held == [p \in Places |->
                 IF p \notin changed THEN r.held[p]
                 ELSE IF picture[p] = Clear THEN None
                 ELSE Id(CHOOSE n \in DOMAIN sent : sent[n] = p)]
  IN IF picture["chrome"] \in Heavy THEN PresentWhole(r, picture)
     ELSE Result(IF changed = {} THEN <<>>
                 ELSE Swap([n \in DOMAIN sent |-> Cmd("load", Id(n), sent[n], picture[sent[n]])], retired),
                 [held |-> held, whole |-> None, what |-> picture, gen |-> gen, due |-> same /\ r.due])

\* The image of a whole scene is left.  (mutant)
ClearPlaces(r) ==
  Result(<<Mark("retire")>> \o Deletes(Ids(r.held)), [r EXCEPT !.held = NoRegions, !.whole = None, !.gen = None])
ClearRegions(r) ==
  Result(IF Retired(r) = <<>> THEN <<>>
         ELSE <<Mark("retire"), Mark("sync")>> \o Deletes(Retired(r)) \o <<Mark("end")>>,
         [r EXCEPT !.held = NoRegions, !.whole = None, !.gen = None])

\* Everything again from what is kept.
Repaint(r) ==
  LET kept == SelectSeq(<<"chrome", "pane">>, LAMBDA p : r.held[p] # None)
      Load(n) == Cmd("load", Fresh("scene", n), kept[n], r.what[kept[n]])
  IN IF r.gen # None
     THEN Result(IF kept = <<>> THEN <<>> ELSE Swap([n \in DOMAIN kept |-> Load(n)], Ids(r.held)),
                 [r EXCEPT !.due = FALSE,
                           !.held = [p \in Places |->
                                       IF @[p] = None THEN None
                                       ELSE Fresh("scene", CHOOSE n \in DOMAIN kept : kept[n] = p)]])
     ELSE IF r.whole # None THEN PresentWhole([r EXCEPT !.what = None], r.what)
     ELSE Result(<<>>, r)
\* What is due is forgotten.  (mutant)
MaintainNothing(r) == Result(<<>>, [r EXCEPT !.due = FALSE])
Maintain(r) == IF r.due THEN LET again == Repaint(r) IN Result(again.out, [again.to EXCEPT !.due = FALSE])
               ELSE Result(<<>>, r)

(* VideoPresenter: a background and, above it, the newest frame from a file. *)

ClearMovie(m) ==
  Result(Deletes(Present(<<m.image, m.back>>)),
         [m EXCEPT !.image = None, !.back = None, !.sign = None, !.fresh = FALSE])
Unread(owner) == Cardinality({n \in DOMAIN wire : wire[n].do = "load" /\ wire[n].at = owner})

PresentMovie(m, pane, gen, out) ==
  LET sameBack == m.fresh /\ m.back # None
      full == m.local /\ Unread("movie") >= FileCap
      back == IF sameBack THEN m.back ELSE Fresh("movie", 1)
      image == Fresh("movie", IF sameBack THEN 1 ELSE 2)
  IN IF m.frame = None THEN Result(out, m)
     ELSE IF pane # "movie"
     THEN Result(out \o ClearMovie(m).out, ClearMovie(m).to)
     ELSE IF sameBack /\ m.sign = <<gen, m.frame>> THEN Result(out, m)
     ELSE IF full /\ m.stalled # "long" THEN Result(out, [m EXCEPT !.stalled = "short"])
     ELSE Result(out \o (IF sameBack THEN <<>>
                         ELSE Deletes(Present(<<m.back>>)) \o Show(back, "back", "back"))
                     \o <<Mark("sync")>> \o Show(image, "movie", m.frame)
                     \o Deletes(Present(<<m.image>>)) \o <<Mark("end")>>,
                 [m EXCEPT !.image = image, !.back = back, !.sign = <<gen, m.frame>>, !.fresh = TRUE,
                           !.local = @ /\ ~full, !.stalled = IF full THEN @ ELSE "no"])
\* The switch to cells and back puts the movie on another level.
SetCellMode(m, cells) ==
  IF m.cells = cells THEN Result(<<>>, m)
  ELSE Result(ClearMovie(m).out, [ClearMovie(m).to EXCEPT !.cells = cells])

\* Files that are removed when the movie gives up on them.
Forsaken(before, after) ==
  IF before.local /\ ~after.local
  THEN [n \in DOMAIN wire |-> IF wire[n].do = "load" /\ wire[n].at = "movie"
                              THEN [wire[n] EXCEPT !.do = "gone"] ELSE wire[n]]
  ELSE wire

(* The canvas's layer *)

HideLayer(l) == Result(Deletes(Present(<<l.image>>)), [l EXCEPT !.image = None, !.dirty = TRUE])
PresentLayer(l, pane) ==
  LET image == Fresh("canvas", 1)
  IN IF pane # "canvas" THEN IF l.live THEN HideLayer(l) ELSE Result(<<>>, l)
     ELSE IF ~l.live \/ (~l.dirty /\ l.fresh) \/ Unread("canvas") >= FileCap THEN Result(<<>>, l)
     ELSE Result(<<Mark("sync")>> \o Show(image, "canvas", l.what)
                   \o Deletes(Present(<<l.image>>)) \o <<Mark("end")>>,
                 [l EXCEPT !.image = image, !.dirty = FALSE, !.fresh = TRUE])

(* The renderer's thread, which keeps the newest scene and the newest picture *)

\* A canvas that has a layer is left transparent.
Ask(scene, live, pixels, old) ==
  LET work == [gen |-> fe.gen, scene |-> scene, hole |-> live /\ scene.pane = "canvas"]
  IN IF scene = None THEN old
     ELSE IF pixels THEN [old EXCEPT !.asked = work] ELSE [old EXCEPT !.drawn = work]
Idle == [asked |-> None, drawn |-> None]
Draw ==
  /\ paint.asked # None
  /\ paint' = [asked |-> None, drawn |-> paint.asked]
  /\ UNCHANGED <<tty, wire, regions, movie, layer, fe, done>>

(* The loop: events of the terminal and what has arrived, a picture, upkeep *)

Phase(p) == fe.phase = p /\ Len(wire) < WireCap
Write(out) == wire' = wire \o out
Count(kind, max) ==
  /\ done[kind] < max /\ done.scenes + done.frames + done.resizes + done.toggles + done.keys < MaxEvents
  /\ done' = [done EXCEPT ![kind] = @ + 1]

SceneArrives ==
  /\ Phase("input") /\ Count("scenes", MaxScenes)
  /\ \E text \in Texts, pane \in {"plain", "movie", "canvas"} :
       LET scene == [text |-> text, pane |-> pane]
           ended == movie.frame # None /\ pane # "movie"
           cleared == ClearMovie(movie)
       IN /\ movie' = IF ended THEN [cleared.to EXCEPT !.frame = None] ELSE movie
          /\ Write(IF ended THEN cleared.out ELSE <<>>)
          /\ paint' = Ask(scene, layer.live, fe.pixels, paint)
          /\ fe' = [fe EXCEPT !.scene = scene]
  /\ UNCHANGED <<tty, regions, layer>>

\* The scene is drawn again with a hole for the first frame of a canvas.
CanvasFrame ==
  /\ Phase("input") /\ Count("frames", MaxFrames)
  /\ layer' = [layer EXCEPT !.live = TRUE, !.what = done.frames, !.dirty = TRUE]
  /\ paint' = IF layer.live THEN paint ELSE Ask(fe.scene, TRUE, fe.pixels, paint)
  /\ UNCHANGED <<tty, wire, regions, movie, fe>>
\* The scene keeps its hole.  (mutant)
CanvasCloseQuietly ==
  /\ Phase("input") /\ layer.live
  /\ Write(HideLayer(layer).out)
  /\ layer' = [HideLayer(layer).to EXCEPT !.live = FALSE]
  /\ UNCHANGED <<tty, regions, movie, paint, fe, done>>
CanvasClose ==
  /\ Phase("input") /\ layer.live
  /\ Write(HideLayer(layer).out)
  /\ layer' = [HideLayer(layer).to EXCEPT !.live = FALSE]
  /\ paint' = Ask(fe.scene, FALSE, fe.pixels, paint)
  /\ UNCHANGED <<tty, regions, movie, fe, done>>

MovieFrame ==
  /\ Phase("input") /\ Count("frames", MaxFrames)
  /\ LET framed == [movie EXCEPT !.frame = done.frames]
         mode == SetCellMode(framed, ~fe.pixels)
         result == PresentMovie(mode.to, fe.picture.pane, fe.gen, mode.out)
     IN IF fe.picture = None THEN movie' = framed /\ UNCHANGED wire
        ELSE movie' = result.to /\ wire' = Forsaken(movie, result.to) \o result.out
  /\ UNCHANGED <<tty, regions, layer, paint, fe>>

\* Everything of the scene goes; the canvas's image goes with the rest of the screen.
Toggle ==
  /\ Phase("input") /\ Count("toggles", MaxToggles)
  /\ LET r == ClearRegions(regions)
         m == ClearMovie(movie)
     IN /\ regions' = r.to /\ movie' = m.to
        /\ Write(r.out \o m.out \o <<Mark("erase")>>)
  /\ paint' = Idle
  /\ fe' = [fe EXCEPT !.pixels = ~@, !.gen = @ + 1, !.scene = None, !.picture = None]
  /\ UNCHANGED <<tty, layer>>

Received ==
  /\ fe.phase = "input" /\ fe' = [fe EXCEPT !.phase = "picture"]
  /\ UNCHANGED <<tty, wire, regions, movie, layer, paint, done>>

\* The movie's part of the scene is transparent.
Masked(work) ==
  [p \in Places |-> IF p = "pane" /\ (work.hole \/ (movie.frame # None /\ work.scene.pane = "movie"))
                    THEN Clear ELSE work.scene.text]

TakePicture ==
  /\ Phase("picture")
  /\ LET work == paint.drawn
         first == fe.pixels /\ fe.picture = None
         cleared == IF first THEN ClearMovie(movie) ELSE Result(<<>>, movie)
         r == IF fe.pixels THEN PresentPixels(regions, Masked(work), work.gen) ELSE Result(<<>>, regions)
         mode == SetCellMode(cleared.to, ~fe.pixels)
         m == PresentMovie(mode.to, work.scene.pane, fe.gen, mode.out)
     IN IF work = None \/ work.gen # fe.gen
        THEN /\ fe' = [fe EXCEPT !.phase = "upkeep"] /\ UNCHANGED <<wire, regions, movie, layer>>
        ELSE /\ regions' = r.to /\ movie' = m.to
             /\ layer' = IF first THEN [layer EXCEPT !.dirty = TRUE] ELSE layer
             /\ wire' = Forsaken(movie, m.to) \o cleared.out
                          \o (IF first THEN <<Mark("erase")>> ELSE <<>>) \o r.out \o m.out
             /\ fe' = [fe EXCEPT !.phase = "upkeep", !.picture = work.scene]
  /\ paint' = [paint EXCEPT !.drawn = None]
  /\ UNCHANGED <<tty, done>>

Upkeep ==
  /\ Phase("upkeep")
  /\ LET r == Maintain(regions)
         l == PresentLayer(layer, fe.picture.pane)
         m == PresentMovie(movie, fe.picture.pane, fe.gen, <<>>)
     IN IF ~fe.pixels \/ fe.picture = None THEN UNCHANGED <<wire, regions, movie, layer>>
        ELSE /\ regions' = r.to /\ layer' = l.to /\ movie' = m.to
             /\ wire' = Forsaken(movie, m.to) \o r.out \o l.out \o m.out
  /\ fe' = [fe EXCEPT !.phase = "input"]
  /\ UNCHANGED <<tty, paint, done>>

Resize ==
  /\ Phase("input") /\ Count("resizes", MaxResizes)
  /\ LET r == ClearRegions(regions)
         m == ClearMovie(movie)
         l == IF layer.live THEN HideLayer(layer) ELSE Result(<<>>, layer)
     IN /\ regions' = r.to /\ movie' = m.to /\ layer' = l.to
        /\ Write(r.out \o m.out \o l.out)
  /\ fe' = [fe EXCEPT !.phase = "input", !.gen = @ + 1, !.scene = None, !.picture = None]
  /\ UNCHANGED <<tty, paint>>

\* The focus, or Control-L, which also draws the scene again.
Refresh ==
  /\ Phase("input") /\ Count("keys", MaxKeys)
  /\ \E key \in BOOLEAN :
       LET r == IF fe.pixels THEN Repaint(regions) ELSE Result(<<>>, regions)
           erased == key /\ ~fe.pixels
       IN /\ regions' = r.to
          /\ Write(IF erased THEN <<Mark("erase")>> ELSE r.out)
          /\ paint' = IF key THEN Ask(fe.scene, layer.live, fe.pixels,
                                      IF erased THEN Idle ELSE paint)
                      ELSE paint
  /\ movie' = [movie EXCEPT !.fresh = FALSE]
  /\ layer' = [layer EXCEPT !.dirty = TRUE]
  /\ UNCHANGED <<tty, fe>>

\* Two seconds, in which a terminal that reads has read everything.
Age ==
  /\ wire = <<>> \/ movie.stalled = "short"
  /\ regions' = [regions EXCEPT !.due = TRUE]
  /\ movie' = [movie EXCEPT !.fresh = FALSE, !.stalled = IF @ = "short" THEN "long" ELSE @]
  /\ layer' = [layer EXCEPT !.fresh = FALSE]
  /\ UNCHANGED <<tty, wire, paint, fe, done>>

ScreenInit ==
  /\ tty = [images |-> {}, lit |-> FALSE]
  /\ wire = <<>>
  /\ regions = [held |-> NoRegions, whole |-> None, what |-> None, gen |-> None, due |-> FALSE]
  /\ movie = [frame |-> None, image |-> None, back |-> None, sign |-> None, fresh |-> FALSE,
              local |-> TRUE, stalled |-> "no", cells |-> FALSE]
  /\ layer = [live |-> FALSE, what |-> None, image |-> None, dirty |-> FALSE, fresh |-> FALSE]
  /\ paint = Idle
  /\ fe = [phase |-> "input", gen |-> 0, pixels |-> TRUE, scene |-> None, picture |-> None]
  /\ done = [scenes |-> 0, frames |-> 0, resizes |-> 0, toggles |-> 0, keys |-> 0, losses |-> 0]

Loop == Received \/ TakePicture \/ Upkeep
ScreenNext ==
  \/ Obey \/ Lose \/ Draw \/ Age \/ Loop
  \/ SceneArrives \/ CanvasFrame \/ CanvasClose \/ MovieFrame \/ Toggle \/ Resize \/ Refresh

(* Properties *)

\* Once the terminal has read everything it holds no image that its owner has forgotten.
NoneForgotten == Settled => {i.id : i \in tty.images} \subseteq HeldIds

\* "A stable placement is replaced atomically": between two pictures the chrome is never
\* uncovered, and no place shows two images of one owner.
ReplacedAtOnce ==
  /\ tty.lit => Over(tty.images, "chrome") # {}
  /\ \A p \in Places : Cardinality(Over(tty.images, p)) <= 1
  /\ \A own \in {"movie", "back", "canvas"} :
       Cardinality({i \in tty.images : i.placed /\ i.at = own}) <= 1

\* A canvas with a layer has a hole in the scene above it, and one without has none.
HoleFollowsLayer ==
  fe.pixels /\ fe.picture # None /\ fe.picture.pane = "canvas" /\ fe.scene = fe.picture /\ paint = Idle
    => (regions.what["pane"] = Clear <=> layer.live)

\* A movie is not below an opaque pane.  The code does not see to it: a first frame that
\* comes after the scene is seen when the scene is drawn again.
MovieSeen ==
  fe.pixels /\ fe.picture # None /\ fe.picture.pane = "movie" /\ paint = Idle /\ movie.frame # None
    => regions.what["pane"] = Clear

Shows(at, what) == \E i \in tty.images : i.placed /\ i.at = at /\ i.what = what
\* All that the loop means to show is there.
Complete ==
  fe.pixels /\ fe.picture # None =>
    /\ IF regions.whole # None THEN Shows("all", regions.what)
       ELSE \A p \in Places : IF regions.what[p] = Clear THEN Over(tty.images, p) = {}
                              ELSE Shows(p, regions.what[p])
    /\ fe.picture.pane = "movie" /\ movie.frame # None => Shows("movie", movie.frame)
    /\ fe.picture.pane # "movie" => ~\E i \in tty.images : i.at \in {"movie", "back"}
    /\ IF fe.picture.pane = "canvas" /\ layer.live THEN Shows("canvas", layer.what)
       ELSE ~\E i \in tty.images : i.at = "canvas"
\* Whatever the terminal loses, when nothing more happens it shows everything again.
Repaired == []<>Settled /\ <>[](Settled => Complete)
=============================================================================
