------------------------------ MODULE ScrollBar ------------------------------
(* The arithmetic of a scrollbar (chrome/scrollbar.rs).  A bar b has its track, in cells or *)
(* pixels, the rows of the content, of the viewport and above it, and the least length of a *)
(* thumb.                                                                                   *)
EXTENDS Integers, FiniteSetsExt

Scrolls(b) == b.track > 0 /\ b.total > b.rows
\* The length of the thumb, the track it moves over, and the rows that stands for.
Geometry(b) ==
  LET shortest == Min({b.least, b.track})
      longest == Max({b.track \div 4, shortest})
      len == Min({longest, Max({shortest, (b.track * b.rows) \div b.total})})
  IN [len |-> len, room |-> b.track - len, over |-> b.total - b.rows]

\* (mutant) a position between two rows of the track is cut off
ThumbTruncated(b) ==
  LET g == Geometry(b)
  IN [start |-> (Min({b.above, g.over}) * g.room) \div g.over, len |-> g.len]
Start(b, g) == (Min({b.above, g.over}) * g.room + g.over \div 2) \div g.over
ThumbIn(b, g) == [start |-> Min({Start(b, g), g.room}), len |-> g.len]
Thumb(b) == ThumbIn(b, Geometry(b))

AboveFor(start, g) == IF g.room = 0 THEN 0 ELSE (start * g.over + g.room \div 2) \div g.room
StartFor(g, grip, y) == Max({0, Min({g.room, y - grip})})

DragIn(g, grab, y) == AboveFor(StartFor(g, grab.grip, y), g)
DragTo(grab, y) == IF ~Scrolls(grab.bar) THEN 0 ELSE DragIn(Geometry(grab.bar), grab, y)
\* A press on the track: on the thumb it stays, beside it its middle comes to the pointer.
GrabbedOn(b, y, t, on) ==
  LET grab == [bar |-> [b EXCEPT !.above = 0], grip |-> IF on THEN y - t.start ELSE t.len \div 2]
  IN [grab |-> grab, above |-> IF on THEN b.above ELSE DragTo(grab, y)]
GrabbedBy(b, y, t) == GrabbedOn(b, y, t, t.start <= y /\ y < t.start + t.len)
Grabbed(b, y) == GrabbedBy(b, y, Thumb(b))
=============================================================================
