------------------------------ MODULE Scrolling ------------------------------
(* A list whose items have different heights (vlist.rs), scrolled by rows, by the place of *)
(* an item and by the bar beside it (chrome/scrollbar.rs), while items arrive at both ends, *)
(* are wrapped anew and the viewport changes.  The position is an anchor: stuck to the end, *)
(* or a row of an item at the top.  A position that a press or a drag of the bar returns is *)
(* applied as index_at says a caller does; a bar is recorded when it is drawn, a grab keeps *)
(* the bar it began on.  A track may be denser than the rows: Scales has the units of a row *)
(* and the least length of a thumb.  Left out: several bars of one application, columns.    *)
EXTENDS ScrollBar, Sequences, SequencesExt, FiniteSetsExt

CONSTANTS NoBar,
          ItemHeights, Views,    \* rows of an item, rows of the viewport
          Wheels,                \* rows that one scroll moves
          Scales,                \* [unit, least] of the track
          MaxItems, MaxTrims

ScrollingAssumption ==
  /\ ItemHeights \subseteq Nat /\ Views \subseteq Nat \ {0} /\ Wheels \subseteq Int \ {0}
  /\ Scales \subseteq [unit : Nat \ {0}, least : Nat \ {0}]
  /\ MaxItems \in Nat /\ MaxTrims \in Nat

VARIABLES items,    \* the heights of the list's items
          list,     \* VirtualList
          view,     \* rows of the viewport
          drawn,    \* the bar as it was last drawn, or NoBar
          held,     \* the grab: a bar and how far below the thumb's top it is held, or NoBar
          trims
scrollVars == <<items, list, view, drawn, held, trims>>

Rows(s) == FoldLeft(+, 0, s)
Before(i) == Rows(SubSeq(items, 1, i - 1))
Total == Rows(items)
Floor0(n) == IF n < 0 THEN 0 ELSE n

(* The list.  Items count from 1. *)

RECURSIVE FromEnd(_, _)
FromEnd(i, acc) ==
  IF acc + items[i] >= view THEN [at |-> i, offset |-> acc + items[i] - view]
  ELSE IF i = 1 THEN [at |-> 1, offset |-> 0] ELSE FromEnd(i - 1, acc + items[i])

\* The item and its row at the top of the viewport.
Top ==
  IF list.stick THEN FromEnd(Len(items), 0)
  ELSE LET at == Min({list.anchor, Len(items)})
       IN [at |-> at, offset |-> Min({items[at], IF at = list.anchor THEN list.offset ELSE 0})]

\* The items on screen: where, how many rows, and how many rows are cut off above.
RECURSIVE From(_, _, _)
From(i, skip, y) ==
  LET h == Min({Floor0(items[i] - skip), view - y})
  IN IF i > Len(items) \/ y >= view THEN <<>>
     ELSE IF h = 0 THEN From(i + 1, 0, y)
     ELSE <<[item |-> i, y |-> y, height |-> h, skip |-> skip]>> \o From(i + 1, 0, y + h)
Visible == IF items = <<>> THEN <<>> ELSE From(Top.at, Top.offset, 0)

Hit(y) == LET on == {v \in Range(Visible) : v.y <= y /\ y < v.y + v.height}
          IN {<<v.item, y - v.y + v.skip>> : v \in on}

ToEnd(l) == [l EXCEPT !.stick = TRUE, !.offset = 0]
ScrollTo(i) == [anchor |-> i, offset |-> 0, stick |-> FALSE]
At(p) == [anchor |-> p.at, offset |-> p.offset, stick |-> FALSE]

\* (mutant) the rows of the item that is left are not counted
RECURSIVE RowsUpForgetting(_, _)
RowsUpForgetting(p, up) ==
  IF p.offset >= up THEN At([p EXCEPT !.offset = @ - up])
  ELSE IF p.at = 1 THEN At([p EXCEPT !.offset = 0])
  ELSE RowsUpForgetting([at |-> p.at - 1, offset |-> items[p.at - 1]], up)

RECURSIVE RowsUp(_, _)
RowsUp(p, up) ==
  IF p.offset >= up THEN At([p EXCEPT !.offset = @ - up])
  ELSE IF p.at = 1 THEN At([p EXCEPT !.offset = 0])
  ELSE RowsUp([at |-> p.at - 1, offset |-> items[p.at - 1]], up - p.offset)

\* Following the end again when the rest of the list fits.
Rested(p) ==
  IF Floor0(items[p.at] - p.offset) + Rows(SubSeq(items, p.at + 1, Len(items))) <= view
    THEN ToEnd(list) ELSE At(p)
RECURSIVE RowsDown(_, _)
RowsDown(p, down) ==
  LET room == Floor0(items[p.at] - p.offset)
  IN IF down = 0 THEN Rested(p)
     ELSE IF down < room THEN Rested([p EXCEPT !.offset = @ + down])
     ELSE IF p.at = Len(items) THEN ToEnd(list)
     ELSE RowsDown([at |-> p.at + 1, offset |-> 0], down - room)

Scrolled(by) == IF items = <<>> THEN list
                ELSE IF by < 0 THEN RowsUp(Top, -by) ELSE RowsDown(Top, by)

\* (mutant) scroll_to, which loses the row within the item
PrependedAt(n) == IF list.stick THEN list ELSE ScrollTo(list.anchor + n)
Prepended(n) == IF n = 0 \/ list.stick THEN list ELSE [list EXCEPT !.anchor = @ + n]

\* virtual_extent: the rows above the first visible one.
Extent(scale) ==
  LET v == Visible
      above == IF v = <<>> THEN 0 ELSE Before(v[1].item) + v[1].skip
  IN [track |-> view * scale.unit, least |-> scale.least, total |-> Total, rows |-> view,
      above |-> above]
IndexAt(above) ==
  LET below == {i \in DOMAIN items : above < Before(i) + items[i]}
  IN IF below = {} THEN Max({1, Len(items)}) ELSE Min(below)

(* What happens to it *)

ScrollInit ==
  /\ items = <<>> /\ list = [anchor |-> 1, offset |-> 0, stick |-> TRUE]
  /\ view \in Views /\ drawn = NoBar /\ held = NoBar /\ trims = 0

Same == UNCHANGED <<drawn, held, trims>>

AppendItem == /\ Len(items) < MaxItems
              /\ \E h \in ItemHeights : items' = Append(items, h)
              /\ UNCHANGED <<list, view>> /\ Same
PrependItem == /\ Len(items) < MaxItems
               /\ \E h \in ItemHeights : items' = <<h>> \o items
               /\ list' = Prepended(1) /\ UNCHANGED view /\ Same
Rewrap == /\ \E i \in DOMAIN items, h \in ItemHeights : items' = [items EXCEPT ![i] = h]
          /\ UNCHANGED <<list, view>> /\ Same
Trim == /\ Len(items) > 1 /\ trims < MaxTrims
        /\ items' = SubSeq(items, 1, Len(items) - 1) /\ trims' = trims + 1
        /\ UNCHANGED <<list, view, drawn, held>>
Resize == view' \in Views /\ UNCHANGED <<items, list>> /\ Same

Wheel(by) == list' = Scrolled(by) /\ UNCHANGED <<items, view>> /\ Same
Jump == /\ \/ list' = ToEnd(list)
           \/ \E i \in DOMAIN items : list' = ScrollTo(i)
        /\ UNCHANGED <<items, view>> /\ Same

\* (While a bar is held, what is drawn is not looked at; it is drawn again before a press.)
Draw == /\ held = NoBar
        /\ \E scale \in Scales : drawn' = IF items = <<>> THEN NoBar ELSE Extent(scale)
        /\ UNCHANGED <<items, list, view, held, trims>>

\* The caller scrolls to the item at the position it is given.
Apply(above) == list' = IF items = <<>> THEN list ELSE ScrollTo(IndexAt(above))
Press == /\ drawn # NoBar /\ Scrolls(drawn) /\ held = NoBar
         /\ \E y \in 0 .. drawn.track - 1 :
              LET g == Grabbed(drawn, y)
              IN held' = g.grab /\ Apply(g.above)
         /\ drawn' = NoBar /\ UNCHANGED <<items, view, trims>>
Drag == /\ held # NoBar
        /\ \E y \in 0 .. held.bar.track : Apply(DragTo(held, y))
        /\ UNCHANGED <<items, view, drawn, held, trims>>
Release == held # NoBar /\ held' = NoBar /\ UNCHANGED <<items, list, view, drawn, trims>>

ScrollNext == \/ AppendItem \/ PrependItem \/ Rewrap \/ Trim \/ Resize
              \/ (\E by \in Wheels : Wheel(by)) \/ Jump \/ Draw \/ Press \/ Drag \/ Release

ScrollSpec == ScrollInit /\ [][ScrollNext]_scrollVars

(* Properties *)

\* All the rows of the list, and how many are above the viewport.
AllRows ==
  FoldLeft(LAMBDA s, i : s \o [r \in 1 .. items[i] |-> <<i, r - 1>>], <<>>,
           [i \in DOMAIN items |-> i])
Above == IF items = <<>> THEN 0 ELSE Before(Top.at) + Top.offset
End == Floor0(Total - view)

\* The viewport shows the rows of the list from the top one on, each once and in order, to
\* its last line or the last row, and a click finds the row that is drawn there; stuck, the
\* last row is at the bottom.
ShowsItsRows ==
  /\ \A y \in 0 .. view - 1 :
       Hit(y) = IF Above + y < Total THEN {AllRows[Above + y + 1]} ELSE {}
  /\ list.stick => Above = End
  /\ items # <<>> => list.anchor \in 1 .. Len(items) + trims

\* A scroll moves the view by the rows it says, as far as there are any, and follows the
\* end from there; whoever reads does not move when items arrive, and who follows the end
\* stays at it ("a scroll position counted from the top moves under the reader", vlist.rs).
\* An item that is read and taken from the list comes back into view with the next one.
WheelByRows ==
  \A by \in Wheels : Wheel(by) /\ items # <<>> =>
    /\ Above' = IF by < 0 THEN Floor0(Above + by) ELSE Min({Above + by, End})
    /\ by > 0 /\ Above + by >= End => list'.stick
ReaderStays ==
  /\ AppendItem /\ list.anchor <= Len(items) => list'.stick \/ Above' = Above
  /\ PrependItem /\ list.anchor <= Len(items) => list'.stick \/ Above' = Above + items'[1]
ScrollStep == WheelByRows /\ ReaderStays

\* The thumb is on the track, at its ends exactly when the view is at its own; a press
\* beside it brings it to the pointer, where a drag that goes nowhere leaves it; a drag
\* moves the view with the pointer, to both ends.
Covers(t, y) == t.start <= y /\ y < t.start + t.len
ThumbFollows(g, t, track) ==
  /\ g.len \in 1 .. track
  /\ t[0].start = 0 /\ t[g.over].start = g.room
  /\ \A a \in 0 .. g.over - 1 : t[a].start <= t[a + 1].start
PressFollows(g, t, track, y, p, dragged) ==
  /\ g.over >= g.room => Covers(t[p.above], y)
  /\ ~Covers(t[drawn.above], y) => dragged[y] = p.above
  /\ dragged[0] <= dragged[y] /\ dragged[y] <= dragged[track]
  /\ p.grab.grip + g.room <= track
  /\ dragged[track] = (IF g.room = 0 THEN 0 ELSE g.over)
  /\ dragged[0] = 0
ViewFollows(g, t, track) ==
  /\ ThumbFollows(g, t, track)
  /\ \A y \in 0 .. track - 1 : \A p \in {Grabbed(drawn, y)} :
       PressFollows(g, t, track, y, p, [z \in 0 .. track |-> DragTo(p.grab, z)])
BarFollows ==
  drawn # NoBar /\ Scrolls(drawn) =>
    ViewFollows(Geometry(drawn), [a \in 0 .. drawn.total |-> Thumb([drawn EXCEPT !.above = a])],
                drawn.track)
=============================================================================
