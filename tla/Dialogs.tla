------------------------------ MODULE Dialogs ------------------------------
(* The dialogs that search: the command guide (src/help.rs) and the theme picker         *)
(* (src/theme/picker.rs), each drawn as cells or as pixels.  What a query finds is a     *)
(* constant (Scores); where rows are drawn and what a click on a cell means are computed *)
(* apart from each other, as in the code.                                                *)
EXTENDS Integers, Sequences, SequencesExt

CONSTANTS Texts,       \* per entry: [category, title, text], lengths of title and details
          Scores,      \* per query: a score per entry, Nope when it is not found
          Nope,
          Categories,  \* categories of the guide; 0 is all of them
          CellAreas,   \* <<width, height>> of the terminal
          PixelAreas   \* <<width, height>> of the dialog

VARIABLE dialog        \* [guide, query, category, selected, read, limit, native, w, h]

Moves == {-8, -3, -1, 1, 3, 8}
DialogsAssumption ==
  /\ \A q \in DOMAIN Scores : Scores[q] \in Seq(Nat \cup {Nope}) /\ Len(Scores[q]) = Len(Texts)
  /\ Nope \notin Nat

Least(a, b) == IF a < b THEN a ELSE b
Sat(n) == IF n < 0 THEN 0 ELSE n
UpTo(n, most) == Sat(IF n < most THEN n ELSE most)
CeilDiv(n, d) == IF d = 0 THEN n ELSE (n + d - 1) \div d
Cut(n) == (n * 55) \div 100
At(x, y, w, h) == [x |-> x, y |-> y, w |-> w, h |-> h]
In(r, x, y) == x >= r.x /\ x < r.x + r.w /\ y >= r.y /\ y < r.y + r.h

(* What a query finds: the guide ranks by score, the picker keeps its order. *)
Matched(q) == {i \in 1 .. Len(Texts) : Scores[q][i] # Nope}
Before(q, a, b) == Scores[q][a] < Scores[q][b] \/ (Scores[q][a] = Scores[q][b] /\ a < b)
Ranked == [q \in DOMAIN Scores |-> SetToSortSeq(Matched(q), LAMBDA a, b : Before(q, a, b))]
MatchesIn == [q \in DOMAIN Scores, c \in 0 .. Categories |->
                SelectSeq(Ranked[q], LAMBDA i : c = 0 \/ Texts[i].category = c)]
Listed == [q \in DOMAIN Scores |-> SetToSortSeq(Matched(q), <)]
Found == IF dialog.guide THEN MatchesIn[dialog.query, dialog.category] ELSE Listed[dialog.query]
HighlightedOf(d, found) == IF d.selected < Len(found) THEN found[d.selected + 1] ELSE 0
Highlighted == HighlightedOf(dialog, Found)

(* Cells. *)
Overlay(w, h) ==
  LET ow == Least(IF Sat(w - 4) < 40 THEN 40 ELSE Least(Sat(w - 4), 132), w)
      oh == LET wanted == Least(42, Sat(h - 2)) IN Least(IF wanted < 12 THEN 12 ELSE wanted, h)
  IN  At((w - ow) \div 2, (h - oh) \div 2, ow, oh)
Inner(r) == At(r.x + Least(1, r.w), r.y + Least(1, r.h), Sat(r.w - 2), Sat(r.h - 2))
CellList(inner) ==
  LET bh == Sat(inner.h - 3)
  IN  IF inner.w >= 106 THEN At(inner.x, inner.y + 2, Cut(inner.w) - 2, bh)
      ELSE At(inner.x, inner.y + 2, inner.w, Sat(bh - (Least(bh \div 2, 7) + 1)))
CellDetail(inner) ==
  LET bh == Sat(inner.h - 3)
      cut == Cut(inner.w)
      h == Least(bh \div 2, 7)
  IN  IF inner.w >= 106 THEN At(inner.x + cut, inner.y + 2, inner.w - cut, bh)
      ELSE At(inner.x, inner.y + 2 + Sat(bh - h), inner.w, h)
\* The picker is given its own rectangle; the guide takes its part of the terminal.
CellRect == IF dialog.guide THEN Overlay(dialog.w, dialog.h) ELSE At(0, 0, dialog.w, dialog.h)
CellRows == LET inner == Inner(CellRect)
            IN  IF dialog.guide THEN CellList(inner).h ELSE Sat(inner.h - 1)

(* Pixels. *)
NativeTop(w, h) == IF h < 420 THEN IF w >= 960 THEN 82 ELSE 112 ELSE IF w >= 960 THEN 120 ELSE 150
Sidebar(w) == IF w >= 960 THEN 168 ELSE 0
BodyHeight(w, h) == Sat(h - (NativeTop(w, h) + 54))
DetailHeight(w, h) == LET b == BodyHeight(w, h) IN IF b < 160 THEN 0 ELSE Least(b \div 3, 176)
NativeListTall(w, h) ==
  LET rest == Sat(Sat(w - 32) - Sidebar(w))
  IN  IF w >= 640 THEN At(16 + Sidebar(w), NativeTop(w, h), Sat(Cut(rest) - 12), BodyHeight(w, h))
      ELSE At(16, NativeTop(w, h), rest, BodyHeight(w, h))
NativeList(w, h) ==
  LET rest == Sat(Sat(w - 32) - Sidebar(w))
      dh == DetailHeight(w, h)
  IN  IF w >= 640 THEN At(16 + Sidebar(w), NativeTop(w, h), Sat(Cut(rest) - 12), BodyHeight(w, h))
      ELSE At(16, NativeTop(w, h), rest, Sat(BodyHeight(w, h) - IF dh > 0 THEN dh + 12 ELSE 0))
NativeDetail(w, h) ==
  LET rest == Sat(Sat(w - 32) - Sidebar(w))
      lw == Cut(rest)
      dh == DetailHeight(w, h)
  IN  IF w >= 640
      THEN At(16 + Sidebar(w) + lw + 12, NativeTop(w, h), Sat(rest - (lw + 12)), BodyHeight(w, h))
      ELSE At(16, NativeTop(w, h) + Sat(BodyHeight(w, h) - dh), rest, dh)
NativeRows == IF dialog.guide THEN NativeList(dialog.w, dialog.h).h \div 54
              ELSE Sat(dialog.h - 124) \div 48
Rows == IF dialog.native THEN NativeRows ELSE CellRows

\* The first row drawn: the highlighted one is the last when it is past the first screen.
FirstAfter(selected, rows) == Sat(selected - rows)
First(selected, rows) == Sat(selected - Sat(rows - 1))

(* The details of the highlighted command: how many of its lines fit. *)
Lines(width) == IF Highlighted = 0 THEN CeilDiv(100, width) ELSE CeilDiv(Texts[Highlighted].text, width)
TitleRows(detail) ==
  Least(IF Highlighted = 0 THEN 1 ELSE CeilDiv(Texts[Highlighted].title, Sat(detail.w - 24) \div 9),
        IF detail.h < 180 THEN 1 ELSE 2)
NativeFits(detail) == Sat(detail.h - (18 + TitleRows(detail) * 22 + 32)) \div 20
DrawnLimit ==
  IF dialog.native
  THEN LET detail == NativeDetail(dialog.w, dialog.h)
       IN  IF dialog.w < 240 \/ dialog.h < 220 \/ detail.h = 0 THEN dialog.limit
           ELSE Sat(Lines(Sat(detail.w - 24) \div 8) - NativeFits(detail))
  ELSE LET inner == Inner(CellRect)
           detail == CellDetail(inner)
       IN  IF inner.w < 8 \/ inner.h < 5 THEN dialog.limit
           ELSE Sat(Lines(detail.w) - Sat(detail.h - 1))
Offset(d) == Least(d.read, d.limit)

(* What a drawing offers to a click, in the order of the code. *)
Tool(x, y, w, h, action) == [rect |-> At(x, y, w, h), action |-> action]
SearchY(h) == IF h < 420 THEN 36 ELSE 74
CategoryTools(w, h) ==
  IF Sidebar(w) = 0
  THEN LET y == SearchY(h) + 38
       IN  <<Tool(16, y, 58, 26, <<"all">>), Tool(82, y, 30, 26, <<"cycle", -1>>),
             Tool(118, y, Sat(w - 170), 26, <<"cycle", 1>>), Tool(w - 46, y, 30, 26, <<"cycle", 1>>)>>
  ELSE LET rows == BodyHeight(w, h) \div 30
           first == Sat(dialog.category - Sat(rows - 1))
           shown == Least(rows, Sat(Categories + 1 - first))
       IN  [k \in 1 .. shown |->
              Tool(16, NativeTop(w, h) + (k - 1) * 30, 156, 26, <<"category", first + k - 1>>)]
RowTools(list) ==
  LET first == First(dialog.selected, NativeRows)
      shown == Least(NativeRows, Sat(Len(Found) - first))
  IN  [k \in 1 .. shown |->
         Tool(list.x, list.y + (k - 1) * 54, Sat(list.w - 6), 50, <<"select", Found[first + k]>>)]
DetailTools(d) ==
  IF d.h > 0 /\ Lines(Sat(d.w - 24) \div 8) > NativeFits(d)
  THEN <<Tool(d.x + 12, d.y + d.h - 26, 30, 22, <<"detail", -4>>),
         Tool(d.x + 48, d.y + d.h - 26, 30, 22, <<"detail", 4>>)>>
  ELSE <<>>
GuideTools(w, h) ==
  IF w < 240 \/ h < 220 THEN <<>>
  ELSE <<Tool(w - 78, 5, 62, 22, <<"close">>), Tool(w - 100, SearchY(h) + 5, 72, 22, <<"clear">>)>>
       \o CategoryTools(w, h) \o RowTools(NativeList(w, h)) \o DetailTools(NativeDetail(w, h))
ThemeRows(w, h) ==
  LET first == First(dialog.selected, NativeRows)
      shown == Least(NativeRows, Sat(Len(Found) - first))
      swatches == IF w >= 340 THEN 96 ELSE 0
      row(k) == <<Tool(12, 78 + (k - 1) * 48, w - 24 - swatches, 44, <<"select", Found[first + k]>>)>>
                \o IF swatches = 0 THEN <<>>
                   ELSE <<Tool(w - 12 - swatches, 78 + (k - 1) * 48, swatches, 44,
                               <<"select", Found[first + k]>>)>>
  IN  FlattenSeq([k \in 1 .. shown |-> row(k)])
ThemeTools(w, h) ==
  IF w < 128 \/ h < 124 THEN <<>>
  ELSE ThemeRows(w, h) \o <<Tool(w - 92, h - 42, 80, 28, <<"close">>)>>
Tools == IF dialog.guide THEN GuideTools(dialog.w, dialog.h) ELSE ThemeTools(dialog.w, dialog.h)

-----------------------------------------------------------------------------
(* Steps. *)
Reset(d) == [d EXCEPT !.selected = 0, !.read = 0]
Kept(d) == [d EXCEPT !.read = 0]

\* A key of the query, a paste, Ctrl+U: the query is another one.
Type(q) == dialog' = Reset([dialog EXCEPT !.query = q])
Navigate(delta) ==
  dialog' = Kept([dialog EXCEPT !.selected = UpTo(Sat(@ + delta), Sat(Len(Found) - 1))])
End == dialog.guide /\ dialog' = Kept([dialog EXCEPT !.selected = Sat(Len(Found) - 1)])
\* Another category is another list; without the reset it would keep the place.
ShowAnywhere(c) == dialog.guide /\ dialog' = [dialog EXCEPT !.category = c]
Show(c) == dialog.guide /\ dialog' = Reset([dialog EXCEPT !.category = c])
Cycle(delta) == Show((dialog.category + delta) % (Categories + 1))
\* Scrolled from where it is seen to be: a limit that has shrunk since counts first.
ScrollUnclamped(delta) ==
  dialog.guide /\ dialog' = [dialog EXCEPT !.read = UpTo(Sat(@ + delta), dialog.limit)]
ScrollDetail(delta) ==
  dialog.guide /\ dialog' = [dialog EXCEPT !.read = UpTo(Sat(Least(@, dialog.limit) + delta), dialog.limit)]
\* A row chosen by its entry, as long as it is still found.
Select(id) ==
  /\ dialog.guide
  /\ \E k \in 1 .. Len(Found) :
       Found[k] = id /\ dialog' = Kept([dialog EXCEPT !.selected = k - 1])
Act(action) ==
  CASE action[1] = "clear" -> Type("")
    [] action[1] = "all" -> Show(0)
    [] action[1] = "cycle" -> Cycle(action[2])
    [] action[1] = "category" -> Show(action[2])
    [] action[1] = "detail" -> ScrollDetail(action[2])
    [] action[1] = "select" -> Select(action[2])
    [] OTHER -> FALSE
ClickPixels == dialog.native /\ \E k \in DOMAIN Tools : Act(Tools[k].action)

\* A click on a cell of the guide: the next category, or the row under it, the last
\* one when there is none.
RowAtAfter(list, y) == UpTo(FirstAfter(dialog.selected, list.h) + (y - list.y), Sat(Len(Found) - 1))
RowAt(list, y) == UpTo(First(dialog.selected, list.h) + (y - list.y), Sat(Len(Found) - 1))
ClickCells ==
  /\ dialog.guide /\ ~dialog.native
  /\ LET inner == Inner(CellRect)
         list == CellList(inner)
     IN  \/ inner.w > 0 /\ Cycle(1)
         \/ /\ list.w > 0
            /\ \E y \in list.y .. list.y + list.h - 1 :
                 dialog' = Kept([dialog EXCEPT !.selected = RowAt(list, y)])
\* A click on a cell of the picker: the theme it chooses, or 0.
ChosenAt(y) ==
  LET inner == Inner(CellRect)
      n == First(dialog.selected, Sat(inner.h - 1)) + (y - inner.y - 1)
  IN  IF y > inner.y /\ y < inner.y + inner.h /\ n < Len(Found) THEN Found[n + 1] ELSE 0

Wheel(delta) ==
  LET detail == IF dialog.native THEN NativeDetail(dialog.w, dialog.h)
                ELSE CellDetail(Inner(CellRect))
  IN  \/ detail.w > 0 /\ detail.h > 0 /\ ScrollDetail(delta)
      \/ Navigate(delta)
Draw == dialog.guide /\ dialog' = [dialog EXCEPT !.limit = DrawnLimit]
Resize ==
  \/ \E a \in CellAreas : dialog' = [dialog EXCEPT !.native = FALSE, !.w = a[1], !.h = a[2]]
  \/ \E a \in PixelAreas : dialog' = [dialog EXCEPT !.native = TRUE, !.w = a[1], !.h = a[2]]

Opened(guide) ==
  [guide |-> guide, query |-> "", category |-> 0, selected |-> 0, read |-> 0, limit |-> 0,
   native |-> FALSE]
\* The picker opens on the theme in use, the guide on the first command.
DialogsInit ==
  \E a \in CellAreas, guide \in BOOLEAN, current \in 1 .. Len(Texts) :
    dialog = [w |-> a[1], h |-> a[2]] @@ (IF guide THEN Opened(TRUE)
               ELSE [Opened(FALSE) EXCEPT !.selected = current - 1])
DialogsNext ==
  \/ \E q \in DOMAIN Scores : Type(q)
  \/ \E delta \in Moves : Navigate(delta)
  \/ End \/ Show(0) \/ Cycle(-1) \/ Cycle(1)
  \/ \E delta \in {-6, 6} : ScrollDetail(delta)
  \/ \E delta \in {-3, 3} : Wheel(delta)
  \/ ClickPixels \/ ClickCells \/ Draw \/ Resize
DialogsSpec == DialogsInit /\ [][DialogsNext]_dialog

-----------------------------------------------------------------------------
(* Properties. *)
\* The entry that render_cell writes on line y of the list, 0 for none.
DrawnAt(y) ==
  LET inner == Inner(CellRect)
      top == IF dialog.guide THEN CellList(inner).y ELSE inner.y + 1
      window == SubSeq(Found, First(dialog.selected, CellRows) + 1,
                       Least(Len(Found), First(dialog.selected, CellRows) + CellRows))
  IN  IF y >= top /\ y - top < Len(window) THEN window[y - top + 1] ELSE 0

\* A click on a cell chooses what is drawn in it ("identical filtering, row offsets and
\* click semantics", picker.rs), and a highlighted entry is always among the drawn ones.
ClicksMeanRows ==
  ~dialog.native =>
    \A y \in 0 .. dialog.h - 1 :
      IF dialog.guide
      THEN DrawnAt(y) # 0 => Found[RowAt(CellList(Inner(CellRect)), y) + 1] = DrawnAt(y)
      ELSE ChosenAt(y) = DrawnAt(y)

\* Something is highlighted whenever something is found, and it is drawn if anything is.
HighlightShown ==
  Found # <<>> =>
    /\ dialog.selected < Len(Found)
    /\ Rows > 0 => dialog.selected - First(dialog.selected, Rows) \in 0 .. Rows - 1

\* What can be clicked lies in the dialog and nothing lies on anything else.
Apart(a, b) == a.x + a.w <= b.x \/ b.x + b.w <= a.x \/ a.y + a.h <= b.y \/ b.y + b.h <= a.y
ToolsApart ==
  dialog.native =>
    LET tools == Tools IN
    /\ \A k \in DOMAIN tools : LET r == tools[k].rect IN
         /\ r.x >= 0 /\ r.y >= 0 /\ r.x + r.w <= dialog.w /\ r.y + r.h <= dialog.h
         /\ \A n \in DOMAIN tools : n # k => Apart(r, tools[n].rect)

DialogsSound == ClicksMeanRows /\ HighlightShown /\ ToolsApart

\* Details that have been scrolled are those of the same command: nothing that
\* highlights another one, or finds others, leaves the reader in the middle of it.
\* And scrolling up moves what is seen unless its beginning is, however much of it a
\* resize has uncovered.
ReadingStep ==
  /\ dialog'.read > 0 => Highlighted' = Highlighted
  /\ \A delta \in {-6, -4, -3} :
       ScrollDetail(delta) => Offset(dialog) = 0 \/ Offset(dialog') < Offset(dialog)
=============================================================================
