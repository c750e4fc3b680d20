------------------------------ MODULE Chrome ------------------------------
(* The frames of panels and of the boxes that open on top of them, in cells: the words   *)
(* of a panel's header (src/chrome/header.rs, frame.rs), a list of settings with its     *)
(* cursor (settings.rs, src/list.rs) and a question with two answers (confirm.rs).       *)
(* Drawing and hit testing are separate definitions, as the code has them.               *)
EXTENDS Integers, Sequences, SequencesExt

CONSTANTS ChromeAreas,  \* <<width, height>>
          Words,        \* sequences of widths of header words
          Counts,       \* how many settings there are
          Questions     \* [body, yes, no]: lengths of the paragraphs and of the verbs

VARIABLE chrome         \* [w, h, padded, words, rows, cursor, scroll, question]

Least(a, b) == IF a < b THEN a ELSE b
Most(a, b) == IF a < b THEN b ELSE a
Sat(n) == Most(n, 0)
At(x, y, w, h) == [x |-> x, y |-> y, w |-> w, h |-> h]
In(r, x, y) == x >= r.x /\ x < r.x + r.w /\ y >= r.y /\ y < r.y + r.h
Area == At(0, 0, chrome.w, chrome.h)

\* The inside of a border; pixel presentation keeps one more column and row free.
Inside(r) == At(r.x + Least(1, r.w), r.y + Least(1, r.h), Sat(r.w - 2), Sat(r.h - 2))
Narrowed(r) == IF chrome.padded THEN [r EXCEPT !.x = Least(@ + 1, chrome.w), !.w = Sat(@ - 2)] ELSE r
FrameBody(r) ==
  IF chrome.padded
  THEN LET i == Inside(r)
       IN  At(Least(i.x + 1, r.x + r.w), Least(i.y + 1, r.y + r.h), Sat(i.w - 2), Sat(i.h - 2))
  ELSE Inside(r)

(* The header of a panel. *)
HeaderRow == LET i == Narrowed(Inside(Area)) IN [i EXCEPT !.h = Least(@, 1)]
HeaderBody ==
  LET i == Narrowed(Inside(Area))
      rows == IF chrome.padded THEN 2 ELSE 1
  IN  [i EXCEPT !.y = Least(@ + rows, chrome.h),
                !.h = Sat((IF chrome.padded THEN Sat(@ - 1) ELSE @) - rows)]
WordsWidth(ws) == FoldSeq(LAMBDA a, b : a + b, 0, ws) + 2 * Sat(Len(ws) - 1)
WordRow == LET row == HeaderRow
               kept == IF chrome.padded THEN Least(row.w, 24) ELSE 0
           IN  [row EXCEPT !.x = @ + kept, !.w = @ - kept]
\* The words that stay: the first go until the rest fit between two blank columns.
FirstKeptTight(ws) ==
  LET fits(k) == WordRow.w >= WordsWidth(SubSeq(ws, k, Len(ws)))
  IN  IF WordRow.h = 0 THEN 0 ELSE SelectInSeq([k \in 1 .. Len(ws) |-> k], fits)
FirstKept(ws) ==
  LET fits(k) == WordRow.w >= 1 + WordsWidth(SubSeq(ws, k, Len(ws))) + 1
  IN  IF WordRow.h = 0 THEN 0 ELSE SelectInSeq([k \in 1 .. Len(ws) |-> k], fits)
Slots ==
  LET ws == chrome.words
      first == FirstKept(ws)
      right == WordRow.x + WordRow.w - 1
      x(k) == right - WordsWidth(SubSeq(ws, k, Len(ws)))
  IN  IF first = 0 THEN <<>>
      ELSE [n \in 1 .. Len(ws) - first + 1 |-> At(x(first + n - 1), WordRow.y, ws[first + n - 1], 1)]
\* In pixel presentation the title is drawn on the header's row, in 24 columns.
TitleColumns == At(2, 1, Least(24, Sat(chrome.w - 4)), 1)

(* The box of an overlay, centred. *)
OverlayRect(lo, hi, wanted, least) ==
  LET w == Least(Least(Most(Sat(chrome.w - 4), lo), hi), chrome.w)
      h == Least(Most(Least(wanted, Sat(chrome.h - 2)), least), chrome.h)
  IN  At((chrome.w - w) \div 2, (chrome.h - h) \div 2, w, h)

(* Settings. *)
SettingsRect == OverlayRect(24, 52, chrome.rows + 4, 6)
ListTall == LET r == SettingsRect IN At(r.x + 1, r.y + 2, Sat(r.w - 2), Sat(r.h - 2))
ListRect == LET r == SettingsRect IN At(r.x + 1, r.y + 2, Sat(r.w - 2), Sat(r.h - 3))
SettingAt(x, y) ==
  LET index == chrome.scroll + (y - ListRect.y)
  IN  IF chrome.rows > 0 /\ In(ListRect, x, y) /\ index < chrome.rows THEN index + 1 ELSE 0
\* What render writes on line y: its border, the heading inside, a row, or nothing.
SettingDrawn(y) ==
  LET inner == FrameBody(SettingsRect)
      shown == Least(ListRect.h, Sat(chrome.rows - chrome.scroll))
  IN  IF inner.h = 0 \/ inner.w = 0 THEN 0
      ELSE IF y \in ListRect.y .. ListRect.y + shown - 1 THEN chrome.scroll + (y - ListRect.y) + 1
      ELSE 0
ClampScrollPast(cursor, scroll, height) ==
  IF height = 0 THEN 0
  ELSE IF cursor < scroll THEN cursor
  ELSE IF cursor > scroll + height THEN cursor + 1 - height
  ELSE scroll
ClampScroll(cursor, scroll, height) ==
  IF height = 0 THEN 0
  ELSE IF cursor < scroll THEN cursor
  ELSE IF cursor >= scroll + height THEN cursor + 1 - height
  ELSE scroll
CursorIntoView(cursor, scroll, height, len) ==
  IF height = 0 \/ len = 0 THEN 0
  ELSE IF cursor < scroll THEN Least(scroll, len - 1)
  ELSE IF cursor >= scroll + height THEN Least(scroll + height - 1, len - 1)
  ELSE cursor

(* A question: the width comes first, the body is wrapped to it, then the height. *)
WrappedRows(length, width) == IF length = 0 THEN 1 ELSE (length + width - 1) \div width
QuestionBox ==
  LET probe == OverlayRect(24, 56, 4, 4)
      width == Sat(Inside(probe).w - 1)
      rows == FoldSeq(LAMBDA a, b : WrappedRows(a, width) + b, 0, chrome.question.body)
  IN  IF probe.h < 4 \/ width = 0 THEN [shown |-> FALSE]
      ELSE [shown |-> TRUE, rect |-> OverlayRect(24, 56, rows + 2, 4), body |-> rows]
FooterWidth == chrome.question.yes + chrome.question.no + 9
\* Spans of the answers, as layout computes them for the pointer.
AnswerStartAtCorner == QuestionBox.rect.x + QuestionBox.rect.w - FooterWidth + 1
AnswerStart == QuestionBox.rect.x + Sat(QuestionBox.rect.w - 2) + 1 - FooterWidth + 1
AnswerAt(x) ==
  LET yes == AnswerStart + 2 + chrome.question.yes
      no == yes + 3
  IN  IF x >= AnswerStart /\ x < yes THEN "yes"
      ELSE IF x >= no /\ x < no + 2 + chrome.question.no THEN "no" ELSE "none"
\* The bottom border as frame draws it: " y yes - n no ", at its right end, if it fits.
Footer == <<"none">> \o [k \in 1 .. 2 + chrome.question.yes |-> "yes"] \o <<"none", "none", "none">>
          \o [k \in 1 .. 2 + chrome.question.no |-> "no"] \o <<"none">>
FooterFits(r) == Len(Footer) <= Sat(r.w - IF chrome.padded THEN 4 ELSE 2)
FooterDrawn(x) ==
  LET r == QuestionBox.rect
      start == r.x + r.w - 1 - Len(Footer)
  IN  IF FooterFits(r) /\ x \in start .. start + Len(Footer) - 1 THEN Footer[x - start + 1] ELSE "none"

-----------------------------------------------------------------------------
\* The cursor moves and the window follows it.
MoveCursor(cursor) ==
  chrome' = [chrome EXCEPT !.cursor = cursor, !.scroll = ClampScroll(cursor, @, ListRect.h)]
\* The window is moved, by a scrollbar, and the cursor follows.
MoveWindow(scroll) ==
  chrome' = [chrome EXCEPT !.scroll = scroll,
                           !.cursor = CursorIntoView(@, scroll, ListRect.h, chrome.rows)]
\* Another size; the window is clamped when it is drawn.
Resize(a) ==
  LET sized == [chrome EXCEPT !.w = a[1], !.h = a[2]]
      height == Sat(Least(Most(Least(chrome.rows + 4, Sat(a[2] - 2)), 6), a[2]) - 3)
  IN  chrome' = [sized EXCEPT !.scroll = ClampScroll(sized.cursor, @, height)]

ChromeInit ==
  \E a \in ChromeAreas, padded \in BOOLEAN, words \in Words, rows \in Counts, q \in Questions :
    chrome = [w |-> a[1], h |-> a[2], padded |-> padded, words |-> words, rows |-> rows,
              cursor |-> 0, scroll |-> 0, question |-> q]
ChromeNext ==
  \/ \E cursor \in 0 .. Sat(chrome.rows - 1) : MoveCursor(cursor)
  \/ \E scroll \in 0 .. Sat(chrome.rows - ListRect.h) : MoveWindow(scroll)
  \/ \E a \in ChromeAreas : Resize(a)
ChromeSpec == ChromeInit /\ [][ChromeNext]_chrome

-----------------------------------------------------------------------------
(* Properties. *)
Apart(a, b) == a.x + a.w <= b.x \/ b.x + b.w <= a.x \/ a.y + a.h <= b.y \/ b.y + b.h <= a.y
Within(r, s) == r.x >= s.x /\ r.y >= s.y /\ r.x + r.w <= s.x + s.w /\ r.y + r.h <= s.y + s.h

\* The words of a header stay off the border, the body, the title and one another, and
\* a word that has room is never dropped while one to its left is kept: the last word,
\* which closes the panel, goes last.
WordsRight ==
  /\ \A n \in DOMAIN Slots :
       /\ Within(Slots[n], Inside(Area))
       /\ Apart(Slots[n], HeaderBody)
       /\ chrome.padded => Apart(Slots[n], TitleColumns)
       /\ \A m \in DOMAIN Slots : m < n => Slots[m].x + Slots[m].w + 2 <= Slots[n].x
  /\ (WordRow.h > 0 /\ WordRow.w >= 2 + Last(chrome.words)) => Slots # <<>>

\* The row under a click is the row that is drawn there, and the cursor is in the
\* window: a window moved by hand would otherwise be dragged back by the cursor.  (In
\* pixel presentation render is given a smaller inside than list_rect and hit assume: the
\* first row is drawn over the heading, and rows that are not drawn can be hit.)
SettingsRight ==
  ~chrome.padded =>
  /\ \A y \in 0 .. chrome.h - 1, x \in {0, ListRect.x, ListRect.x + ListRect.w - 1} :
       SettingAt(x, y) = (IF In(ListRect, x, y) THEN SettingDrawn(y) ELSE 0)
  /\ \A y \in 0 .. chrome.h - 1 : SettingDrawn(y) # 0 => y < SettingsRect.y + SettingsRect.h - 1
  /\ (ListRect.h > 0 /\ chrome.rows > 0)
       => /\ chrome.cursor - chrome.scroll \in 0 .. ListRect.h - 1
          /\ ClampScroll(chrome.cursor, chrome.scroll, ListRect.h) = chrome.scroll

\* A click on the bottom border gives an answer exactly where that answer is written.
\* (Where the footer does not fit it is not drawn and answers all the same.)
AnswersRight ==
  (QuestionBox.shown /\ FooterFits(QuestionBox.rect)) =>
    \A x \in 0 .. chrome.w - 1 : AnswerAt(x) = FooterDrawn(x)
\* A box that has room shows the whole question.
QuestionShown ==
  QuestionBox.shown =>
    LET r == QuestionBox.rect
    IN  Within(r, Area) /\ (chrome.h >= QuestionBox.body + 4 => Inside(r).h >= QuestionBox.body)

ChromeSound == WordsRight /\ SettingsRight /\ AnswersRight /\ QuestionShown
=============================================================================
