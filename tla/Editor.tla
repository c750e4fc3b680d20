------------------------------- MODULE Editor -------------------------------
(* A text field (input.rs) and the wrapping it moves through (wrap.rs): clusters, rows,   *)
(* the cursor, the column that Up and Down aim for, and the scroll that keeps the cursor  *)
(* in view.  A character is one of its kind: a letter, an emoji of two columns, a space,  *)
(* a newline, a mark that attaches to what it follows, a joiner that attaches on both     *)
(* sides; offsets count characters, since the code keeps its bytes on their boundaries.   *)
(* Left out: runs of several styles, the cache of layouts, keys that the field ignores.       *)
EXTENDS Integers, Sequences, SequencesExt, FiniteSetsExt

CONSTANTS Chars,            \* the kinds of character that are typed
          Pasted,           \* what is pasted or set, sequences of characters
          Widths, Heights,  \* of the area the field is drawn in
          MaxChars          \* the field's own limit

Kinds == {"letter", "emoji", "space", "newline", "mark", "joiner"}
EditorAssumption ==
  /\ Chars \subseteq Kinds /\ Pasted \subseteq Seq(Kinds)
  /\ Widths \cup Heights \subseteq Nat \ {0} /\ MaxChars \in Nat

VARIABLE field  \* TextInput
editorVars == <<field>>

NoGoal == -1
Unbounded == 65535

(* Clusters.  An offset p lies between the characters p and p + 1. *)

Attaches(c) == c \in {"mark", "joiner"}

NextBoundary(text, at) ==
  IF at >= Len(text) THEN Len(text)
  ELSE Min({p \in at + 1 .. Len(text) :
              \/ p = Len(text) \/ text[p] = "newline"
              \/ ~Attaches(text[p + 1])
                 /\ ~(text[p] = "joiner" /\ text[p + 1] \notin {"space", "newline"})})

\* (mutant) a joiner holds what follows it, a space too
PrevBoundaryOfSpaces(text, at) ==
  IF at = 0 THEN 0
  ELSE Max({p \in 0 .. at - 1 :
              \/ p = 0 \/ text[p + 1] = "newline" \/ text[p] = "newline"
              \/ ~Attaches(text[p + 1]) /\ text[p] # "joiner"})
PrevBoundary(text, at) ==
  IF at = 0 THEN 0
  ELSE Max({p \in 0 .. at - 1 :
              \/ p = 0 \/ text[p + 1] = "newline" \/ text[p] = "newline"
              \/ ~Attaches(text[p + 1]) /\ ~(text[p] = "joiner" /\ text[p + 1] # "space")})

\* A walk from the start of the text stops at each boundary, and stays at the end.
Walk(text) ==
  LET stop[n \in 0 .. Len(text)] == IF n = 0 THEN 0 ELSE NextBoundary(text, stop[n - 1])
  IN stop
Boundaries(text) == {Walk(text)[n] : n \in 0 .. Len(text)}

Slice(text, from, to) == SubSeq(text, from + 1, to)
Clusters(text) ==
  LET walk == [n \in 0 .. Len(text) |-> Walk(text)[n]]
      count == Min({n \in 0 .. Len(text) : walk[n] = Len(text)})
  IN [n \in 1 .. count |-> [from |-> walk[n - 1], to |-> walk[n]]]

\* Columns of a cluster: joined emoji share two, whatever attaches takes none.
ClusterWidth(c) ==
  (IF \E n \in DOMAIN c : c[n] = "emoji" THEN 2 ELSE 0)
  + Len(SelectSeq(c, LAMBDA x : x \in {"letter", "space"}))
Width(text, from, to) ==
  LET part == Slice(text, from, to)
  IN FoldLeft(LAMBDA sum, c : sum + ClusterWidth(Slice(part, c.from, c.to)), 0, Clusters(part))

(* Wrapping *)

Row(from, to, width) == [from |-> from, to |-> to, width |-> width]
NoBreak == [at |-> 0, width |-> 0]

\* The last space, if it is on this row, ends the row when a cluster is too much for it.
AtSpace(s, cw, limit) ==
  IF s.total + cw > limit /\ s.break.at > s.start
  THEN [rows |-> Append(s.rows, Row(s.start, s.break.at, s.break.width)), start |-> s.break.at,
        total |-> s.word, content |-> s.word, break |-> NoBreak, word |-> s.word]
  ELSE s
\* Without one the row ends where the cluster begins.
AtCluster(s, at, cw, limit) ==
  IF s.total + cw > limit /\ at > s.start
  THEN [s EXCEPT !.rows = Append(@, Row(s.start, at, s.content)), !.start = at,
                 !.total = 0, !.break = NoBreak, !.word = 0]
  ELSE s
Joined(s, cw) ==
  [s EXCEPT !.total = @ + cw, !.content = s.total + cw, !.word = @ + cw]
Placed(s, cl, cw, c, limit) ==
  CASE cl = <<"newline">> ->
         [rows |-> Append(s.rows, Row(s.start, c.to, s.content)), start |-> c.to,
          total |-> 0, content |-> 0, break |-> NoBreak, word |-> 0]
    [] cl = <<"space">> ->
         [s EXCEPT !.total = @ + cw, !.break = [at |-> c.to, width |-> s.content], !.word = 0]
    [] OTHER -> Joined(AtCluster(AtSpace(s, cw, limit), c.from, cw, limit), cw)
Wrapped(text, limit, s, c) ==
  Placed(s, Slice(text, c.from, c.to), ClusterWidth(Slice(text, c.from, c.to)), c, limit)

\* (mutant) a word that follows the break of a row is not counted on the new row
WrapForgetting(text, limit) ==
  LET empty == [rows |-> <<>>, start |-> 0, total |-> 0, content |-> 0, break |-> NoBreak, word |-> 0]
      last == FoldLeft(LAMBDA s, c : Wrapped(text, limit, [s EXCEPT !.word = 0], c), empty, Clusters(text))
  IN Append(last.rows, Row(last.start, Len(text), last.content))
Wrap(text, limit) ==
  LET empty == [rows |-> <<>>, start |-> 0, total |-> 0, content |-> 0, break |-> NoBreak, word |-> 0]
      last == FoldLeft(LAMBDA s, c : Wrapped(text, limit, s, c), empty, Clusters(text))
  IN IF limit = 0 THEN <<Row(0, 0, 0)>>
     ELSE Append(last.rows, Row(last.start, Len(text), last.content))

\* The part of a row that is drawn: without its newlines at the end and then its spaces.
Trimmed(text, row) ==
  LET Ends(p, c) == \A q \in p + 1 .. row.to : text[q] = c
      lines == Min({p \in row.from .. row.to : Ends(p, "newline")})
  IN Min({p \in row.from .. lines : \A q \in p + 1 .. lines : text[q] = "space"})

\* Which row and column an offset is on.
CursorCell(text, rows, at) ==
  LET on == {n \in DOMAIN rows : at < rows[n].to \/ (n = Len(rows) /\ at <= rows[n].to)}
      n == Min(on)
  IN IF on = {} THEN [row |-> 1, col |-> 0]
     ELSE [row |-> n, col |-> Width(text, Min({rows[n].from, at}), at)]

\* The offset on a row nearest to a column.
ByteAtColumn(text, row, col) ==
  LET stops == {c.from : c \in Range(Clusters(Slice(text, row.from, Trimmed(text, row))))}
      far == {p \in stops : Width(text, row.from, row.from + p) >= col}
  IN IF far = {} THEN Trimmed(text, row) ELSE row.from + Min(far)

(* The field *)

Cut(f, from, to) ==
  [f EXCEPT !.text = Slice(@, 0, from) \o Slice(@, to, Len(@)),
            !.cursor = IF @ > to THEN @ - (to - from) ELSE IF @ > from THEN from ELSE @]

\* Newlines become spaces in a field of one line; what is over the limit is turned away.
Inserted(f, s) ==
  LET line == IF f.multi THEN s ELSE [n \in DOMAIN s |-> IF s[n] = "newline" THEN "space" ELSE s[n]]
      room == MaxChars - Len(f.text)
      kept == IF room <= 0 THEN <<>> ELSE SubSeq(line, 1, Min({room, Len(line)}))
  IN [f EXCEPT !.text = Slice(@, 0, f.cursor) \o kept \o Slice(@, f.cursor, Len(@)),
               !.cursor = @ + Len(kept)]

LineStart(f) == Max({0} \cup {p \in 1 .. f.cursor : f.text[p] = "newline"})
LineEnd(f) ==
  Min({Len(f.text)} \cup {p \in f.cursor .. Len(f.text) - 1 : f.text[p + 1] = "newline"})

\* Back over what is no letter, then over letters; and forward.
WordLeft(f) ==
  LET end == Max({0} \cup {p \in 1 .. f.cursor : f.text[p] = "letter"})
  IN Max({0} \cup {p \in 1 .. end : f.text[p] # "letter"})
WordRight(f) ==
  LET n == Len(f.text)
      begin == Min({n} \cup {p \in f.cursor .. n - 1 : f.text[p + 1] = "letter"})
  IN Min({n} \cup {p \in begin .. n - 1 : f.text[p + 1] # "letter"})

Rows(f) == Wrap(f.text, IF f.width > 0 THEN f.width ELSE Unbounded)

\* (mutant) the column aimed for is the one of the row just left
SteppedFrom(f, by) ==
  LET cell == CursorCell(f.text, Rows(f), f.cursor)
      next == cell.row + by
  IN IF next \notin DOMAIN Rows(f) THEN f
     ELSE [f EXCEPT !.cursor = ByteAtColumn(f.text, Rows(f)[cell.row], cell.col)]
\* Up and down through the wrapped rows, keeping the column they began at.
SteppedTo(f, rows, next, goal) ==
  IF next \notin DOMAIN rows THEN [f EXCEPT !.goal = goal]
  ELSE [f EXCEPT !.goal = goal, !.cursor = ByteAtColumn(f.text, rows[next], goal)]
SteppedIn(f, rows, cell, by) ==
  SteppedTo(f, rows, cell.row + by, IF f.goal = NoGoal THEN cell.col ELSE f.goal)
Stepped(f, by) == SteppedIn(f, Rows(f), CursorCell(f.text, Rows(f), f.cursor), by)

\* What is drawn of the field in an area, and where the terminal's cursor goes.
ClampScroll(cursor, scroll, height) ==
  IF cursor < scroll THEN cursor
  ELSE IF cursor >= scroll + height THEN cursor + 1 - height ELSE scroll
DrawnRows(f, w, h) ==
  LET cell == CursorCell(f.text, Wrap(f.text, w), f.cursor)
  IN [scroll |-> ClampScroll(cell.row - 1, f.scroll, h), hscroll |-> f.hscroll,
      x |-> Min({cell.col, w - 1})]
DrawnLine(f, w) ==
  LET col == Width(f.text, 0, f.cursor)
      hscroll == ClampScroll(col, f.hscroll, w)
      shown == {c.from : c \in {d \in Range(Clusters(f.text)) : Width(f.text, 0, d.from) >= hscroll}}
  IN [scroll |-> f.scroll, hscroll |-> hscroll, x |-> Min({col - hscroll, w - 1}),
      start |-> Min({Len(f.text)} \cup shown)]
Drawing(f, w, h) == IF f.multi THEN DrawnRows(f, w, h) ELSE DrawnLine(f, w)

EditorInit ==
  \E multi \in BOOLEAN :
    field = [text |-> <<>>, cursor |-> 0, multi |-> multi, goal |-> NoGoal, width |-> 0,
             scroll |-> 0, hscroll |-> 0]

\* Every key but up and down gives up the column.
Key(f) == field' = [f EXCEPT !.goal = NoGoal]
GoTo(at) == Key([field EXCEPT !.cursor = at])

Type == \E c \in Chars : (c = "newline" => field.multi) /\ Key(Inserted(field, <<c>>))
Backspace == Key(Cut(field, PrevBoundary(field.text, field.cursor), field.cursor))
Delete == Key(Cut(field, field.cursor, NextBoundary(field.text, field.cursor)))
Arrow == GoTo(PrevBoundary(field.text, field.cursor)) \/ GoTo(NextBoundary(field.text, field.cursor))
LineKey == GoTo(LineStart(field)) \/ GoTo(LineEnd(field))
WordKey == GoTo(WordLeft(field)) \/ GoTo(WordRight(field))
Kill == \/ Key(Cut(field, field.cursor, LineEnd(field)))
        \/ Key(Cut(field, LineStart(field), field.cursor))
        \/ Key(Cut(field, WordLeft(field), field.cursor))
        \/ Key(Cut(field, field.cursor, WordRight(field)))
Up == field.multi /\ field' = Stepped(field, -1)
Down == field.multi /\ field' = Stepped(field, 1)

\* paste, insert_str: the column is not given up.
Paste == \E s \in Pasted : field' = Inserted(field, s)
SetText ==
  \E s \in Pasted :
    field' = [field EXCEPT !.text = s, !.cursor = Len(s), !.scroll = 0, !.hscroll = 0, !.goal = NoGoal]
SetCursor == \E p \in 0 .. Len(field.text) : GoTo(p)

Render ==
  \E w \in Widths, h \in Heights :
    LET d == Drawing(field, w, h)
    IN field' = [field EXCEPT !.width = w, !.scroll = d.scroll, !.hscroll = d.hscroll]
LayoutWidth ==
  \E w \in Widths \cup {0} :
    /\ w # field.width
    /\ field' = [field EXCEPT !.width = w, !.goal = NoGoal]

EditorNext == \/ Type \/ Backspace \/ Delete \/ Arrow \/ LineKey \/ WordKey \/ Kill \/ Up \/ Down
              \/ Paste \/ SetText \/ SetCursor \/ Render \/ LayoutWidth

Edits == EditorInit /\ [][EditorNext]_editorVars

(* Properties *)

EditorTypeOK ==
  /\ field.text \in Seq(Kinds)
  /\ field.cursor \in 0 .. Len(field.text)
  /\ field.goal \in {NoGoal} \cup Nat /\ {field.scroll, field.hscroll, field.width} \subseteq Nat

\* The walk back stops where the walk forward did: Left undoes Right, and Backspace removes
\* what Delete would (next_boundary and prev_boundary of wrap.rs).  It is of the text alone,
\* so one place of the cursor is enough, here and for the rows.
ClustersAgree ==
  field.cursor = 0 =>
  LET stops == Boundaries(field.text)
  IN \A p \in stops \ {0} : PrevBoundary(field.text, p) = Max({q \in stops : q < p})

\* "Every byte of the input lands in exactly one row"; a row is no wider than the area, or
\* has one cluster that is; and each ends where it must: at a newline, or at a space before a word that
\* does not fit, or, if it has no space, before a cluster that does not fit.
WrapsRight ==
  field.cursor = 0 => \A w \in Widths :
    LET text == field.text
        rows == Wrap(text, w)
        Cluster(p) == NextBoundary(text, p)
        Is(p, c) == Slice(text, p, Cluster(p)) = <<c>>
        Stops(row) == {p \in Boundaries(text) : row.from <= p /\ p < row.to}
        WordEnd(p) == Min({Len(text)} \cup {q \in Boundaries(text) : q >= p /\ q < Len(text)
                                                                    /\ (Is(q, "space") \/ Is(q, "newline"))})
    IN /\ rows[1].from = 0 /\ rows[Len(rows)].to = Len(text)
       /\ \A n \in DOMAIN rows :
            LET row == rows[n]
                Spaced == \E p \in Stops(row) : Is(p, "space")
            IN /\ row.width = Width(text, row.from, Trimmed(text, row))
               /\ row.width <= w \/ Cardinality({p \in Stops(row) : ~Is(p, "space") /\ ~Is(p, "newline")}) = 1
               /\ n = Len(rows) \/
                    /\ rows[n + 1].from = row.to
                    /\ \/ text[row.to] = "newline"
                       \/ /\ Is(Max(Stops(row)), "space")
                          /\ Width(text, row.from, WordEnd(row.to)) > w
                       \/ ~Spaced /\ Width(text, row.from, Cluster(row.to)) > w

\* The terminal's cursor is in the area, on the row of the text's cursor; in a field of one
\* line it is where what is drawn before it ends, or less than a cluster to the right of it
\* (a wide cluster that the scroll cuts is not drawn).
CaretIn(d, row, before, widest, w, h) ==
  /\ d.x \in 0 .. w - 1
  /\ IF field.multi THEN row - 1 - d.scroll \in 0 .. h - 1
     ELSE field.cursor >= d.start => before <= d.x /\ d.x < before + widest
Widest(text) == Max({1} \cup {Width(text, c.from, c.to) : c \in Range(Clusters(text))})
CaretInPlace ==
  \A w \in Widths, h \in Heights : \A d \in {Drawing(field, w, h)} :
    CaretIn(d, CursorCell(field.text, Wrap(field.text, w), field.cursor).row,
            Width(field.text, d.start, field.cursor), Widest(field.text), w, h)

\* Up and Down put the cursor on the row above or below, or just after it, never on the far
\* side of the row that was left, and at the column they aim for: at most by the part of a
\* cluster beyond it.
Onto(f, to) ==
  /\ f.cursor \in to.from .. to.to
  /\ f.cursor = to.from \/ Width(f.text, to.from, PrevBoundary(f.text, f.cursor)) < f.goal
StepsOver(rows, row) ==
  \A by \in {-1, 1} : row + by \in DOMAIN rows => Onto(Stepped(field, by), rows[row + by])
StepsByRows ==
  field.multi =>
    \A rows \in {Rows(field)} : StepsOver(rows, CursorCell(field.text, rows, field.cursor).row)

\* "Move the cursor a row up or down through the wrapped layout" (input.rs:447): a step
\* leaves the row.  At the end of a row that a long word was cut at, it does not.
UpAndDownMoveARow ==
  field.multi =>
    LET RowOf(f) == CursorCell(f.text, Rows(f), f.cursor).row
        row == RowOf(field)
    IN \A by \in {-1, 1} :
         row + by \in DOMAIN Rows(field) => RowOf(Stepped(field, by)) = row + by

\* "where the terminal's own cursor should go so the caret is the real one" (input.rs:7): it
\* is where the drawn text before the cursor ends.  A wide character cut by the scroll
\* breaks it (README.md, section 3).
CaretIsReal ==
  ~field.multi =>
    \A w \in Widths :
      LET d == DrawnLine(field, w)
      IN d.x = Min({w - 1, Width(field.text, Min({d.start, field.cursor}), field.cursor)})
=============================================================================
