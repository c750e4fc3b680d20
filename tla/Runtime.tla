------------------------------- MODULE Runtime -------------------------------
(* The Runtime of an application's controls (ui/runtime.rs) in its Host                    *)
(* (ui/application.rs): focus, requests for it and the modal that interrupts it, the        *)
(* pointer's capture and the grab of a list's bar, the scroll of a list and its selection,  *)
(* between an application that changes its view and a viewport that changes size.           *)
(*                                                                                          *)
(* The view has a list, a slider and a custom control, and a modal of one button.  An       *)
(* application with controlled focus asks for a control and follows the user's choice       *)
(* (docs/application-ui.md, "Apps with controlled focus"); it accepts every selection and   *)
(* value.  Left out: text fields (Editor), the shortcuts of commands (Commands), where      *)
(* controls are placed (Panes), tables' headings, themes and what is drawn.                 *)
EXTENDS ScrollBar, Sequences, SequencesExt

CONSTANTS Nobody,
          Lists, Off,         \* what the list may hold; items that are disabled
          RowCounts,          \* rows of the list in a viewport
          Wants, Hides,       \* controls that are asked for, that are hidden or disabled
          Interrupts,         \* the wheel over a list and Esc come in the middle of a gesture
          Vetoes,             \* a selection is taken back before it is drawn
          MaxTicks, MaxResizes, MaxInputs, MaxTurns

RuntimeAssumption ==
  /\ RowCounts \subseteq Nat \ {0} /\ {Wants, Hides} \subseteq SUBSET {"list", "slider", "custom", Nobody}
  /\ {Interrupts, Vetoes} \subseteq BOOLEAN /\ {MaxTicks, MaxResizes, MaxInputs, MaxTurns} \subseteq Nat

VARIABLES view,    \* the View, as the Runtime has it
          rt,      \* the Runtime
          app,     \* what the application believes, and the control it asks for
          screen,  \* the session's viewport
          user,    \* the hand on the button, and what it was put on
          spent    \* bounds
uiVars == <<view, rt, app, screen, user, spent>>

(* layout.rs *)

Root == <<"list", "slider", "custom">>
\* Frame::focus_order: what is shown and enabled, and in the modal if there is one.
Order(v) == IF v.modal THEN <<"ok">> ELSE SelectSeq(Root, LAMBDA c : c \in v.shown \cap v.on)
Reachable(v) == Range(Order(v))
SameGeometry(v, w) == v.shown = w.shown /\ v.modal = w.modal
Index(v) == IF v.selected = Nobody THEN 0 ELSE SelectInSeq(v.items, LAMBDA i : i = v.selected)
Furthest(v, rows) == Max({0, Len(v.items) - rows})
Revealed(offset, index, rows) ==
  IF index = 0 THEN offset ELSE Max({Min({offset, index - 1}), index - rows})
Tracked(v, rows) == Len(v.items) > rows

(* runtime.rs *)

Uncaptured(r) == [r EXCEPT !.capture = Nobody, !.grab = Nobody]
Dirty(r) == [r EXCEPT !.dirty = TRUE]

\* (mutant) only another layout ends a gesture
SameTargetsAlways(v, w) == TRUE
SameTargets(v, w) == v.on = w.on /\ v.items = w.items /\ v.modal = w.modal

\* A modal keeps the focus for when it closes.
Refocused(r, v, w) ==
  LET asked == IF r.requested # Nobody THEN r.requested ELSE r.focus
  IN CASE ~v.modal /\ w.modal -> [r EXCEPT !.before = asked, !.focus = Nobody, !.requested = Nobody]
       [] v.modal /\ ~w.modal -> [r EXCEPT !.before = Nobody, !.focus = r.before, !.requested = r.before]
       [] OTHER -> r
\* Runtime::update: other targets or another layout end a gesture.
Updated(r, v, w) ==
  IF v = w THEN r
  ELSE Dirty(IF SameGeometry(v, w) /\ SameTargets(v, w) THEN Refocused(r, v, w)
             ELSE Uncaptured(Refocused(r, v, w)))

Requested(r, c) == IF c = Nobody \/ r.requested = c THEN r
                   ELSE Dirty(Uncaptured([r EXCEPT !.requested = c]))

\* sync_list_scroll: a list that is placed is scrolled within its items, and to the
\* selection when that, its place or the rows have changed; (mutant) only when it is another.
SyncedById(r, v, rows) ==
  LET within == Min({r.offset, Furthest(v, rows)})
      same == r.pos # Nobody /\ r.pos[1] = v.selected
      offset == IF same THEN within ELSE Revealed(within, Index(v), rows)
  IN IF "list" \notin v.shown THEN r
     ELSE [r EXCEPT !.offset = offset, !.pos = <<v.selected, Index(v), rows>>, !.looked = @ /\ same]
Synced(r, v, rows) ==
  LET pos == <<v.selected, Index(v), rows>>
      within == Min({r.offset, Furthest(v, rows)})
      offset == IF r.pos = pos THEN within ELSE Revealed(within, Index(v), rows)
      moved == [r EXCEPT !.offset = offset, !.pos = pos, !.looked = @ /\ r.pos = pos]
  IN IF "list" \notin v.shown THEN r
     ELSE IF offset # r.offset /\ r.capture # Nobody /\ r.capture.id = "list" THEN Uncaptured(moved)
     ELSE moved

\* (mutant) what was asked for and could not be had is forgotten
FramedForgetting(r, v, viewport) ==
  LET r1 == IF r.frame = viewport THEN r ELSE Dirty(Uncaptured([r EXCEPT !.frame = viewport]))
      focus == IF r1.focus \in Reachable(v) THEN r1.focus
               ELSE IF Order(v) = <<>> THEN Nobody ELSE Head(Order(v))
  IN IF r1.dirty THEN [Synced([r1 EXCEPT !.focus = focus], v, viewport.rows) EXCEPT !.dirty = FALSE]
     ELSE r1
\* Runtime::frame in a viewport.
Framed(r, v, viewport) ==
  LET r1 == IF r.frame = viewport THEN r ELSE Dirty(Uncaptured([r EXCEPT !.frame = viewport]))
      asked == IF r1.requested \in Reachable(v) THEN r1.requested ELSE r1.focus
      focus == IF asked \in Reachable(v) THEN asked
               ELSE IF Order(v) = <<>> THEN Nobody ELSE Head(Order(v))
  IN IF r1.dirty THEN [Synced([r1 EXCEPT !.focus = focus], v, viewport.rows) EXCEPT !.dirty = FALSE]
     ELSE r1

Focused(r, c) == Dirty([r EXCEPT !.focus = c, !.requested = c])

\* The bar of the list, and where a press or a drag of it scrolls to.
Bar(r, v) == [track |-> r.frame.rows, total |-> Len(v.items), rows |-> r.frame.rows,
              above |-> r.offset, least |-> 1]
ScrolledTo(r, v, above) ==
  Dirty([r EXCEPT !.offset = Min({above, Furthest(v, r.frame.rows)}), !.looked = TRUE])

Selected(r, v, item) ==
  LET index == SelectInSeq(v.items, LAMBDA i : i = item)
      offset == Revealed(r.offset, index, r.frame.rows)
      r1 == IF offset # r.offset /\ r.capture # Nobody /\ r.capture.id = "list"
              THEN Uncaptured(r) ELSE r
  IN Dirty([r1 EXCEPT !.offset = offset, !.looked = FALSE])

(* application.rs *)

Let(a) == [a EXCEPT !.pressed = FALSE, !.sliding = FALSE]

\* (mutant) a capture ends, and the application is not told
RefreshedAlone(r, v, w, a) ==
  view' = w /\ rt' = Requested(Updated(r, v, w), a.wants) /\ app' = a
\* Host::refresh: the application's view w, its request, and the end of a capture.
Refreshed(r, v, w, a) ==
  LET r1 == Requested(Updated(r, v, w), a.wants)
  IN /\ view' = w /\ rt' = r1
     /\ app' = IF r.capture # Nobody /\ r1.capture = Nobody THEN Let(a) ELSE a

\* Host::dispatch: events reach the application, and if there are any it is asked again.
\* A command or the end of a modal closes it; what is asked for then is a control again.
Events(r, v, a, events) ==
  LET Is(kind) == \E e \in events : e[1] = kind
      focus == {e[2] : e \in {x \in events : x[1] = "focused"}}
      closing == v.modal /\ (Is("cancelmodal") \/ Is("command"))
      a1 == [a EXCEPT !.pressed = (@ \/ Is("pressed")) /\ ~Is("released"),
                      !.sliding = (@ \/ Is("adjusting")) /\ ~Is("adjusted"),
                      !.wants = IF @ = Nobody \/ focus = {} THEN @ ELSE CHOOSE c \in focus : TRUE]
  IN IF events = {} THEN view' = v /\ rt' = r /\ app' = a
     ELSE \E w \in (IF closing /\ a1.wants = "ok" THEN Wants \ {Nobody} ELSE {a1.wants}) :
            Refreshed(r, v, IF closing THEN [v EXCEPT !.modal = FALSE] ELSE v, [a1 EXCEPT !.wants = w])

\* (Bound.)
Once(what, most) ==
  /\ spent[what] < most /\ spent.ticks + spent.resizes + spent.inputs < MaxTurns
  /\ spent' = [spent EXCEPT ![what] = @ + 1]

\* An input first brings the frame up to date, in the viewport it was drawn for.
Ready == rt.frame # Nobody
Now == Framed(rt, view, rt.frame)
Input == Ready /\ Once("inputs", MaxInputs) /\ UNCHANGED screen

(* What happens *)

Free == [holds |-> FALSE, on |-> <<Nobody, "body", 0>>, item |-> Nobody]

RuntimeInit ==
  \E items \in Lists, wants \in Wants :
    /\ view = [items |-> items, selected |-> Nobody, shown |-> Range(Root), on |-> Range(Root),
               modal |-> FALSE]
    /\ rt = [focus |-> Nobody, before |-> Nobody, requested |-> wants, capture |-> Nobody,
             grab |-> Nobody, offset |-> 0, pos |-> Nobody, dirty |-> TRUE, frame |-> Nobody,
             looked |-> FALSE]
    /\ app = [pressed |-> FALSE, sliding |-> FALSE, wants |-> wants]
    /\ screen \in {[gen |-> 1, rows |-> n] : n \in RowCounts}
    /\ user = Free
    /\ spent = [ticks |-> 0, resizes |-> 0, inputs |-> 0]

\* Controller::scene: another viewport ends a gesture, for the application too.
Draw ==
  /\ rt.dirty \/ rt.frame # screen
  /\ rt' = Framed(rt, view, screen)
  /\ app' = IF rt.capture # Nobody /\ rt.frame # screen THEN Let(app) ELSE app
  /\ UNCHANGED <<view, screen, user, spent>>

Resize == /\ Once("resizes", MaxResizes)
          /\ \E n \in RowCounts : screen' = [gen |-> screen.gen + 1, rows |-> n]
          /\ UNCHANGED <<view, rt, app, user>>

\* The selection that was drawn last comes back before another one has been drawn.
TakesBack(i) == rt.pos # Nobody /\ rt.pos[1] = i /\ view.selected # i

\* The application changes its view: a control, the items, the selection, the modal, or
\* the control it asks for.
Tick ==
  /\ Once("ticks", MaxTicks)
  /\ \/ \E c \in Hides : Refreshed(rt, view, [view EXCEPT !.shown = IF c \in @ THEN @ \ {c} ELSE @ \cup {c}], app)
     \/ \E c \in Hides : Refreshed(rt, view, [view EXCEPT !.on = IF c \in @ THEN @ \ {c} ELSE @ \cup {c}], app)
     \/ \E items \in Lists :
          Refreshed(rt, view, [view EXCEPT !.items = items,
                                           !.selected = IF @ \in Range(items) THEN @ ELSE Nobody], app)
     \/ \E i \in Range(view.items) :
          /\ Vetoes \/ ~TakesBack(i)
          /\ Refreshed(rt, view, [view EXCEPT !.selected = i], app)
     \/ \E w \in Wants \ {Nobody} :
          Refreshed(rt, view, [view EXCEPT !.modal = ~@],
                    [app EXCEPT !.wants = IF @ = "ok" THEN w ELSE @])
     \/ \E w \in Wants \ {Nobody} :
          app.wants # Nobody /\ Refreshed(rt, view, view, [app EXCEPT !.wants = w])
  /\ UNCHANGED <<screen, user>>

Tab(by) ==
  /\ Input
  /\ LET order == Order(view)
         at == IF Now.focus = Nobody THEN 0 ELSE SelectInSeq(order, LAMBDA c : c = Now.focus)
         next == order[IF at = 0 THEN 1 ELSE ((at - 1 + by) % Len(order)) + 1]
     IN IF order = <<>> THEN Events(Now, view, app, {})
        ELSE Events(Focused(Now, next), view, app,
                    IF next = Now.focus THEN {} ELSE {<<"focused", next>>})
  /\ UNCHANGED user

Esc == /\ Input /\ view.modal /\ (Interrupts \/ ~user.holds)
       /\ Events(Uncaptured(Now), view, app, {<<"cancelmodal">>})
       /\ UNCHANGED user

\* Enter or Space on the modal's button.
Enter == /\ Input /\ Now.focus = "ok" /\ Events(Now, view, app, {<<"command">>}) /\ UNCHANGED user

SliderKey == /\ Input /\ Now.focus = "slider" /\ Events(Dirty(Now), view, app, {<<"adjusted">>})
             /\ UNCHANGED user

\* Up, Down, the pages and the ends: the first item that is enabled from where they lead,
\* in their direction, or else in the other.
Enabled(v, s) == {i \in s : v.items[i] \notin Off}
Led(v, target, backwards) ==
  LET n == Len(v.items)
      before == Enabled(v, 1 .. target)
      after == Enabled(v, target .. n)
  IN IF backwards THEN IF before # {} THEN {Max(before)}
                       ELSE IF after # {} THEN {Min(after)} ELSE {}
     ELSE IF after # {} THEN {Min(after)} ELSE IF before # {} THEN {Max(before)} ELSE {}
ListKey ==
  /\ Input /\ Now.focus = "list" /\ view.items # <<>>
  /\ LET n == Len(view.items)
         at == Index(view)
         page == rt.frame.rows
         Keys == {<<IF at = 0 THEN n ELSE at - 1, TRUE>>, <<at + 1, FALSE>>,
                  <<IF at = 0 THEN 1 ELSE at - page, TRUE>>,
                  <<IF at = 0 THEN 1 ELSE at + page, FALSE>>, <<1, FALSE>>, <<n, TRUE>>}
     IN \E k \in Keys :
          LET led == Led(view, Max({1, Min({k[1], n})}), k[2])
          IN IF led = {} THEN Events(Now, view, app, {})
             ELSE \E i \in led :
                    Events(Selected(Now, view, view.items[i]),
                           [view EXCEPT !.selected = view.items[i]], app, {<<"selected">>})
  /\ UNCHANGED user

\* Where the pointer is: on a control that it can hit, for the list on a row or its bar.
Places == {<<"list", "row", n>> : n \in 1 .. rt.frame.rows}
          \cup {<<"list", "bar", y>> : y \in 0 .. rt.frame.rows - 1}
          \cup {<<c, "body", 0>> : c \in {"slider", "custom", "ok"}} \cup {<<Nobody, "body", 0>>}
CanHit(p) == p[1] \in Reachable(view) /\ (p[2] = "bar" => Tracked(view, rt.frame.rows))
ItemAt(r, v, n) == IF r.offset + n <= Len(v.items) THEN v.items[r.offset + n] ELSE Nobody

Press ==
  /\ Input /\ ~user.holds
  /\ \E p \in Places :
       /\ p[1] = Nobody \/ CanHit(p)
       /\ LET c == p[1]
              hit == [Focused(Now, c) EXCEPT !.capture = [id |-> c, gen |-> rt.frame.gen], !.grab = Nobody]
              g == Grabbed(Bar(Now, view), p[3])
              focused == IF Now.focus = c THEN {} ELSE {<<"focused", c>>}
          IN CASE c = Nobody -> Events(Uncaptured(Now), view, app, {})
               [] p[2] = "bar" ->
                    Events(ScrolledTo([hit EXCEPT !.grab = g.grab], view, g.above), view, app, focused)
               [] c = "slider" -> Events(hit, view, app, focused \cup {<<"adjusting">>})
               [] c = "custom" -> Events(hit, view, app, focused \cup {<<"pressed">>})
               [] OTHER -> Events(hit, view, app, focused)
       /\ user' = [holds |-> TRUE, on |-> p,
                   item |-> IF p[2] = "row" THEN ItemAt(Now, view, p[3]) ELSE Nobody]

Drag ==
  /\ Input /\ user.holds
  /\ IF Now.capture = Nobody THEN Events(Now, view, app, {})
     ELSE IF Now.grab # Nobody
       THEN \E y \in 0 .. rt.frame.rows :
              Events(ScrolledTo(Now, view, DragTo(Now.grab, y)), view, app, {})
     ELSE CASE Now.capture.id = "slider" -> Events(Dirty(Now), view, app, {<<"adjusting">>})
            [] Now.capture.id = "custom" -> Events(Now, view, app, {<<"pressed">>})
            [] OTHER -> Events(Now, view, app, {})
  /\ UNCHANGED user

\* A release of what is captured, in the viewport of the press.  A list looks at the height
\* alone: a row that was pressed is let go over the bar's track as well.
RowOf(p) == IF p[2] = "bar" THEN p[3] + 1 ELSE p[3]
Release ==
  /\ Input /\ user.holds
  /\ \E p \in Places :
       /\ p[1] = Nobody \/ CanHit(p)
       /\ LET r == Uncaptured(Now)
              id == IF Now.capture # Nobody /\ Now.capture.gen = rt.frame.gen THEN Now.capture.id ELSE Nobody
              item == IF p[1] = "list" THEN ItemAt(Now, view, RowOf(p)) ELSE Nobody
          IN CASE id = "list" /\ Now.grab # Nobody ->
                    \E y \in (IF p[2] = "bar" THEN {p[3]} ELSE {0, rt.frame.rows}) :
                      Events(ScrolledTo(r, view, DragTo(Now.grab, y)), view, app, {})
               [] id = "slider" -> Events(Dirty(r), view, app, {<<"adjusted">>})
               [] id = "custom" -> Events(r, view, app, {<<"released">>})
               [] id = "list" /\ item # Nobody /\ item \notin Off ->
                    Events(Selected(r, view, item), [view EXCEPT !.selected = item], app, {<<"selected">>})
               [] id = "ok" /\ p[1] = "ok" -> Events(r, view, app, {<<"command">>})
               [] OTHER -> Events(r, view, app, {})
       /\ user' = Free

Wheel(by) ==
  /\ Input /\ (Interrupts \/ ~user.holds \/ user.on[1] = "list")
  /\ \/ /\ CanHit(<<"list", "row", 1>>)
        /\ Events(ScrolledTo(Uncaptured(Now), view, Max({0, Now.offset + by})), view, app, {})
     \/ CanHit(<<"custom", "body", 0>>) /\ Events(Now, view, app, {<<"customscroll">>})
  /\ UNCHANGED user

\* The frontend has lost the pointer.
CancelPointer == /\ Input /\ rt' = Uncaptured(rt) /\ app' = Let(app) /\ UNCHANGED view
                 /\ user' = Free

RuntimeNext == \/ Draw \/ Resize \/ Tick \/ Tab(1) \/ Tab(-1) \/ Esc \/ Enter \/ SliderKey \/ ListKey
               \/ Press \/ Drag \/ Release \/ Wheel(-3) \/ Wheel(3) \/ CancelPointer

RuntimeSpec == RuntimeInit /\ [][RuntimeNext]_uiVars

(* Properties *)

RuntimeTypeOK ==
  /\ view.shown \cup view.on \subseteq Range(Root) /\ view.selected \in Range(view.items) \cup {Nobody}
  /\ rt.focus \in Range(Root) \cup {"ok", Nobody}
  /\ rt.capture = Nobody \/ rt.capture.id \in Range(Root) \cup {"ok"}
  /\ user.holds \in BOOLEAN

\* In a frame that is up to date the focus is on a control that is shown and enabled, in
\* the modal if there is one: the one the Runtime was asked for if it can have it, and the
\* one the application asks for, however long it could not ("A hidden request is remembered
\* while the runtime chooses an available control, then restored when it returns",
\* runtime.rs:201), if controls or a modal have come between.
FocusSound ==
  Ready /\ ~rt.dirty =>
    /\ rt.focus \in Reachable(view) \/ (rt.focus = Nobody /\ Order(view) = <<>>)
    /\ {rt.requested, app.wants} \cap Reachable(view) \subseteq {rt.focus}

\* What is captured can be hit in the view there is now, and was pressed in the viewport
\* the frame is for; only a list has a bar that is held, and the hand is still down.
CaptureSound ==
  rt.capture # Nobody =>
    /\ rt.capture.id \in Reachable(view) /\ rt.capture.gen = rt.frame.gen
    /\ user.holds /\ user.on[1] = rt.capture.id
    /\ rt.grab # Nobody <=> user.on[2] = "bar"

\* The application believes a control pressed or a slider in motion only while the pointer
\* is captured by it: whatever ends a capture tells it, by the final value, the release or
\* the cancel of the pointer.
AppInStep ==
  /\ app.pressed => rt.capture # Nobody /\ rt.capture.id = "custom"
  /\ app.sliding => rt.capture # Nobody /\ rt.capture.id = "slider"

\* In a frame that is up to date a list is scrolled within its items, and shows its
\* selection unless its user has scrolled since.
SelectionShown ==
  Ready /\ ~rt.dirty /\ "list" \in view.shown =>
    /\ rt.offset <= Furthest(view, rt.frame.rows)
    /\ ~rt.looked /\ view.selected # Nobody =>
         Index(view) \in rt.offset + 1 .. rt.offset + rt.frame.rows

\* A release of the button selects only the item that was under it at the press, whatever
\* the application and the viewport did between, or the one of another row it was moved
\* to: if it comes back to the row it was put on, that row has the same item.
ClickSelects ==
  Release /\ user.on[2] = "row" /\ view'.selected # view.selected =>
       \A n \in 1 .. rt.frame.rows :
         ItemAt(Now, view, n) = view'.selected /\ n = user.on[3] => view'.selected = user.item

\* "visible controls remain usable" while a request is hidden (docs/application-ui.md): a
\* press on a control that takes one is still captured when the event has been handled.
VisibleUsable ==
  [][Press /\ user'.on[1] \in Reachable(view) /\ view' = view => rt'.capture # Nobody]_uiVars
=============================================================================
