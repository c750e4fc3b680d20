------------------------------- MODULE Panes -------------------------------
(***************************************************************************)
(* Responsive panes (panes.rs): a row of panes solved for an area.  Panes  *)
(* wrap into lines at their minimum widths; when the minimums still do not *)
(* fit, panes collapse or hide as their policy permits, one at a time and  *)
(* only if that relieves the shortage; lengths are given by priority, then *)
(* by weight.  A frame is computed from the tree, what the user collapsed  *)
(* or hid, and the area; it changes none of them.                          *)
(*                                                                         *)
(* The two axes are treated alike in the code; this is the row.  A nested  *)
(* group is a member whose minimums are zero, and is not taken apart.      *)
(***************************************************************************)
EXTENDS Integers, FiniteSets, SequencesExt

CONSTANTS Trees,     \* [panes, gap, wrap]; a pane: [w, h, cw, ch, priority, overflow, view]
          Viewports, \* <<width, height>>
          MaxChoices \* what the user collapses and hides

VARIABLES tree, user, area, choices

paneVars == <<tree, user, area, choices>>

PanesAssumption ==
  /\ Viewports \subseteq Nat \X Nat /\ MaxChoices \in Nat
  /\ \A t \in Trees : t.gap \in Nat /\ t.wrap \in BOOLEAN /\ Len(t.panes) > 0

\* A function made into the sequence it is, so that it is evaluated once; its sum.
Made(f) == f \o <<>>
Total(s) == LET sum[i \in 0 .. Len(s)] == IF i = 0 THEN 0 ELSE sum[i - 1] + s[i] IN sum[Len(s)]
Plus(a, b) == Made([i \in DOMAIN a |-> a[i] + b[i]])
Least(a, b) == IF a < b THEN a ELSE b
Excess(a, b) == IF a > b THEN a - b ELSE 0

----------------------------------------------------------------------------
(* allocate. *)

\* Highest priority first, then in order.  (mutant) lowest first
OrderLow(sizes) ==
  SetToSortSeq(DOMAIN sizes, LAMBDA i, j : \/ sizes[i].priority < sizes[j].priority
                                           \/ sizes[i].priority = sizes[j].priority /\ i < j)
Order(sizes) ==
  SetToSortSeq(DOMAIN sizes, LAMBDA i, j : \/ sizes[i].priority > sizes[j].priority
                                           \/ sizes[i].priority = sizes[j].priority /\ i < j)

\* An amount given in that order, as far as each wants of it.
GivenIn(order, amount, want) ==
  LET place(i) == CHOOSE k \in DOMAIN order : order[k] = i
      earlier(i) == Total([k \in 1 .. place(i) - 1 |-> want[order[k]]])
  IN  Made([i \in DOMAIN want |-> Least(want[i], Excess(amount, earlier(i)))])
Given(sizes, amount, want) == GivenIn(Order(sizes), amount, want)

\* A round of growth: shares by weight of what is left, the last one takes what division
\* leaves, none grows past its maximum.
Growing(sizes, out) ==
  Made([i \in DOMAIN sizes |-> IF out[i] < sizes[i].max THEN sizes[i].grow ELSE 0])
Parts(weights, left, sum) == Made([i \in DOMAIN weights |-> (left * weights[i]) \div sum])
WithRest(parts, left, last) == [parts EXCEPT ![last] = @ + left - Total(parts)]
Shares(weights, left) ==
  WithRest(Parts(weights, left, Total(weights)), left, Max({i \in DOMAIN weights : weights[i] > 0}))
Taken(sizes, out, shares) ==
  Made([i \in DOMAIN sizes |-> out[i] + Least(shares[i], Excess(sizes[i].max, out[i]))])
Grown(sizes, out, weights, left) ==
  IF left = 0 \/ Total(weights) = 0 THEN out ELSE Taken(sizes, out, Shares(weights, left))
Round(sizes, out, available) == Grown(sizes, out, Growing(sizes, out), available - Total(out))
Rounds(sizes, out, available) ==
  LET grown[k \in 0 .. available] == IF k = 0 THEN out ELSE Round(sizes, grown[k - 1], available)
  IN  grown[available]

Mins(sizes) == Made([i \in DOMAIN sizes |-> sizes[i].min])
Wishes(sizes) == Made([i \in DOMAIN sizes |-> Excess(sizes[i].pref, sizes[i].min)])
Allocated(sizes, mins, available) ==
  IF Total(mins) > available THEN Given(sizes, available, mins)
  ELSE Rounds(sizes, Plus(mins, Given(sizes, available - Total(mins), Wishes(sizes))), available)
Allocate(sizes, available) == Allocated(sizes, Mins(sizes), available)

----------------------------------------------------------------------------
(* A frame.  v: the visibility of each pane. *)

Width(t, v, i) == IF v[i] = "collapsed" THEN t.panes[i].cw ELSE t.panes[i].w
Height(t, v, i) == IF v[i] = "collapsed" THEN t.panes[i].ch ELSE t.panes[i].h
ShownPanes(t, v) == SelectSeq([i \in DOMAIN t.panes |-> i], LAMBDA i : v[i] # "hidden")

LineWidth(t, v, line) == Total([k \in DOMAIN line |-> Width(t, v, line[k]).min]) + t.gap * (Len(line) - 1)
LineHeight(t, v, line) == Max({Height(t, v, line[k]).min : k \in DOMAIN line})
\* The next pane in the last line, or in a new one.
Put(t, v, a, lines, i) ==
  IF lines = <<>> THEN <<<<i>>>>
  ELSE IF t.wrap /\ LineWidth(t, v, Append(Last(lines), i)) > a[1] THEN Append(lines, <<i>>)
  ELSE [lines EXCEPT ![Len(lines)] = Append(@, i)]
LinesOf(t, v, a, shown) ==
  LET lines[k \in 0 .. Len(shown)] == IF k = 0 THEN <<>> ELSE Put(t, v, a, lines[k - 1], shown[k])
  IN  lines[Len(shown)]
Lines(t, v, a) == LinesOf(t, v, a, ShownPanes(t, v))

ShortageOf(t, v, a, lines) ==
  Total([k \in DOMAIN lines |-> Excess(LineWidth(t, v, lines[k]), a[1])])
  + Excess(Total([k \in DOMAIN lines |-> LineHeight(t, v, lines[k])])
           + t.gap * Excess(Len(lines), 1), a[2])
Shortage(t, v, a) == ShortageOf(t, v, a, Lines(t, v, a))

\* degrade: the first candidate in line, in the first of its steps that relieves; lower
\* priorities come first, and later ones among equals.
Steps(t, v, i) == IF t.panes[i].overflow = "collapse" /\ v[i] = "expanded"
                  THEN <<"collapsed", "hidden">> ELSE <<"hidden">>
Yields(t, v, i) == v[i] # "hidden" /\ t.panes[i].overflow # "keep"
RelievingSteps(t, v, a, i, shortage) ==
  {k \in DOMAIN Steps(t, v, i) : Shortage(t, [v EXCEPT ![i] = Steps(t, v, i)[k]], a) < shortage}
Relieving(t, v, a, shortage) ==
  [i \in DOMAIN t.panes |-> IF Yields(t, v, i) THEN RelievingSteps(t, v, a, i, shortage) ELSE {}]
FirstOf(t, useful) == CHOOSE i \in useful : \A j \in useful :
                        \/ t.panes[i].priority < t.panes[j].priority
                        \/ t.panes[i].priority = t.panes[j].priority /\ i >= j
Stepped(t, v, steps, i) == [v EXCEPT ![i] = Steps(t, v, i)[Min(steps[i])]]
Lowered(t, v, steps, useful) ==
  IF useful = {} THEN v ELSE Stepped(t, v, steps, FirstOf(t, useful))
Degraded(t, v, steps) == Lowered(t, v, steps, {i \in DOMAIN steps : steps[i] # {}})
Better(t, v, a, shortage) ==
  IF shortage = 0 THEN v ELSE Degraded(t, v, Made(Relieving(t, v, a, shortage)))
Fitted(t, v, a) == Better(t, v, a, Shortage(t, v, a))

\* prepare, then degrade while there is a shortage and something relieves it.
Asked(t, u, a) ==
  Made([i \in DOMAIN t.panes |-> IF t.panes[i].view > a[1] THEN "hidden" ELSE u[i]])
Settled(t, u, a) ==
  LET n == 2 * Len(t.panes)
      tried[k \in 0 .. n] == IF k = 0 THEN Asked(t, u, a) ELSE Fitted(t, tried[k - 1], a)
  IN  tried[n]

ActualGap(gap, n, available) == IF n < 2 THEN 0 ELSE Least(gap, available \div (n - 1))
With(size, priority) == [min |-> size.min, pref |-> size.pref, max |-> size.max, grow |-> size.grow,
                         priority |-> priority]
\* The height of a line: the largest of each bound of its panes, and of their priorities.
CrossSize(t, v, line) ==
  LET of(k) == Height(t, v, line[k]) IN
  [min |-> Max({of(k).min : k \in DOMAIN line}), pref |-> Max({of(k).pref : k \in DOMAIN line}),
   max |-> Max({of(k).max : k \in DOMAIN line}), grow |-> Max({of(k).grow : k \in DOMAIN line}),
   priority |-> Max({t.panes[line[k]].priority : k \in DOMAIN line})]

\* The rectangles of the panes that are shown: [pane, x, y, w, h].
Placed(t, v, line, len, gap, y, height) ==
  {[pane |-> line[j], x |-> Total([m \in 1 .. j - 1 |-> len[m] + gap]), y |-> y,
    w |-> len[j], h |-> Least(height, Height(t, v, line[j]).max)] : j \in DOMAIN line}
LineSizes(t, v, line) ==
  Made([j \in DOMAIN line |-> With(Width(t, v, line[j]), t.panes[line[j]].priority)])
InLine(t, v, a, line, gap, y, height) ==
  Placed(t, v, line, Allocate(LineSizes(t, v, line), a[1] - gap * (Len(line) - 1)), gap, y, height)
Stacked(t, v, a, lines, cross, gap) ==
  UNION {InLine(t, v, a, lines[k], ActualGap(t.gap, Len(lines[k]), a[1]),
                Total([j \in 1 .. k - 1 |-> cross[j] + gap]), cross[k]) : k \in DOMAIN lines}
CrossSizes(t, v, lines) == Made([k \in DOMAIN lines |-> CrossSize(t, v, lines[k])])
RectsIn(t, v, a, lines, gap) ==
  Stacked(t, v, a, lines, Allocate(CrossSizes(t, v, lines), a[2] - gap * Excess(Len(lines), 1)), gap)
RectsOf(t, v, a, lines) == RectsIn(t, v, a, lines, ActualGap(t.gap, Len(lines), a[2]))
Rects(t, v, a) == RectsOf(t, v, a, Lines(t, v, a))

Clipped(t, v, r) == r.w < Width(t, v, r.pane).min \/ r.h < Height(t, v, r.pane).min

----------------------------------------------------------------------------
(* Actions. *)

Resize(a) == a # area /\ area' = a /\ UNCHANGED <<tree, user, choices>>
Choose(i, s) == /\ choices < MaxChoices /\ choices' = choices + 1
                /\ s # user[i] /\ user' = [user EXCEPT ![i] = s]
                /\ UNCHANGED <<tree, area>>

PanesInit == /\ tree \in Trees /\ area \in Viewports /\ choices = 0
             /\ user = [i \in DOMAIN tree.panes |-> "expanded"]
PanesNext == \/ \E a \in Viewports : Resize(a)
             \/ \E i \in DOMAIN tree.panes, s \in {"expanded", "collapsed", "hidden"} : Choose(i, s)

----------------------------------------------------------------------------
(* Properties. *)

Apart(p, q) == p.x + p.w <= q.x \/ q.x + q.w <= p.x \/ p.y + p.h <= q.y \/ q.y + q.h <= p.y
Sound(t, v, a, rects) ==
  /\ \A r \in rects : r.x + r.w <= a[1] /\ r.y + r.h <= a[2] /\ r.w <= Width(t, v, r.pane).max
  /\ \A r, q \in rects : r # q /\ 0 \notin {r.w, r.h, q.w, q.h} => Apart(r, q)
  /\ Shortage(t, v, a) = 0 => \A r \in rects : ~Clipped(t, v, r)
  /\ \A r, q \in rects :
       /\ r.y = q.y /\ r.h > 0 /\ q.h > 0 /\ t.panes[r.pane].priority > t.panes[q.pane].priority
       /\ q.w > Width(t, v, q.pane).min
       => r.w >= Width(t, v, r.pane).pref
Frame(t, u, v, a) ==
  /\ Sound(t, v, a, Rects(t, v, a))
  /\ Shortage(t, Asked(t, u, a), a) = 0 => v = Asked(t, u, a)
\* "Rectangles never overlap or extend outside the supplied area"; no pane is larger than
\* its maximum, and none is smaller than its minimum when the minimums fit.  In a line, a
\* pane that gets more than its minimum width leaves no pane of higher priority below its
\* preference.  What the user did not ask for and space does not demand is not hidden.
FramesSound == Frame(tree, user, Settled(tree, user, area), area)

KeptFrame(t, v, a) ==
  LET keeps(i) == t.panes[i].overflow = "keep" IN
  Shortage(t, [i \in DOMAIN v |-> IF keeps(i) THEN v[i] ELSE "hidden"], a) = 0 =>
    \A r \in Rects(t, v, a) : keeps(r.pane) => ~Clipped(t, v, r)
\* "`Keep` content can be clipped when even its minimum cannot fit": not while other panes
\* could have made room.
KeepUnclipped == KeptFrame(tree, Settled(tree, user, area), area)
=============================================================================
