-------------------------------- MODULE Dock --------------------------------
(***************************************************************************)
(* The docked panels of an application (dock.rs): a tree of splits that    *)
(* tiles an area, whose panels are hidden and shown and whose seams are    *)
(* dragged.  The tree here is a row whose members are panels or columns of *)
(* panels; a node is named by its id, and its size is part of the state.   *)
(*                                                                         *)
(* layout solves the tree for an area; a drag works on the geometry of the *)
(* last layout, whatever was hidden or shown since.                        *)
(***************************************************************************)
EXTENDS Integers, FiniteSets, SequencesExt

CONSTANTS Row,      \* the members of the root: [id, min, kids], kids empty for a panel
          Starts,   \* sizes of the nodes to start with: [fixed, n], n cells or a weight
          Areas,    \* <<width, height>> that the terminal can have
          MaxDrag,  \* cells of a drag
          MaxMoves  \* drags, hidings and showings in a row

VARIABLES size,     \* the size of each node
          hidden,
          laid,     \* what the last layout was made from: size, hidden, area
          moves

dockVars == <<size, hidden, laid, moves>>

Elems(s) == {s[i] : i \in DOMAIN s}
Kids == UNION {Elems(n.kids) : n \in Elems(Row)}
Nodes == Elems(Row) \cup Kids
Panels == {n.id : n \in {m \in Nodes : m.kids = <<>>}}

DockAssumption ==
  /\ \A n \in Nodes : n.min \in Nat
  /\ \A sz \in Starts : /\ DOMAIN sz = {n.id : n \in Nodes}
                        /\ \A n \in DOMAIN sz : sz[n].fixed \in BOOLEAN /\ sz[n].n \in Nat
                                               /\ (sz[n].fixed \/ sz[n].n > 0)
  /\ Areas \subseteq Nat \X Nat /\ {MaxDrag, MaxMoves} \subseteq Nat

----------------------------------------------------------------------------
(* Geometry. *)

\* A function made into the sequence it is, so that it is evaluated once.
Made(f) == f \o <<>>
Total(s) == LET sum[i \in 0 .. Len(s)] == IF i = 0 THEN 0 ELSE sum[i - 1] + s[i] IN sum[Len(s)]
Above(x, least) == IF x < least THEN least ELSE x
Within(x, least, most) == IF x < least THEN least ELSE IF x > most THEN most ELSE x

Plus(a, b) == Made([i \in DOMAIN a |-> a[i] + b[i]])
Minus(a, b) == Made([i \in DOMAIN a |-> a[i] - b[i]])

\* An amount taken from rooms in their order, as far as each goes.
Spread(amount, rooms) ==
  Made([i \in DOMAIN rooms |-> Within(amount - Total(SubSeq(rooms, 1, i - 1)), 0, rooms[i])])
\* What is more than along is taken from the end, as far as there is room.
Trimmed(out, rooms, along) ==
  Minus(out, Reverse(Spread(Above(Total(out) - along, 0), Reverse(rooms))))

\* Fixed members take what they ask for; if that is too much they shrink from the end, to
\* their minimums and then past them.
Asked(sizes, mins) ==
  Made([i \in DOMAIN sizes |-> IF sizes[i].fixed THEN Above(sizes[i].n, mins[i]) ELSE 0])
Spare(out, mins) == Made([i \in DOMAIN out |-> Above(out[i] - mins[i], 0)])
Lacking(out, mins) == Spare(mins, out)
Past(out, along) == Trimmed(out, out, along)
Cramped(asked, mins, along) == Past(Trimmed(asked, Spare(asked, mins), along), along)
Fixeds(sizes, mins, along) == Cramped(Asked(sizes, mins), mins, along)

\* Flexible members share the rest by weight, the last one takes what division leaves.
Weights(sizes) == Made([i \in DOMAIN sizes |-> IF sizes[i].fixed THEN 0 ELSE sizes[i].n])
Parts(weights, space, sum) == Made([i \in DOMAIN weights |-> (space * weights[i]) \div sum])
WithRest(parts, space, last) == [parts EXCEPT ![last] = @ + space - Total(parts)]
Shares(weights, space) ==
  WithRest(Parts(weights, space, Total(weights)), space, Max({i \in DOMAIN weights : weights[i] > 0}))

\* Flexible members below their minimum are raised, at the cost of those with room.
Only(flex, amounts) == Made([i \in DOMAIN amounts |-> IF i \in flex THEN amounts[i] ELSE 0])
Levelled(out, room, want, pool) == Plus(Minus(out, Spread(pool, room)), Spread(pool, want))
Relieved(out, room, want) == Levelled(out, room, want, Within(Total(want), 0, Total(room)))
Raised(out, mins, flex) == Relieved(out, Only(flex, Spare(out, mins)), Only(flex, Lacking(out, mins)))

\* The space the fixed members leave.  (mutant) if no member is flexible, nobody gets it
FilledWithHole(sizes, mins, fixeds, space) ==
  LET flex == {i \in DOMAIN sizes : ~sizes[i].fixed} IN
  IF flex = {} THEN fixeds
  ELSE Raised(Plus(fixeds, Shares(Weights(sizes), space)), mins, flex)
Filled(sizes, mins, fixeds, space) ==
  LET flex == {i \in DOMAIN sizes : ~sizes[i].fixed} IN
  IF flex = {} THEN [fixeds EXCEPT ![Len(sizes)] = @ + space]
  ELSE Raised(Plus(fixeds, Shares(Weights(sizes), space)), mins, flex)
Placing(sizes, mins, along, fixeds) == Filled(sizes, mins, fixeds, along - Total(fixeds))
Solve(sizes, mins, along) == Placing(sizes, mins, along, Fixeds(sizes, mins, along))

PanelsOf(n) == IF n.kids = <<>> THEN {n.id} ELSE {k.id : k \in Elems(n.kids)}
Shown(members, hid) == SelectSeq(members, LAMBDA n : ~(PanelsOf(n) \subseteq hid))
Floor(n, hid) == IF n.kids = <<>> THEN Above(n.min, 1)
                 ELSE Above(Max({k.min : k \in Elems(Shown(n.kids, hid))} \cup {1}), 1)

\* A split of the members vis with minimums mins: members are dropped from the end until
\* the minimums fit.
Kept(vis, few, sz, along, keep) ==
  [kept |-> SubSeq(vis, 1, keep), mins |-> few, dropped |-> SubSeq(vis, keep + 1, Len(vis)),
   ext |-> Solve(Made([i \in 1 .. keep |-> sz[vis[i].id]]), few, along)]
Fitting(vis, mins, sz, along, keep) == Kept(vis, SubSeq(mins, 1, keep), sz, along, keep)
Cut(vis, mins, sz, along) ==
  Fitting(vis, mins, sz, along,
          Max({1} \cup {k \in DOMAIN vis : Total(SubSeq(mins, 1, k)) <= along}))
Visible(vis, hid, sz, along) == Cut(vis, Made([i \in DOMAIN vis |-> Floor(vis[i], hid)]), sz, along)
Split(members, hid, sz, along) == Visible(Shown(members, hid), hid, sz, along)

\* The members of split s of layout l: the root is 0, a column has the id of its node.
Root(l) == Split(Row, l.hidden, l.size, l.area[1])
Column(l, n) == Split(n.kids, l.hidden, l.size, l.area[2])
Columns(l) == {n \in Elems(Root(l).kept) : n.kids # <<>>}
SplitOf(l, s) == IF s = 0 THEN Root(l) ELSE Column(l, CHOOSE n \in Elems(Row) : n.id = s)
Empty(l) == Panels \subseteq l.hidden \/ 0 \in {l.area[1], l.area[2]}
Splits(l) == IF Empty(l) THEN {} ELSE {0} \cup {n.id : n \in Columns(l)}

Rect(x, y, w, h) == [x |-> x, y |-> y, w |-> w, h |-> h]
Before(split, k) == Total(SubSeq(split.ext, 1, k - 1))
\* The rectangle of each placed panel.
Placed(l) ==
  IF Empty(l) THEN {}
  ELSE LET root == Root(l) IN
       UNION {LET n == root.kept[k]
                  x == Before(root, k)
                  w == root.ext[k]
                  column == Column(l, n)
              IN  IF n.kids = <<>> THEN {<<n.id, Rect(x, 0, w, l.area[2])>>}
                  ELSE {<<column.kept[j].id, Rect(x, Before(column, j), w, column.ext[j])>> :
                        j \in DOMAIN column.kept}
              : k \in DOMAIN root.kept}

Squeezed(split) == Elems(split.dropped) \cup {split.kept[k] : k \in {k \in DOMAIN split.kept :
                                                                      split.ext[k] < split.mins[k]}}
TooSmall(l) ==
  (IF Empty(l) THEN Panels
   ELSE UNION {PanelsOf(n) : n \in UNION {Squeezed(SplitOf(l, s)) : s \in Splits(l)}}) \ l.hidden

Seams(l) == UNION {LET split == SplitOf(l, s) IN
                     {<<s, k>> : k \in {k \in 2 .. Len(split.ext) : split.ext[k] > 0}}
                   : s \in Splits(l)}

\* drag_seam: every flexible member gets the weight of the extent it has, the two at the
\* seam what the drag leaves them.
Target(split, k, delta) ==
  Within(split.ext[k - 1] + delta, split.mins[k - 1], split.ext[k - 1] + split.ext[k] - split.mins[k])
Movable(split, k) == split.mins[k - 1] <= split.ext[k - 1] + split.ext[k] - split.mins[k]
\* (mutant) only the two at the seam
ResizedPair(sz, split, ext, k) ==
  LET of(id) == CHOOSE j \in DOMAIN split.kept : split.kept[j].id = id
  IN  [id \in DOMAIN sz |->
         IF id \in {split.kept[j].id : j \in {k - 1, k}}
         THEN [sz[id] EXCEPT !.n = Above(ext[of(id)], 1)] ELSE sz[id]]
Resized(sz, split, ext, k) ==
  LET of(id) == CHOOSE j \in DOMAIN split.kept : split.kept[j].id = id
  IN  [id \in DOMAIN sz |->
         IF id \in {n.id : n \in Elems(split.kept)} /\ (~sz[id].fixed \/ of(id) \in {k - 1, k})
         THEN [sz[id] EXCEPT !.n = Above(ext[of(id)], 1)] ELSE sz[id]]
MovedBy(sz, split, k, moved) ==
  IF moved = 0 THEN sz
  ELSE Resized(sz, split, [split.ext EXCEPT ![k - 1] = @ + moved, ![k] = @ - moved], k)
DraggedIn(sz, split, k, delta) ==
  IF Movable(split, k) THEN MovedBy(sz, split, k, Target(split, k, delta) - split.ext[k - 1]) ELSE sz
Dragged(l, sz, seam, delta) == DraggedIn(sz, SplitOf(l, seam[1]), seam[2], delta)

----------------------------------------------------------------------------
(* Actions. *)

Moving == moves < MaxMoves /\ moves' = moves + 1

Layout(a) == /\ laid' = [size |-> size, hidden |-> hidden, area |-> a] /\ laid' # laid
             /\ UNCHANGED <<size, hidden, moves>>
DragSeam(seam, delta) ==
  /\ Moving /\ size' = Dragged(laid, size, seam, delta) /\ size' # size
  /\ laid' = [size |-> size', hidden |-> hidden, area |-> laid.area]
  /\ UNCHANGED hidden
Toggle(p) == /\ Moving /\ hidden' = IF p \in hidden THEN hidden \ {p} ELSE hidden \cup {p}
             /\ UNCHANGED <<size, laid>>

DockInit == /\ size \in Starts /\ hidden = {} /\ moves = 0
            /\ \E a \in Areas : laid = [size |-> size, hidden |-> {}, area |-> a]
DockNext == \/ \E a \in Areas : Layout(a)
            \/ \E seam \in Seams(laid), d \in (-MaxDrag .. MaxDrag) \ {0} : DragSeam(seam, d)
            \/ \E p \in Panels : Toggle(p)

----------------------------------------------------------------------------
(* Properties. *)

Covers(r, x, y) == r.x <= x /\ x < r.x + r.w /\ r.y <= y /\ y < r.y + r.h
Tiling(l, placed) ==
  /\ ~Empty(l) => \A x \in 0 .. l.area[1] - 1, y \in 0 .. l.area[2] - 1 :
                    Cardinality({p \in placed : Covers(p[2], x, y)}) = 1
  /\ Panels \ l.hidden \subseteq {p[1] : p \in placed} \cup TooSmall(l)
\* "The placed rects always tile the area exactly, whatever the area is": every cell is one
\* panel's.  A panel that is shown is placed or reported as too small.
Tiles == Tiling(laid, Placed(laid))

\* The drag of a seam of split by d, after which the sizes are resized and the split is moved.
Undone(l, seam, split, moved, resized) ==
  Dragged([l EXCEPT !.size = resized], resized, seam, split.ext[seam[2] - 1] - moved.ext[seam[2] - 1])
Reversible(l, placed, seam, d, split, there, moved) ==
  LET k == seam[2] IN
  /\ \A j \in DOMAIN split.ext : j \notin {k - 1, k} => moved.ext[j] = split.ext[j]
  /\ moved.ext[k - 1] = (IF Movable(split, k) THEN Target(split, k, d) ELSE split.ext[k - 1])
  /\ Placed([l EXCEPT !.size = Undone(l, seam, split, moved, there.size)]) = placed
Cancels(l, placed, seam, d, there) ==
  TooSmall(there) = {} =>
    Reversible(l, placed, seam, d, SplitOf(l, seam[1]), there, SplitOf(there, seam[1]))
DragsCancelFrom(l, placed) ==
  \A seam \in Seams(l), d \in (-MaxDrag .. MaxDrag) \ {0} :
    Cancels(l, placed, seam, d, [l EXCEPT !.size = Dragged(l, l.size, seam, d)])
\* Where everything fits, a drag moves one seam and no other panel of its split, keeps the
\* minimums, and the opposite drag puts the layout back.
DragsCancel ==
  laid.size = size /\ laid.hidden = hidden /\ TooSmall(laid) = {} =>
    DragsCancelFrom(laid, Placed(laid))
=============================================================================
