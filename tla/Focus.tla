-------------------------------- MODULE Focus --------------------------------
(***************************************************************************)
(* Focus among responsive panes (Focus of panes.rs), as the replay of      *)
(* diagnostics.rs drives it: an action of the user on the panes of the     *)
(* present frame, then a reconciliation with that frame.  A frame is the   *)
(* set of panes that are shown; Panes says how one comes about.            *)
(***************************************************************************)
EXTENDS Naturals, Sequences, FiniteSets

CONSTANTS Nobody,
          PaneCount,     \* panes, in the order of the tree
          Direct,    \* panes that the Tab key passes by
          Never,     \* panes that never have the focus
          MaxScopes  \* 32

VARIABLES frame, requested, active,
          scopes,  \* modal scopes: order, and the focus before
          before   \* for a property: frame and focus when the outermost scope opened

focusVars == <<frame, requested, active, scopes, before>>

Panes == 1 .. PaneCount
FocusAssumption == /\ PaneCount \in Nat \ {0} /\ Direct \cup Never \subseteq Panes /\ MaxScopes \in Nat
                   /\ Nobody \notin Panes

CanFocus(f) == f \ Never
Elems(s) == {s[i] : i \in DOMAIN s}
\* The panes of a frame that the Tab key goes through.
Cycle(f) == SelectSeq([i \in Panes |-> i], LAMBDA p : p \in f \ (Direct \cup Never))
Top == scopes[Len(scopes)]
NoneBefore == [frame |-> {}, active |-> Nobody]

Reconciled(wanted, has, f) ==
  IF wanted \in CanFocus(f) THEN wanted
  ELSE IF has \in CanFocus(f) THEN has
  ELSE IF Cycle(f) # <<>> THEN Cycle(f)[1] ELSE Nobody

----------------------------------------------------------------------------
(* Actions, with the reconciliation that follows each. *)

Resize(f) ==
  /\ f # frame /\ frame' = f
  /\ active' = IF scopes = <<>> THEN Reconciled(requested, active, f) ELSE active
  /\ UNCHANGED <<requested, scopes, before>>

\* (mutant) the request is noted for later
RequestNoted(p) ==
  /\ IF scopes = <<>>
     THEN requested' = p /\ active' = Reconciled(p, p, frame)
     ELSE requested' = p /\ active' = IF p \in Elems(Top.order) THEN p ELSE active
  /\ UNCHANGED <<frame, scopes, before>>
Request(p) ==
  /\ IF scopes = <<>>
     THEN requested' = p /\ active' = Reconciled(p, p, frame)
     ELSE requested' = requested /\ active' = IF p \in Elems(Top.order) THEN p ELSE active
  /\ UNCHANGED <<frame, scopes, before>>

Order == IF scopes = <<>> THEN Cycle(frame) ELSE Top.order
Neighbour(forward) ==
  LET n  == Len(Order)
      at == {k \in 1 .. n : Order[k] = active}
  IN  IF at = {} THEN IF forward THEN Order[1] ELSE Order[n]
      ELSE LET i == CHOOSE k \in at : \A j \in at : k <= j
           IN  Order[((i + (IF forward THEN 0 ELSE n - 2)) % n) + 1]
Step(forward) ==
  /\ IF Order = <<>>
     THEN UNCHANGED requested /\ active' = Reconciled(requested, Nobody, frame)
     ELSE /\ active' = Neighbour(forward)
          /\ requested' = IF scopes = <<>> THEN active' ELSE requested
  /\ UNCHANGED <<frame, scopes, before>>

OpenModal(order) ==
  /\ Len(scopes) < MaxScopes /\ Elems(order) \subseteq CanFocus(frame)
  /\ scopes' = Append(scopes, [order |-> order, previous |-> active])
  /\ active' = order[1]
  /\ before' = IF scopes = <<>> THEN [frame |-> frame, active |-> active] ELSE before
  /\ UNCHANGED <<frame, requested>>
CloseModal ==
  /\ scopes # <<>>
  /\ scopes' = SubSeq(scopes, 1, Len(scopes) - 1)
  /\ active' = IF Len(scopes) = 1 THEN Reconciled(requested, Top.previous, frame) ELSE Top.previous
  /\ before' = IF Len(scopes) = 1 THEN NoneBefore ELSE before
  /\ UNCHANGED <<frame, requested>>

FocusInit == /\ frame \in SUBSET Panes /\ requested \in Panes \cup {Nobody} /\ scopes = <<>>
             /\ active = Reconciled(requested, requested, frame)
             /\ before = NoneBefore
FocusNext == \/ \E f \in SUBSET Panes : Resize(f)
             \/ \E p \in Panes : Request(p)
             \/ \E forward \in BOOLEAN : Step(forward)
             \/ \E p, q \in Panes : p <= q /\ OpenModal(IF p = q THEN <<p>> ELSE <<p, q>>)
             \/ CloseModal

----------------------------------------------------------------------------
(* Properties. *)

\* "Modal scopes trap traversal and background focus requests until popped, then restore
\* the previous scope or visible pane": the focus is in the innermost scope; without one it
\* is on a pane that may have it; and closing all of them gives it back to the pane that
\* had it, if the frame is the one that it had it in.
FocusKept ==
  /\ scopes # <<>> => active \in Elems(Top.order)
  /\ scopes = <<>> => active \in CanFocus(frame) \cup {Nobody}
  /\ scopes # <<>> => Reconciled(requested, scopes[1].previous, before.frame) = before.active
=============================================================================
