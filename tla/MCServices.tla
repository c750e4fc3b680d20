----------------------------- MODULE MCServices -----------------------------
(* A session's connections (Attachment), the pictures of its scenes (Assets), the        *)
(* updates of the program (Update), and what arranges its panels and panes (L, N, F).    *)
(* They share no state: part picks the one that moves, the others stay as they are.      *)
EXTENDS Update, Attachment, Assets, TLC

CONSTANTS Active,
          Row, Starts, Areas, MaxDrag, MaxMoves,
          Trees, Viewports, MaxChoices,
          PaneCount, Direct, Never, MaxScopes

VARIABLES part,
          size, hidden, laid, moves,
          tree, user, area, choices,
          frame, requested, active, scopes, before

dockVars == <<size, hidden, laid, moves>>
paneVars == <<tree, user, area, choices>>
focusVars == <<frame, requested, active, scopes, before>>
layoutVars == <<dockVars, paneVars, focusVars>>

L == INSTANCE Dock
N == INSTANCE Panes
F == INSTANCE Focus

ASSUME ServicesAssumption ==
  /\ AttachmentAssumption /\ AssetsAssumption
  /\ L!DockAssumption /\ N!PanesAssumption /\ F!FocusAssumption

Idle == <<>>
Start == /\ part \in Active /\ Init /\ AttInit /\ AssetInit
         /\ IF part = "dock" THEN L!DockInit
            ELSE size = Idle /\ hidden = Idle /\ laid = Idle /\ moves = Idle
         /\ IF part = "panes" THEN N!PanesInit
            ELSE tree = Idle /\ user = Idle /\ area = Idle /\ choices = Idle
         /\ IF part = "focus" THEN F!FocusInit
            ELSE frame = Idle /\ requested = Idle /\ active = Idle /\ scopes = Idle /\ before = Idle

Turn ==
  /\ part' = part
  /\ \/ part = "update" /\ Next /\ UNCHANGED <<attVars, assetVars, layoutVars>>
     \/ part = "attachment" /\ AttNext /\ UNCHANGED <<vars, assetVars, layoutVars>>
     \/ part = "assets" /\ AssetNext /\ UNCHANGED <<vars, attVars, layoutVars>>
     \/ part = "dock" /\ L!DockNext /\ UNCHANGED <<vars, attVars, assetVars, paneVars, focusVars>>
     \/ part = "panes" /\ N!PanesNext /\ UNCHANGED <<vars, attVars, assetVars, dockVars, focusVars>>
     \/ part = "focus" /\ F!FocusNext /\ UNCHANGED <<vars, attVars, assetVars, dockVars, paneVars>>

Services == Start /\ [][Turn]_<<part, vars, attVars, assetVars, layoutVars>>

(* The properties of the instances under names of this module. *)
\* Docked panels tile their area and a drag back restores them; panes neither overlap nor
\* leave their area; focus is on what can have it, and returns from a modal.
FramesKept ==
  /\ part = "dock" => L!Tiles /\ L!DragsCancel
  /\ part = "panes" => N!FramesSound
  /\ part = "focus" => F!FocusKept

(* The processes that update are alike. *)
Alike == Permutations(Procs)

(* A dock: two panels and a column of two between them. *)
Leaf(id, min) == [id |-> id, min |-> min, kids |-> <<>>]
ARow == <<Leaf(1, 1), [id |-> 5, min |-> 0, kids |-> <<Leaf(2, 2), Leaf(3, 1)>>], Leaf(4, 2)>>
Wants(fixed, n) == [fixed |-> fixed, n |-> n]
SomeStarts ==
  {[n \in 1 .. 5 |-> IF n = 2 THEN Wants(TRUE, 1) ELSE IF n = 3 THEN Wants(FALSE, 3) ELSE f[n]] :
     f \in [{1, 4, 5} -> {Wants(TRUE, 2), Wants(FALSE, 2)}]}
SomeAreas == {<<5, 3>>, <<9, 5>>, <<3, 2>>}

(* Rows of three of five kinds of pane. *)
Bound(min, pref, max, grow) == [min |-> min, pref |-> pref, max |-> max, grow |-> grow]
Pane(w, h, priority, overflow, wide) ==
  [w |-> w, h |-> h, cw |-> Bound(1, 1, 9, 1), ch |-> Bound(1, 1, 1, 0), priority |-> priority,
   overflow |-> overflow, view |-> wide]
Kinds == {Pane(Bound(2, 3, 4, 1), Bound(1, 1, 2, 1), 1, "keep", 0),
          Pane(Bound(1, 2, 9, 2), Bound(2, 2, 2, 0), 0, "keep", 0),
          Pane(Bound(2, 2, 3, 0), Bound(2, 2, 3, 1), 0, "hide", 0),
          Pane(Bound(1, 3, 3, 0), Bound(2, 3, 3, 1), 2, "collapse", 0),
          Pane(Bound(2, 2, 9, 1), Bound(2, 2, 9, 1), 2, "hide", 4)}
Rows(kinds) == {[panes |-> p, gap |-> g, wrap |-> w] :
                  p \in kinds \X kinds \X kinds, g \in {0, 1}, w \in BOOLEAN}
SomeTrees == Rows(Kinds)
SomeViewports == {2, 5, 8} \X {1, 3, 5}
=============================================================================
