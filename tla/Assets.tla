------------------------------- MODULE Assets -------------------------------
(***************************************************************************)
(* Pictures of a scene.  The session sends the bytes of a picture once, as *)
(* a control, and leaves them out of the scenes (Peer::scene in            *)
(* session.rs); the frontend keeps them in FrontendAssets (assets.rs) and  *)
(* puts them back into each scene it takes (hydrate).  Skins are kept for  *)
(* the life of the session, previews are forgotten in bulk: the session    *)
(* forgets which it has sent when it holds more than Keep of them, the     *)
(* frontend drops them all when it is to add one to more than Keep.  The   *)
(* two never talk about it.                                                *)
(*                                                                         *)
(* Controls and scenes travel apart, scenes newest only (see               *)
(* Presentation).  A scene is the set of its pictures; the application     *)
(* shows at most Keep previews at once, which is what the painter takes.   *)
(***************************************************************************)
EXTENDS Naturals, Sequences, SequencesExt, FiniteSets

CONSTANTS Skins, Previews, NoScene,
          Keep,         \* 8
          SkinCount,    \* SKIN_COUNT (512)
          AssetRoom,    \* capacity of the control channel (64)
          MaxScenes, MaxAttachments

AssetsAssumption ==
  /\ Keep \in Nat \ {0} /\ SkinCount \in Nat \ {0} /\ AssetRoom \in Nat \ {0}
  /\ MaxScenes \in Nat /\ MaxAttachments \in Nat
  /\ IsFiniteSet(Skins) /\ IsFiniteSet(Previews) /\ Skins \cap Previews = {}

VARIABLES shown,     \* the application's scene: its number and its pictures
          sent,      \* Peer.assets: the pictures the session believes are there
          painted,   \* number of the last scene it has handed over
          wires,     \* control: pictures on their way; slot: the newest scene
          kept,     \* FrontendAssets
          view,      \* the frontend's scene, with the pictures it has bytes for
          attachments

assetVars == <<shown, sent, painted, wires, kept, view, attachments>>

Pictures == Skins \cup Previews
Scenes == {S \in SUBSET Pictures : Cardinality(S \cap Previews) <= Keep}

----------------------------------------------------------------------------
(* The session. *)

Change == /\ shown.number < MaxScenes
          /\ \E S \in Scenes \ {shown.pictures} :
               shown' = [number |-> shown.number + 1, pictures |-> S]
          /\ UNCHANGED <<sent, painted, wires, kept, view, attachments>>

\* Too many previews: forget them all, and send again those of this scene.
Overflows(n) == n > Keep
Remembered == IF Overflows(Cardinality(sent \cap Previews)) THEN sent \cap Skins ELSE sent

\* Peer::scene: each picture that is not there is sent ahead of the scene, until the
\* channel is full or a skin exceeds the count; then the scene is refused and tried
\* again, and what has gone stays recorded.
\* (mutant) a picture that found no room counts as sent
SentAnyway(order, n) == Remembered \cup ToSet(order)
SentNow(order, n) == Remembered \cup ToSet(SubSeq(order, 1, n))

Paint ==
  /\ painted < shown.number
  /\ LET need == shown.pictures \ Remembered
         room == AssetRoom - Len(wires.control)
     IN  \E order \in SetToSeqs(need) :
           LET fits == {n \in 0 .. Len(order) :
                          /\ n <= room
                          /\ \A k \in 1 .. n : order[k] \in Skins =>
                               Cardinality(SentNow(order, k - 1) \cap Skins) < SkinCount}
               n == CHOOSE m \in fits : \A k \in fits : k <= m
               done == n = Len(order)
           IN  /\ sent' = SentNow(order, n)
               /\ wires' = [control |-> wires.control \o SubSeq(order, 1, n),
                            slot |-> IF done THEN shown ELSE wires.slot]
               /\ painted' = IF done THEN shown.number ELSE painted
  /\ UNCHANGED <<shown, kept, view, attachments>>

----------------------------------------------------------------------------
(* The frontend. *)

\* FrontendAssets::insert, and hydrate on the scene at hand.
Kept(a) == (IF a \in Previews /\ Cardinality(kept \cap Previews) > Keep
            THEN kept \cap Skins ELSE kept) \cup {a}

Insert ==
  /\ wires.control # <<>>
  /\ LET a == Head(wires.control) IN
       /\ kept' = Kept(a)
       /\ view' = [view EXCEPT !.filled = @ \cup (kept' \cap view.pictures)]
  /\ wires' = [wires EXCEPT !.control = Tail(@)]
  /\ UNCHANGED <<shown, sent, painted, attachments>>

\* A scene behind its controls: hydrate.  The frontend reads controls and scenes from
\* two channels; a scene may be taken before a picture that was written ahead of it.
TakeScene ==
  /\ wires.slot # NoScene
  /\ view' = [number |-> wires.slot.number, pictures |-> wires.slot.pictures,
              filled |-> kept \cap wires.slot.pictures]
  /\ wires' = [wires EXCEPT !.slot = NoScene]
  /\ UNCHANGED <<shown, sent, painted, kept, attachments>>

\* A new attachment: the session believes nothing is there, the frontend keeps what it
\* has, unless the session is another one (its epoch changed).
Reattach ==
  /\ attachments < MaxAttachments /\ attachments' = attachments + 1
  /\ sent' = {} /\ painted' = 0 /\ wires' = [control |-> <<>>, slot |-> NoScene]
  /\ kept' \in {kept, {}}
  /\ view' = [number |-> 0, pictures |-> {}, filled |-> {}]
  /\ UNCHANGED shown

----------------------------------------------------------------------------
AssetInit ==
  /\ shown = [number |-> 1, pictures |-> {}]
  /\ sent = {} /\ painted = 0 /\ kept = {} /\ attachments = 1
  /\ wires = [control |-> <<>>, slot |-> NoScene]
  /\ view = [number |-> 0, pictures |-> {}, filled |-> {}]

AssetNext == Change \/ Paint \/ Insert \/ TakeScene \/ Reattach

----------------------------------------------------------------------------
(* Properties. *)

Settled == wires.control = <<>> /\ wires.slot = NoScene /\ painted = shown.number

\* Whatever order controls and scenes arrive in, a skin of the scene on screen is
\* there once its control has been read: skins survive the churn of previews.
SkinsStay == Settled => view.pictures \cap Skins \subseteq view.filled

\* "Reliable assets are cached independently of the replaceable scene queue": the
\* scene on screen has all its pictures.  Two scenes of many previews break it (README.md of
\* this model, section 3).
SceneComplete == Settled => view.pictures = view.filled
=============================================================================
