---------------------------- MODULE MCCanvases ----------------------------
(* A session drives leased frames (LiveCanvas) and, for a frontend that    *)
(* takes lossless frames too, the pixel stream (PixelStream) in the same   *)
(* attachment, each stream by one of them.  What they share is the         *)
(* frontend's table of layers and the room of the control channel, and     *)
(* each module has the other transport in its environment.  So part picks  *)
(* the one that is followed in full; the variables of the other stay in    *)
(* their initial state, and what it does to the shared table and channel   *)
(* are steps of the first.  The names of LiveCanvas are used as they are,  *)
(* those of PixelStream carry the prefix p.                                *)
EXTENDS LiveCanvas

CONSTANTS Parts,
          dark, light, large,       \* large has other dimensions than dark and light
          Pictures, TooBig, AckCap, OutCap,
          PMaxStreams, PBudget, PControlCap, PMaxUpdates, MaxLeased

VARIABLES part,
          pMade, pSession, active, box, pAcks, output, pc, batch, todo, pSlots,
          pSequence, pControl, replies, pLayers, leased, pFrontend, pRetired

pVars == <<pMade, pSession, active, box, pAcks, output, pc, batch, todo, pSlots,
           pSequence, pControl, replies, pLayers, leased, pFrontend, pRetired>>

MCSize == [s \in Streams |-> 1]

P == INSTANCE PixelStream WITH
       Dim <- [x \in Pictures |-> IF x = large THEN 2 ELSE 1],
       MaxStreams <- PMaxStreams, Budget <- PBudget, ControlCap <- PControlCap,
       MaxUpdates <- PMaxUpdates, made <- pMade, session <- pSession, acks <- pAcks,
       slots <- pSlots, sequence <- pSequence, control <- pControl, layers <- pLayers,
       frontend <- pFrontend, retired <- pRetired

Start == part \in Parts /\ Init /\ P!Init

Turn ==
  /\ part' = part
  /\ \/ part = "leases" /\ Next /\ UNCHANGED pVars
     \/ part = "pixels" /\ P!Next /\ UNCHANGED vars

canvasVars == <<part, vars, pVars>>

Canvases == Start /\ [][Turn]_canvasVars

\* The fairness of LiveCanvas and of PixelStream; the one that is not picked has
\* nothing enabled.
Fair ==
  /\ \A s \in Streams : WF_vars(SubmitUpdate(s)) /\ WF_vars(Flush(s))
  /\ WF_vars(Acknowledge) /\ WF_vars(Receive)
  /\ WF_pVars(part = "pixels" /\ P!Forward) /\ WF_pVars(part = "pixels" /\ P!Acknowledge)
  /\ WF_pVars(part = "pixels" /\ P!Encoder) /\ WF_pVars(part = "pixels" /\ P!Receive)

Progress == Canvases /\ Fair

ASSUME CanvasesAssumption == P!PixelStreamAssumption

\* The properties of PixelStream under names of this module.
\* Lossless pictures within their budget; a patch meets the picture it was made against.
PixelsInSync == P!PixelsInSync
LayersFit == P!LayersFit
\* Leased and lossless frames settle.
FramesSettle == LeasesSettle /\ P!Settles
StopEndsEncoder == P!StopEndsEncoder
=============================================================================
