---------------------------- MODULE PixelStream ----------------------------
(***************************************************************************)
(* Lossless canvases: the transport of pixel_stream.rs between the session *)
(* loop and its encoder thread, and the part of the frontend that applies  *)
(* complete frames and patches (canvas_frontend.rs, receive_pixels_exact). *)
(*                                                                         *)
(* The session thread puts updates in a box that keeps the newest of each  *)
(* stream, forwards acknowledgements on a bounded channel that drops what  *)
(* does not fit, and moves the encoder's output to the peer's bounded      *)
(* control channel, which drops too.  The encoder's loop takes the         *)
(* acknowledgements, then the box, then encodes each idle stream: a patch  *)
(* against the last picture it published if the dimensions agree, nothing  *)
(* if the picture is the same, else a complete frame.  Publishing blocks   *)
(* while the output channel is full, until the transport is dropped.       *)
(*                                                                         *)
(* The leased transport (LiveCanvas) runs beside this one, for streams of  *)
(* its own, and shares the frontend's table of layers: it is environment,  *)
(* which takes and frees layers between any two steps.  Its messages and   *)
(* acknowledgements crowd the same channels, which may be full without     *)
(* them.                                                                   *)
(*                                                                         *)
(* The encoder's slots are its own, so a step that publishes waits until   *)
(* it can and is then taken whole.  Pictures are a small set; Dim gives    *)
(* their dimensions, TooBig those whose encoding exceeds MAX_ENCODED.      *)
(* A picture counts one towards the byte budget.                           *)
(***************************************************************************)
EXTENDS Naturals, Sequences, FiniteSets

CONSTANTS Streams, Pictures, Dim, TooBig,
          MaxStreams,             \* MAX_STREAMS
          Budget,                 \* pictures that fit in 256 MiB
          AckCap, OutCap,         \* capacities of the transport's channels
          ControlCap,             \* capacity of the peer's control channel
          None,
          MaxGen, MaxUpdates,     \* bounds on generations and on updates
          MaxLeased               \* bound on the layers of leased streams

VARIABLES made,      \* updates the controller has made
          session,   \* "running", "failed" by an error, or "detached": transport dropped
          active,    \* Transport.active
          box,       \* LiveFrames.updates
          acks,      \* channel of acknowledgements to the encoder
          output,    \* channel of the encoder's output
          pc,        \* the encoder: "acks", "apply", "encode" or "ended"
          batch,     \* drained updates still to apply
          todo,      \* streams still to look at in this round of encoding
          slots, sequence,
          control,   \* the peer's control channel
          replies,   \* CanvasAck messages on their way to the session
          layers,    \* Frontend.layers
          leased,    \* layers of the same table that leased streams ask for
          frontend,  \* "running", or why it failed: "base", "layers", "error"
          retired    \* history: the newest generation whose close the frontend handled

vars == <<made, session, active, box, acks, output, pc, batch, todo, slots, sequence,
          control, replies, layers, leased, frontend, retired>>
sessionVars == <<made, session, active>>
encoderVars == <<pc, batch, todo, slots, sequence>>
frontendVars == <<layers, leased, frontend, retired>>

Gens == 1 .. MaxGen
Update == [kind : {"frame", "close"}, gen : Gens, pic : Pictures \cup {None}]
Base == [seq : Nat, pic : Pictures]
Slot == [gen : Gens, pending : Pictures \cup {None}, flight : Nat \cup {None},
         base : Base \cup {None}, closed : BOOLEAN]
Message == [kind : {"frame"}, stream : Streams, gen : Gens, seq : Nat,
            base : Nat \cup {None}, pic : Pictures]
      \cup [kind : {"close"}, stream : Streams, gen : Gens] \cup [kind : {"error"}]
Ack == [stream : Streams, gen : Gens, seq : Nat]
Layer == [gen : Gens, seq : Nat, pic : Pictures]

PixelStreamAssumption ==
  /\ TooBig \subseteq Pictures /\ None \notin Nat \cup Pictures \cup Base \cup Layer \cup Slot
  /\ MaxStreams \in Nat /\ Budget \in Nat /\ AckCap \in Nat /\ OutCap \in Nat
  /\ ControlCap \in Nat /\ MaxGen \in Nat /\ MaxUpdates \in Nat /\ MaxLeased \in Nat

Present(f) == {s \in Streams : f[s] # None}
Nothing == [s \in Streams |-> None]

Init ==
  /\ made = 0 /\ session = "running" /\ active = {} /\ box = Nothing
  /\ acks = <<>> /\ output = <<>>
  /\ pc = "acks" /\ batch = Nothing /\ todo = {} /\ slots = Nothing /\ sequence = 0
  /\ control = <<>> /\ replies = <<>>
  /\ layers = Nothing /\ leased = 0 /\ frontend = "running" /\ retired = [s \in Streams |-> 0]

-----------------------------------------------------------------------------
(* The session thread: Transport.submit and the box behind it *)

BoxFull(s) == box[s] = None /\ Cardinality(Present(box)) >= MaxStreams

BoxFrames(s) == {t \in Present(box) : t # s /\ box[t].kind = "frame"}

\* A stale frame is dropped without an error, and its stream is active again.
SubmitFrame(s, g, p) ==
  IF \/ (s \notin active /\ Cardinality(active) >= MaxStreams)
     \/ BoxFull(s) \/ Cardinality(BoxFrames(s)) + 1 > Budget
    THEN session' = "failed" /\ UNCHANGED <<active, box>>
    ELSE /\ active' = active \cup {s}
         /\ box' = IF box[s] # None /\ (box[s].gen > g \/ (box[s].kind = "close" /\ box[s].gen = g))
                     THEN box
                     ELSE [box EXCEPT ![s] = [kind |-> "frame", gen |-> g, pic |-> p]]
         /\ session' = session

SubmitClose(s, g) ==
  IF BoxFull(s)
    THEN session' = "failed" /\ UNCHANGED <<active, box>>
    ELSE /\ active' = active \ {s}
         /\ box' = IF box[s] # None /\ box[s].gen > g
                     THEN box
                     ELSE [box EXCEPT ![s] = [kind |-> "close", gen |-> g, pic |-> None]]
         /\ session' = session

Submit(s, g) ==
  /\ session = "running" /\ made < MaxUpdates
  /\ made' = made + 1
  /\ (\E p \in Pictures : SubmitFrame(s, g, p)) \/ SubmitClose(s, g)
  /\ UNCHANGED <<acks, output, encoderVars, control, replies, frontendVars>>

\* Output goes to the control channel, or nowhere when that is full.
Forward ==
  /\ session = "running" /\ output # <<>>
  /\ output' = Tail(output)
  /\ control' = IF Len(control) < ControlCap THEN Append(control, Head(output)) ELSE control
  /\ UNCHANGED <<sessionVars, box, acks, encoderVars, replies, frontendVars>>

\* A CanvasAck is taken while the control channel has room, and passed on if
\* the encoder's channel has.
Acknowledge ==
  /\ session = "running" /\ replies # <<>> /\ Len(control) < ControlCap
  /\ replies' = Tail(replies)
  /\ acks' = IF Len(acks) < AckCap THEN Append(acks, Head(replies)) ELSE acks
  /\ UNCHANGED <<sessionVars, box, output, encoderVars, control, frontendVars>>

\* The peer is gone or makes a new Hello: Transport::drop stops the encoder.
Detach ==
  /\ session = "running"
  /\ session' = "detached"
  /\ UNCHANGED <<made, active, box, acks, output, encoderVars, control, replies, frontendVars>>

Stopped == session # "running"

-----------------------------------------------------------------------------
(* The encoder thread *)

\* (mutant) publish looks at nothing but its channel.
PublishBlindly(m) == Len(output) < OutCap /\ output' = Append(output, m) /\ pc' = pc

\* publish waits for room; it gives up, and the thread with it, once the
\* transport is dropped.
Publish(m) ==
  \/ Stopped /\ output' = output /\ pc' = "ended"
  \/ ~Stopped /\ Len(output) < OutCap /\ output' = Append(output, m) /\ pc' = pc

\* The top of the loop, where a dropped transport ends the thread.
Stop ==
  /\ pc = "acks" /\ Stopped
  /\ pc' = "ended"
  /\ UNCHANGED <<sessionVars, box, acks, output, batch, todo, slots, sequence, control,
                 replies, frontendVars>>

\* (mutant) Any acknowledgement of the stream ends its flight.
ReleasedByStream(a) ==
  IF slots[a.stream] # None THEN [slots EXCEPT ![a.stream].flight = None] ELSE slots

\* (mutant) An acknowledgement counts only while no newer picture waits.
ReleasedIfIdle(a) ==
  IF slots[a.stream] # None /\ slots[a.stream].gen = a.gen /\ slots[a.stream].pending = None
    THEN [slots EXCEPT ![a.stream].flight = None] ELSE slots

Released(a) ==
  IF slots[a.stream] # None /\ slots[a.stream].gen = a.gen /\ slots[a.stream].flight = a.seq
    THEN [slots EXCEPT ![a.stream].flight = None] ELSE slots

TakeAck ==
  /\ pc = "acks" /\ acks # <<>>
  /\ acks' = Tail(acks)
  /\ slots' = Released(Head(acks))
  /\ UNCHANGED <<sessionVars, box, output, pc, batch, todo, sequence, control, replies,
                 frontendVars>>

Drain ==
  /\ pc = "acks" /\ acks = <<>> /\ ~Stopped
  /\ batch' = box /\ box' = Nothing
  /\ pc' = "apply"
  /\ UNCHANGED <<sessionVars, acks, output, todo, slots, sequence, control, replies,
                 frontendVars>>

ClosedSlot(g) ==
  [gen |-> g, pending |-> None, flight |-> None, base |-> None, closed |-> TRUE]

\* (mutant) A close stays with the encoder.
CloseSilently(s, u) ==
  /\ u.kind = "close"
  /\ slots' = IF slots[s] # None /\ slots[s].gen > u.gen
                THEN slots ELSE [slots EXCEPT ![s] = ClosedSlot(u.gen)]
  /\ UNCHANGED <<output, pc>>

\* A close is passed on unless the stream is at a newer generation.
ApplyClose(s, u) ==
  /\ u.kind = "close"
  /\ IF slots[s] # None /\ slots[s].gen > u.gen
       THEN UNCHANGED <<slots, output, pc>>
       ELSE /\ slots' = [slots EXCEPT ![s] = ClosedSlot(u.gen)]
            /\ Publish([kind |-> "close", stream |-> s, gen |-> u.gen])

Retired(s, u) ==
  slots[s] # None /\ (slots[s].gen > u.gen \/ (slots[s].gen = u.gen /\ slots[s].closed))

\* A new stream makes the encoder forget the closed ones.
Retained(s) ==
  IF slots[s] # None THEN slots
  ELSE [t \in Streams |-> IF slots[t] # None /\ slots[t].closed THEN None ELSE slots[t]]

HasSlot(kept, s) == kept[s] # None \/ Cardinality(Present(kept)) < MaxStreams

\* (mutant) Pictures kept as bases are not counted.
PendingOnly(kept, s) == Cardinality({t \in Present(kept) : t # s /\ kept[t].pending # None}) + 1

\* Pictures kept as bases, pending on other streams, and the new one.
Held(kept, s) ==
  Cardinality({t \in Present(kept) : kept[t].base # None})
    + Cardinality({t \in Present(kept) : t # s /\ kept[t].pending # None}) + 1

\* (mutant) A new generation keeps the picture of the last one.
KeepBase(s, u, old) ==
  IF old # None THEN [old EXCEPT !.gen = u.gen, !.pending = u.pic, !.flight = None, !.closed = FALSE]
  ELSE [gen |-> u.gen, pending |-> u.pic, flight |-> None, base |-> None, closed |-> FALSE]

\* A new generation starts without flight, base or closing.
Renewed(s, u, old) ==
  IF old # None /\ old.gen = u.gen
    THEN [old EXCEPT !.pending = u.pic]
    ELSE [gen |-> u.gen, pending |-> u.pic, flight |-> None, base |-> None, closed |-> FALSE]

ApplyFrame(s, u) ==
  /\ u.kind = "frame"
  /\ IF Retired(s, u) THEN UNCHANGED <<slots, output, pc>>
     ELSE LET kept == Retained(s)
          IN  IF HasSlot(kept, s) /\ Held(kept, s) <= Budget
                THEN /\ slots' = [kept EXCEPT ![s] = Renewed(s, u, kept[s])]
                     /\ UNCHANGED <<output, pc>>
                ELSE slots' = kept /\ Publish([kind |-> "error"])

Apply(s) ==
  /\ pc = "apply" /\ batch[s] # None
  /\ ApplyClose(s, batch[s]) \/ ApplyFrame(s, batch[s])
  /\ batch' = [batch EXCEPT ![s] = None]
  /\ UNCHANGED <<sessionVars, box, acks, todo, sequence, control, replies, frontendVars>>

Applied ==
  /\ pc = "apply" /\ batch = Nothing
  /\ pc' = "encode" /\ todo' = Present(slots)
  /\ UNCHANGED <<sessionVars, box, acks, output, batch, slots, sequence, control, replies,
                 frontendVars>>

\* The base a picture is encoded against: one of its own dimensions.
Against(base, p) == IF base # None /\ Dim[base.pic] = Dim[p] THEN base ELSE None

\* encode: nothing to send, a failure, or a message that becomes the next base.
Encode(s) ==
  /\ pc = "encode" /\ s \in todo
  /\ todo' = todo \ {s}
  /\ LET slot == slots[s]
         p == slot.pending
         idle == slot.flight = None /\ p # None
         old == Against(slot.base, p)
     IN  \/ ~idle /\ UNCHANGED <<slots, sequence, output, pc>>
         \/ /\ idle /\ sequence' = sequence + 1
            /\ \/ /\ old # None /\ old.pic = p
                  /\ slots' = [slots EXCEPT ![s].pending = None] /\ UNCHANGED <<output, pc>>
               \/ /\ p \in TooBig /\ (old # None => old.pic # p)
                  /\ slots' = [slots EXCEPT ![s].pending = None]
                  /\ Publish([kind |-> "error"])
               \/ /\ p \notin TooBig /\ (old # None => old.pic # p)
                  /\ slots' = [slots EXCEPT ![s] =
                       [@ EXCEPT !.pending = None, !.flight = sequence',
                                 !.base = [seq |-> sequence', pic |-> p]]]
                  /\ Publish([kind |-> "frame", stream |-> s, gen |-> slot.gen,
                              seq |-> sequence', pic |-> p,
                              base |-> IF old = None THEN None ELSE old.seq])
  /\ UNCHANGED <<sessionVars, box, acks, batch, control, replies, frontendVars>>

\* A short sleep, then the loop starts over.
Encoded ==
  /\ pc = "encode" /\ todo = {}
  /\ pc' = "acks"
  /\ UNCHANGED <<sessionVars, box, acks, output, batch, todo, slots, sequence, control,
                 replies, frontendVars>>

-----------------------------------------------------------------------------
(* The frontend: receive_pixels_exact and close *)

Older(s, g) == layers[s] # None /\ layers[s].gen > g

Complete(d) ==
  /\ d.base = None
  /\ layers' = [layers EXCEPT ![d.stream] = [gen |-> d.gen, seq |-> d.seq, pic |-> d.pic]]

\* A patch needs the layer it was made against.
BaseShown(d) ==
  /\ layers[d.stream] # None
  /\ layers[d.stream].gen = d.gen /\ layers[d.stream].seq = d.base
  /\ Dim[layers[d.stream].pic] = Dim[d.pic]

Patch(d) ==
  /\ d.base # None /\ BaseShown(d)
  /\ layers' = [layers EXCEPT ![d.stream].seq = d.seq, ![d.stream].pic = d.pic]

TableFull == Cardinality(Present(layers)) + leased >= MaxStreams

NoLayer(d) == layers[d.stream] = None /\ TableFull

ReceiveFrame(d) ==
  /\ d.kind = "frame"
  /\ \/ Older(d.stream, d.gen) /\ UNCHANGED <<layers, frontend>>
     \/ /\ ~Older(d.stream, d.gen) /\ NoLayer(d)
        /\ frontend' = "layers" /\ layers' = layers
     \/ /\ ~Older(d.stream, d.gen) /\ ~NoLayer(d)
        /\ Complete(d) \/ Patch(d)
        /\ frontend' = frontend
     \/ /\ ~Older(d.stream, d.gen) /\ ~NoLayer(d) /\ d.base # None /\ ~BaseShown(d)
        /\ frontend' = "base" /\ layers' = layers
  /\ replies' = IF frontend' = "running"
                  THEN Append(replies, [stream |-> d.stream, gen |-> d.gen, seq |-> d.seq])
                  ELSE replies
  /\ UNCHANGED <<leased, retired>>

ReceiveClose(d) ==
  /\ d.kind = "close"
  /\ layers' = IF Older(d.stream, d.gen) THEN layers ELSE [layers EXCEPT ![d.stream] = None]
  /\ retired' = [retired EXCEPT ![d.stream] = IF @ < d.gen THEN d.gen ELSE @]
  /\ UNCHANGED <<replies, leased, frontend>>

\* ServerMessage::Error ends the frontend.
ReceiveError(d) ==
  d.kind = "error" /\ frontend' = "error" /\ UNCHANGED <<replies, layers, leased, retired>>

Receive ==
  /\ frontend = "running" /\ session = "running" /\ control # <<>>
  /\ control' = Tail(control)
  /\ ReceiveFrame(Head(control)) \/ ReceiveClose(Head(control)) \/ ReceiveError(Head(control))
  /\ UNCHANGED <<sessionVars, box, acks, output, encoderVars>>

\* The first frame of a leased stream, or its close.
ReceiveLeased ==
  /\ frontend = "running" /\ session = "running"
  /\ \/ /\ leased < MaxLeased /\ leased' = leased + 1
        /\ frontend' = IF TableFull THEN "layers" ELSE frontend
     \/ leased > 0 /\ leased' = leased - 1 /\ frontend' = frontend
  /\ UNCHANGED <<sessionVars, box, acks, output, encoderVars, control, replies, layers, retired>>

-----------------------------------------------------------------------------
Next ==
  \/ \E s \in Streams, g \in Gens : Submit(s, g)
  \/ Forward \/ Acknowledge \/ Detach
  \/ Stop \/ TakeAck \/ Drain \/ Applied \/ Encoded
  \/ \E s \in Streams : Apply(s) \/ Encode(s)
  \/ Receive \/ ReceiveLeased

Spec == Init /\ [][Next]_vars

\* The session loop forwards and acknowledges on every turn, the encoder never
\* stops by itself, a frontend loop reads what arrives.
Encoder ==
  Stop \/ TakeAck \/ Drain \/ Applied \/ Encoded
    \/ \E s \in Streams : Apply(s) \/ Encode(s)

FairSpec ==
  /\ Spec
  /\ WF_vars(Forward) /\ WF_vars(Acknowledge) /\ WF_vars(Encoder) /\ WF_vars(Receive)

-----------------------------------------------------------------------------
(* Properties *)

\* Type invariant; it bounds the three channels.
TypeOK ==
  /\ made \in 0 .. MaxUpdates /\ session \in {"running", "failed", "detached"}
  /\ active \subseteq Streams /\ box \in [Streams -> Update \cup {None}]
  /\ acks \in Seq(Ack) /\ Len(acks) <= AckCap
  /\ output \in Seq(Message) /\ Len(output) <= OutCap
  /\ pc \in {"acks", "apply", "encode", "ended"}
  /\ batch \in [Streams -> Update \cup {None}] /\ todo \subseteq Streams
  /\ slots \in [Streams -> Slot \cup {None}] /\ sequence \in Nat
  /\ control \in Seq(Message) /\ Len(control) <= ControlCap
  /\ replies \in Seq(Ack)
  /\ layers \in [Streams -> Layer \cup {None}] /\ leased \in Nat
  /\ frontend \in {"running", "base", "layers", "error"} /\ retired \in [Streams -> Nat]

\* Every patch finds the layer it was made against, whatever the control channel
\* drops and whenever generations change: "Lossless patch base is missing"
\* (canvas_frontend.rs:83) never ends the frontend.
PatchesFit == frontend # "base"

\* Lossless: when the encoder has nothing in flight on an open stream, the
\* frontend shows exactly the picture the next patch is made against, unless its
\* layer is of a newer generation.
AckedInSync ==
  \A s \in Streams :
    (slots[s] # None /\ ~slots[s].closed /\ slots[s].flight = None /\ slots[s].base # None) =>
      /\ layers[s] # None /\ layers[s].gen >= slots[s].gen
      /\ layers[s].gen = slots[s].gen =>
           layers[s].seq = slots[s].base.seq /\ layers[s].pic = slots[s].base.pic

\* The pictures the encoder holds, as bases and pending, fit its byte budget.
MemoryBound ==
  Cardinality({s \in Present(slots) : slots[s].base # None})
    + Cardinality({s \in Present(slots) : slots[s].pending # None}) <= Budget

\* Lossless pictures within their budget, messages within their channels; a patch meets
\* the picture it was made against.
PixelsInSync == TypeOK /\ PatchesFit /\ AckedInSync /\ MemoryBound

\* While the control channel drops nothing, the frontend never holds more layers
\* than it may, unless leased streams have taken or ask for some.
LayersFit == frontend = "layers" => leased > 0

\* "A close retires its generation; reopening requires a higher one"
\* (README.md:161).  Opening a stream when every slot is taken breaks it (README.md of this
\* model, section 3).
RetiredStaysRetired ==
  \A s \in Streams : layers[s] # None => layers[s].gen > retired[s]

\* Every stream comes to rest with its newest picture delivered and acknowledged.
Settles ==
  <>[](session = "running" /\ frontend = "running" =>
         /\ box = Nothing /\ output = <<>> /\ control = <<>>
         /\ \A s \in Present(slots) : slots[s].pending = None /\ slots[s].flight = None)

\* Dropping the transport ends the encoder, even one that waits for room.
StopEndsEncoder == Stopped ~> pc = "ended"
=============================================================================
