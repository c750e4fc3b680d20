----------------------------- MODULE LiveCanvas -----------------------------
(***************************************************************************)
(* Live canvases between a session and its frontend: the producers' box of *)
(* newest updates (LiveFrames), the lease transport of the session         *)
(* (live_canvas.rs, Transport), the part of the session loop that drives   *)
(* it (session.rs) and the frontend's layers (canvas_frontend.rs, with the *)
(* acknowledgements client.rs sends).                                      *)
(*                                                                         *)
(* Producers call LiveFrames from any thread.  The session thread hands    *)
(* every drained update to the transport, flushes the streams that have no *)
(* frame in flight, and posts descriptors and closes on a bounded control  *)
(* channel whose refusals it ignores.  The frontend reads that channel in  *)
(* order, keeps one layer per stream and acknowledges each frame.  A frame *)
(* is a stream, a generation and the number of the submission; its pixels, *)
(* stride and format are left out, its size in bytes is Size[stream].      *)
(*                                                                         *)
(* A session may drive the lossless transport (PixelStream) beside this    *)
(* one, for streams of its own: both post on the control channel and share *)
(* the frontend's table of layers.  Here it is environment: some of the    *)
(* other controls bring or close a lossless layer.                         *)
(*                                                                         *)
(* One turn of the session loop touches each stream's slot independently,  *)
(* so its work is split into one step per update, per stream flushed and   *)
(* per acknowledgement, in any order.                                      *)
(***************************************************************************)
EXTENDS Naturals, Sequences, FiniteSets, FiniteSetsExt

CONSTANTS Streams,     \* stream names
          Size,        \* bytes of a frame, per stream
          MaxStreams,  \* MAX_STREAMS
          Budget,      \* TOTAL_BYTES
          ControlCap,  \* capacity of the session's control channel
          None,        \* no update, slot, frame or layer
          MaxGen,      \* bound on the generations producers use
          MaxUpdates,  \* bound on the updates producers make
          MaxOther,    \* bound on the other controls the session posts
          MaxAttach    \* bound on attachments

ASSUME LiveCanvasAssumption ==
  /\ Size \in [Streams -> Nat] /\ None \notin Nat
  /\ MaxStreams \in Nat /\ Budget \in Nat /\ ControlCap \in Nat
  /\ MaxGen \in Nat /\ MaxUpdates \in Nat /\ MaxOther \in Nat /\ MaxAttach \in Nat

VARIABLES updates,   \* LiveFrames.updates: stream -> newest update
          made,      \* number of updates producers have made
          session,   \* the serve loop: "running", or "failed" once it returned an error
          mode,      \* how the attached frontend takes frames; None while detached
          attaches,  \* attachments so far
          slots,     \* Transport.slots: stream -> slot
          sequence,  \* Transport.sequence
          control,   \* the session's control channel and the socket behind it
          other,     \* other controls posted so far
          acks,      \* CanvasAck messages on their way to the session
          layers,    \* Frontend.layers: stream -> layer
          beside,    \* layers of the same table that lossless streams ask for
          frontend,  \* the frontend loop: "running", or "failed" once it returned an error
          retired    \* history: the newest generation whose close the frontend has handled

vars == <<updates, made, session, mode, attaches, slots, sequence, control, other,
          acks, layers, beside, frontend, retired>>
producerVars == <<updates, made>>
frontendVars == <<layers, beside, frontend, retired>>

Gens == 1 .. MaxGen
Update == [kind : {"frame", "close"}, gen : Gens, val : 1 .. MaxUpdates]
Slot == [gen : Gens, pending : (1 .. MaxUpdates) \cup {None},
         flight : Nat \cup {None}, closed : BOOLEAN]
Control == [kind : {"frame", "close"}, stream : Streams, gen : Gens,
            seq : Nat, val : Nat] \cup {[kind |-> "other"]}
Ack == [stream : Streams, gen : Gens, seq : Nat]
Layer == [gen : Gens, val : Nat]

ASSUME NoneAssumption == None \notin Slot

Present(f) == {s \in Streams : f[s] # None}

Init ==
  /\ updates = [s \in Streams |-> None] /\ made = 0
  /\ session = "running" /\ mode = None /\ attaches = 0
  /\ slots = [s \in Streams |-> None] /\ sequence = 0
  /\ control = <<>> /\ other = 0 /\ acks = <<>>
  /\ layers = [s \in Streams |-> None] /\ beside = 0 /\ frontend = "running"
  /\ retired = [s \in Streams |-> 0]

-----------------------------------------------------------------------------
(* Producers: LiveFrames::submit and LiveFrames::close.  A refused call     *)
(* returns an error to its producer and changes nothing.                    *)

Fits(s) == updates[s] # None \/ Cardinality(Present(updates)) < MaxStreams

\* The bytes of one frame of each stream of S, one by one.
BytesIn(S) == UNION {{t} \X (1 .. Size[t]) : t \in S}
FrameBytes(S) == Cardinality(BytesIn(S))

BoxBytes(s) ==
  FrameBytes({t \in Present(updates) : t # s /\ updates[t].kind = "frame"}) + Size[s]

SubmitFrame(s, g) ==
  /\ Fits(s) /\ BoxBytes(s) <= Budget
  /\ updates[s] # None =>
       IF updates[s].kind = "frame" THEN updates[s].gen <= g ELSE updates[s].gen < g
  /\ updates' = [updates EXCEPT ![s] = [kind |-> "frame", gen |-> g, val |-> made + 1]]

SubmitClose(s, g) ==
  /\ Fits(s)
  /\ updates[s] # None => updates[s].gen <= g
  /\ updates' = [updates EXCEPT ![s] = [kind |-> "close", gen |-> g, val |-> made + 1]]

Produce(s, g) ==
  /\ made < MaxUpdates
  /\ made' = made + 1
  /\ SubmitFrame(s, g) \/ SubmitClose(s, g)
  /\ UNCHANGED <<session, mode, attaches, slots, sequence, control, other, acks, frontendVars>>

-----------------------------------------------------------------------------
(* The session thread *)

\* (mutant) The control channel has no bound.
PostAlways(m) == control' = Append(control, m)

\* Peer::control, whose refusal no caller below looks at.
Post(m) == control' = IF Len(control) < ControlCap THEN Append(control, m) ELSE control

\* (mutant) A stale generation is refused only while its stream is closed.
StaleIfClosed(s, g) == slots[s] # None /\ slots[s].gen = g /\ slots[s].closed

Stale(s, g) ==
  slots[s] # None /\ (slots[s].gen > g \/ (slots[s].gen = g /\ slots[s].closed))

\* (mutant) The slot table is bounded only where producers submit.
Known(s) == TRUE

HasSlot(s) == slots[s] # None \/ Cardinality(Present(slots)) < MaxStreams

\* (mutant) The budget counts what is pending and forgets what is in flight.
PendingBytes(s) ==
  FrameBytes({t \in Present(slots) : t # s /\ slots[t].pending # None}) + Size[s]

\* Bytes the transport would hold with a new frame pending on s.
Bytes(s) ==
  FrameBytes({t \in Present(slots) : t # s /\ slots[t].pending # None})
    + FrameBytes({t \in Present(slots) : slots[t].flight # None}) + Size[s]

\* (mutant) A close forgets its stream.
ForgetStream(s, u) ==
  /\ u.kind = "close" /\ HasSlot(s)
  /\ slots' = [slots EXCEPT ![s] = None]
  /\ Post([kind |-> "close", stream |-> s, gen |-> u.gen, seq |-> 0, val |-> u.val])
  /\ session' = session

\* The slot stays, to remember the generation the close retired.
CloseStream(s, u) ==
  /\ u.kind = "close" /\ HasSlot(s)
  /\ slots' = [slots EXCEPT ![s] = [gen |-> u.gen, pending |-> None, flight |-> None,
                                    closed |-> TRUE]]
  /\ Post([kind |-> "close", stream |-> s, gen |-> u.gen, seq |-> 0, val |-> u.val])
  /\ session' = session

\* A new generation drops the lease of the old one.
KeepFrame(s, u) ==
  /\ u.kind = "frame" /\ HasSlot(s) /\ Bytes(s) <= Budget
  /\ slots' = [slots EXCEPT ![s] =
       [gen |-> u.gen, pending |-> u.val, closed |-> FALSE,
        flight |-> IF slots[s] # None /\ slots[s].gen = u.gen THEN slots[s].flight ELSE None]]
  /\ UNCHANGED <<control, session>>

\* An update the transport has no room for ends the session.
RefuseUpdate(s, u) ==
  /\ ~HasSlot(s) \/ (u.kind = "frame" /\ Bytes(s) > Budget)
  /\ session' = "failed"
  /\ UNCHANGED <<slots, control>>

SubmitUpdate(s) ==
  /\ session = "running" /\ updates[s] # None
  /\ updates' = [updates EXCEPT ![s] = None]
  /\ IF mode = None \/ Stale(s, updates[s].gen)
       THEN UNCHANGED <<slots, control, session>>
       ELSE \/ CloseStream(s, updates[s])
            \/ KeepFrame(s, updates[s])
            \/ RefuseUpdate(s, updates[s])
  /\ UNCHANGED <<made, mode, attaches, sequence, other, acks, frontendVars>>

\* flush and flush_streamed lease the pending frame of an idle stream.
Flush(s) ==
  /\ session = "running" /\ mode # None
  /\ slots[s] # None
  /\ slots[s].flight = None /\ slots[s].pending # None
  /\ sequence' = sequence + 1
  /\ slots' = [slots EXCEPT ![s].flight = sequence + 1, ![s].pending = None]
  /\ Post([kind |-> "frame", stream |-> s, gen |-> slots[s].gen, seq |-> sequence + 1,
           val |-> slots[s].pending])
  /\ UNCHANGED <<producerVars, session, mode, attaches, other, acks, frontendVars>>

\* (mutant) Any acknowledgement of the stream ends its lease.
ReleasedByStream(a) ==
  IF slots[a.stream] # None THEN [slots EXCEPT ![a.stream].flight = None] ELSE slots

\* (mutant) Only the newest frame of the transport can be acknowledged.
ReleasedIfNewest(a) ==
  IF slots[a.stream] # None /\ slots[a.stream].gen = a.gen /\ a.seq = sequence
    THEN [slots EXCEPT ![a.stream].flight = None] ELSE slots

Released(a) ==
  IF slots[a.stream] # None /\ slots[a.stream].gen = a.gen /\ slots[a.stream].flight = a.seq
    THEN [slots EXCEPT ![a.stream].flight = None] ELSE slots

\* incoming() takes a message only while the control channel has room for a reply.
Acknowledge ==
  /\ session = "running" /\ mode # None
  /\ acks # <<>> /\ Len(control) < ControlCap
  /\ slots' = Released(Head(acks))
  /\ acks' = Tail(acks)
  /\ UNCHANGED <<producerVars, session, mode, attaches, sequence, control, other, frontendVars>>

\* Everything else the session posts: replies, effects, assets, lossless frames.
PostOther ==
  /\ session = "running" /\ mode # None
  /\ other < MaxOther /\ Len(control) < ControlCap
  /\ other' = other + 1
  /\ control' = Append(control, [kind |-> "other"])
  /\ UNCHANGED <<producerVars, session, mode, attaches, slots, sequence, acks, frontendVars>>

\* Hello: a fresh transport for a frontend that starts, or starts over, without layers.
Attach(m) ==
  /\ session = "running" /\ attaches < MaxAttach
  /\ attaches' = attaches + 1
  /\ mode' = m
  /\ slots' = [s \in Streams |-> None] /\ sequence' = 0
  /\ control' = <<>> /\ acks' = <<>>
  /\ layers' = [s \in Streams |-> None] /\ beside' = 0 /\ frontend' = "running"
  /\ retired' = [s \in Streams |-> 0]
  /\ UNCHANGED <<producerVars, session, other>>

\* The peer is gone: its channels with it, and the transport is made anew.
Detach ==
  /\ session = "running" /\ mode # None
  /\ mode' = None
  /\ slots' = [s \in Streams |-> None] /\ sequence' = 0
  /\ control' = <<>> /\ acks' = <<>>
  /\ UNCHANGED <<producerVars, session, attaches, other, frontendVars>>

-----------------------------------------------------------------------------
(* The frontend *)

\* The file behind a descriptor exists while the session holds its lease.
FileExists(d) == slots[d.stream] # None /\ slots[d.stream].flight = d.seq

Older(s, g) == layers[s] # None /\ layers[s].gen > g

\* "Too many live layers": one table for the streams of both transports.
TableFull == Cardinality(Present(layers)) + beside >= MaxStreams

\* A frame of an older generation, or one whose file is gone, leaves the pixels alone.
ShowFrame(d) ==
  IF Older(d.stream, d.gen)
    THEN UNCHANGED <<layers, frontend>>
  ELSE IF layers[d.stream] = None /\ TableFull
    THEN frontend' = "failed" /\ layers' = layers
  ELSE IF mode = "mapped" /\ ~FileExists(d)
    THEN UNCHANGED <<layers, frontend>>
  ELSE /\ layers' = [layers EXCEPT ![d.stream] = [gen |-> d.gen, val |-> d.val]]
       /\ frontend' = frontend

ReceiveFrame(d) ==
  /\ d.kind = "frame"
  /\ ShowFrame(d)
  /\ acks' = IF frontend' = "running"
               THEN Append(acks, [stream |-> d.stream, gen |-> d.gen, seq |-> d.seq])
               ELSE acks
  /\ UNCHANGED <<beside, retired>>

ReceiveClose(d) ==
  /\ d.kind = "close"
  /\ layers' = IF Older(d.stream, d.gen) THEN layers ELSE [layers EXCEPT ![d.stream] = None]
  /\ retired' = [retired EXCEPT ![d.stream] = Max({@, d.gen})]
  /\ UNCHANGED <<acks, beside, frontend>>

\* The first frame of a lossless stream, or its close; a session has such streams for a
\* frontend that takes streamed frames.
LosslessLayer ==
  /\ mode = "streamed"
  /\ \/ /\ beside' = beside + 1
        /\ frontend' = IF TableFull THEN "failed" ELSE frontend
     \/ beside > 0 /\ beside' = beside - 1 /\ frontend' = frontend

ReceiveOther(d) ==
  /\ d.kind = "other"
  /\ LosslessLayer \/ UNCHANGED <<beside, frontend>>
  /\ UNCHANGED <<acks, layers, retired>>

Receive ==
  /\ frontend = "running" /\ mode # None /\ control # <<>>
  /\ control' = Tail(control)
  /\ ReceiveFrame(Head(control)) \/ ReceiveClose(Head(control)) \/ ReceiveOther(Head(control))
  /\ UNCHANGED <<producerVars, session, mode, attaches, slots, sequence, other>>

-----------------------------------------------------------------------------
Next ==
  \/ \E s \in Streams, g \in Gens : Produce(s, g)
  \/ \E s \in Streams : SubmitUpdate(s) \/ Flush(s)
  \/ Acknowledge \/ PostOther \/ Receive
  \/ \E m \in {"mapped", "streamed"} : Attach(m)
  \/ Detach

Spec == Init /\ [][Next]_vars

\* The session loop comes round to every update, stream and acknowledgement,
\* and a frontend loop reads what arrives.
FairSpec ==
  /\ Spec
  /\ \A s \in Streams : WF_vars(SubmitUpdate(s)) /\ WF_vars(Flush(s))
  /\ WF_vars(Acknowledge) /\ WF_vars(Receive)

-----------------------------------------------------------------------------
(* Properties *)

\* Type invariant; it bounds the control channel and the identities a
\* transport keeps.
TypeOK ==
  /\ updates \in [Streams -> Update \cup {None}] /\ made \in 0 .. MaxUpdates
  /\ session \in {"running", "failed"} /\ mode \in {"mapped", "streamed", None}
  /\ attaches \in 0 .. MaxAttach /\ other \in 0 .. MaxOther
  /\ slots \in [Streams -> Slot \cup {None}] /\ sequence \in Nat
  /\ control \in Seq(Control) /\ Len(control) <= ControlCap
  /\ acks \in Seq(Ack)
  /\ layers \in [Streams -> Layer \cup {None}] /\ beside \in Nat
  /\ frontend \in {"running", "failed"}
  /\ retired \in [Streams -> Nat]

\* "A close retires its generation; reopening requires a higher one": a stream
\* whose close the frontend has handled shows no frame of that generation again.
RetiredStaysClosed ==
  \A s \in Streams : layers[s] # None => layers[s].gen > retired[s]

\* The lease outlives its descriptor: while the frontend has yet to read the
\* descriptor of an open stream's current generation, the file is there.
LeaseHeld ==
  \A i \in DOMAIN control :
    LET d == control[i]
    IN  d.kind = "frame" /\ slots[d.stream] # None
          /\ slots[d.stream].gen = d.gen /\ ~slots[d.stream].closed
        => FileExists(d)

\* Generations reach the frontend in order, whichever order producers use them
\* in: what is queued for a stream is never older than its layer or than what is
\* queued before it, and after a close only a higher generation follows.
InGenerationOrder ==
  \A j \in {k \in DOMAIN control : control[k].kind # "other"} :
    LET d == control[j]
    IN  /\ layers[d.stream] # None => layers[d.stream].gen <= d.gen
        /\ \A i \in 1 .. j - 1 :
             control[i].kind # "other" /\ control[i].stream = d.stream =>
               IF control[i].kind = "close" THEN control[i].gen < d.gen
                                            ELSE control[i].gen <= d.gen

\* "256 MiB per transport bound resources": pending and leased frames together.
BudgetHeld ==
  FrameBytes({t \in Present(slots) : slots[t].pending # None})
    + FrameBytes({t \in Present(slots) : slots[t].flight # None}) <= Budget

\* Leased streams alone never meet the frontend's bound on layers, closes lost to a full
\* control channel included: it ends the frontend only where lossless streams have taken or
\* ask for layers of the same table.
FrontendSurvives == frontend = "failed" => beside > 0

\* The same with both transports: "Eight stream identities ... per transport bound resources"
\* (README.md:157).  Two transports with a table of eight between them break it (README.md of
\* this model, section 3).
TableSuffices == frontend = "running"

\* Frames that are leased, pending or refused stay within their budget, their files last
\* as long as their descriptors, and by themselves they never end the frontend.
LeasesHeld == BudgetHeld /\ LeaseHeld /\ FrontendSurvives

\* A frame in flight is a descriptor the frontend has yet to read or an
\* acknowledgement the session has yet to read ("A stalled frontend may still
\* have this descriptor queued", live_canvas.rs, flush).  A full control channel breaks it
\* (README.md, section 3).
FlightAccounted ==
  \A s \in Streams :
    slots[s] # None /\ slots[s].flight # None =>
      \/ \E i \in DOMAIN control : control[i].kind = "frame" /\ control[i].stream = s
                                   /\ control[i].seq = slots[s].flight
      \/ \E i \in DOMAIN acks : acks[i].stream = s /\ acks[i].seq = slots[s].flight

\* With room on the control channel, every stream comes to rest: its newest frame
\* delivered and acknowledged, or its close seen by the frontend.
LeasesSettle ==
  <>[](mode # None /\ session = "running" =>
         \A s \in Present(slots) :
           /\ slots[s].pending = None /\ slots[s].flight = None
           /\ IF slots[s].closed
                THEN layers[s] = None
                ELSE layers[s] # None /\ layers[s].gen = slots[s].gen)
=============================================================================
