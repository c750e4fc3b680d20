--------------------------- MODULE CanvasesProofs ---------------------------
(***************************************************************************)
(* Theorems about LiveCanvas, for every set of streams, frame sizes,       *)
(* bounds and control channel capacity; and the theorem of                 *)
(* PixelStreamProofs for the lossless attachment of a session, as          *)
(* MCCanvases drives it.                                                   *)
(***************************************************************************)
EXTENDS MCCanvases, TLAPS, FiniteSetTheorems


-----------------------------------------------------------------------------
(* Data *)

\* The larger of two generations.
LEMMA MaxOfTwo ==
  ASSUME NEW a \in Nat, NEW b \in Nat
  PROVE  /\ Max({a, b}) \in Nat
         /\ Max({a, b}) = IF a >= b THEN a ELSE b
<1>1. \E x \in {a, b} : \A y \in {a, b} : x >= y
  OBVIOUS
<1>2. Max({a, b}) \in {a, b} /\ \A y \in {a, b} : Max({a, b}) >= y
  BY <1>1 DEF Max
<1> QED
  BY <1>2

\* A control that is a frame or a close has a stream and a generation.
LEMMA ControlFields ==
  ASSUME NEW c \in Control, c.kind # "other"
  PROVE  c.kind \in {"frame", "close"} /\ c.stream \in Streams /\ c.gen \in Gens
         /\ c.seq \in Nat /\ c.val \in Nat
<1>1. CASE c \in [kind : {"frame", "close"}, stream : Streams, gen : Gens, seq : Nat, val : Nat]
  BY <1>1
<1>2. CASE c \in {[kind |-> "other"]}
  BY <1>2
<1> QED
  BY <1>1, <1>2 DEF Control

\* What Peer::control makes of the channel.
LEMMA PostType ==
  ASSUME LiveCanvasAssumption, TypeOK, NEW m \in Control, Post(m)
  PROVE  control' \in Seq(Control) /\ Len(control') <= ControlCap
<1>1. CASE Len(control) < ControlCap
  BY <1>1 DEF Post, TypeOK, LiveCanvasAssumption
<1>2. CASE ~(Len(control) < ControlCap)
  BY <1>2 DEF Post, TypeOK, LiveCanvasAssumption
<1> QED
  BY <1>1, <1>2

-----------------------------------------------------------------------------
(* Types *)

LEMMA InitType == ASSUME LiveCanvasAssumption, Init PROVE TypeOK
<1>1. control \in Seq(Control) /\ Len(control) <= ControlCap /\ acks \in Seq(Ack)
  BY DEF Init, LiveCanvasAssumption
<1>2. /\ updates \in [Streams -> Update \cup {None}]
      /\ slots \in [Streams -> Slot \cup {None}]
      /\ layers \in [Streams -> Layer \cup {None}]
      /\ retired \in [Streams -> Nat]
  BY DEF Init
<1> QED
  BY <1>1, <1>2 DEF Init, TypeOK, LiveCanvasAssumption

\* The fields of what a stream's entries hold, when there is one.
LEMMA Entries ==
  ASSUME TypeOK, NEW s \in Streams
  PROVE  /\ updates[s] # None => updates[s] \in Update
         /\ slots[s] # None => slots[s] \in Slot
         /\ layers[s] # None => layers[s] \in Layer
         /\ retired[s] \in Nat
  BY DEF TypeOK

\* One step of the session on an update.
LEMMA SubmitUpdateType ==
  ASSUME LiveCanvasAssumption, TypeOK, NEW s \in Streams, SubmitUpdate(s)
  PROVE  TypeOK'
<1> DEFINE u == updates[s]
<1>1. u \in Update /\ updates' \in [Streams -> Update \cup {None}]
  BY DEF SubmitUpdate, TypeOK
<1>2. u.kind \in {"frame", "close"} /\ u.gen \in Gens /\ u.val \in 1 .. MaxUpdates
  BY <1>1 DEF Update
<1> HIDE DEF u
<1>3. /\ slots' \in [Streams -> Slot \cup {None}]
      /\ control' \in Seq(Control) /\ Len(control') <= ControlCap
      /\ session' \in {"running", "failed"}
  <2>1. CASE UNCHANGED <<slots, control, session>>
    BY <2>1 DEF TypeOK
  <2>2. CASE CloseStream(s, u)
    <3> DEFINE m == [kind |-> "close", stream |-> s, gen |-> u.gen, seq |-> 0, val |-> u.val]
    <3>1. m \in Control
      BY <1>2 DEF Control, LiveCanvasAssumption
    <3>2. Post(m) /\ session' = session
      BY <2>2 DEF CloseStream
    <3>3. control' \in Seq(Control) /\ Len(control') <= ControlCap
      BY <3>1, <3>2, PostType
    <3>4. [gen |-> u.gen, pending |-> None, flight |-> None, closed |-> TRUE] \in Slot
      BY <1>2 DEF Slot
    <3>5. slots' \in [Streams -> Slot \cup {None}]
      BY <2>2, <3>4 DEF CloseStream, TypeOK
    <3> QED
      BY <3>2, <3>3, <3>5 DEF TypeOK
  <2>3. CASE KeepFrame(s, u)
    <3> DEFINE n == [gen |-> u.gen, pending |-> u.val, closed |-> FALSE,
                     flight |-> IF slots[s] # None /\ slots[s].gen = u.gen
                                  THEN slots[s].flight ELSE None]
    <3>1. slots[s] # None => slots[s].flight \in Nat \cup {None}
      BY Entries DEF Slot
    <3>2. n \in Slot
      BY <1>2, <3>1 DEF Slot
    <3>3. slots' = [slots EXCEPT ![s] = n] /\ UNCHANGED <<control, session>>
      BY <2>3 DEF KeepFrame
    <3> HIDE DEF n
    <3> QED
      BY <3>2, <3>3 DEF TypeOK
  <2>4. CASE RefuseUpdate(s, u)
    BY <2>4 DEF RefuseUpdate, TypeOK
  <2> QED
    BY <2>1, <2>2, <2>3, <2>4 DEF SubmitUpdate, u
<1> QED
  BY <1>1, <1>3 DEF SubmitUpdate, TypeOK, frontendVars

\* Leasing a stream's pending frame.
LEMMA FlushType ==
  ASSUME LiveCanvasAssumption, TypeOK, NEW s \in Streams, Flush(s)
  PROVE  TypeOK'
<1>1. slots[s] \in Slot /\ slots[s].pending \in 1 .. MaxUpdates /\ slots[s].gen \in Gens
  BY Entries DEF Flush, Slot
<1>2. sequence' = sequence + 1 /\ sequence' \in Nat
  BY SMTT(30) DEF Flush, TypeOK
<1>3. [slots[s] EXCEPT !.flight = sequence', !.pending = None] \in Slot
  BY <1>1, <1>2 DEF Slot
<1>4. slots' = [slots EXCEPT ![s] = [slots[s] EXCEPT !.flight = sequence', !.pending = None]]
  BY <1>2 DEF Flush, TypeOK
<1>5. slots' \in [Streams -> Slot \cup {None}]
  BY <1>3, <1>4 DEF TypeOK
<1> DEFINE m == [kind |-> "frame", stream |-> s, gen |-> slots[s].gen, seq |-> sequence + 1,
                 val |-> slots[s].pending]
<1>6. m \in Control
  BY <1>1, <1>2 DEF Control, LiveCanvasAssumption
<1>7. Post(m)
  BY DEF Flush
<1>8. control' \in Seq(Control) /\ Len(control') <= ControlCap
  BY <1>6, <1>7, PostType
<1> QED
  BY <1>2, <1>5, <1>8 DEF Flush, TypeOK, producerVars, frontendVars

\* One message read by the frontend.
LEMMA ReceiveType ==
  ASSUME LiveCanvasAssumption, TypeOK, Receive
  PROVE  TypeOK'
<1> DEFINE d == Head(control)
<1>1. d \in Control /\ control' \in Seq(Control) /\ Len(control') <= ControlCap
  BY DEF Receive, TypeOK, LiveCanvasAssumption
<1>2. d.kind # "other" =>
        d.kind \in {"frame", "close"} /\ d.stream \in Streams /\ d.gen \in Gens
          /\ d.seq \in Nat /\ d.val \in Nat
  BY <1>1, ControlFields
<1> HIDE DEF d
<1>3. /\ layers' \in [Streams -> Layer \cup {None}] /\ frontend' \in {"running", "failed"}
      /\ acks' \in Seq(Ack) /\ retired' \in [Streams -> Nat] /\ beside' \in Nat
  <2>1. CASE ReceiveFrame(d)
    <3>1. [gen |-> d.gen, val |-> d.val] \in Layer
          /\ [stream |-> d.stream, gen |-> d.gen, seq |-> d.seq] \in Ack
      BY <1>2, <2>1 DEF ReceiveFrame, Layer, Ack
    <3>2. layers' \in [Streams -> Layer \cup {None}] /\ frontend' \in {"running", "failed"}
      BY <1>2, <2>1, <3>1 DEF ReceiveFrame, ShowFrame, TypeOK
    <3>3. acks' \in Seq(Ack) /\ retired' = retired /\ beside' = beside
      BY <2>1, <3>1 DEF ReceiveFrame, TypeOK
    <3> QED
      BY <3>2, <3>3 DEF TypeOK
  <2>2. CASE ReceiveClose(d)
    <3>1. d.stream \in Streams /\ d.gen \in Nat /\ retired[d.stream] \in Nat
      BY <1>2, <2>2 DEF ReceiveClose, Gens, TypeOK, LiveCanvasAssumption
    <3>2. Max({retired[d.stream], d.gen}) \in Nat
      BY <3>1, MaxOfTwo
    <3> QED
      BY <2>2, <3>1, <3>2 DEF ReceiveClose, TypeOK
  <2>3. CASE ReceiveOther(d)
    BY <2>3 DEF ReceiveOther, LosslessLayer, TypeOK
  <2> QED
    BY <2>1, <2>2, <2>3 DEF Receive, d
<1> QED
  BY <1>1, <1>3 DEF Receive, TypeOK, producerVars

LEMMA NextType == ASSUME LiveCanvasAssumption, TypeOK, [Next]_vars PROVE TypeOK'
<1>1. ASSUME NEW s \in Streams, NEW g \in Gens, Produce(s, g) PROVE TypeOK'
  <2>1. made' \in 1 .. MaxUpdates /\ made' = made + 1
    BY <1>1 DEF Produce, TypeOK, LiveCanvasAssumption
  <2>2. /\ [kind |-> "frame", gen |-> g, val |-> made + 1] \in Update
        /\ [kind |-> "close", gen |-> g, val |-> made + 1] \in Update
    BY <2>1 DEF Update
  <2>3. updates' \in [Streams -> Update \cup {None}]
    BY <1>1, <2>2 DEF Produce, SubmitFrame, SubmitClose, TypeOK
  <2> QED
    BY <1>1, <2>1, <2>3 DEF Produce, TypeOK, frontendVars
<1>2. ASSUME NEW s \in Streams, SubmitUpdate(s) PROVE TypeOK'
  BY <1>2, SubmitUpdateType
<1>3. ASSUME NEW s \in Streams, Flush(s) PROVE TypeOK'
  BY <1>3, FlushType
<1>4. CASE Acknowledge
  <2> DEFINE a == Head(acks)
  <2>1. a \in Ack /\ acks' \in Seq(Ack)
    BY <1>4 DEF Acknowledge, TypeOK
  <2>2. a.stream \in Streams
    BY <2>1 DEF Ack
  <2>3. slots[a.stream] # None => [slots[a.stream] EXCEPT !.flight = None] \in Slot
    BY <2>2, Entries DEF Slot
  <2>4. slots' = Released(a)
    BY <1>4 DEF Acknowledge
  <2> HIDE DEF a
  <2>5. slots' \in [Streams -> Slot \cup {None}]
    BY <2>2, <2>3, <2>4 DEF Released, TypeOK
  <2> QED
    BY <1>4, <2>1, <2>5 DEF Acknowledge, TypeOK, producerVars, frontendVars
<1>5. CASE PostOther
  <2>1. [kind |-> "other"] \in Control
    BY DEF Control
  <2>2. control' \in Seq(Control) /\ Len(control') <= ControlCap
    BY <1>5, <2>1 DEF PostOther, TypeOK, LiveCanvasAssumption
  <2>3. other' \in 0 .. MaxOther
    BY <1>5 DEF PostOther, TypeOK, LiveCanvasAssumption
  <2> QED
    BY <1>5, <2>2, <2>3 DEF PostOther, TypeOK, producerVars, frontendVars
<1>6. CASE Receive
  BY <1>6, ReceiveType
<1>7. ASSUME NEW m \in {"mapped", "streamed"}, Attach(m) PROVE TypeOK'
  <2>1. attaches' \in 0 .. MaxAttach /\ control' = <<>> /\ acks' = <<>>
    BY <1>7 DEF Attach, TypeOK, LiveCanvasAssumption
  <2>2. control' \in Seq(Control) /\ Len(control') <= ControlCap /\ acks' \in Seq(Ack)
    BY <2>1 DEF LiveCanvasAssumption
  <2> QED
    BY <1>7, <2>1, <2>2 DEF Attach, TypeOK, producerVars
<1>8. CASE Detach
  <2>1. control' \in Seq(Control) /\ Len(control') <= ControlCap /\ acks' \in Seq(Ack)
    BY <1>8 DEF Detach, LiveCanvasAssumption
  <2> QED
    BY <1>8, <2>1 DEF Detach, TypeOK, producerVars, frontendVars
<1>9. CASE UNCHANGED vars
  BY <1>9 DEF vars, TypeOK
<1> QED
  BY <1>1, <1>2, <1>3, <1>4, <1>5, <1>6, <1>7, <1>8, <1>9 DEF Next

\* Every variable keeps its type; in particular the control channel never holds
\* more than its capacity (session.rs, Peer::new and Peer::control).
THEOREM TypeCorrect == ASSUME LiveCanvasAssumption PROVE Spec => []TypeOK
<1>1. Init => TypeOK
  BY InitType
<1>2. TypeOK /\ [Next]_vars => TypeOK'
  BY NextType
<1> QED
  BY <1>1, <1>2, PTL DEF Spec

-----------------------------------------------------------------------------
(* Generations *)

\* What a queued control says of its stream: the transport knows the stream, has
\* closed it if this is the close of its newest generation, and the frontend has
\* seen nothing newer.
QueuedOK(c) ==
  c.kind # "other" =>
    /\ slots[c.stream] # None /\ c.gen <= slots[c.stream].gen
    /\ (c.kind = "close" /\ c.gen = slots[c.stream].gen) => slots[c.stream].closed
    /\ layers[c.stream] # None => layers[c.stream].gen <= c.gen
    /\ IF c.kind = "close" THEN retired[c.stream] <= c.gen ELSE retired[c.stream] < c.gen

\* The order of two controls of one stream.
Precedes(c, d) ==
  (c.kind # "other" /\ d.kind # "other" /\ c.stream = d.stream) =>
    IF c.kind = "close" THEN c.gen < d.gen ELSE c.gen <= d.gen

\* The transport remembers the newest generation the frontend has seen of a
\* stream, and that it is closed when the frontend has handled its close.
Remembered(s) ==
  /\ layers[s] # None => slots[s] # None /\ layers[s].gen <= slots[s].gen
  /\ retired[s] > 0 => slots[s] # None
  /\ slots[s] # None =>
       /\ retired[s] <= slots[s].gen
       /\ retired[s] = slots[s].gen => slots[s].closed
       /\ slots[s].closed => slots[s].pending = None

\* The inductive invariant behind InGenerationOrder and RetiredStaysClosed.
\* Neither is inductive: what a later flush posts depends on what the transport
\* remembers of the stream.
GenInv ==
  /\ mode = None => control = <<>>
  /\ \A k \in 1 .. Len(control) : QueuedOK(control[k])
  /\ \A j \in 1 .. Len(control) : \A i \in 1 .. j - 1 : Precedes(control[i], control[j])
  /\ mode # None => \A s \in Streams : Remembered(s)
  /\ RetiredStaysClosed

\* A message that follows everything queued for its stream keeps the queue in order.
LEMMA PostKeepsOrder ==
  ASSUME LiveCanvasAssumption, TypeOK, GenInv, NEW m \in Control, Post(m),
         \A k \in 1 .. Len(control) : Precedes(control[k], m),
         QueuedOK(m)',
         \A c \in Control : QueuedOK(c) => QueuedOK(c)'
  PROVE  /\ \A k \in 1 .. Len(control') : QueuedOK(control[k])'
         /\ \A j \in 1 .. Len(control') : \A i \in 1 .. j - 1 : Precedes(control[i], control[j])'
<1>1. control \in Seq(Control) /\ Len(control) \in Nat
      /\ \A k \in 1 .. Len(control) : control[k] \in Control
  BY DEF TypeOK
<1>2. CASE control' = control
  BY <1>1, <1>2 DEF GenInv, QueuedOK, Precedes
<1>3. CASE control' = Append(control, m)
  <2>1. /\ Len(control') = Len(control) + 1 /\ control'[Len(control) + 1] = m
        /\ \A k \in 1 .. Len(control) : control'[k] = control[k]
    BY <1>1, <1>3
  <2>2. ASSUME NEW k \in 1 .. Len(control') PROVE QueuedOK(control[k])'
    <3>1. CASE k = Len(control) + 1
      BY <2>1, <3>1 DEF QueuedOK
    <3>2. CASE k # Len(control) + 1
      <4>1. k \in 1 .. Len(control) /\ control'[k] = control[k] /\ control[k] \in Control
        BY <1>1, <2>1, <3>2
      <4>2. QueuedOK(control[k])
        BY <4>1 DEF GenInv
      <4> QED
        BY <4>1, <4>2 DEF QueuedOK
    <3> QED
      BY <3>1, <3>2
  <2>3. ASSUME NEW j \in 1 .. Len(control'), NEW i \in 1 .. j - 1
        PROVE  Precedes(control[i], control[j])'
    <3>1. i \in 1 .. Len(control) /\ control'[i] = control[i]
      BY <1>1, <2>1
    <3>2. CASE j = Len(control) + 1
      BY <2>1, <3>1, <3>2 DEF Precedes
    <3>3. CASE j # Len(control) + 1
      <4>1. j \in 1 .. Len(control) /\ control'[j] = control[j]
        BY <1>1, <2>1, <3>3
      <4>2. Precedes(control[i], control[j])
        BY <4>1 DEF GenInv
      <4> QED
        BY <3>1, <4>1, <4>2 DEF Precedes
    <3> QED
      BY <3>2, <3>3
  <2> QED
    BY <2>2, <2>3
<1> QED
  BY <1>2, <1>3 DEF Post

\* The new generation of an update that is not stale follows everything the
\* frontend has seen or will see of its stream.
LEMMA NotStaleFollows ==
  ASSUME LiveCanvasAssumption, TypeOK, GenInv, mode # None, NEW s \in Streams, NEW g \in Gens,
         ~Stale(s, g)
  PROVE  /\ retired[s] < g
         /\ layers[s] # None => layers[s].gen <= g
         /\ \A k \in 1 .. Len(control) :
              (control[k].kind # "other" /\ control[k].stream = s) =>
                IF control[k].kind = "close" THEN control[k].gen < g ELSE control[k].gen <= g
<1>1. /\ Remembered(s) /\ g \in Nat /\ g > 0 /\ retired[s] \in Nat
      /\ slots[s] # None => slots[s].gen \in Nat
      /\ layers[s] # None => layers[s].gen \in Nat
  BY Entries DEF GenInv, Gens, Slot, Layer, LiveCanvasAssumption
<1>2. slots[s] # None => slots[s].gen < g \/ (slots[s].gen = g /\ ~slots[s].closed)
  BY <1>1 DEF Stale
<1>3. retired[s] < g
  BY <1>1, <1>2 DEF Remembered
<1>4. layers[s] # None => layers[s].gen <= g
  BY <1>1, <1>2 DEF Remembered
<1>5. ASSUME NEW k \in 1 .. Len(control), control[k].kind # "other", control[k].stream = s
      PROVE  IF control[k].kind = "close" THEN control[k].gen < g ELSE control[k].gen <= g
  <2>1. QueuedOK(control[k]) /\ control[k] \in Control
    BY DEF GenInv, TypeOK
  <2>2. control[k].gen \in Nat /\ control[k].kind \in {"frame", "close"}
    BY <1>5, <2>1, ControlFields DEF Gens, LiveCanvasAssumption
  <2> QED
    BY <1>1, <1>2, <1>5, <2>1, <2>2 DEF QueuedOK
<1> QED
  BY <1>3, <1>4, <1>5

\* A slot that takes a generation its stream is not past keeps what the others
\* rely on.
LEMMA SlotAdvances ==
  ASSUME LiveCanvasAssumption, TypeOK, GenInv, mode # None, NEW s \in Streams, NEW g \in Gens,
         ~Stale(s, g), UNCHANGED <<layers, retired>>, slots'[s] # None, slots'[s].gen = g,
         slots'[s].closed => slots'[s].pending = None,
         \A t \in Streams : t # s => slots'[t] = slots[t]
  PROVE  /\ \A c \in Control : QueuedOK(c) => QueuedOK(c)'
         /\ \A t \in Streams : Remembered(t)'
<1>1. /\ Remembered(s) /\ g \in Nat /\ retired[s] \in Nat
      /\ slots[s] # None => slots[s].gen \in Nat
      /\ layers[s] # None => layers[s].gen \in Nat
  BY Entries DEF GenInv, Gens, Slot, Layer, LiveCanvasAssumption
<1>2. slots[s] # None => slots[s].gen < g \/ (slots[s].gen = g /\ ~slots[s].closed)
  BY <1>1 DEF Stale
<1>3. ASSUME NEW c \in Control, QueuedOK(c) PROVE QueuedOK(c)'
  <2>1. CASE c.kind = "other"
    BY <2>1 DEF QueuedOK
  <2>2. CASE c.kind # "other" /\ c.stream # s
    <3>1. c.stream \in Streams
      BY <2>2, ControlFields
    <3> QED
      BY <1>3, <2>2, <3>1 DEF QueuedOK
  <2>3. CASE c.kind # "other" /\ c.stream = s
    <3>1. c.gen \in Nat
      BY <2>3, ControlFields DEF Gens, LiveCanvasAssumption
    <3>2. /\ slots[s] # None /\ c.gen <= slots[s].gen
          /\ (c.kind = "close" /\ c.gen = slots[s].gen) => slots[s].closed
          /\ layers[s] # None => layers[s].gen <= c.gen
          /\ IF c.kind = "close" THEN retired[s] <= c.gen ELSE retired[s] < c.gen
      BY <1>3, <2>3 DEF QueuedOK
    <3>3. c.gen <= g /\ ~(c.kind = "close" /\ c.gen = g)
      BY <1>1, <1>2, <3>1, <3>2
    <3> QED
      BY <2>3, <3>2, <3>3 DEF QueuedOK
  <2> QED
    BY <2>1, <2>2, <2>3
<1>4. Remembered(s)'
  BY <1>1, NotStaleFollows DEF Remembered
<1>5. ASSUME NEW t \in Streams, t # s PROVE Remembered(t)'
  BY <1>5 DEF GenInv, Remembered
<1> QED
  BY <1>3, <1>4, <1>5

\* GenInv speaks of nothing else.
LEMMA GenStutter ==
  ASSUME GenInv, UNCHANGED <<mode, slots, control, layers, retired>>
  PROVE  GenInv'
BY DEF GenInv, QueuedOK, Precedes, Remembered, RetiredStaysClosed

LEMMA SubmitUpdateGen ==
  ASSUME LiveCanvasAssumption, NoneAssumption, TypeOK, GenInv, NEW s \in Streams, SubmitUpdate(s)
  PROVE  GenInv'
<1>1. PICK u \in Update : u = updates[s]
  BY DEF SubmitUpdate, TypeOK
<1>2. u.gen \in Gens /\ u.val \in Nat
  BY DEF Update, LiveCanvasAssumption
<1>3. UNCHANGED <<mode, layers, retired>>
  BY DEF SubmitUpdate, frontendVars
<1>4. CASE UNCHANGED <<slots, control>>
  BY <1>3, <1>4, GenStutter
<1>5. CASE mode # None /\ ~Stale(s, u.gen) /\ CloseStream(s, u)
  <2> DEFINE n == [gen |-> u.gen, pending |-> None, flight |-> None, closed |-> TRUE]
             m == [kind |-> "close", stream |-> s, gen |-> u.gen, seq |-> 0, val |-> u.val]
  <2>1. n \in Slot /\ n # None /\ m \in Control
    <3>1. n \in Slot
      BY <1>2 DEF Slot
    <3>2. m \in Control
      BY <1>2 DEF Control
    <3> HIDE DEF n, m
    <3> QED
      BY <3>1, <3>2, NoneAssumption
  <2>2. slots' = [slots EXCEPT ![s] = n] /\ Post(m)
    BY <1>5 DEF CloseStream
  <2>3. n.gen = u.gen /\ n.closed /\ n.pending = None
    OBVIOUS
  <2>4. m.kind = "close" /\ m.stream = s /\ m.gen = u.gen
    OBVIOUS
  <2> HIDE DEF n, m
  <2>5. slots'[s] = n /\ \A t \in Streams : t # s => slots'[t] = slots[t]
    BY <2>2 DEF TypeOK
  <2>6. /\ \A c \in Control : QueuedOK(c) => QueuedOK(c)'
        /\ \A t \in Streams : Remembered(t)'
    BY <1>2, <1>3, <1>5, <2>1, <2>3, <2>5, SlotAdvances
  <2>7. /\ retired[s] < u.gen
        /\ layers[s] # None => layers[s].gen <= u.gen
        /\ \A k \in 1 .. Len(control) :
             (control[k].kind # "other" /\ control[k].stream = s) =>
               IF control[k].kind = "close" THEN control[k].gen < u.gen
                                            ELSE control[k].gen <= u.gen
    BY <1>2, <1>5, NotStaleFollows
  <2>8. \A k \in 1 .. Len(control) : Precedes(control[k], m)
    BY <2>4, <2>7 DEF Precedes
  <2>9. QueuedOK(m)'
    BY <1>2, <1>3, <2>1, <2>3, <2>4, <2>5, <2>7, Entries DEF QueuedOK, Gens, LiveCanvasAssumption
  <2>10. /\ \A k \in 1 .. Len(control') : QueuedOK(control[k])'
         /\ \A j \in 1 .. Len(control') : \A i \in 1 .. j - 1 : Precedes(control[i], control[j])'
    BY <2>1, <2>2, <2>6, <2>8, <2>9, PostKeepsOrder
  <2> QED
    BY <1>3, <1>5, <2>6, <2>10 DEF GenInv, RetiredStaysClosed
<1>6. CASE mode # None /\ ~Stale(s, u.gen) /\ KeepFrame(s, u)
  <2> DEFINE n == [gen |-> u.gen, pending |-> u.val, closed |-> FALSE,
                   flight |-> IF slots[s] # None /\ slots[s].gen = u.gen
                                THEN slots[s].flight ELSE None]
  <2>1. slots[s] # None => slots[s].flight \in Nat \cup {None}
    BY Entries DEF Slot
  <2>2. n \in Slot /\ n # None
    <3>1. n \in Slot
      BY <1>2, <2>1 DEF Slot, Update
    <3> HIDE DEF n
    <3> QED
      BY <3>1, NoneAssumption
  <2>3. slots' = [slots EXCEPT ![s] = n] /\ control' = control
    BY <1>6 DEF KeepFrame
  <2>4. n.gen = u.gen /\ n.closed = FALSE
    OBVIOUS
  <2> HIDE DEF n
  <2>5. slots'[s] = n /\ \A t \in Streams : t # s => slots'[t] = slots[t]
    BY <2>3 DEF TypeOK
  <2>6. /\ \A c \in Control : QueuedOK(c) => QueuedOK(c)'
        /\ \A t \in Streams : Remembered(t)'
    BY <1>2, <1>3, <1>6, <2>2, <2>4, <2>5, SlotAdvances
  <2>7. \A k \in 1 .. Len(control) : control[k] \in Control
    BY DEF TypeOK
  <2>8. \A k \in 1 .. Len(control') : QueuedOK(control[k])'
    BY <2>3, <2>6, <2>7 DEF GenInv, QueuedOK
  <2> QED
    BY <1>3, <1>6, <2>3, <2>6, <2>8 DEF GenInv, RetiredStaysClosed, Precedes
<1> QED
  BY <1>1, <1>4, <1>5, <1>6 DEF SubmitUpdate, RefuseUpdate

LEMMA FlushGen ==
  ASSUME LiveCanvasAssumption, NoneAssumption, TypeOK, GenInv, NEW s \in Streams, Flush(s)
  PROVE  GenInv'
<1>1. PICK o \in Slot : o = slots[s]
  BY Entries DEF Flush
<1>2. PICK q \in Nat : q = sequence + 1
  BY DEF TypeOK
<1>3. o.gen \in Gens /\ o.pending \in 1 .. MaxUpdates /\ o.pending \in Nat
  BY <1>1 DEF Flush, Slot, LiveCanvasAssumption
<1>4. mode # None /\ UNCHANGED <<mode, layers, retired>>
  BY DEF Flush, frontendVars
<1>5. ~o.closed /\ slots[s] # None
  BY <1>1, <1>4 DEF GenInv, Remembered, Flush
<1> DEFINE n == [o EXCEPT !.flight = q, !.pending = None]
           m == [kind |-> "frame", stream |-> s, gen |-> o.gen, seq |-> q, val |-> o.pending]
<1>6. n \in Slot /\ n # None /\ m \in Control
  <2>1. n \in Slot
    BY <1>3 DEF Slot
  <2>2. m \in Control
    BY <1>3 DEF Control
  <2> HIDE DEF n, m
  <2> QED
    BY <2>1, <2>2, NoneAssumption
<1>7. n.gen = o.gen /\ n.closed = o.closed /\ n.pending = None
  BY DEF Slot
<1>8. m.kind = "frame" /\ m.stream = s /\ m.gen = o.gen
  OBVIOUS
<1>9. slots' = [slots EXCEPT ![s] = n]
  BY <1>1, <1>2 DEF Flush, TypeOK
<1>10. Post(m)
  BY <1>1, <1>2 DEF Flush
<1> HIDE DEF n, m
<1>11. slots'[s] = n /\ \A t \in Streams : t # s => slots'[t] = slots[t]
  BY <1>9 DEF TypeOK
<1>12. ~Stale(s, o.gen)
  BY <1>1, <1>3, <1>5 DEF Stale, Gens, LiveCanvasAssumption
<1>13. /\ \A c \in Control : QueuedOK(c) => QueuedOK(c)'
       /\ \A t \in Streams : Remembered(t)'
  BY <1>3, <1>4, <1>6, <1>7, <1>11, <1>12, SlotAdvances
<1>14. /\ retired[s] < o.gen
       /\ layers[s] # None => layers[s].gen <= o.gen
       /\ \A k \in 1 .. Len(control) :
            (control[k].kind # "other" /\ control[k].stream = s) =>
              IF control[k].kind = "close" THEN control[k].gen < o.gen
                                           ELSE control[k].gen <= o.gen
  BY <1>3, <1>4, <1>12, NotStaleFollows
<1>15. \A k \in 1 .. Len(control) : Precedes(control[k], m)
  BY <1>8, <1>14 DEF Precedes
<1>16. QueuedOK(m)'
  BY <1>3, <1>4, <1>6, <1>7, <1>8, <1>11, <1>14 DEF QueuedOK, Gens, LiveCanvasAssumption
<1>17. /\ \A k \in 1 .. Len(control') : QueuedOK(control[k])'
       /\ \A j \in 1 .. Len(control') : \A i \in 1 .. j - 1 : Precedes(control[i], control[j])'
  BY <1>6, <1>10, <1>13, <1>15, <1>16, PostKeepsOrder
<1> QED
  BY <1>4, <1>13, <1>17 DEF GenInv, RetiredStaysClosed

LEMMA AcknowledgeGen ==
  ASSUME LiveCanvasAssumption, NoneAssumption, TypeOK, GenInv, Acknowledge
  PROVE  GenInv'
<1>1. PICK a \in Ack : a = Head(acks)
  BY DEF Acknowledge, TypeOK
<1>2. a.stream \in Streams
  BY DEF Ack
<1>3. slots' = Released(a) /\ UNCHANGED <<mode, control, layers, retired>>
  BY <1>1 DEF Acknowledge, frontendVars
<1>4. ASSUME NEW s \in Streams
      PROVE  /\ slots'[s] = None <=> slots[s] = None
             /\ slots[s] # None => /\ slots'[s].gen = slots[s].gen
                                   /\ slots'[s].closed = slots[s].closed
                                   /\ slots'[s].pending = slots[s].pending
  <2>1. CASE slots[a.stream] # None /\ slots' = [slots EXCEPT ![a.stream].flight = None]
    <3>1. PICK o \in Slot : o = slots[a.stream]
      BY <1>2, <2>1, Entries
    <3>2. [o EXCEPT !.flight = None] \in Slot
      BY DEF Slot
    <3>3. [o EXCEPT !.flight = None] # None
      BY <3>2, NoneAssumption
    <3>4. slots'[s] = IF s = a.stream THEN [o EXCEPT !.flight = None] ELSE slots[s]
      BY <1>2, <2>1, <3>1 DEF TypeOK
    <3> QED
      BY <2>1, <3>1, <3>3, <3>4 DEF Slot
  <2>2. CASE slots' = slots
    BY <2>2
  <2> QED
    BY <1>3, <2>1, <2>2 DEF Released
<1>5. ASSUME NEW c \in Control, QueuedOK(c) PROVE QueuedOK(c)'
  <2>1. CASE c.kind = "other"
    BY <2>1 DEF QueuedOK
  <2>2. CASE c.kind # "other"
    <3>1. c.stream \in Streams
      BY <2>2, ControlFields
    <3> QED
      BY <1>3, <1>4, <1>5, <2>2, <3>1 DEF QueuedOK
  <2> QED
    BY <2>1, <2>2
<1>6. \A k \in 1 .. Len(control) : control[k] \in Control
  BY DEF TypeOK
<1>7. \A k \in 1 .. Len(control') : QueuedOK(control[k])'
  BY <1>3, <1>5, <1>6 DEF GenInv, QueuedOK
<1>8. ASSUME NEW s \in Streams, Remembered(s) PROVE Remembered(s)'
  BY <1>3, <1>4, <1>8 DEF Remembered
<1> QED
  BY <1>3, <1>7, <1>8 DEF GenInv, RetiredStaysClosed, Precedes

LEMMA PostOtherGen ==
  ASSUME LiveCanvasAssumption, TypeOK, GenInv, PostOther
  PROVE  GenInv'
<1> DEFINE m == [kind |-> "other"]
<1>1. m \in Control /\ m.kind = "other"
  BY DEF Control
<1>2. Post(m) /\ mode # None /\ UNCHANGED <<mode, slots, layers, retired>>
  BY DEF PostOther, Post, frontendVars
<1> HIDE DEF m
<1>3. (\A k \in 1 .. Len(control) : Precedes(control[k], m)) /\ QueuedOK(m)'
  BY <1>1 DEF Precedes, QueuedOK
<1>4. \A c \in Control : QueuedOK(c) => QueuedOK(c)'
  BY <1>2 DEF QueuedOK
<1>5. /\ \A k \in 1 .. Len(control') : QueuedOK(control[k])'
      /\ \A j \in 1 .. Len(control') : \A i \in 1 .. j - 1 : Precedes(control[i], control[j])'
  BY <1>1, <1>2, <1>3, <1>4, PostKeepsOrder
<1> QED
  BY <1>2, <1>5 DEF GenInv, Remembered, RetiredStaysClosed

\* The frontend takes the first control d; the others keep their order, and each
\* of them still follows what the frontend has seen if it followed d.
LEMMA ReceiveKeepsOrder ==
  ASSUME LiveCanvasAssumption, TypeOK, GenInv, Receive,
         NEW d \in Control, d = control[1],
         \A c \in Control : QueuedOK(c) /\ Precedes(d, c) => QueuedOK(c)'
  PROVE  /\ \A k \in 1 .. Len(control') : QueuedOK(control[k])'
         /\ \A j \in 1 .. Len(control') : \A i \in 1 .. j - 1 : Precedes(control[i], control[j])'
<1>1. /\ control \in Seq(Control) /\ Len(control) \in Nat /\ Len(control) > 0
      /\ control' = Tail(control)
  BY DEF Receive, TypeOK
<1>2. /\ Len(control') = Len(control) - 1
      /\ \A k \in 1 .. Len(control) - 1 : control'[k] = control[k + 1]
  BY <1>1
<1>3. ASSUME NEW k \in 1 .. Len(control') PROVE QueuedOK(control[k])'
  <2>1. k + 1 \in 1 .. Len(control) /\ 1 \in 1 .. (k + 1) - 1 /\ control'[k] = control[k + 1]
    BY <1>1, <1>2
  <2>2. control[k + 1] \in Control /\ QueuedOK(control[k + 1])
    BY <1>1, <2>1 DEF GenInv
  <2>3. Precedes(control[1], control[k + 1])
    BY <2>1 DEF GenInv
  <2> QED
    BY <2>1, <2>2, <2>3 DEF QueuedOK, Precedes
<1>4. ASSUME NEW j \in 1 .. Len(control'), NEW i \in 1 .. j - 1
      PROVE  Precedes(control[i], control[j])'
  <2>1. /\ j + 1 \in 1 .. Len(control) /\ i + 1 \in 1 .. (j + 1) - 1
        /\ control'[i] = control[i + 1] /\ control'[j] = control[j + 1]
    BY <1>1, <1>2
  <2>2. Precedes(control[i + 1], control[j + 1])
    BY <2>1 DEF GenInv
  <2> QED
    BY <2>1, <2>2 DEF Precedes
<1> QED
  BY <1>3, <1>4

LEMMA ReceiveFrameGen ==
  ASSUME LiveCanvasAssumption, TypeOK, GenInv, Receive,
         NEW d \in Control, d = control[1], ReceiveFrame(d)
  PROVE  GenInv'
<1>1. /\ d.kind = "frame" /\ d.stream \in Streams /\ d.gen \in Nat
  BY ControlFields DEF ReceiveFrame, Gens, LiveCanvasAssumption
<1>2. QueuedOK(d) /\ mode # None /\ UNCHANGED <<mode, slots, retired>>
  BY DEF GenInv, Receive, ReceiveFrame, TypeOK
<1>3. \A s \in Streams : layers'[s] = layers[s] \/ (s = d.stream /\ layers'[s].gen = d.gen)
  BY DEF ReceiveFrame, ShowFrame, TypeOK
<1>4. ASSUME NEW c \in Control, QueuedOK(c), Precedes(d, c) PROVE QueuedOK(c)'
  <2>1. CASE c.kind = "other"
    BY <2>1 DEF QueuedOK
  <2>2. CASE c.kind # "other"
    <3>1. c.stream \in Streams
      BY <2>2, ControlFields
    <3> QED
      BY <1>1, <1>2, <1>3, <1>4, <2>2, <3>1 DEF QueuedOK, Precedes
  <2> QED
    BY <2>1, <2>2
<1>5. /\ \A k \in 1 .. Len(control') : QueuedOK(control[k])'
      /\ \A j \in 1 .. Len(control') : \A i \in 1 .. j - 1 : Precedes(control[i], control[j])'
  BY <1>4, ReceiveKeepsOrder
<1>6. ASSUME NEW s \in Streams PROVE Remembered(s)'
  BY <1>1, <1>2, <1>3 DEF GenInv, Remembered, QueuedOK
<1>7. RetiredStaysClosed'
  BY <1>1, <1>2, <1>3 DEF GenInv, RetiredStaysClosed, QueuedOK
<1> QED
  BY <1>2, <1>5, <1>6, <1>7 DEF GenInv

LEMMA ReceiveCloseGen ==
  ASSUME LiveCanvasAssumption, TypeOK, GenInv, Receive,
         NEW d \in Control, d = control[1], ReceiveClose(d)
  PROVE  GenInv'
<1>1. /\ d.kind = "close" /\ d.stream \in Streams /\ d.gen \in Nat /\ d.gen > 0
  BY ControlFields DEF ReceiveClose, Gens, LiveCanvasAssumption
<1>2. QueuedOK(d) /\ mode # None /\ UNCHANGED <<mode, slots>>
  BY DEF GenInv, Receive, TypeOK
<1>3. ~Older(d.stream, d.gen)
  <2>1. layers[d.stream] # None => layers[d.stream].gen \in Nat
    BY <1>1, Entries DEF Layer, Gens, LiveCanvasAssumption
  <2> QED
    BY <1>1, <1>2, <2>1 DEF QueuedOK, Older
<1>4. \A s \in Streams : layers'[s] = IF s = d.stream THEN None ELSE layers[s]
  BY <1>1, <1>3 DEF ReceiveClose, TypeOK
<1>5. \A s \in Streams : retired'[s] = IF s = d.stream THEN d.gen ELSE retired[s]
  <2>1. retired[d.stream] \in Nat /\ retired[d.stream] <= d.gen
    BY <1>1, <1>2 DEF QueuedOK, TypeOK
  <2>2. Max({retired[d.stream], d.gen}) = d.gen
    BY <1>1, <2>1, MaxOfTwo
  <2> QED
    BY <1>1, <2>2 DEF ReceiveClose, TypeOK
<1>6. ASSUME NEW c \in Control, QueuedOK(c), Precedes(d, c) PROVE QueuedOK(c)'
  <2>1. CASE c.kind = "other"
    BY <2>1 DEF QueuedOK
  <2>2. CASE c.kind # "other"
    <3>1. c.stream \in Streams /\ c.gen \in Nat
      BY <2>2, ControlFields DEF Gens, LiveCanvasAssumption
    <3> QED
      BY <1>1, <1>2, <1>4, <1>5, <1>6, <2>2, <3>1 DEF QueuedOK, Precedes
  <2> QED
    BY <2>1, <2>2
<1>7. /\ \A k \in 1 .. Len(control') : QueuedOK(control[k])'
      /\ \A j \in 1 .. Len(control') : \A i \in 1 .. j - 1 : Precedes(control[i], control[j])'
  BY <1>6, ReceiveKeepsOrder
<1>8. ASSUME NEW s \in Streams PROVE Remembered(s)'
  BY <1>1, <1>2, <1>4, <1>5 DEF GenInv, Remembered, QueuedOK
<1>9. RetiredStaysClosed'
  BY <1>1, <1>4, <1>5 DEF GenInv, RetiredStaysClosed
<1> QED
  BY <1>2, <1>7, <1>8, <1>9 DEF GenInv

LEMMA ReceiveGen ==
  ASSUME LiveCanvasAssumption, TypeOK, GenInv, Receive
  PROVE  GenInv'
<1>1. PICK d \in Control : d = control[1] /\ d = Head(control)
  BY DEF Receive, TypeOK
<1>2. CASE ReceiveFrame(d)
  BY <1>1, <1>2, ReceiveFrameGen
<1>3. CASE ReceiveClose(d)
  BY <1>1, <1>3, ReceiveCloseGen
<1>4. CASE ReceiveOther(d)
  <2>1. mode # None /\ UNCHANGED <<mode, slots, layers, retired>>
    BY <1>4 DEF Receive, ReceiveOther
  <2>2. \A c \in Control : QueuedOK(c) /\ Precedes(d, c) => QueuedOK(c)'
    BY <2>1 DEF QueuedOK
  <2>3. /\ \A k \in 1 .. Len(control') : QueuedOK(control[k])'
        /\ \A j \in 1 .. Len(control') : \A i \in 1 .. j - 1 : Precedes(control[i], control[j])'
    BY <1>1, <2>2, ReceiveKeepsOrder
  <2> QED
    BY <2>1, <2>3 DEF GenInv, Remembered, RetiredStaysClosed
<1> QED
  BY <1>1, <1>2, <1>3, <1>4 DEF Receive

LEMMA NextGen ==
  ASSUME LiveCanvasAssumption, NoneAssumption, TypeOK, GenInv, [Next]_vars
  PROVE  GenInv'
<1>1. ASSUME NEW s \in Streams, NEW g \in Gens, Produce(s, g) PROVE GenInv'
  BY <1>1, GenStutter DEF Produce, frontendVars
<1>2. ASSUME NEW s \in Streams, SubmitUpdate(s) PROVE GenInv'
  BY <1>2, SubmitUpdateGen
<1>3. ASSUME NEW s \in Streams, Flush(s) PROVE GenInv'
  BY <1>3, FlushGen
<1>4. CASE Acknowledge
  BY <1>4, AcknowledgeGen
<1>5. CASE PostOther
  BY <1>5, PostOtherGen
<1>6. CASE Receive
  BY <1>6, ReceiveGen
<1>7. ASSUME NEW m \in {"mapped", "streamed"}, Attach(m) PROVE GenInv'
  <2>1. control' = <<>> /\ Len(control') = 0
    BY <1>7 DEF Attach
  <2>2. \A s \in Streams : slots'[s] = None /\ layers'[s] = None /\ retired'[s] = 0
    BY <1>7 DEF Attach
  <2> QED
    BY <2>1, <2>2 DEF GenInv, Remembered, RetiredStaysClosed
<1>8. CASE Detach
  <2>1. mode' = None /\ control' = <<>> /\ Len(control') = 0 /\ UNCHANGED <<layers, retired>>
    BY <1>8 DEF Detach, frontendVars
  <2> QED
    BY <2>1 DEF GenInv, RetiredStaysClosed
<1>9. CASE UNCHANGED vars
  BY <1>9, GenStutter DEF vars
<1> QED
  BY <1>1, <1>2, <1>3, <1>4, <1>5, <1>6, <1>7, <1>8, <1>9 DEF Next

LEMMA GenInvariant == ASSUME LiveCanvasAssumption, NoneAssumption PROVE Spec => [](TypeOK /\ GenInv)
<1>1. Init => TypeOK /\ GenInv
  BY InitType DEF Init, GenInv, Remembered, RetiredStaysClosed
<1>2. TypeOK /\ GenInv /\ [Next]_vars => (TypeOK /\ GenInv)'
  BY NextType, NextGen
<1> QED
  BY <1>1, <1>2, PTL DEF Spec

\* A stream whose close the frontend has handled shows no frame of that
\* generation again, whatever producers submit and whatever controls a full
\* channel loses (live_canvas.rs, Transport::submit).
THEOREM RetiredClosed ==
  ASSUME LiveCanvasAssumption, NoneAssumption PROVE Spec => []RetiredStaysClosed
<1>1. GenInv => RetiredStaysClosed
  BY DEF GenInv
<1> QED
  BY <1>1, GenInvariant, PTL

\* Generations reach the frontend in order, and only higher ones follow a close.
THEOREM GenerationsOrdered ==
  ASSUME LiveCanvasAssumption, NoneAssumption PROVE Spec => []InGenerationOrder
<1>1. TypeOK /\ GenInv => InGenerationOrder
  <2> SUFFICES ASSUME TypeOK, GenInv PROVE InGenerationOrder
    OBVIOUS
  <2>1. ASSUME NEW j \in DOMAIN control, control[j].kind # "other"
        PROVE  /\ layers[control[j].stream] # None =>
                    layers[control[j].stream].gen <= control[j].gen
               /\ \A i \in 1 .. j - 1 : Precedes(control[i], control[j])
    <3>1. j \in 1 .. Len(control)
      BY DEF TypeOK
    <3>2. QueuedOK(control[j])
      BY <3>1 DEF GenInv
    <3> QED
      BY <2>1, <3>1, <3>2 DEF GenInv, QueuedOK
  <2> QED
    BY <2>1 DEF InGenerationOrder, Precedes
<1> QED
  BY <1>1, GenInvariant, PTL
-----------------------------------------------------------------------------
(* The byte budget *)

\* A set of streams whose frames are finitely many bytes.
Weighed(S) == IsFiniteSet(BytesIn(S))

LEMMA OneFrame ==
  ASSUME LiveCanvasAssumption, NEW s \in Streams
  PROVE  /\ IsFiniteSet({s} \X (1 .. Size[s]))
         /\ Cardinality({s} \X (1 .. Size[s])) = Size[s]
<1>1. Size[s] \in Nat
  BY DEF LiveCanvasAssumption
<1>2. IsFiniteSet(1 .. Size[s]) /\ Cardinality(1 .. Size[s]) = Size[s]
  <2>1. 1 \in Int /\ Size[s] \in Int
    BY <1>1
  <2>2. /\ IsFiniteSet(1 .. Size[s])
        /\ Cardinality(1 .. Size[s]) = IF 1 > Size[s] THEN 0 ELSE Size[s] - 1 + 1
    BY <2>1, FS_Interval
  <2> QED
    BY <1>1, <2>2
<1>3. IsFiniteSet({s}) /\ Cardinality({s}) = 1
  BY FS_Singleton
<1>4. /\ IsFiniteSet({s} \X (1 .. Size[s]))
      /\ Cardinality({s} \X (1 .. Size[s])) = Cardinality({s}) * Cardinality(1 .. Size[s])
  BY <1>2, <1>3, FS_Product
<1> QED
  BY <1>1, <1>2, <1>3, <1>4

LEMMA FewerBytes ==
  ASSUME NEW S, NEW T, T \subseteq S, Weighed(S)
  PROVE  /\ Weighed(T) /\ FrameBytes(T) <= FrameBytes(S)
         /\ FrameBytes(S) \in Nat /\ FrameBytes(T) \in Nat
<1>1. BytesIn(T) \subseteq BytesIn(S)
  BY DEF BytesIn
<1> QED
  BY <1>1, FS_Subset, FS_CardinalityType DEF Weighed, FrameBytes

LEMMA OneMoreFrame ==
  ASSUME LiveCanvasAssumption, NEW S, Weighed(S), NEW s \in Streams, s \notin S
  PROVE  /\ Weighed(S \cup {s})
         /\ FrameBytes(S \cup {s}) = FrameBytes(S) + Size[s]
<1> DEFINE One == {s} \X (1 .. Size[s])
<1>1. BytesIn(S \cup {s}) = BytesIn(S) \cup One
  BY DEF BytesIn
<1>2. BytesIn(S) \cap One = {}
  BY DEF BytesIn
<1>3. IsFiniteSet(One) /\ Cardinality(One) = Size[s] /\ Size[s] \in Nat
  BY OneFrame DEF LiveCanvasAssumption
<1> HIDE DEF One
<1>4. /\ IsFiniteSet(BytesIn(S) \cup One)
      /\ Cardinality(BytesIn(S) \cup One)
           = Cardinality(BytesIn(S)) + Cardinality(One) - Cardinality(BytesIn(S) \cap One)
  BY <1>3, FS_Union DEF Weighed
<1>5. Cardinality(BytesIn(S)) \in Nat /\ Cardinality(BytesIn(S) \cap One) = 0
  BY <1>2, FS_CardinalityType, FS_EmptySet DEF Weighed
<1>6. Cardinality(BytesIn(S) \cup One) = Cardinality(BytesIn(S)) + Size[s]
  BY <1>3, <1>4, <1>5
<1>7. BytesIn(S \cup {s}) = BytesIn(S) \cup One
  BY <1>1
<1> QED
  BY <1>4, <1>6, <1>7 DEF Weighed, FrameBytes

Pending(sl) == {t \in Present(sl) : sl[t].pending # None}
Leased(sl) == {t \in Present(sl) : sl[t].flight # None}
HeldOf(sl) ==
  /\ IsFiniteSet(Present(sl)) /\ Cardinality(Present(sl)) <= MaxStreams
  /\ Weighed(Pending(sl)) /\ Weighed(Leased(sl))
  /\ FrameBytes(Pending(sl)) + FrameBytes(Leased(sl)) <= Budget

LEMMA HeldFewer ==
  ASSUME LiveCanvasAssumption, NEW sl, HeldOf(sl), NEW new,
         Pending(new) \subseteq Pending(sl), Leased(new) \subseteq Leased(sl),
         IsFiniteSet(Present(new)), Cardinality(Present(new)) <= MaxStreams
  PROVE  HeldOf(new)
<1>1. /\ Weighed(Pending(new)) /\ FrameBytes(Pending(new)) <= FrameBytes(Pending(sl))
      /\ FrameBytes(Pending(new)) \in Nat /\ FrameBytes(Pending(sl)) \in Nat
  BY FewerBytes DEF HeldOf
<1>2. /\ Weighed(Leased(new)) /\ FrameBytes(Leased(new)) <= FrameBytes(Leased(sl))
      /\ FrameBytes(Leased(new)) \in Nat /\ FrameBytes(Leased(sl)) \in Nat
  BY FewerBytes DEF HeldOf
<1>3. FrameBytes(Pending(new)) + FrameBytes(Leased(new)) <= Budget
  BY <1>1, <1>2 DEF HeldOf, LiveCanvasAssumption
<1> QED
  BY <1>1, <1>2, <1>3 DEF HeldOf

\* A stream that has a slot or finds one free.
LEMMA RoomForStream ==
  ASSUME LiveCanvasAssumption, NEW s \in Streams, HeldOf(slots), HasSlot(s),
         NEW new, Present(new) \subseteq Present(slots) \cup {s}
  PROVE  IsFiniteSet(Present(new)) /\ Cardinality(Present(new)) <= MaxStreams
<1>1. Cardinality(Present(slots)) \in Nat /\ IsFiniteSet(Present(slots)) /\ MaxStreams \in Nat
      /\ Cardinality(Present(slots)) <= MaxStreams
  BY FS_CardinalityType DEF HeldOf, LiveCanvasAssumption
<1>2. /\ IsFiniteSet(Present(slots) \cup {s})
      /\ Cardinality(Present(slots) \cup {s}) =
           IF s \in Present(slots) THEN Cardinality(Present(slots)) ELSE Cardinality(Present(slots)) + 1
  BY <1>1, FS_AddElement
<1>3. Cardinality(Present(slots) \cup {s}) <= MaxStreams
  BY <1>1, <1>2 DEF HasSlot, Present
<1>4. /\ IsFiniteSet(Present(new))
      /\ Cardinality(Present(new)) <= Cardinality(Present(slots) \cup {s})
  BY <1>2, FS_Subset
<1>5. Cardinality(Present(new)) \in Nat /\ Cardinality(Present(slots) \cup {s}) \in Nat
  BY <1>2, <1>4, FS_CardinalityType
<1> QED
  BY <1>1, <1>3, <1>4, <1>5

\* A frame accepted within the budget.
LEMMA HeldKept ==
  ASSUME LiveCanvasAssumption, NEW s \in Streams, HeldOf(slots), Bytes(s) <= Budget, NEW new,
         Pending(new) \subseteq Pending(slots) \cup {s}, Leased(new) \subseteq Leased(slots),
         IsFiniteSet(Present(new)), Cardinality(Present(new)) <= MaxStreams
  PROVE  HeldOf(new)
<1> DEFINE Others == {t \in Present(slots) : t # s /\ slots[t].pending # None}
<1>1. Others \subseteq Pending(slots) /\ s \notin Others /\ Pending(new) \subseteq Others \cup {s}
  BY DEF Pending
<1>2. Bytes(s) = FrameBytes(Others) + FrameBytes(Leased(slots)) + Size[s]
  BY DEF Bytes, Leased
<1> HIDE DEF Others
<1>3. Weighed(Others) /\ FrameBytes(Others) \in Nat
  BY <1>1, FewerBytes DEF HeldOf
<1>4. /\ Weighed(Others \cup {s}) /\ FrameBytes(Others \cup {s}) = FrameBytes(Others) + Size[s]
  BY <1>1, <1>3, OneMoreFrame
<1>5. /\ Weighed(Pending(new)) /\ FrameBytes(Pending(new)) <= FrameBytes(Others \cup {s})
      /\ FrameBytes(Pending(new)) \in Nat /\ FrameBytes(Others \cup {s}) \in Nat
  BY <1>1, <1>4, FewerBytes
<1>6. /\ Weighed(Leased(new)) /\ FrameBytes(Leased(new)) <= FrameBytes(Leased(slots))
      /\ FrameBytes(Leased(new)) \in Nat /\ FrameBytes(Leased(slots)) \in Nat
  BY FewerBytes DEF HeldOf
<1>7. Size[s] \in Nat /\ Budget \in Nat
  BY DEF LiveCanvasAssumption
<1>8. FrameBytes(Pending(new)) + FrameBytes(Leased(new)) <= Budget
  BY <1>2, <1>3, <1>4, <1>5, <1>6, <1>7
<1> QED
  BY <1>5, <1>6, <1>8 DEF HeldOf

\* A pending frame that is leased.
LEMMA HeldLeased ==
  ASSUME LiveCanvasAssumption, NEW s \in Streams, HeldOf(slots), NEW new,
         s \in Pending(slots), s \notin Leased(slots), Present(new) = Present(slots),
         Pending(new) = Pending(slots) \ {s}, Leased(new) = Leased(slots) \cup {s}
  PROVE  HeldOf(new)
<1> DEFINE Rest == Pending(slots) \ {s}
<1>1. Rest \subseteq Pending(slots) /\ s \notin Rest /\ Pending(slots) = Rest \cup {s}
  OBVIOUS
<1> HIDE DEF Rest
<1>2. Weighed(Rest) /\ FrameBytes(Rest) \in Nat
  BY <1>1, FewerBytes DEF HeldOf
<1>3. FrameBytes(Pending(slots)) = FrameBytes(Rest) + Size[s]
  BY <1>1, <1>2, OneMoreFrame
<1>4. /\ Weighed(Leased(slots) \cup {s})
      /\ FrameBytes(Leased(slots) \cup {s}) = FrameBytes(Leased(slots)) + Size[s]
  BY OneMoreFrame DEF HeldOf
<1>5. FrameBytes(Leased(slots)) \in Nat /\ Size[s] \in Nat
  BY FewerBytes DEF HeldOf, LiveCanvasAssumption
<1>6. FrameBytes(Rest) + FrameBytes(Leased(slots) \cup {s}) <= Budget
  BY <1>2, <1>3, <1>4, <1>5 DEF HeldOf
<1> QED
  BY <1>2, <1>4, <1>6 DEF HeldOf, Rest

-----------------------------------------------------------------------------
(* Leases *)

\* The slot still waits for the frame its open stream has on the way.
Awaited(d, sl) ==
  sl[d.stream] # None /\ sl[d.stream].gen = d.gen /\ ~sl[d.stream].closed =>
    sl[d.stream].flight = d.seq

Answered == {acks[k].seq : k \in DOMAIN acks}

\* Frames are queued in the order of their numbers, behind every one that is answered.
LeasesOf(c, answered, sl, n) ==
  /\ \A i \in DOMAIN c : c[i].kind = "frame" =>
       /\ c[i].seq <= n /\ \A k \in answered : k < c[i].seq
       /\ \A j \in DOMAIN c : j > i /\ c[j].kind = "frame" => c[i].seq < c[j].seq
       /\ Awaited(c[i], sl)
  /\ \A k \in answered : k <= n

\* The inductive invariant behind LeasesHeld.
LeaseInv ==
  /\ LeasesOf(control, Answered, slots, sequence) /\ HeldOf(slots) /\ FrontendSurvives

LEMMA QueueEnd ==
  ASSUME NEW q \in Seq(Control), NEW m \in Control
  PROVE  /\ DOMAIN Append(q, m) = DOMAIN q \cup {Len(q) + 1} /\ Append(q, m)[Len(q) + 1] = m
         /\ \A i \in DOMAIN q : Append(q, m)[i] = q[i] /\ q[i] \in Control /\ i \in Nat
                                /\ i < Len(q) + 1
         /\ Len(q) + 1 \in Nat
  OBVIOUS

\* A control that is no frame, posted or refused.
LEMMA LeasesPosted ==
  ASSUME NEW c \in Seq(Control), NEW m \in Control, m.kind # "frame", NEW answered, NEW sl, NEW n,
         LeasesOf(c, answered, sl, n)
  PROVE  LeasesOf(Append(c, m), answered, sl, n)
<1> DEFINE r == Append(c, m)
           e == Len(c) + 1
<1>1. /\ DOMAIN r = DOMAIN c \cup {e} /\ r[e] = m
      /\ \A i \in DOMAIN c : r[i] = c[i]
  BY QueueEnd
<1> HIDE DEF r, e
<1>2. LeasesOf(r, answered, sl, n)
  BY <1>1 DEF LeasesOf
<1> QED
  BY <1>2 DEF r

\* A frame with the next number.
LEMMA LeasesFlushed ==
  ASSUME NEW c \in Seq(Control), NEW m \in Control, m.kind = "frame", NEW answered \in SUBSET Nat,
         NEW sl, NEW n \in Nat, m.seq = n + 1,
         LeasesOf(c, answered, sl, n), Awaited(m, sl)
  PROVE  LeasesOf(Append(c, m), answered, sl, n + 1) /\ LeasesOf(c, answered, sl, n + 1)
<1> DEFINE r == Append(c, m)
           e == Len(c) + 1
<1>1. /\ DOMAIN r = DOMAIN c \cup {e} /\ r[e] = m /\ e \in Nat
      /\ \A i \in DOMAIN c : r[i] = c[i] /\ i < e /\ i \in Nat
  BY QueueEnd
<1>2. \A i \in DOMAIN c : c[i].kind = "frame" => c[i].seq \in Nat /\ c[i].seq <= n
  <2>1. \A i \in DOMAIN c : c[i] \in Control
    BY QueueEnd
  <2> QED
    BY <2>1, ControlFields DEF LeasesOf
<1>3. \A k \in answered : k \in Nat /\ k <= n
  BY DEF LeasesOf
<1> HIDE DEF r, e
<1>4. LeasesOf(c, answered, sl, n + 1)
  BY <1>2, <1>3 DEF LeasesOf
<1>5. LeasesOf(r, answered, sl, n + 1)
  <2>1. ASSUME NEW i \in DOMAIN r, r[i].kind = "frame"
        PROVE  /\ r[i].seq <= n + 1 /\ \A k \in answered : k < r[i].seq
               /\ \A j \in DOMAIN r : j > i /\ r[j].kind = "frame" => r[i].seq < r[j].seq
               /\ Awaited(r[i], sl)
    <3>1. CASE i = e
      <4>1. \A j \in DOMAIN r : ~(j > i)
        BY <1>1, <3>1
      <4> QED
        BY <1>1, <1>3, <3>1, <4>1
    <3>2. CASE i \in DOMAIN c
      BY <1>1, <1>2, <1>3, <2>1, <3>2 DEF LeasesOf
    <3> QED
      BY <1>1, <3>1, <3>2
  <2> QED
    BY <1>3, <2>1 DEF LeasesOf
<1> QED
  BY <1>4, <1>5 DEF r

\* The frontend takes a message and answers it if it is a frame.
LEMMA LeasesTaken ==
  ASSUME NEW c \in Seq(Control), c # <<>>, NEW answered, NEW sl, NEW n, NEW more,
         LeasesOf(c, answered, sl, n),
         more = answered \/ (Head(c).kind = "frame" /\ more = answered \cup {Head(c).seq})
  PROVE  LeasesOf(Tail(c), more, sl, n)
<1> DEFINE r == Tail(c)
           d == Head(c)
<1>1. /\ 1 \in DOMAIN c /\ c[1] = d
      /\ \A i \in DOMAIN r : r[i] = c[i + 1] /\ i + 1 \in DOMAIN c /\ i + 1 > 1 /\ i \in Nat
  OBVIOUS
<1> HIDE DEF r, d
<1>2. ASSUME NEW i \in DOMAIN r, r[i].kind = "frame"
      PROVE  /\ r[i].seq <= n /\ \A k \in more : k < r[i].seq
             /\ \A j \in DOMAIN r : j > i /\ r[j].kind = "frame" => r[i].seq < r[j].seq
             /\ Awaited(r[i], sl)
  <2>1. /\ r[i].seq <= n /\ \A k \in answered : k < r[i].seq /\ Awaited(r[i], sl)
        /\ d.kind = "frame" => d.seq < r[i].seq
    BY <1>1, <1>2 DEF LeasesOf
  <2>2. \A j \in DOMAIN r : j > i /\ r[j].kind = "frame" => r[i].seq < r[j].seq
    <3>1. \A j \in DOMAIN r : j > i => j + 1 > i + 1
      BY <1>1
    <3> QED
      BY <1>1, <1>2, <3>1 DEF LeasesOf
  <2>3. \A k \in more : k < r[i].seq
    BY <2>1 DEF d
  <2>4. Awaited(r[i], sl)
    BY <1>1, <1>2 DEF LeasesOf
  <2> QED
    BY <2>1, <2>2, <2>3, <2>4
<1>3. \A k \in more : k <= n
  BY <1>1 DEF LeasesOf, d
<1> QED
  BY <1>2, <1>3 DEF LeasesOf, r

\* The slots change so that what was awaited still is.
LEMMA LeasesSlots ==
  ASSUME NEW c, NEW answered, NEW sl, NEW new, NEW n,
         LeasesOf(c, answered, sl, n),
         \A i \in DOMAIN c : c[i].kind = "frame" /\ Awaited(c[i], sl) => Awaited(c[i], new)
  PROVE  LeasesOf(c, answered, new, n)
BY DEF LeasesOf

LEMMA LeaseFacts ==
  ASSUME LiveCanvasAssumption, TypeOK
  PROVE  /\ Answered \in SUBSET Nat /\ control \in Seq(Control)
         /\ \A i \in DOMAIN control : control[i] \in Control
         /\ \A i \in DOMAIN control : i \in 1 .. Len(control)
<1>1. acks \in Seq(Ack) /\ control \in Seq(Control)
  BY DEF TypeOK
<1>2. \A k \in DOMAIN acks : acks[k] \in Ack
  BY <1>1
<1> QED
  BY <1>1, <1>2 DEF Answered, Ack

LEMMA LeaseStutter ==
  ASSUME LeaseInv, UNCHANGED <<slots, sequence, control, acks, beside, frontend>>
  PROVE  LeaseInv'
BY DEF LeaseInv, Answered, FrontendSurvives

\* An update of a stream leaves what is queued of its open generation awaited: a close
\* closes it, a newer generation leaves it behind.
LEMMA SubmitUpdateLease ==
  ASSUME LiveCanvasAssumption, NoneAssumption, TypeOK, GenInv, LeaseInv,
         NEW s \in Streams, SubmitUpdate(s)
  PROVE  LeaseInv'
<1>1. PICK u \in Update : u = updates[s]
  BY DEF SubmitUpdate, TypeOK
<1>2. u.gen \in Gens /\ u.gen \in Nat /\ u.val \in 1 .. MaxUpdates
  BY DEF Update, Gens, LiveCanvasAssumption
<1>3. UNCHANGED <<sequence, acks, beside, frontend>> /\ Answered' = Answered
  BY DEF SubmitUpdate, frontendVars, Answered
<1>4. CASE UNCHANGED <<slots, control, session>>
  BY <1>3, <1>4, LeaseStutter
<1>5. CASE ~Stale(s, u.gen) /\ mode # None /\ CloseStream(s, u)
  <2> DEFINE x == [gen |-> u.gen, pending |-> None, flight |-> None, closed |-> TRUE]
             m == [kind |-> "close", stream |-> s, gen |-> u.gen, seq |-> 0, val |-> u.val]
  <2>1. x # None /\ x.pending = None /\ x.flight = None /\ x.closed
    <3>1. x \in Slot
      BY <1>2 DEF Slot
    <3> QED
      BY <3>1, NoneAssumption
  <2>2. m \in Control /\ m.kind = "close"
    BY <1>2 DEF Control, LiveCanvasAssumption
  <2>3. slots' = [slots EXCEPT ![s] = x] /\ Post(m) /\ HasSlot(s)
    BY <1>5 DEF CloseStream
  <2> HIDE DEF x, m
  <2>4. slots'[s] = x /\ \A t \in Streams : t # s => slots'[t] = slots[t]
    BY <2>3 DEF TypeOK
  <2>5. \A i \in DOMAIN control : control[i].kind = "frame" /\ Awaited(control[i], slots)
          => Awaited(control[i], slots')
    <3> SUFFICES ASSUME NEW i \in DOMAIN control, control[i].kind = "frame",
                        Awaited(control[i], slots)
                 PROVE  Awaited(control[i], slots')
      OBVIOUS
    <3>1. control[i].stream \in Streams
      BY LeaseFacts, ControlFields
    <3> QED
      BY <2>1, <2>4, <3>1 DEF Awaited
  <2>6. LeasesOf(control, Answered, slots', sequence)
    BY <2>5, LeasesSlots DEF LeaseInv
  <2>7. control \in Seq(Control)
    BY LeaseFacts
  <2>8. LeasesOf(control', Answered, slots', sequence)
    BY <2>2, <2>3, <2>6, <2>7, LeasesPosted DEF Post
  <2>9. HeldOf(slots')
    <3>1. /\ Present(slots') \subseteq Present(slots) \cup {s}
          /\ Pending(slots') \subseteq Pending(slots) /\ Leased(slots') \subseteq Leased(slots)
      BY <2>1, <2>4 DEF Present, Pending, Leased
    <3>2. IsFiniteSet(Present(slots')) /\ Cardinality(Present(slots')) <= MaxStreams
      BY <2>3, <3>1, RoomForStream DEF LeaseInv
    <3> QED
      BY <3>1, <3>2, HeldFewer DEF LeaseInv
  <2> QED
    BY <1>3, <2>8, <2>9 DEF LeaseInv, FrontendSurvives
<1>6. CASE ~Stale(s, u.gen) /\ mode # None /\ KeepFrame(s, u)
  <2> DEFINE x == [gen |-> u.gen, pending |-> u.val, closed |-> FALSE,
                   flight |-> IF slots[s] # None /\ slots[s].gen = u.gen
                                THEN slots[s].flight ELSE None]
  <2>1. x # None /\ x.gen = u.gen
        /\ x.flight = IF slots[s] # None /\ slots[s].gen = u.gen THEN slots[s].flight ELSE None
    <3>1. slots[s] # None => slots[s].flight \in Nat \cup {None}
      BY Entries DEF Slot
    <3>2. x \in Slot
      BY <1>2, <3>1 DEF Slot
    <3> QED
      BY <3>2, NoneAssumption
  <2>2. slots' = [slots EXCEPT ![s] = x] /\ control' = control /\ HasSlot(s) /\ Bytes(s) <= Budget
    BY <1>6 DEF KeepFrame
  <2> HIDE DEF x
  <2>3. slots'[s] = x /\ \A t \in Streams : t # s => slots'[t] = slots[t]
    BY <2>2 DEF TypeOK
  <2>4. \A i \in DOMAIN control : control[i].kind = "frame" /\ Awaited(control[i], slots)
          => Awaited(control[i], slots')
    <3> SUFFICES ASSUME NEW i \in DOMAIN control, control[i].kind = "frame",
                        Awaited(control[i], slots)
                 PROVE  Awaited(control[i], slots')
      OBVIOUS
    <3>1. control[i].stream \in Streams /\ control[i].gen \in Nat
      BY LeaseFacts, ControlFields DEF Gens, LiveCanvasAssumption
    <3>2. CASE control[i].stream # s
      BY <2>3, <3>1, <3>2 DEF Awaited
    <3>3. CASE control[i].stream = s
      <4>1. slots[s] # None /\ control[i].gen <= slots[s].gen
        <5>1. QueuedOK(control[i])
          BY LeaseFacts DEF GenInv
        <5> QED
          BY <3>3, <5>1 DEF QueuedOK
      <4>2. slots[s].gen \in Nat
        BY <4>1, Entries DEF Slot, Gens, LiveCanvasAssumption
      <4>3. slots[s].gen < u.gen \/ (slots[s].gen = u.gen /\ ~slots[s].closed)
        BY <1>2, <1>6, <4>1, <4>2 DEF Stale
      <4> QED
        BY <1>2, <2>1, <2>3, <3>1, <3>3, <4>1, <4>2, <4>3 DEF Awaited
    <3> QED
      BY <3>2, <3>3
  <2>5. LeasesOf(control, Answered, slots', sequence)
    BY <2>4, LeasesSlots DEF LeaseInv
  <2>6. HeldOf(slots')
    <3>1. /\ Present(slots') \subseteq Present(slots) \cup {s}
          /\ Pending(slots') \subseteq Pending(slots) \cup {s} /\ Leased(slots') \subseteq Leased(slots)
      BY <2>1, <2>3 DEF Present, Pending, Leased
    <3>2. IsFiniteSet(Present(slots')) /\ Cardinality(Present(slots')) <= MaxStreams
      BY <2>2, <3>1, RoomForStream DEF LeaseInv
    <3> QED
      BY <2>2, <3>1, <3>2, HeldKept DEF LeaseInv
  <2> QED
    BY <1>3, <2>2, <2>5, <2>6 DEF LeaseInv, FrontendSurvives
<1>7. CASE RefuseUpdate(s, u)
  BY <1>3, <1>7, LeaseStutter DEF RefuseUpdate
<1> QED
  BY <1>1, <1>4, <1>5, <1>6, <1>7 DEF SubmitUpdate

LEMMA FlushLease ==
  ASSUME LiveCanvasAssumption, NoneAssumption, TypeOK, GenInv, LeaseInv, NEW s \in Streams, Flush(s)
  PROVE  LeaseInv'
<1>1. PICK o \in Slot : o = slots[s]
  BY Entries DEF Flush
<1>2. PICK q \in Nat : q = sequence + 1
  BY DEF TypeOK
<1>3. /\ o.gen \in Gens /\ o.pending \in 1 .. MaxUpdates /\ o.pending \in Nat /\ o # None
      /\ o.flight = None /\ o.pending # None
  BY <1>1 DEF Flush, Slot, LiveCanvasAssumption
<1>4. UNCHANGED <<acks, beside, frontend>> /\ Answered' = Answered /\ sequence' = q /\ sequence \in Nat
  BY <1>2 DEF Flush, frontendVars, Answered, TypeOK
<1> DEFINE n == [o EXCEPT !.flight = q, !.pending = None]
           m == [kind |-> "frame", stream |-> s, gen |-> o.gen, seq |-> q, val |-> o.pending]
<1>5. n # None /\ m \in Control
  <2>1. n \in Slot
    BY <1>3 DEF Slot
  <2>2. m \in Control
    BY <1>3 DEF Control
  <2> HIDE DEF n, m
  <2> QED
    BY <2>1, <2>2, NoneAssumption
<1>6. n.gen = o.gen /\ n.closed = o.closed /\ n.pending = None /\ n.flight = q
  BY DEF Slot
<1>7. m.kind = "frame" /\ m.stream = s /\ m.gen = o.gen /\ m.seq = q
  OBVIOUS
<1>8. slots' = [slots EXCEPT ![s] = n] /\ Post(m)
  BY <1>1, <1>2 DEF Flush, TypeOK
<1> HIDE DEF n, m
<1>9. slots'[s] = n /\ \A t \in Streams : t # s => slots'[t] = slots[t]
  BY <1>8 DEF TypeOK
<1>10. \A i \in DOMAIN control : control[i].kind = "frame" /\ Awaited(control[i], slots)
         => Awaited(control[i], slots')
  <2> SUFFICES ASSUME NEW i \in DOMAIN control, control[i].kind = "frame", Awaited(control[i], slots)
               PROVE  Awaited(control[i], slots')
    OBVIOUS
  <2>1. control[i].stream \in Streams /\ control[i].seq # None
    BY LeaseFacts, ControlFields DEF LiveCanvasAssumption
  <2> QED
    BY <1>1, <1>3, <1>6, <1>9, <2>1 DEF Awaited
<1>11. LeasesOf(control, Answered, slots', sequence) /\ control \in Seq(Control)
       /\ Answered \in SUBSET Nat
  BY <1>10, LeasesSlots, LeaseFacts DEF LeaseInv
<1>12. Awaited(m, slots')
  BY <1>6, <1>7, <1>9 DEF Awaited
<1>13. LeasesOf(control', Answered, slots', q)
  <2>1. /\ LeasesOf(Append(control, m), Answered, slots', sequence + 1)
        /\ LeasesOf(control, Answered, slots', sequence + 1)
    BY <1>2, <1>4, <1>5, <1>7, <1>11, <1>12, LeasesFlushed
  <2> QED
    BY <1>2, <1>8, <2>1 DEF Post
<1>14. HeldOf(slots')
  <2>1. /\ s \in Pending(slots) /\ s \notin Leased(slots) /\ Present(slots') = Present(slots)
        /\ Pending(slots') = Pending(slots) \ {s} /\ Leased(slots') = Leased(slots) \cup {s}
    <3>1. q # None
      BY DEF LiveCanvasAssumption
    <3> QED
      BY <1>1, <1>3, <1>5, <1>6, <1>9, <3>1 DEF Present, Pending, Leased
  <2> QED
    BY <2>1, HeldLeased DEF LeaseInv
<1> QED
  BY <1>4, <1>13, <1>14 DEF LeaseInv, FrontendSurvives

\* The acknowledgement of a frame finds nothing later of its generation awaited.
LEMMA AcknowledgeLease ==
  ASSUME LiveCanvasAssumption, NoneAssumption, TypeOK, GenInv, LeaseInv, Acknowledge
  PROVE  LeaseInv'
<1>1. acks \in Seq(Ack) /\ acks # <<>>
  BY DEF Acknowledge, TypeOK
<1>2. PICK a \in Ack : a = Head(acks)
  BY <1>1
<1>3. a.stream \in Streams /\ a.seq \in Nat
  BY DEF Ack
<1>4. a.seq \in Answered /\ Answered' \subseteq Answered
  <2>1. /\ 1 \in DOMAIN acks /\ acks[1] = a
        /\ \A i \in DOMAIN Tail(acks) : Tail(acks)[i] = acks[i + 1] /\ i + 1 \in DOMAIN acks
    BY <1>1, <1>2
  <2>2. acks' = Tail(acks)
    BY DEF Acknowledge
  <2> QED
    BY <2>1, <2>2 DEF Answered
<1>5. UNCHANGED <<control, sequence, beside, frontend>> /\ slots' = Released(a)
  BY <1>2 DEF Acknowledge, frontendVars
<1>6. LeasesOf(control, Answered', slots, sequence)
  BY <1>4 DEF LeaseInv, LeasesOf
<1>7. CASE slots' = slots
  BY <1>5, <1>6, <1>7 DEF LeaseInv, FrontendSurvives
<1>8. CASE /\ slots[a.stream] # None /\ slots[a.stream].gen = a.gen
           /\ slots[a.stream].flight = a.seq
           /\ slots' = [slots EXCEPT ![a.stream].flight = None]
  <2>1. PICK o \in Slot : o = slots[a.stream]
    BY <1>3, <1>8, Entries
  <2> DEFINE n == [o EXCEPT !.flight = None]
  <2>2. n # None /\ n.flight = None /\ n.gen = o.gen /\ n.pending = o.pending /\ n.closed = o.closed
    <3>1. n \in Slot
      BY DEF Slot
    <3> QED
      BY <3>1, NoneAssumption DEF Slot
  <2>3. slots'[a.stream] = n /\ \A t \in Streams : t # a.stream => slots'[t] = slots[t]
    BY <1>3, <1>8, <2>1 DEF TypeOK
  <2> HIDE DEF n
  <2>4. \A i \in DOMAIN control : control[i].kind = "frame" /\ Awaited(control[i], slots)
          => Awaited(control[i], slots')
    <3> SUFFICES ASSUME NEW i \in DOMAIN control, control[i].kind = "frame",
                        Awaited(control[i], slots)
                 PROVE  Awaited(control[i], slots')
      OBVIOUS
    <3>1. control[i].stream \in Streams /\ control[i].seq \in Nat
      BY LeaseFacts, ControlFields
    <3>2. a.seq < control[i].seq
      BY <1>4 DEF LeaseInv, LeasesOf
    <3> QED
      BY <1>3, <1>8, <2>1, <2>2, <2>3, <3>1, <3>2 DEF Awaited
  <2>5. LeasesOf(control, Answered', slots', sequence)
    BY <1>6, <2>4, LeasesSlots
  <2>6. HeldOf(slots')
    <3>1. /\ Present(slots') = Present(slots) /\ Pending(slots') \subseteq Pending(slots)
          /\ Leased(slots') \subseteq Leased(slots)
      BY <2>1, <2>2, <2>3, <1>8 DEF Present, Pending, Leased
    <3> QED
      BY <3>1, HeldFewer DEF LeaseInv, HeldOf
  <2> QED
    BY <1>5, <2>5, <2>6 DEF LeaseInv, FrontendSurvives
<1> QED
  BY <1>5, <1>7, <1>8 DEF Released

\* The transport knows every stream the frontend shows, so the frontend has a layer free
\* for each stream it hears of.
LEMMA LayerFree ==
  ASSUME LiveCanvasAssumption, TypeOK, GenInv, LeaseInv, mode # None, NEW s \in Streams,
         slots[s] # None, layers[s] = None
  PROVE  Cardinality(Present(layers)) < MaxStreams
<1>1. Present(layers) \subseteq Present(slots) \ {s} /\ s \in Present(slots)
  BY DEF GenInv, Remembered, Present
<1>2. IsFiniteSet(Present(slots)) /\ Cardinality(Present(slots)) <= MaxStreams
  BY DEF LeaseInv, HeldOf
<1>3. /\ IsFiniteSet(Present(slots) \ {s})
      /\ Cardinality(Present(slots) \ {s}) = Cardinality(Present(slots)) - 1
  BY <1>1, <1>2, FS_RemoveElement
<1>4. /\ IsFiniteSet(Present(layers))
      /\ Cardinality(Present(layers)) <= Cardinality(Present(slots) \ {s})
  BY <1>1, <1>3, FS_Subset
<1>5. Cardinality(Present(slots)) \in Nat /\ Cardinality(Present(layers)) \in Nat /\ MaxStreams \in Nat
  BY <1>2, <1>4, FS_CardinalityType DEF LiveCanvasAssumption
<1> QED
  BY <1>2, <1>3, <1>4, <1>5

LEMMA ReceiveLease ==
  ASSUME LiveCanvasAssumption, TypeOK, GenInv, LeaseInv, Receive
  PROVE  LeaseInv'
<1> DEFINE d == Head(control)
           k == [stream |-> d.stream, gen |-> d.gen, seq |-> d.seq]
<1>1. control \in Seq(Control) /\ control # <<>> /\ acks \in Seq(Ack)
  BY DEF Receive, TypeOK
<1>2. /\ d \in Control /\ control' = Tail(control) /\ UNCHANGED <<slots, sequence, mode>>
      /\ mode # None /\ (ReceiveFrame(d) \/ ReceiveClose(d) \/ ReceiveOther(d))
  BY <1>1 DEF Receive
<1>3. QueuedOK(d)
  <2>1. 1 \in 1 .. Len(control) /\ control[1] = d
    BY <1>1
  <2> QED
    BY <2>1 DEF GenInv
<1> HIDE DEF d
<1>4. frontend' = "failed" => beside' > 0
  <2> frontend = "running" /\ beside \in Nat
    BY DEF Receive, TypeOK
  <2>1. CASE ReceiveFrame(d)
    <3>1. d.kind = "frame" /\ d.stream \in Streams /\ slots[d.stream] # None
      BY <1>2, <1>3, <2>1, ControlFields DEF ReceiveFrame, QueuedOK
    <3>2. layers[d.stream] = None /\ TableFull => beside > 0
      <4> SUFFICES ASSUME layers[d.stream] = None, TableFull
                   PROVE  beside > 0
        OBVIOUS
      <4>1. Cardinality(Present(layers)) < MaxStreams
        BY <1>2, <3>1, LayerFree
      <4>2. IsFiniteSet(Present(layers))
        <5>1. Present(layers) \subseteq Present(slots)
          BY <1>2 DEF GenInv, Remembered, Present
        <5> QED
          BY <5>1, FS_Subset DEF LeaseInv, HeldOf
      <4>3. Cardinality(Present(layers)) \in Nat /\ MaxStreams \in Nat
        BY <4>2, FS_CardinalityType DEF LiveCanvasAssumption
      <4> QED
        BY <4>1, <4>3 DEF TableFull
    <3> QED
      BY <2>1, <3>2 DEF ReceiveFrame, ShowFrame
  <2>2. CASE ReceiveClose(d) \/ ReceiveOther(d)
    BY <2>2 DEF ReceiveClose, ReceiveOther, LosslessLayer
  <2> QED
    BY <1>2, <2>1, <2>2
<1>5. \/ acks' = acks
      \/ d.kind = "frame" /\ acks' = Append(acks, k) /\ k.seq = d.seq
  BY <1>2 DEF ReceiveFrame, ReceiveClose, ReceiveOther
<1>6. Answered' = Answered \/ (d.kind = "frame" /\ Answered' = Answered \cup {d.seq})
  <2>1. CASE acks' = acks
    BY <2>1 DEF Answered
  <2>2. CASE d.kind = "frame" /\ acks' = Append(acks, k) /\ k.seq = d.seq
    <3> HIDE DEF k
    <3>1. /\ DOMAIN acks' = DOMAIN acks \cup {Len(acks) + 1}
          /\ \A i \in DOMAIN acks : acks'[i] = acks[i]
          /\ acks'[Len(acks) + 1] = k
      BY <1>1, <2>2
    <3> QED
      BY <2>2, <3>1 DEF Answered
  <2> QED
    BY <1>5, <2>1, <2>2
<1>7. LeasesOf(Tail(control), Answered', slots, sequence)
  BY <1>1, <1>6, LeasesTaken DEF LeaseInv, d
<1> QED
  BY <1>2, <1>4, <1>7 DEF LeaseInv, FrontendSurvives

LEMMA NothingHeld ==
  ASSUME LiveCanvasAssumption
  PROVE  HeldOf([s \in Streams |-> None])
<1> DEFINE none == [s \in Streams |-> None]
<1>1. Present(none) = {} /\ Pending(none) = {} /\ Leased(none) = {}
  BY DEF Present, Pending, Leased
<1>2. BytesIn({}) = {}
  BY DEF BytesIn
<1> HIDE DEF none
<1>3. HeldOf(none)
  BY <1>1, <1>2, FS_EmptySet DEF HeldOf, Weighed, FrameBytes, LiveCanvasAssumption
<1> QED
  BY <1>3 DEF none

LEMMA NextLease ==
  ASSUME LiveCanvasAssumption, NoneAssumption, TypeOK, GenInv, LeaseInv, [Next]_vars
  PROVE  LeaseInv'
<1>1. ASSUME NEW s \in Streams, NEW g \in Gens, Produce(s, g) PROVE LeaseInv'
  BY <1>1, LeaseStutter DEF Produce, frontendVars
<1>2. ASSUME NEW s \in Streams, SubmitUpdate(s) PROVE LeaseInv'
  BY <1>2, SubmitUpdateLease
<1>3. ASSUME NEW s \in Streams, Flush(s) PROVE LeaseInv'
  BY <1>3, FlushLease
<1>4. CASE Acknowledge
  BY <1>4, AcknowledgeLease
<1>5. CASE PostOther
  <2>1. [kind |-> "other"] \in Control /\ [kind |-> "other"].kind # "frame" /\ control \in Seq(Control)
    BY LeaseFacts DEF Control
  <2>2. LeasesOf(Append(control, [kind |-> "other"]), Answered, slots, sequence)
    BY <2>1, LeasesPosted DEF LeaseInv
  <2>3. Answered' = Answered
    BY <1>5 DEF PostOther, Answered
  <2> QED
    BY <1>5, <2>2, <2>3 DEF PostOther, LeaseInv, FrontendSurvives, frontendVars
<1>6. CASE Receive
  BY <1>6, ReceiveLease
<1>7. ASSUME NEW m \in {"mapped", "streamed"}, Attach(m) PROVE LeaseInv'
  <2>1. control' = <<>> /\ DOMAIN control' = {} /\ DOMAIN acks' = {} /\ frontend' = "running"
    BY <1>7 DEF Attach
  <2>2. HeldOf(slots')
    BY <1>7, NothingHeld DEF Attach
  <2> QED
    BY <2>1, <2>2 DEF LeaseInv, LeasesOf, Answered, FrontendSurvives
<1>8. CASE Detach
  <2>1. control' = <<>> /\ DOMAIN control' = {} /\ DOMAIN acks' = {} /\ UNCHANGED <<beside, frontend>>
    BY <1>8 DEF Detach, frontendVars
  <2>2. HeldOf(slots')
    BY <1>8, NothingHeld DEF Detach
  <2> QED
    BY <2>1, <2>2 DEF LeaseInv, LeasesOf, Answered, FrontendSurvives
<1>9. CASE UNCHANGED vars
  BY <1>9, LeaseStutter DEF vars
<1> QED
  BY <1>1, <1>2, <1>3, <1>4, <1>5, <1>6, <1>7, <1>8, <1>9 DEF Next

\* Leased and pending frames fit the transport's byte budget, a lease outlives its
\* descriptor, and leased streams by themselves never meet the frontend's bound on layers
\* (live_canvas.rs, Transport::submit and flush; canvas_frontend.rs, receive), whatever the
\* full control channel refuses: where the bound ends the frontend, a lossless stream holds
\* or asks for a layer of the shared table.
THEOREM LeasesAlwaysHeld ==
  ASSUME LiveCanvasAssumption, NoneAssumption PROVE Spec => []LeasesHeld
<1>1. Init => TypeOK /\ GenInv /\ LeaseInv
  <2> SUFFICES ASSUME Init PROVE TypeOK /\ GenInv /\ LeaseInv
    OBVIOUS
  <2>1. TypeOK /\ GenInv
    BY InitType DEF Init, GenInv, Remembered, RetiredStaysClosed
  <2>2. HeldOf(slots)
    BY NothingHeld DEF Init
  <2>3. DOMAIN control = {} /\ DOMAIN acks = {}
    BY DEF Init
  <2> QED
    BY <2>1, <2>2, <2>3 DEF LeaseInv, LeasesOf, Answered, FrontendSurvives, Init
<1>2. TypeOK /\ GenInv /\ LeaseInv /\ [Next]_vars => (TypeOK /\ GenInv /\ LeaseInv)'
  BY NextType, NextGen, NextLease
<1>3. LeaseInv => LeasesHeld
  <2> SUFFICES ASSUME LeaseInv PROVE LeasesHeld
    OBVIOUS
  <2>1. BudgetHeld
    BY DEF LeaseInv, HeldOf, BudgetHeld, Pending, Leased
  <2>2. LeaseHeld
    BY DEF LeaseInv, LeasesOf, LeaseHeld, Awaited, FileExists
  <2> QED
    BY <2>1, <2>2 DEF LeasesHeld, LeaseInv
<1> QED
  BY <1>1, <1>2, <1>3, PTL DEF Spec

-----------------------------------------------------------------------------
(* The lossless attachment of MCCanvases. *)

PP == INSTANCE PixelStreamProofs WITH
       Dim <- [x \in Pictures |-> IF x = large THEN 2 ELSE 1],
       MaxStreams <- PMaxStreams, Budget <- PBudget, ControlCap <- PControlCap,
       MaxUpdates <- PMaxUpdates, made <- pMade, session <- pSession, acks <- pAcks,
       slots <- pSlots, sequence <- pSequence, control <- pControl, layers <- pLayers,
       frontend <- pFrontend, retired <- pRetired

(* PixelStream and PixelStreamProofs are instances of their own: P and PP mean the same *)

USE DEF P!Present, PP!Present, P!Nothing, PP!Nothing, P!Stopped, PP!Stopped,
        P!sessionVars, PP!sessionVars, P!encoderVars, PP!encoderVars,
        P!frontendVars, PP!frontendVars

LEMMA CardinalitySame == \A S : P!Cardinality(S) = PP!Cardinality(S)
  BY DEF P!Cardinality, PP!Cardinality

LEMMA SessionSame ==
  /\ \A s \in Streams, g \in P!Gens : P!Submit(s, g) <=> PP!Submit(s, g)
  /\ P!Forward <=> PP!Forward
  /\ P!Acknowledge <=> PP!Acknowledge
  /\ P!Detach <=> PP!Detach
<1>1. ASSUME NEW s, NEW g PROVE P!Submit(s, g) <=> PP!Submit(s, g)
  BY CardinalitySame DEF P!Submit, PP!Submit, P!SubmitFrame, PP!SubmitFrame, P!SubmitClose,
      PP!SubmitClose, P!BoxFull, PP!BoxFull, P!BoxFrames, PP!BoxFrames
<1> QED
  BY <1>1 DEF P!Forward, PP!Forward, P!Acknowledge, PP!Acknowledge, P!Detach, PP!Detach

LEMMA EncoderSame ==
  /\ P!Stop <=> PP!Stop
  /\ P!TakeAck <=> PP!TakeAck
  /\ P!Drain <=> PP!Drain
  /\ P!Applied <=> PP!Applied
  /\ P!Encoded <=> PP!Encoded
  /\ \A s \in Streams : P!Apply(s) <=> PP!Apply(s)
  /\ \A s \in Streams : P!Encode(s) <=> PP!Encode(s)
<1>1. ASSUME NEW s PROVE P!Apply(s) <=> PP!Apply(s)
  BY CardinalitySame DEF P!Apply, PP!Apply, P!ApplyClose, PP!ApplyClose, P!ApplyFrame,
      PP!ApplyFrame, P!Retired, PP!Retired, P!Retained, PP!Retained, P!HasSlot,
      PP!HasSlot, P!Held, PP!Held, P!Renewed, PP!Renewed, P!ClosedSlot, PP!ClosedSlot,
      P!Publish, PP!Publish
<1>2. ASSUME NEW s PROVE P!Encode(s) <=> PP!Encode(s)
  BY DEF P!Encode, PP!Encode, P!Against, PP!Against, P!Publish, PP!Publish
<1> QED
  BY <1>1, <1>2 DEF P!Stop, PP!Stop, P!TakeAck, PP!TakeAck, P!Released, PP!Released,
      P!Drain, PP!Drain, P!Applied, PP!Applied, P!Encoded, PP!Encoded

LEMMA FrontendSame == (P!Receive <=> PP!Receive) /\ (P!ReceiveLeased <=> PP!ReceiveLeased)
  BY CardinalitySame DEF P!ReceiveLeased, PP!ReceiveLeased, P!TableFull, PP!TableFull, P!Receive, PP!Receive, P!ReceiveFrame, PP!ReceiveFrame,
      P!ReceiveClose, PP!ReceiveClose, P!ReceiveError, PP!ReceiveError, P!Older, PP!Older,
      P!Complete, PP!Complete, P!BaseShown, PP!BaseShown, P!Patch, PP!Patch, P!NoLayer,
      PP!NoLayer

LEMMA NextSame == P!Next <=> PP!Next
  BY SessionSame, EncoderSame, FrontendSame DEF P!Next, PP!Next, P!Gens, PP!Gens

\* The lossless attachment of a session stays in step and within its budget (pixel_stream.rs,
\* canvas_frontend.rs) while leased frames come and go, for any pictures and capacities.
THEOREM LosslessInSync == Canvases => []PixelsInSync
<1>1. PP!PixelStreamAssumption
  BY CanvasesAssumption DEF P!PixelStreamAssumption, PP!PixelStreamAssumption, P!Base,
      PP!Base, P!Layer, PP!Layer, P!Slot, PP!Slot, P!Gens, PP!Gens
<1>2. Start => PP!Init
  BY DEF Start, P!Init, PP!Init
<1>3. [Turn]_canvasVars => [PP!Next]_PP!vars
  BY NextSame DEF Turn, canvasVars, pVars, PP!vars
<1>4. PP!Spec => []PP!PixelsInSync
  BY <1>1, PP!PixelsAlwaysInSync
<1>5. PP!PixelsInSync => PixelsInSync
  BY CardinalitySame DEF PixelsInSync, P!PixelsInSync, PP!PixelsInSync, P!TypeOK, PP!TypeOK,
      P!PatchesFit, PP!PatchesFit, P!AckedInSync, PP!AckedInSync, P!MemoryBound,
      PP!MemoryBound, P!Update, PP!Update, P!Base, PP!Base, P!Slot, PP!Slot, P!Message,
      PP!Message, P!Ack, PP!Ack, P!Layer, PP!Layer, P!Gens, PP!Gens
<1> QED
  BY <1>2, <1>3, <1>4, <1>5, PTL DEF Canvases, PP!Spec
=============================================================================
