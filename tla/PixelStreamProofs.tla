------------------------- MODULE PixelStreamProofs -------------------------
(* That a lossless stream stays in step: a patch finds the picture it was   *)
(* made against, whatever the control channel drops, and the encoder's      *)
(* pictures fit its budget.                                                 *)
(*                                                                          *)
(* The argument is about the messages between the encoder and the           *)
(* frontend, taken as one queue.  A stream's slot blocks while its last     *)
(* frame is in flight, so the message in flight is the last of its stream   *)
(* in that queue; the acknowledgement that unblocks it can only be there    *)
(* once the frontend has handled it, and then nothing of the stream is in   *)
(* the queue and the layer is the base of the next patch.                   *)
EXTENDS PixelStream, TLAPS, FiniteSetTheorems, SequenceTheorems

\* What is between the encoder and the frontend, the oldest first.
Queue == control \o output
About(m, s) == m.kind # "error" /\ m.stream = s
QuietIn(q, s) == \A i \in DOMAIN q : ~About(q[i], s)

\* Numbers are given once.
NumbersIn(q, n) == \A i \in DOMAIN q : q[i].kind = "frame" => q[i].seq <= n

\* The frame in flight is the last message of its stream.
LastIn(q, sl) ==
  \A i \in DOMAIN q : LET m == q[i] IN
    m.kind = "frame" /\ sl[m.stream] # None /\ sl[m.stream].flight = m.seq =>
      /\ m.gen = sl[m.stream].gen /\ m.pic = sl[m.stream].base.pic
      /\ \A j \in DOMAIN q : j > i => ~About(q[j], m.stream)

\* A patch is the first message of its stream, and the layer is what it was made against
\* unless it is of a newer generation.
Meets(m, la) ==
  /\ la[m.stream] # None /\ la[m.stream].gen >= m.gen
  /\ la[m.stream].gen = m.gen =>
       la[m.stream].seq = m.base /\ Dim[la[m.stream].pic] = Dim[m.pic]
PatchesIn(q, la) ==
  \A i \in DOMAIN q : LET m == q[i] IN
    m.kind = "frame" /\ m.base # None =>
      Meets(m, la) /\ \A j \in DOMAIN q : j < i => ~About(q[j], m.stream)

SlotsOk(sl) ==
  \A s \in Present(sl) :
    /\ sl[s].closed => sl[s].pending = None /\ sl[s].flight = None /\ sl[s].base = None
    /\ sl[s].flight # None => sl[s].base # None /\ sl[s].base.seq = sl[s].flight

\* The layer of s is the picture the slot keeps as the next base.
Shows(sl, la, s) ==
  /\ la[s] # None /\ la[s].gen >= sl[s].gen
  /\ la[s].gen = sl[s].gen => la[s].seq = sl[s].base.seq /\ la[s].pic = sl[s].base.pic
\* The frame of s in flight, if any, is among the answered ones.
Handled(sl, answers, s) ==
  \/ sl[s].flight = None
  \/ \E k \in answers : k.stream = s /\ k.gen = sl[s].gen /\ k.seq = sl[s].flight
\* A stream whose last frame the frontend has handled is at rest, and in step.
SyncIn(q, sl, la, answers) ==
  \A s \in Present(sl) : sl[s].base # None /\ Handled(sl, answers, s) =>
    QuietIn(q, s) /\ Shows(sl, la, s)

Entries(q) == {q[i] : i \in DOMAIN q}
Answers == Entries(acks) \cup Entries(replies)

FlowOf(q, sl, la, n, answers) ==
  /\ NumbersIn(q, n) /\ \A k \in answers : k.seq <= n
  /\ LastIn(q, sl) /\ PatchesIn(q, la) /\ SyncIn(q, sl, la, answers)
FlowInv == FlowOf(Queue, slots, layers, sequence, Answers)

Bases(sl) == {s \in Present(sl) : sl[s].base # None}
Waiting(sl) == {s \in Present(sl) : sl[s].pending # None}
HeldOf(sl) == IsFiniteSet(Present(sl)) /\ Cardinality(Bases(sl)) + Cardinality(Waiting(sl)) <= Budget

TodoInv == todo \subseteq Present(slots) /\ (pc \in {"acks", "apply"} => todo = {})
PixelInv ==
  TypeOK /\ TodoInv /\ SlotsOk(slots) /\ FlowInv /\ PatchesFit /\ HeldOf(slots)

-----------------------------------------------------------------------------
(* Messages and queues *)

LEMMA MessageParts ==
  ASSUME NEW m \in Message
  PROVE  /\ m.kind \in {"frame", "close", "error"}
         /\ m.kind # "error" => m.stream \in Streams /\ m.gen \in Gens
         /\ m.kind = "frame" => m.seq \in Nat /\ m.base \in Nat \cup {None} /\ m.pic \in Pictures
  BY DEF Message

\* The head of a queue, and what is left when it is taken.
LEMMA ChannelType ==
  ASSUME NEW S, NEW q \in Seq(S), q # <<>>
  PROVE  /\ Head(q) \in S /\ Tail(q) \in Seq(S) /\ Len(q) \in Nat \ {0} /\ Len(Tail(q)) = Len(q) - 1
         /\ DOMAIN q = 1 .. Len(q) /\ DOMAIN Tail(q) = 1 .. Len(q) - 1
         /\ q[1] = Head(q) /\ \A i \in DOMAIN Tail(q) : Tail(q)[i] = q[i + 1]
  BY HeadTailProperties, EmptySeq, LenProperties

LEMMA JoinParts ==
  ASSUME NEW c \in Seq(Message), NEW o \in Seq(Message)
  PROVE  /\ c \o o \in Seq(Message) /\ Len(c \o o) = Len(c) + Len(o)
         /\ Len(c) \in Nat /\ Len(o) \in Nat
         /\ \A i \in 1 .. Len(c) + Len(o) :
              (c \o o)[i] = IF i <= Len(c) THEN c[i] ELSE o[i - Len(c)]
  BY ConcatProperties, LenProperties

\* A message moved from the output to the control channel stays where it was in the
\* queue; one that finds the channel full leaves it.
LEMMA Forwarded ==
  ASSUME NEW c \in Seq(Message), NEW o \in Seq(Message), o # <<>>
  PROVE  /\ Append(c, Head(o)) \o Tail(o) = c \o o
         /\ Len(c \o Tail(o)) = Len(c \o o) - 1 /\ c \o Tail(o) \in Seq(Message)
         /\ \A i \in 1 .. Len(c \o o) - 1 :
              (c \o Tail(o))[i] = IF i <= Len(c) THEN (c \o o)[i] ELSE (c \o o)[i + 1]
<1>1. /\ Head(o) \in Message /\ Tail(o) \in Seq(Message) /\ Len(o) \in Nat \ {0}
      /\ Len(Tail(o)) = Len(o) - 1 /\ \A i \in 1 .. Len(o) - 1 : Tail(o)[i] = o[i + 1]
  BY ChannelType
<1>2. Append(c, Head(o)) \o Tail(o) = c \o o
  BY <1>1
<1>3. /\ c \o Tail(o) \in Seq(Message) /\ Len(c \o Tail(o)) = Len(c) + Len(o) - 1
      /\ \A i \in 1 .. Len(c) + Len(o) - 1 :
           (c \o Tail(o))[i] = IF i <= Len(c) THEN c[i] ELSE Tail(o)[i - Len(c)]
  BY <1>1, JoinParts
<1>4. ASSUME NEW i \in 1 .. Len(c) + Len(o) - 1
      PROVE  (c \o Tail(o))[i] = IF i <= Len(c) THEN (c \o o)[i] ELSE (c \o o)[i + 1]
  <2>1. Len(c) \in Nat /\ i \in 1 .. Len(c) + Len(o) /\ i + 1 \in 1 .. Len(c) + Len(o)
    BY <1>1, JoinParts
  <2>2. CASE i <= Len(c)
    BY <1>3, <2>1, <2>2, JoinParts
  <2>3. CASE ~(i <= Len(c))
    <3>1. i - Len(c) \in 1 .. Len(o) - 1 /\ i + 1 - Len(c) = i - Len(c) + 1 /\ ~(i + 1 <= Len(c))
      BY <1>1, <2>1, <2>3
    <3>2. (c \o Tail(o))[i] = o[i - Len(c) + 1]
      BY <1>1, <1>3, <2>3, <3>1
    <3>3. (c \o o)[i + 1] = o[i + 1 - Len(c)]
      BY <2>1, <3>1, JoinParts
    <3> QED
      BY <2>3, <3>1, <3>2, <3>3
  <2> QED
    BY <2>2, <2>3
<1>5. Len(c \o o) = Len(c) + Len(o)
  BY JoinParts
<1> QED
  BY <1>2, <1>3, <1>4, <1>5

\* What holds of a queue holds of the queue without one message.
Without(r, q, k) ==
  /\ q \in Seq(Message) /\ r \in Seq(Message) /\ k \in Nat /\ k < Len(q) /\ Len(r) = Len(q) - 1
  /\ \A i \in 1 .. Len(q) - 1 : r[i] = IF i <= k THEN q[i] ELSE q[i + 1]
Place(k, i) == IF i <= k THEN i ELSE i + 1

LEMMA Fewer ==
  ASSUME NEW q, NEW r, NEW k, Without(r, q, k)
  PROVE  /\ \A n : NumbersIn(q, n) => NumbersIn(r, n)
         /\ \A sl : LastIn(q, sl) => LastIn(r, sl)
         /\ \A la : PatchesIn(q, la) => PatchesIn(r, la)
         /\ \A s : QuietIn(q, s) => QuietIn(r, s)
<1>1. Len(q) \in Nat /\ k \in Nat /\ DOMAIN q = 1 .. Len(q) /\ DOMAIN r = 1 .. Len(q) - 1
  BY LenProperties DEF Without
<1>2. \A i \in DOMAIN r : Place(k, i) \in DOMAIN q /\ r[i] = q[Place(k, i)]
  BY <1>1 DEF Without, Place
<1>3. \A i, j \in DOMAIN r : i < j => Place(k, i) < Place(k, j)
  BY <1>1 DEF Place
<1>4. \A i, j \in DOMAIN r : i > j => Place(k, i) > Place(k, j)
  BY <1>1 DEF Place
<1>5. ASSUME NEW n, NumbersIn(q, n) PROVE NumbersIn(r, n)
  BY <1>2, <1>5 DEF NumbersIn
<1>6. ASSUME NEW sl, LastIn(q, sl) PROVE LastIn(r, sl)
  BY <1>2, <1>4, <1>6 DEF LastIn
<1>7. ASSUME NEW la, PatchesIn(q, la) PROVE PatchesIn(r, la)
  BY <1>2, <1>3, <1>7 DEF PatchesIn
<1>8. ASSUME NEW s, QuietIn(q, s) PROVE QuietIn(r, s)
  BY <1>2, <1>8 DEF QuietIn
<1> QED
  BY <1>5, <1>6, <1>7, <1>8

\* One more message at the end of a queue.
LEMMA Longer ==
  ASSUME NEW q \in Seq(Message), NEW m \in Message
  PROVE  LET r == Append(q, m) IN
         /\ r \in Seq(Message) /\ DOMAIN r = DOMAIN q \cup {Len(q) + 1} /\ r[Len(q) + 1] = m
         /\ \A i \in DOMAIN q : r[i] = q[i] /\ i < Len(q) + 1 /\ i \in Nat /\ q[i] \in Message
         /\ Len(q) \in Nat /\ Len(r) = Len(q) + 1
<1>1. Len(q) \in Nat /\ DOMAIN q = 1 .. Len(q) /\ \A i \in DOMAIN q : q[i] \in Message
  BY LenProperties, ElementOfSeq
<1> QED
  BY <1>1, AppendProperties

LEMMA Published ==
  ASSUME TypeOK, NEW m \in Message, output' = Append(output, m), UNCHANGED control
  PROVE  Queue' = Append(Queue, m)
<1>1. control \in Seq(Message) /\ output \in Seq(Message)
  BY DEF TypeOK
<1>2. control \o Append(output, m) = Append(control \o output, m)
  BY <1>1
<1> QED
  BY <1>2 DEF Queue

-----------------------------------------------------------------------------
(* Types *)

LEMMA SlotType ==
  ASSUME TypeOK, NEW s \in Streams, slots[s] # None
  PROVE  /\ slots[s] \in Slot /\ slots[s].gen \in Gens /\ slots[s].closed \in BOOLEAN
         /\ slots[s].pending \in Pictures \cup {None} /\ slots[s].flight \in Nat \cup {None}
         /\ slots[s].base \in Base \cup {None}
         /\ slots[s].base # None => slots[s].base.seq \in Nat /\ slots[s].base.pic \in Pictures
<1>1. slots[s] \in Slot
  BY DEF TypeOK
<1> QED
  BY <1>1 DEF Slot, Base

LEMMA SlotForms ==
  ASSUME NEW x \in Slot, NEW p \in Pictures \cup {None}, NEW f \in Nat \cup {None},
         NEW b \in Base \cup {None}, NEW c \in BOOLEAN, NEW g \in Gens
  PROVE  /\ [x EXCEPT !.pending = p] \in Slot /\ [x EXCEPT !.flight = f] \in Slot
         /\ [x EXCEPT !.pending = p, !.flight = f, !.base = b] \in Slot
         /\ [gen |-> g, pending |-> p, flight |-> f, base |-> b, closed |-> c] \in Slot
  BY DEF Slot

LEMMA MessageForms ==
  ASSUME NEW s \in Streams, NEW g \in Gens, NEW n \in Nat, NEW b \in Nat \cup {None}, NEW p \in Pictures
  PROVE  /\ [kind |-> "frame", stream |-> s, gen |-> g, seq |-> n, pic |-> p, base |-> b] \in Message
         /\ [kind |-> "close", stream |-> s, gen |-> g] \in Message
         /\ [kind |-> "error"] \in Message
  BY DEF Message

\* publish keeps the output within its channel, and the thread runs on or ends.
LEMMA PublishType ==
  ASSUME PixelStreamAssumption, TypeOK, NEW m \in Message, Publish(m)
  PROVE  /\ output' \in Seq(Message) /\ Len(output') <= OutCap
         /\ output' = output \/ output' = Append(output, m)
         /\ pc' \in {pc, "ended"}
<1>1. output \in Seq(Message) /\ Len(output) <= OutCap /\ OutCap \in Nat /\ Len(output) \in Nat
  BY LenProperties DEF TypeOK, PixelStreamAssumption
<1>2. Append(output, m) \in Seq(Message) /\ Len(Append(output, m)) = Len(output) + 1
  BY <1>1, AppendProperties
<1> QED
  BY <1>1, <1>2 DEF Publish

LEMMA BatchType ==
  ASSUME TypeOK, NEW s \in Streams, batch[s] # None
  PROVE  /\ batch[s] \in Update /\ batch[s].gen \in Gens /\ batch[s].pic \in Pictures \cup {None}
         /\ batch[s].kind \in {"frame", "close"}
<1>1. batch[s] \in Update
  BY DEF TypeOK
<1> QED
  BY <1>1 DEF Update

LEMMA RenewedType ==
  ASSUME NEW s, NEW u \in Update, u.gen \in Gens, u.pic \in Pictures \cup {None},
         NEW old \in Slot \cup {None}
  PROVE  Renewed(s, u, old) \in Slot
<1>1. CASE old # None /\ old.gen = u.gen
  BY <1>1, SlotForms DEF Renewed
<1>2. CASE ~(old # None /\ old.gen = u.gen)
  <2>1. [gen |-> u.gen, pending |-> u.pic, flight |-> None, base |-> None, closed |-> FALSE] \in Slot
    BY DEF Slot
  <2> QED
    BY <1>2, <2>1 DEF Renewed
<1> QED
  BY <1>1, <1>2

\* What Apply does to a slot: closed, forgotten, renewed or left.
LEMMA ApplyType ==
  ASSUME PixelStreamAssumption, TypeOK, NEW s \in Streams, Apply(s)
  PROVE  TypeOK'
<1>1. batch[s] \in Update /\ batch[s].gen \in Gens /\ batch[s].pic \in Pictures \cup {None}
  BY BatchType DEF Apply
<1>2. batch' \in [Streams -> Update \cup {None}]
  BY DEF Apply, TypeOK
<1>3. /\ slots' \in [Streams -> Slot \cup {None}]
      /\ output' \in Seq(Message) /\ Len(output') <= OutCap
      /\ pc' \in {"acks", "apply", "encode", "ended"}
  <2>1. CASE ApplyClose(s, batch[s])
    <3>1. ClosedSlot(batch[s].gen) \in Slot
      BY <1>1, SlotForms DEF ClosedSlot, Slot
    <3>2. [kind |-> "close", stream |-> s, gen |-> batch[s].gen] \in Message
      BY <1>1 DEF Message
    <3> QED
      BY <2>1, <3>1, <3>2, PublishType DEF ApplyClose, TypeOK
  <2>2. CASE ApplyFrame(s, batch[s])
    <3>1. Retained(s) \in [Streams -> Slot \cup {None}]
      BY DEF Retained, TypeOK
    <3>2. Renewed(s, batch[s], Retained(s)[s]) \in Slot
      <4>1. Retained(s)[s] \in Slot \cup {None}
        BY <3>1
      <4> QED
        BY <1>1, <4>1, RenewedType
    <3>3. [kind |-> "error"] \in Message
      BY DEF Message
    <3>4. CASE Retired(s, batch[s])
      BY <2>2, <3>4 DEF ApplyFrame, TypeOK
    <3>5. CASE ~Retired(s, batch[s]) /\ HasSlot(Retained(s), s) /\ Held(Retained(s), s) <= Budget
      BY <2>2, <3>1, <3>2, <3>5 DEF ApplyFrame, TypeOK
    <3>6. CASE ~Retired(s, batch[s]) /\ ~(HasSlot(Retained(s), s) /\ Held(Retained(s), s) <= Budget)
      BY <2>2, <3>1, <3>3, <3>6, PublishType DEF ApplyFrame, TypeOK
    <3> QED
      BY <3>4, <3>5, <3>6
  <2> QED
    BY <2>1, <2>2 DEF Apply
<1> QED
  BY <1>2, <1>3 DEF Apply, TypeOK, sessionVars, frontendVars

\* What Encode may do with an idle slot: nothing, drop the picture, or send it as the next base.
EncodeQuiet(s) ==
  /\ slots[s].flight = None /\ slots[s].pending # None /\ sequence' = sequence + 1
  /\ slots' = [slots EXCEPT ![s].pending = None]
  /\ UNCHANGED <<output, pc>> \/ Publish([kind |-> "error"])
NextFrame(s, base) ==
  [kind |-> "frame", stream |-> s, gen |-> slots[s].gen, seq |-> sequence + 1,
   pic |-> slots[s].pending, base |-> base]
EncodeFrame(s) ==
  /\ slots[s].flight = None /\ slots[s].pending # None /\ sequence' = sequence + 1
  /\ slots' = [slots EXCEPT ![s] = [@ EXCEPT !.pending = None, !.flight = sequence + 1,
                                    !.base = [seq |-> sequence + 1, pic |-> slots[s].pending]]]
  /\ LET old == Against(slots[s].base, slots[s].pending)
     IN  Publish(NextFrame(s, IF old = None THEN None ELSE old.seq))

LEMMA EncodeForms ==
  ASSUME NEW s, Encode(s)
  PROVE  UNCHANGED <<slots, sequence, output, pc>> \/ EncodeQuiet(s) \/ EncodeFrame(s)
  BY DEF Encode, EncodeQuiet, EncodeFrame, NextFrame

LEMMA EncodeType ==
  ASSUME PixelStreamAssumption, TypeOK, TodoInv, NEW s \in Streams, Encode(s)
  PROVE  TypeOK'
<1>1. slots[s] # None /\ todo' \subseteq Streams
  BY DEF Encode, TodoInv, TypeOK, Present
<1>2. /\ slots[s] \in Slot /\ slots[s].gen \in Gens /\ slots[s].pending \in Pictures \cup {None}
      /\ slots[s].base # None => slots[s].base.seq \in Nat
  BY <1>1, SlotType
<1>3. /\ sequence' \in Nat /\ slots' \in [Streams -> Slot \cup {None}]
      /\ output' \in Seq(Message) /\ Len(output') <= OutCap
      /\ pc' \in {"acks", "apply", "encode", "ended"}
  <2>1. CASE UNCHANGED <<slots, sequence, output, pc>>
    BY <2>1 DEF TypeOK
  <2>2. CASE EncodeQuiet(s)
    <3>1. [slots[s] EXCEPT !.pending = None] \in Slot
      BY <1>2, SlotForms
    <3>2. [kind |-> "error"] \in Message
      BY DEF Message
    <3> QED
      BY <2>2, <3>1, <3>2, PublishType DEF EncodeQuiet, TypeOK
  <2>3. CASE EncodeFrame(s)
    <3> DEFINE b == [seq |-> sequence + 1, pic |-> slots[s].pending]
               old == Against(slots[s].base, slots[s].pending)
               m == NextFrame(s, IF old = None THEN None ELSE old.seq)
               x == [slots[s] EXCEPT !.pending = None, !.flight = sequence + 1, !.base = b]
    <3>1. slots[s].pending \in Pictures /\ sequence + 1 \in Nat
      BY <2>3, <1>2 DEF EncodeFrame, TypeOK
    <3>2. b \in Base
      BY <3>1 DEF Base
    <3>3. x \in Slot
      <4> HIDE DEF b
      <4> QED
        BY <1>2, <3>1, <3>2, SlotForms
    <3>4. m \in Message
      <4>1. (IF old = None THEN None ELSE old.seq) \in Nat \cup {None}
        BY <1>2 DEF Against
      <4> QED
        BY <1>2, <3>1, <4>1, MessageForms DEF NextFrame
    <3>5. slots' = [slots EXCEPT ![s] = x]
      BY <2>3 DEF EncodeFrame
    <3>6. Publish(m)
      BY <2>3 DEF EncodeFrame
    <3>7. sequence' = sequence + 1
      BY <2>3 DEF EncodeFrame
    <3> HIDE DEF x, m
    <3> QED
      BY <3>1, <3>3, <3>4, <3>5, <3>6, <3>7, PublishType DEF TypeOK
  <2> QED
    BY <2>1, <2>2, <2>3, EncodeForms
<1> QED
  BY <1>1, <1>3 DEF Encode, TypeOK, sessionVars, frontendVars

LEMMA SessionType ==
  ASSUME PixelStreamAssumption, TypeOK, NEW s \in Streams, NEW g \in Gens, Submit(s, g)
  PROVE  TypeOK'
<1>1. made' \in 0 .. MaxUpdates
  BY DEF Submit, TypeOK, PixelStreamAssumption
<1>2. \A p \in Pictures : [kind |-> "frame", gen |-> g, pic |-> p] \in Update
  BY DEF Update
<1>3. [kind |-> "close", gen |-> g, pic |-> None] \in Update
  BY DEF Update
<1>4. /\ session' \in {"running", "failed", "detached"} /\ active' \subseteq Streams
      /\ box' \in [Streams -> Update \cup {None}]
  <2>1. ASSUME NEW p \in Pictures, SubmitFrame(s, g, p)
        PROVE  /\ session' \in {"running", "failed", "detached"} /\ active' \subseteq Streams
               /\ box' \in [Streams -> Update \cup {None}]
    <3> DEFINE u == [kind |-> "frame", gen |-> g, pic |-> p]
    <3>1. u \in Update
      BY <1>2
    <3>2. /\ session' \in {"running", "failed", "detached"} /\ active' \subseteq Streams
          /\ box' \in {box, [box EXCEPT ![s] = u]}
      BY <2>1 DEF SubmitFrame, TypeOK
    <3> HIDE DEF u
    <3> QED
      BY <3>1, <3>2 DEF TypeOK
  <2>2. CASE SubmitClose(s, g)
    <3> DEFINE u == [kind |-> "close", gen |-> g, pic |-> None]
    <3>1. u \in Update
      BY <1>3
    <3>2. /\ session' \in {"running", "failed", "detached"} /\ active' \subseteq Streams
          /\ box' \in {box, [box EXCEPT ![s] = u]}
      BY <2>2 DEF SubmitClose, TypeOK
    <3> HIDE DEF u
    <3> QED
      BY <3>1, <3>2 DEF TypeOK
  <2> QED
    BY <2>1, <2>2 DEF Submit
<1> QED
  BY <1>1, <1>4 DEF Submit, TypeOK, encoderVars, frontendVars

\* A bounded channel drops what does not fit.
LEMMA OfferType ==
  ASSUME NEW S, NEW q \in Seq(S), NEW m \in S, NEW cap \in Nat, Len(q) <= cap,
         NEW r, r = IF Len(q) < cap THEN Append(q, m) ELSE q
  PROVE  r \in Seq(S) /\ Len(r) <= cap
<1>1. Append(q, m) \in Seq(S) /\ Len(Append(q, m)) = Len(q) + 1 /\ Len(q) \in Nat
  BY AppendProperties, LenProperties
<1> QED
  BY <1>1

LEMMA QueueTypes ==
  ASSUME PixelStreamAssumption, TypeOK, Forward \/ Acknowledge
  PROVE  TypeOK'
<1>1. CASE Forward
  <2>1. Head(output) \in Message /\ Tail(output) \in Seq(Message) /\ Len(Tail(output)) <= OutCap
    BY <1>1, ChannelType DEF Forward, TypeOK, PixelStreamAssumption
  <2>2. control' \in Seq(Message) /\ Len(control') <= ControlCap
    BY <1>1, <2>1, OfferType DEF Forward, TypeOK, PixelStreamAssumption
  <2> QED
    BY <1>1, <2>1, <2>2 DEF Forward, TypeOK, sessionVars, encoderVars, frontendVars
<1>2. CASE Acknowledge
  <2>1. Head(replies) \in Ack /\ Tail(replies) \in Seq(Ack)
    BY <1>2, ChannelType DEF Acknowledge, TypeOK
  <2>2. acks' \in Seq(Ack) /\ Len(acks') <= AckCap
    BY <1>2, <2>1, OfferType DEF Acknowledge, TypeOK, PixelStreamAssumption
  <2> QED
    BY <1>2, <2>1, <2>2 DEF Acknowledge, TypeOK, sessionVars, encoderVars, frontendVars
<1> QED
  BY <1>1, <1>2

LEMMA TakeAckType ==
  ASSUME PixelStreamAssumption, TypeOK, TakeAck
  PROVE  TypeOK' /\ Head(acks) \in Ack
<1>1. Head(acks) \in Ack /\ Tail(acks) \in Seq(Ack) /\ Len(Tail(acks)) <= AckCap
  BY ChannelType DEF TakeAck, TypeOK, PixelStreamAssumption
<1>2. slots' \in [Streams -> Slot \cup {None}]
  <2> DEFINE s == Head(acks).stream
             x == [slots[s] EXCEPT !.flight = None]
  <2>1. s \in Streams
    BY <1>1 DEF Ack
  <2>2. CASE slots[s] # None
    <3>1. x \in Slot
      BY <2>1, <2>2, SlotType, SlotForms
    <3>2. slots' \in {slots, [slots EXCEPT ![s] = x]}
      BY DEF TakeAck, Released
    <3> HIDE DEF x, s
    <3> QED
      BY <2>1, <3>1, <3>2 DEF TypeOK
  <2>3. CASE slots[s] = None
    BY <2>3 DEF TakeAck, Released, TypeOK
  <2> QED
    BY <2>2, <2>3
<1> QED
  BY <1>1, <1>2 DEF TakeAck, TypeOK, sessionVars, frontendVars

LEMMA TurnType ==
  ASSUME PixelStreamAssumption, TypeOK, Detach \/ Stop \/ Drain \/ Applied \/ Encoded
  PROVE  TypeOK'
<1>1. Nothing \in [Streams -> Update \cup {None}] /\ Present(slots) \subseteq Streams
  BY DEF Nothing, Present
<1> QED
  BY <1>1 DEF TypeOK, Detach, Stop, Drain, Applied, Encoded, sessionVars, encoderVars, frontendVars

LEMMA ReceiveType ==
  ASSUME PixelStreamAssumption, TypeOK, Receive
  PROVE  TypeOK' /\ Head(control) \in Message
<1> DEFINE d == Head(control)
<1>1. d \in Message /\ Tail(control) \in Seq(Message) /\ Len(Tail(control)) <= ControlCap
  BY ChannelType DEF Receive, TypeOK, PixelStreamAssumption
<1> HIDE DEF d
<1>2. /\ replies' \in Seq(Ack) /\ layers' \in [Streams -> Layer \cup {None}]
      /\ frontend' \in {"running", "base", "layers", "error"} /\ retired' \in [Streams -> Nat]
      /\ leased' \in Nat
  <2>1. CASE ReceiveFrame(d)
    <3>1. d.kind = "frame"
      BY <2>1 DEF ReceiveFrame
    <3>2. d.stream \in Streams /\ d.gen \in Gens /\ d.seq \in Nat /\ d.pic \in Pictures
      BY <1>1, <3>1, MessageParts
    <3>3. [stream |-> d.stream, gen |-> d.gen, seq |-> d.seq] \in Ack
      BY <3>2 DEF Ack
    <3>4. replies' \in Seq(Ack)
      BY <2>1, <3>3 DEF ReceiveFrame, TypeOK
    <3>5. layers' \in [Streams -> Layer \cup {None}]
      <4>1. CASE Complete(d)
        <5>1. [gen |-> d.gen, seq |-> d.seq, pic |-> d.pic] \in Layer
          BY <3>2 DEF Layer
        <5> QED
          BY <4>1, <5>1 DEF Complete, TypeOK
      <4>2. CASE Patch(d)
        <5>1. layers[d.stream] \in Layer
          BY <4>2, <3>2 DEF Patch, BaseShown, TypeOK
        <5>2. [layers[d.stream] EXCEPT !.seq = d.seq, !.pic = d.pic] \in Layer
          BY <5>1, <3>2 DEF Layer
        <5>3. layers' = [layers EXCEPT ![d.stream] = [layers[d.stream] EXCEPT !.seq = d.seq, !.pic = d.pic]]
          BY <4>2, <3>2 DEF Patch, TypeOK
        <5> QED
          BY <5>2, <5>3, <3>2 DEF TypeOK
      <4>3. CASE layers' = layers
        BY <4>3 DEF TypeOK
      <4> QED
        BY <2>1, <4>1, <4>2, <4>3 DEF ReceiveFrame
    <3> QED
      BY <2>1, <3>4, <3>5 DEF ReceiveFrame, TypeOK
  <2>2. CASE ReceiveClose(d)
    <3>1. d.kind = "close"
      BY <2>2 DEF ReceiveClose
    <3>2. d.stream \in Streams /\ d.gen \in Nat
      BY <1>1, <3>1, MessageParts DEF Gens
    <3> QED
      BY <2>2, <3>2 DEF ReceiveClose, TypeOK
  <2>3. CASE ReceiveError(d)
    BY <2>3 DEF ReceiveError, TypeOK
  <2> QED
    BY <2>1, <2>2, <2>3 DEF Receive, d
<1> QED
  BY <1>1, <1>2 DEF Receive, TypeOK, sessionVars, encoderVars, d

LEMMA ReceiveLeasedType ==
  ASSUME PixelStreamAssumption, TypeOK, ReceiveLeased
  PROVE  TypeOK'
<1>1. leased' \in Nat /\ frontend' \in {"running", "base", "layers", "error"}
  BY DEF ReceiveLeased, TypeOK
<1> QED
  BY <1>1 DEF ReceiveLeased, TypeOK, sessionVars, encoderVars

-----------------------------------------------------------------------------
(* What a change of the queue, the slots or the layers does to the flow *)

LEMMA FlowFewer ==
  ASSUME NEW q, NEW r, NEW k, Without(r, q, k), NEW sl, NEW la, NEW n, NEW answers,
         FlowOf(q, sl, la, n, answers)
  PROVE  FlowOf(r, sl, la, n, answers)
<1>1. /\ NumbersIn(r, n) /\ LastIn(r, sl) /\ PatchesIn(r, la)
      /\ \A s : QuietIn(q, s) => QuietIn(r, s)
  BY Fewer DEF FlowOf
<1>2. SyncIn(r, sl, la, answers)
  BY <1>1 DEF FlowOf, SyncIn
<1> QED
  BY <1>1, <1>2 DEF FlowOf

LEMMA FlowAnswers ==
  ASSUME NEW q, NEW sl, NEW la, NEW n, NEW answers, NEW fewer, fewer \subseteq answers,
         FlowOf(q, sl, la, n, answers)
  PROVE  FlowOf(q, sl, la, n, fewer)
<1>1. \A s : Handled(sl, fewer, s) => Handled(sl, answers, s)
  BY DEF Handled
<1>2. SyncIn(q, sl, la, fewer)
  BY <1>1 DEF FlowOf, SyncIn
<1> QED
  BY <1>2 DEF FlowOf

\* A slot forgotten, one without picture and flight, or the same slot but for its pending
\* picture, perhaps freed by an answer.
Eased(old, new, answers, s) ==
  \/ new[s] = None
  \/ new[s] # None /\ new[s].base = None /\ new[s].flight = None
  \/ /\ old[s] # None /\ new[s] # None /\ new[s].gen = old[s].gen /\ new[s].base = old[s].base
     /\ \/ new[s].flight = old[s].flight
        \/ new[s].flight = None /\ Handled(old, answers, s)

LEMMA FlowSlots ==
  ASSUME PixelStreamAssumption, NEW q \in Seq(Message), NEW sl, NEW new, NEW la, NEW n, NEW answers,
         \A s \in Streams : Eased(sl, new, answers, s), FlowOf(q, sl, la, n, answers)
  PROVE  FlowOf(q, new, la, n, answers)
<1>1. LastIn(q, new)
  <2> SUFFICES ASSUME NEW i \in DOMAIN q, q[i].kind = "frame", new[q[i].stream] # None,
                      new[q[i].stream].flight = q[i].seq
               PROVE  /\ q[i].gen = new[q[i].stream].gen /\ q[i].pic = new[q[i].stream].base.pic
                      /\ \A j \in DOMAIN q : j > i => ~About(q[j], q[i].stream)
    BY DEF LastIn
  <2>1. q[i].stream \in Streams /\ q[i].seq # None
    BY ElementOfSeq, MessageParts DEF PixelStreamAssumption
  <2>2. /\ sl[q[i].stream] # None /\ new[q[i].stream].gen = sl[q[i].stream].gen
        /\ new[q[i].stream].base = sl[q[i].stream].base /\ sl[q[i].stream].flight = q[i].seq
    BY <2>1 DEF Eased
  <2> QED
    BY <2>2 DEF FlowOf, LastIn
<1>2. SyncIn(q, new, la, answers)
  <2> SUFFICES ASSUME NEW s \in Present(new), new[s].base # None, Handled(new, answers, s)
               PROVE  QuietIn(q, s) /\ Shows(new, la, s)
    BY DEF SyncIn
  <2>1. /\ sl[s] # None /\ new[s].gen = sl[s].gen /\ new[s].base = sl[s].base
        /\ Handled(sl, answers, s) /\ s \in Present(sl)
    BY DEF Eased, Handled, Present
  <2> QED
    BY <2>1 DEF FlowOf, SyncIn, Shows
<1> QED
  BY <1>1, <1>2 DEF FlowOf

\* A message that is no frame, about a stream without a picture if about any.
LEMMA FlowNotice ==
  ASSUME PixelStreamAssumption, NEW q \in Seq(Message), NEW m \in Message, NEW sl, NEW la, NEW n,
         NEW answers, FlowOf(q, sl, la, n, answers), m.kind # "frame",
         \A s \in Present(sl) : About(m, s) => sl[s].base = None /\ sl[s].flight = None
  PROVE  FlowOf(Append(q, m), sl, la, n, answers)
<1> DEFINE r == Append(q, m)
           e == Len(q) + 1
<1>1. /\ DOMAIN r = DOMAIN q \cup {e} /\ r[e] = m
      /\ \A i \in DOMAIN q : r[i] = q[i] /\ i < e /\ i \in Nat /\ q[i] \in Message
  BY Longer
<1>2. e \in Nat
  BY Longer
<1> HIDE DEF r, e
<1>3. NumbersIn(r, n)
  BY <1>1 DEF FlowOf, NumbersIn
<1>4. LastIn(r, sl)
  <2> SUFFICES ASSUME NEW i \in DOMAIN r, r[i].kind = "frame", sl[r[i].stream] # None,
                      sl[r[i].stream].flight = r[i].seq
               PROVE  /\ r[i].gen = sl[r[i].stream].gen /\ r[i].pic = sl[r[i].stream].base.pic
                      /\ \A j \in DOMAIN r : j > i => ~About(r[j], r[i].stream)
    BY DEF LastIn
  <2>1. i \in DOMAIN q /\ r[i] = q[i]
    BY <1>1
  <2>2. r[i].stream \in Present(sl) /\ r[i].seq # None
    BY <1>1, <2>1, MessageParts DEF PixelStreamAssumption, Present
  <2>3. ~About(m, r[i].stream)
    BY <2>2
  <2> QED
    BY <1>1, <2>1, <2>3 DEF FlowOf, LastIn
<1>5. PatchesIn(r, la)
  <2> SUFFICES ASSUME NEW i \in DOMAIN r, r[i].kind = "frame", r[i].base # None
               PROVE  Meets(r[i], la) /\ \A j \in DOMAIN r : j < i => ~About(r[j], r[i].stream)
    BY DEF PatchesIn
  <2>1. i \in DOMAIN q /\ r[i] = q[i]
    BY <1>1
  <2>2. \A j \in DOMAIN r : j < i => j \in DOMAIN q /\ r[j] = q[j]
    BY <1>1, <1>2, <2>1
  <2> QED
    BY <2>1, <2>2 DEF FlowOf, PatchesIn
<1>6. SyncIn(r, sl, la, answers)
  <2> SUFFICES ASSUME NEW s \in Present(sl), sl[s].base # None, Handled(sl, answers, s)
               PROVE  QuietIn(r, s) /\ Shows(sl, la, s)
    BY DEF SyncIn
  <2>1. QuietIn(q, s) /\ Shows(sl, la, s) /\ ~About(m, s)
    BY DEF FlowOf, SyncIn
  <2> QED
    BY <1>1, <2>1 DEF QuietIn
<1> QED
  BY <1>3, <1>4, <1>5, <1>6 DEF FlowOf, r

\* The slot of a new frame, whether or not the frame can still be published.
SentSlot(old, new, s, number) ==
  /\ \A t \in Streams : t # s => new[t] = old[t]
  /\ new[s] # None /\ new[s].flight = number

LEMMA FlowSlotSent ==
  ASSUME PixelStreamAssumption, NEW q \in Seq(Message), NEW sl, NEW new, NEW la, NEW n \in Nat,
         NEW answers \in SUBSET Ack, NEW s \in Streams, SentSlot(sl, new, s, n + 1),
         FlowOf(q, sl, la, n, answers)
  PROVE  FlowOf(q, new, la, n + 1, answers)
<1>1. \A i \in DOMAIN q : q[i].kind = "frame" => q[i].seq \in Nat /\ q[i].seq <= n /\ q[i].stream \in Streams
  BY ElementOfSeq, MessageParts DEF FlowOf, NumbersIn
<1>2. \A k \in answers : k.seq \in Nat /\ k.seq <= n
  BY DEF FlowOf, Ack
<1>3. NumbersIn(q, n + 1) /\ \A k \in answers : k.seq <= n + 1
  BY <1>1, <1>2 DEF NumbersIn
<1>4. LastIn(q, new)
  <2> SUFFICES ASSUME NEW i \in DOMAIN q, q[i].kind = "frame", new[q[i].stream] # None,
                      new[q[i].stream].flight = q[i].seq
               PROVE  /\ q[i].gen = new[q[i].stream].gen /\ q[i].pic = new[q[i].stream].base.pic
                      /\ \A j \in DOMAIN q : j > i => ~About(q[j], q[i].stream)
    BY DEF LastIn
  <2>1. q[i].stream # s
    BY <1>1 DEF SentSlot
  <2>2. new[q[i].stream] = sl[q[i].stream]
    BY <1>1, <2>1 DEF SentSlot
  <2> QED
    BY <2>2 DEF FlowOf, LastIn
<1>5. SyncIn(q, new, la, answers)
  <2> SUFFICES ASSUME NEW t \in Present(new), new[t].base # None, Handled(new, answers, t)
               PROVE  QuietIn(q, t) /\ Shows(new, la, t)
    BY DEF SyncIn
  <2>1. t # s
    BY <1>2 DEF SentSlot, Handled, PixelStreamAssumption
  <2>2. new[t] = sl[t] /\ t \in Present(sl) /\ Handled(sl, answers, t)
    BY <2>1 DEF SentSlot, Present, Handled
  <2> QED
    BY <2>2 DEF FlowOf, SyncIn, Shows
<1> QED
  BY <1>3, <1>4, <1>5 DEF FlowOf

LEMMA FlowFrame ==
  ASSUME PixelStreamAssumption, NEW q \in Seq(Message), NEW m \in Message, NEW sl, NEW la,
         NEW n \in Nat, NEW answers \in SUBSET Ack, FlowOf(q, sl, la, n + 1, answers),
         NumbersIn(q, n), \A k \in answers : k.seq <= n,
         m.kind = "frame", m.seq = n + 1, m.gen = sl[m.stream].gen, m.pic = sl[m.stream].base.pic,
         sl[m.stream].flight = n + 1,
         m.base # None => Meets(m, la) /\ QuietIn(q, m.stream)
  PROVE  FlowOf(Append(q, m), sl, la, n + 1, answers)
<1> DEFINE r == Append(q, m)
           e == Len(q) + 1
<1>1. /\ DOMAIN r = DOMAIN q \cup {e} /\ r[e] = m /\ e \in Nat
      /\ \A i \in DOMAIN q : r[i] = q[i] /\ i < e /\ i \in Nat /\ q[i] \in Message
  BY Longer
<1> HIDE DEF r, e
<1>2. NumbersIn(r, n + 1)
  BY <1>1 DEF FlowOf, NumbersIn
<1>3. LastIn(r, sl)
  <2> SUFFICES ASSUME NEW i \in DOMAIN r, r[i].kind = "frame", sl[r[i].stream] # None,
                      sl[r[i].stream].flight = r[i].seq
               PROVE  /\ r[i].gen = sl[r[i].stream].gen /\ r[i].pic = sl[r[i].stream].base.pic
                      /\ \A j \in DOMAIN r : j > i => ~About(r[j], r[i].stream)
    BY DEF LastIn
  <2>1. CASE i = e
    BY <1>1, <2>1
  <2>2. CASE i \in DOMAIN q
    <3>1. r[i] = q[i] /\ r[i].seq \in Nat /\ r[i].seq <= n
      BY <1>1, <2>2, MessageParts DEF NumbersIn
    <3>2. r[i].stream # m.stream
      BY <3>1
    <3>3. ~About(m, r[i].stream)
      BY <3>2 DEF About
    <3> QED
      BY <1>1, <2>2, <3>1, <3>3 DEF FlowOf, LastIn
  <2> QED
    BY <1>1, <2>1, <2>2
<1>4. PatchesIn(r, la)
  <2> SUFFICES ASSUME NEW i \in DOMAIN r, r[i].kind = "frame", r[i].base # None
               PROVE  Meets(r[i], la) /\ \A j \in DOMAIN r : j < i => ~About(r[j], r[i].stream)
    BY DEF PatchesIn
  <2>1. CASE i = e
    <3>1. \A j \in DOMAIN r : j < i => j \in DOMAIN q /\ r[j] = q[j]
      BY <1>1, <2>1
    <3> QED
      BY <1>1, <2>1, <3>1 DEF QuietIn
  <2>2. CASE i \in DOMAIN q
    <3>1. \A j \in DOMAIN r : j < i => j \in DOMAIN q /\ r[j] = q[j]
      BY <1>1, <2>2
    <3> QED
      BY <1>1, <2>2, <3>1 DEF FlowOf, PatchesIn
  <2> QED
    BY <1>1, <2>1, <2>2
<1>5. SyncIn(r, sl, la, answers)
  <2> SUFFICES ASSUME NEW s \in Present(sl), sl[s].base # None, Handled(sl, answers, s)
               PROVE  QuietIn(r, s) /\ Shows(sl, la, s)
    BY DEF SyncIn
  <2>1. s # m.stream
    <3>1. \A k \in answers : k.seq \in Nat
      BY DEF Ack
    <3> QED
      BY <3>1 DEF Handled, PixelStreamAssumption
  <2>2. QuietIn(q, s) /\ Shows(sl, la, s) /\ ~About(m, s)
    BY <2>1 DEF FlowOf, SyncIn, About
  <2> QED
    BY <1>1, <2>2 DEF QuietIn
<1> QED
  BY <1>2, <1>3, <1>4, <1>5 DEF FlowOf, r

\* The frontend takes a message: only the layer of its stream changes, and a frame it
\* answers is shown unless the layer is of a newer generation.
Taken(d, la, new, s) == new[s] = la[s] \/ About(d, s)
Shown(d, new) ==
  /\ d.kind = "frame" /\ new[d.stream] # None /\ new[d.stream].gen >= d.gen
  /\ new[d.stream].gen = d.gen => new[d.stream].seq = d.seq /\ new[d.stream].pic = d.pic
AnswerTo(d) == [stream |-> d.stream, gen |-> d.gen, seq |-> d.seq]

LEMMA FlowTaken ==
  ASSUME PixelStreamAssumption, NEW q \in Seq(Message), q # <<>>, NEW sl, SlotsOk(sl), NEW la, NEW new,
         NEW n \in Nat, NEW answers, NEW more,
         FlowOf(q, sl, la, n, answers), \A s \in Streams : Taken(Head(q), la, new, s),
         more = answers \/ (more = answers \cup {AnswerTo(Head(q))} /\ Shown(Head(q), new))
  PROVE  FlowOf(Tail(q), sl, new, n, more)
<1> DEFINE d == Head(q)
           r == Tail(q)
<1>1. /\ d \in Message /\ r \in Seq(Message) /\ Len(q) \in Nat \ {0} /\ Len(r) = Len(q) - 1
      /\ DOMAIN q = 1 .. Len(q) /\ DOMAIN r = 1 .. Len(q) - 1 /\ q[1] = d
      /\ \A i \in DOMAIN r : r[i] = q[i + 1]
  BY ChannelType
<1>2. 1 \in DOMAIN q /\ \A i \in DOMAIN r : i + 1 \in DOMAIN q /\ i + 1 > 1 /\ i \in Nat
  BY <1>1
<1> HIDE DEF d, r
<1>3. Without(r, q, 0)
  BY <1>1 DEF Without
<1>4. /\ NumbersIn(r, n) /\ LastIn(r, sl) /\ PatchesIn(r, la)
      /\ \A s : QuietIn(q, s) => QuietIn(r, s)
  BY <1>3, Fewer DEF FlowOf
<1>5. \A k \in more : k.seq <= n
  <2>1. d.kind = "frame" => d.seq <= n
    BY <1>1, <1>2 DEF FlowOf, NumbersIn
  <2> QED
    BY <2>1 DEF FlowOf, AnswerTo, Shown, d
<1>6. PatchesIn(r, new)
  <2> SUFFICES ASSUME NEW i \in DOMAIN r, r[i].kind = "frame", r[i].base # None
               PROVE  Meets(r[i], new) /\ \A j \in DOMAIN r : j < i => ~About(r[j], r[i].stream)
    BY DEF PatchesIn
  <2>1. ~About(q[1], r[i].stream)
    <3>1. q[i + 1].kind = "frame" /\ q[i + 1].base # None /\ i + 1 \in DOMAIN q /\ 1 < i + 1
      BY <1>1, <1>2
    <3> QED
      BY <1>1, <1>2, <3>1 DEF FlowOf, PatchesIn
  <2>2. r[i].stream \in Streams
    BY <1>1, ElementOfSeq, MessageParts
  <2>3. new[r[i].stream] = la[r[i].stream]
    BY <1>1, <2>1, <2>2 DEF Taken, d
  <2> QED
    BY <1>4, <2>3 DEF PatchesIn, Meets
<1>7. SyncIn(r, sl, new, more)
  <2> SUFFICES ASSUME NEW s \in Present(sl), sl[s].base # None, Handled(sl, more, s)
               PROVE  QuietIn(r, s) /\ Shows(sl, new, s)
    BY DEF SyncIn
  <2>1. CASE Handled(sl, answers, s)
    <3>1. QuietIn(q, s) /\ Shows(sl, la, s)
      BY <2>1 DEF FlowOf, SyncIn
    <3>2. new[s] = la[s]
      BY <1>1, <1>2, <3>1 DEF QuietIn, Taken, Present, d
    <3> QED
      BY <1>4, <3>1, <3>2 DEF Shows
  <2>2. CASE ~Handled(sl, answers, s)
    <3>1. /\ Shown(d, new) /\ d.stream = s /\ d.gen = sl[s].gen /\ sl[s].flight = d.seq
      <4>1. more # answers
        BY <2>2
      <4>2. more = answers \cup {AnswerTo(d)} /\ Shown(d, new)
        BY <4>1 DEF d
      <4>3. PICK k \in more : k.stream = s /\ k.gen = sl[s].gen /\ k.seq = sl[s].flight
        BY <2>2 DEF Handled
      <4>4. k = AnswerTo(d)
        BY <2>2, <4>2, <4>3 DEF Handled
      <4> QED
        BY <4>2, <4>3, <4>4 DEF AnswerTo
    <3>2. /\ d.kind = "frame" /\ sl[d.stream] # None
          /\ d.pic = sl[s].base.pic /\ \A j \in DOMAIN q : j > 1 => ~About(q[j], s)
      BY <1>1, <1>2, <3>1 DEF FlowOf, LastIn, Shown, Present
    <3>3. QuietIn(r, s)
      BY <1>1, <1>2, <3>2 DEF QuietIn
    <3>4. sl[s].base.seq = d.seq
      <4>1. sl[s].flight # None
        BY <2>2 DEF Handled
      <4> QED
        BY <3>1, <4>1 DEF SlotsOk
    <3> QED
      BY <3>1, <3>2, <3>3, <3>4 DEF Shows, Shown
  <2> QED
    BY <2>1, <2>2
<1> QED
  BY <1>4, <1>5, <1>6, <1>7 DEF FlowOf, r

-----------------------------------------------------------------------------
(* The budget *)

LEMMA HeldFinite ==
  ASSUME NEW sl, IsFiniteSet(Present(sl))
  PROVE  /\ IsFiniteSet(Bases(sl)) /\ IsFiniteSet(Waiting(sl))
         /\ Cardinality(Bases(sl)) \in Nat /\ Cardinality(Waiting(sl)) \in Nat
<1>1. Bases(sl) \subseteq Present(sl) /\ Waiting(sl) \subseteq Present(sl)
  BY DEF Bases, Waiting
<1> QED
  BY <1>1, FS_Subset, FS_CardinalityType

LEMMA OneMore ==
  ASSUME NEW S, IsFiniteSet(S), NEW x
  PROVE  IsFiniteSet(S \cup {x}) /\ Cardinality(S \cup {x}) <= Cardinality(S) + 1
<1>1. Cardinality(S) \in Nat
  BY FS_CardinalityType
<1> QED
  BY <1>1, FS_AddElement

LEMMA HeldFewer ==
  ASSUME PixelStreamAssumption, NEW old, HeldOf(old), NEW new,
         IsFiniteSet(Present(new)), Bases(new) \subseteq Bases(old),
         Waiting(new) \subseteq Waiting(old)
  PROVE  HeldOf(new)
<1>1. IsFiniteSet(Present(new))
  OBVIOUS
<1>2. Cardinality(Bases(new)) <= Cardinality(Bases(old))
  BY HeldFinite, FS_Subset DEF HeldOf
<1>3. Cardinality(Waiting(new)) <= Cardinality(Waiting(old))
  BY HeldFinite, FS_Subset DEF HeldOf
<1>4. /\ Cardinality(Bases(new)) \in Nat /\ Cardinality(Waiting(new)) \in Nat
      /\ Cardinality(Bases(old)) \in Nat /\ Cardinality(Waiting(old)) \in Nat
  BY <1>1, HeldFinite DEF HeldOf
<1>5. Cardinality(Bases(new)) + Cardinality(Waiting(new)) <= Budget
  BY <1>2, <1>3, <1>4 DEF HeldOf, PixelStreamAssumption
<1> QED
  BY <1>1, <1>5 DEF HeldOf

\* A pending picture that becomes the base, in place of another or of none.
LEMMA HeldSent ==
  ASSUME PixelStreamAssumption, NEW old, HeldOf(old), NEW new, NEW s \in Waiting(old),
         Present(new) = Present(old), Bases(new) \subseteq Bases(old) \cup {s},
         Waiting(new) = Waiting(old) \ {s}
  PROVE  HeldOf(new)
<1>1. /\ IsFiniteSet(Bases(old)) /\ IsFiniteSet(Waiting(old))
      /\ Cardinality(Bases(old)) \in Nat /\ Cardinality(Waiting(old)) \in Nat
  BY HeldFinite DEF HeldOf
<1>2. /\ IsFiniteSet(Bases(old) \cup {s})
      /\ Cardinality(Bases(old) \cup {s}) <= Cardinality(Bases(old)) + 1
  BY SMTT(30), <1>1, FS_AddElement
<1>3. Cardinality(Bases(new)) <= Cardinality(Bases(old) \cup {s})
  BY <1>2, FS_Subset
<1>4. Cardinality(Waiting(new)) = Cardinality(Waiting(old)) - 1
  BY <1>1, FS_RemoveElement
<1>5. Cardinality(Bases(new)) \in Nat /\ Cardinality(Bases(old) \cup {s}) \in Nat
  BY <1>2, HeldFinite, FS_CardinalityType DEF HeldOf
<1>6. Cardinality(Bases(new)) + Cardinality(Waiting(new)) <= Budget
  BY <1>1, <1>2, <1>3, <1>4, <1>5 DEF HeldOf, PixelStreamAssumption
<1> QED
  BY <1>6 DEF HeldOf

\* A picture accepted within the budget.
LEMMA HeldAccepted ==
  ASSUME PixelStreamAssumption, NEW kept, HeldOf(kept), NEW s \in Streams, Held(kept, s) <= Budget,
         NEW new, Present(new) \subseteq Present(kept) \cup {s}, Bases(new) \subseteq Bases(kept),
         \A t \in Waiting(new) : t = s \/ t \in Waiting(kept)
  PROVE  HeldOf(new)
<1> DEFINE others == {t \in Present(kept) : t # s /\ kept[t].pending # None}
<1>1. /\ IsFiniteSet(Bases(kept)) /\ Cardinality(Bases(kept)) \in Nat
      /\ IsFiniteSet(others) /\ Cardinality(others) \in Nat
  <2>1. others \subseteq Present(kept)
    OBVIOUS
  <2> QED
    BY <2>1, HeldFinite, FS_Subset, FS_CardinalityType DEF HeldOf
<1>2. Waiting(new) \subseteq others \cup {s}
  BY DEF Waiting
<1>3. Held(kept, s) = Cardinality(Bases(kept)) + Cardinality(others) + 1
  BY DEF Held, Bases
<1> HIDE DEF others
<1>4. /\ IsFiniteSet(others \cup {s}) /\ Cardinality(others \cup {s}) <= Cardinality(others) + 1
  BY <1>1, OneMore
<1>5. Cardinality(Waiting(new)) <= Cardinality(others \cup {s}) /\ IsFiniteSet(Waiting(new))
  BY <1>2, <1>4, FS_Subset
<1>6. Cardinality(Bases(new)) <= Cardinality(Bases(kept)) /\ IsFiniteSet(Bases(new))
  BY <1>1, FS_Subset
<1>7. IsFiniteSet(Present(new))
  BY FS_AddElement, FS_Subset DEF HeldOf
<1>8. /\ Cardinality(Bases(new)) \in Nat /\ Cardinality(Waiting(new)) \in Nat
      /\ Cardinality(others \cup {s}) \in Nat
  BY <1>4, <1>5, <1>6, FS_CardinalityType
<1>9. Cardinality(Bases(new)) + Cardinality(Waiting(new)) <= Budget
  BY <1>1, <1>3, <1>4, <1>5, <1>6, <1>8 DEF PixelStreamAssumption
<1> QED
  BY <1>7, <1>9 DEF HeldOf

-----------------------------------------------------------------------------
(* Each step *)

LEMMA EntryFacts ==
  ASSUME NEW S, NEW q \in Seq(S)
  PROVE  /\ Entries(q) \subseteq S
         /\ \A m \in S : Entries(Append(q, m)) = Entries(q) \cup {m}
         /\ q # <<>> => Head(q) \in Entries(q) /\ Entries(Tail(q)) \subseteq Entries(q)
<1>1. DOMAIN q = 1 .. Len(q) /\ Len(q) \in Nat /\ \A i \in DOMAIN q : q[i] \in S
  BY LenProperties, ElementOfSeq
<1>2. ASSUME NEW m \in S PROVE Entries(Append(q, m)) = Entries(q) \cup {m}
  <2>1. /\ DOMAIN Append(q, m) = 1 .. Len(q) + 1 /\ Append(q, m)[Len(q) + 1] = m
        /\ \A i \in 1 .. Len(q) : Append(q, m)[i] = q[i]
    BY AppendProperties
  <2> QED
    BY <1>1, <2>1 DEF Entries
<1>3. ASSUME q # <<>> PROVE Head(q) \in Entries(q) /\ Entries(Tail(q)) \subseteq Entries(q)
  <2>1. /\ 1 \in DOMAIN q /\ q[1] = Head(q) /\ DOMAIN Tail(q) = 1 .. Len(q) - 1
        /\ \A i \in DOMAIN Tail(q) : Tail(q)[i] = q[i + 1] /\ i + 1 \in DOMAIN q
    BY <1>1, <1>3, ChannelType
  <2> QED
    BY <2>1 DEF Entries
<1> QED
  BY <1>1, <1>2, <1>3 DEF Entries

LEMMA AnswersType ==
  ASSUME TypeOK
  PROVE  Answers \in SUBSET Ack /\ Queue \in Seq(Message)
<1>1. Entries(acks) \subseteq Ack /\ Entries(replies) \subseteq Ack
  BY EntryFacts DEF TypeOK
<1> QED
  BY <1>1, JoinParts DEF Answers, Queue, TypeOK

core == <<acks, output, slots, sequence, control, replies, layers, frontend>>

LEMMA IdleStep ==
  ASSUME PixelInv, UNCHANGED core
  PROVE  SlotsOk(slots)' /\ FlowInv' /\ PatchesFit' /\ HeldOf(slots)'
<1>1. Queue' = Queue /\ Answers' = Answers
  BY DEF core, Queue, Answers
<1> QED
  BY <1>1 DEF PixelInv, core, FlowInv, PatchesFit

LEMMA ForwardStep ==
  ASSUME PixelStreamAssumption, PixelInv, Forward
  PROVE  PixelInv'
<1>1. TypeOK'
  BY QueueTypes DEF PixelInv
<1>2. control \in Seq(Message) /\ output \in Seq(Message) /\ output # <<>>
  BY DEF PixelInv, TypeOK, Forward
<1>3. Queue' = Queue \/ Without(Queue', Queue, Len(control))
  <2>1. CASE Len(control) < ControlCap
    BY <1>2, <2>1, Forwarded DEF Forward, Queue
  <2>2. CASE ~(Len(control) < ControlCap)
    <3>1. Queue' = control \o Tail(output)
      BY <2>2 DEF Forward, Queue
    <3>2. /\ Len(control) \in Nat /\ Len(output) \in Nat \ {0}
          /\ Queue \in Seq(Message) /\ Len(Queue) = Len(control) + Len(output)
      BY <1>2, ChannelType, JoinParts DEF Queue
    <3>3. /\ Len(Queue') = Len(Queue) - 1 /\ Queue' \in Seq(Message)
          /\ \A i \in 1 .. Len(Queue) - 1 :
               Queue'[i] = IF i <= Len(control) THEN Queue[i] ELSE Queue[i + 1]
      BY <1>2, <3>1, Forwarded DEF Queue
    <3> HIDE DEF Queue
    <3> QED
      BY <3>2, <3>3 DEF Without
  <2> QED
    BY <2>1, <2>2
<1>4. Answers' = Answers
  BY DEF Forward, Answers
<1>5. FlowOf(Queue', slots, layers, sequence, Answers)
  BY <1>3, FlowFewer DEF PixelInv, FlowInv
<1> QED
  BY <1>1, <1>4, <1>5
  DEF PixelInv, FlowInv, Forward, TodoInv, PatchesFit, encoderVars, frontendVars

LEMMA AcknowledgeStep ==
  ASSUME PixelStreamAssumption, PixelInv, Acknowledge
  PROVE  PixelInv'
<1>1. TypeOK' /\ acks \in Seq(Ack) /\ replies \in Seq(Ack) /\ replies # <<>>
  BY QueueTypes DEF PixelInv, TypeOK, Acknowledge
<1>2. Answers' \subseteq Answers
  <2>1. Head(replies) \in Ack /\ Head(replies) \in Entries(replies)
    BY <1>1, ChannelType, EntryFacts
  <2>2. Entries(acks)' \subseteq Entries(acks) \cup {Head(replies)}
    BY <1>1, <2>1, EntryFacts DEF Acknowledge
  <2>3. Entries(replies)' \subseteq Entries(replies)
    BY <1>1, EntryFacts DEF Acknowledge
  <2> QED
    BY <2>1, <2>2, <2>3 DEF Answers
<1>3. Queue' = Queue
  BY DEF Acknowledge, Queue
<1>4. FlowOf(Queue, slots, layers, sequence, Answers')
  BY <1>2, FlowAnswers DEF PixelInv, FlowInv
<1> QED
  BY <1>1, <1>3, <1>4
  DEF PixelInv, FlowInv, Acknowledge, TodoInv, PatchesFit, encoderVars, frontendVars

\* The acknowledgement that frees a slot is the one of the frame in flight.
LEMMA TakeAckStep ==
  ASSUME PixelStreamAssumption, PixelInv, TakeAck
  PROVE  PixelInv'
<1> DEFINE a == Head(acks)
<1>1. TypeOK' /\ a \in Ack /\ acks \in Seq(Ack) /\ acks # <<>> /\ a.stream \in Streams
  BY TakeAckType DEF PixelInv, TypeOK, TakeAck, Ack
<1>2. Queue' = Queue /\ Answers' \subseteq Answers /\ a \in Answers
  <2>1. a \in Entries(acks) /\ Entries(Tail(acks)) \subseteq Entries(acks)
    BY <1>1, EntryFacts
  <2> QED
    BY <2>1 DEF TakeAck, Queue, Answers
<1>3. \/ slots' = slots
      \/ /\ slots[a.stream] # None /\ slots[a.stream].gen = a.gen /\ slots[a.stream].flight = a.seq
         /\ slots' = [slots EXCEPT ![a.stream].flight = None]
  BY DEF TakeAck, Released
<1> HIDE DEF a
<1>4. \A s \in Streams :
        \/ slots'[s] = slots[s]
        \/ /\ slots[s] # None /\ slots'[s] # None /\ Handled(slots, Answers, s)
           /\ slots'[s].gen = slots[s].gen /\ slots'[s].base = slots[s].base
           /\ slots'[s].flight = None /\ slots'[s].pending = slots[s].pending
           /\ slots'[s].closed = slots[s].closed
  <2> SUFFICES ASSUME NEW s \in Streams, slots'[s] # slots[s]
               PROVE  /\ slots[s] # None /\ slots'[s] # None /\ Handled(slots, Answers, s)
                      /\ slots'[s].gen = slots[s].gen /\ slots'[s].base = slots[s].base
                      /\ slots'[s].flight = None /\ slots'[s].pending = slots[s].pending
                      /\ slots'[s].closed = slots[s].closed
    OBVIOUS
  <2>1. /\ s = a.stream /\ slots[s] # None /\ slots[s].gen = a.gen /\ slots[s].flight = a.seq
        /\ slots'[s] = [slots[s] EXCEPT !.flight = None]
    BY <1>1, <1>3 DEF PixelInv, TypeOK
  <2>2. slots[s] \in Slot
    BY <2>1, SlotType DEF PixelInv
  <2>3. [slots[s] EXCEPT !.flight = None] \in Slot
    BY <2>2 DEF Slot
  <2>4. slots'[s] # None
    BY <2>1, <2>3 DEF PixelStreamAssumption
  <2>5. Handled(slots, Answers, s)
    BY <1>2, <2>1 DEF Handled
  <2> QED
    BY <2>1, <2>2, <2>4, <2>5 DEF Slot
<1>5. \A s \in Streams : Eased(slots, slots', Answers, s)
  BY <1>4 DEF Eased
<1>6. FlowOf(Queue, slots', layers, sequence, Answers)
  BY <1>5, AnswersType, FlowSlots DEF PixelInv, FlowInv
<1>7. FlowOf(Queue, slots', layers, sequence, Answers')
  BY <1>2, <1>6, FlowAnswers
<1>8. /\ Present(slots') = Present(slots) /\ Bases(slots') = Bases(slots)
      /\ Waiting(slots') = Waiting(slots)
  BY <1>4 DEF Present, Bases, Waiting
<1>9. SlotsOk(slots')
  BY <1>4, <1>8 DEF PixelInv, SlotsOk, Present
<1>10. HeldOf(slots')
  BY <1>8, HeldFewer DEF PixelInv, HeldOf
<1>11. TodoInv'
  BY <1>8 DEF PixelInv, TodoInv, TakeAck
<1> QED
  BY <1>1, <1>2, <1>7, <1>9, <1>10, <1>11
  DEF PixelInv, FlowInv, TakeAck, PatchesFit, frontendVars

\* The encoder changes its slots and says something that is no frame, or nothing.
LEMMA NoticeStep ==
  ASSUME PixelStreamAssumption, PixelInv, NEW m \in Message, m.kind # "frame",
         \A t \in Streams : Eased(slots, slots', Answers, t),
         \A t \in Present(slots') : About(m, t) => slots'[t].base = None /\ slots'[t].flight = None,
         output' = output \/ output' = Append(output, m),
         UNCHANGED <<control, layers, acks, replies>>,
         sequence' = sequence \/ sequence' = sequence + 1
  PROVE  FlowInv'
<1>1. FlowOf(Queue, slots', layers, sequence, Answers) /\ Queue \in Seq(Message)
  BY AnswersType, FlowSlots DEF PixelInv, FlowInv
<1>2. FlowOf(Queue', slots', layers, sequence, Answers)
  <2>1. CASE output' = output
    BY <1>1, <2>1 DEF Queue
  <2>2. CASE output' = Append(output, m)
    <3>1. Queue' = Append(Queue, m)
      BY <2>2, Published DEF PixelInv
    <3>2. FlowOf(Append(Queue, m), slots', layers, sequence, Answers)
      BY <1>1, FlowNotice
    <3> QED
      BY <3>1, <3>2
  <2> QED
    BY <2>1, <2>2
<1>3. Answers' = Answers
  BY DEF Answers
<1>4. \A q, answers : FlowOf(q, slots', layers, sequence, answers) /\ q \in Seq(Message)
                        /\ answers \in SUBSET Ack
                      => FlowOf(q, slots', layers, sequence', answers)
  <2> SUFFICES ASSUME NEW q \in Seq(Message), NEW answers \in SUBSET Ack,
                      FlowOf(q, slots', layers, sequence, answers)
               PROVE  FlowOf(q, slots', layers, sequence', answers)
    OBVIOUS
  <2>1. sequence \in Nat /\ sequence' \in Nat /\ sequence <= sequence'
    BY DEF PixelInv, TypeOK
  <2>2. \A k \in answers : k.seq \in Nat
    BY DEF Ack
  <2>3. \A i \in DOMAIN q : q[i].kind = "frame" => q[i].seq \in Nat
    BY ElementOfSeq, MessageParts
  <2> QED
    BY <2>1, <2>2, <2>3 DEF FlowOf, NumbersIn
<1>5. Queue' \in Seq(Message)
  <2>1. /\ control \in Seq(Message) /\ output \in Seq(Message)
    BY DEF PixelInv, TypeOK
  <2>2. output' \in Seq(Message)
    BY <2>1
  <2> QED
    BY <2>1, <2>2, JoinParts DEF Queue
<1>6. FlowOf(Queue', slots', layers, sequence', Answers)
  BY <1>2, <1>4, <1>5, AnswersType DEF PixelInv
<1> QED
  BY <1>3, <1>6 DEF FlowInv

LEMMA CloseStep ==
  ASSUME PixelStreamAssumption, PixelInv, NEW s \in Streams, Apply(s), ApplyClose(s, batch[s])
  PROVE  FlowInv' /\ SlotsOk(slots') /\ HeldOf(slots')
<1> DEFINE x == ClosedSlot(batch[s].gen)
           m == [kind |-> "close", stream |-> s, gen |-> batch[s].gen]
<1>1. batch[s].gen \in Gens
  BY BatchType DEF PixelInv, Apply
<1>2. /\ x # None /\ x.base = None /\ x.flight = None /\ x.pending = None
  <2>1. x \in Slot
    BY <1>1 DEF ClosedSlot, Slot
  <2> QED
    BY <2>1 DEF ClosedSlot, PixelStreamAssumption
<1>3. m \in Message /\ m.kind = "close" /\ \A t : About(m, t) => t = s
  BY <1>1 DEF Message, About
<1>4. UNCHANGED <<control, layers, acks, replies, sequence>>
  BY DEF Apply, frontendVars
<1>5. \/ UNCHANGED <<slots, output, pc>>
      \/ slots' = [slots EXCEPT ![s] = x] /\ Publish(m)
  BY DEF ApplyClose
<1> HIDE DEF x, m
<1>6. CASE UNCHANGED <<slots, output, pc>>
  BY <1>4, <1>6, IdleStep DEF core, PixelInv, PatchesFit, FlowInv, Queue, Answers
<1>7. CASE slots' = [slots EXCEPT ![s] = x] /\ Publish(m)
  <2>1. slots'[s] = x /\ \A t \in Streams : t # s => slots'[t] = slots[t]
    BY <1>7 DEF PixelInv, TypeOK
  <2>2. \A t \in Streams : Eased(slots, slots', Answers, t)
    BY <1>2, <2>1 DEF Eased
  <2>3. \A t \in Present(slots') : About(m, t) => slots'[t].base = None /\ slots'[t].flight = None
    BY <1>2, <1>3, <2>1
  <2>4. output' = output \/ output' = Append(output, m)
    BY <1>7 DEF Publish
  <2>5. FlowInv'
    BY <1>3, <1>4, <2>2, <2>3, <2>4, NoticeStep
  <2>6. SlotsOk(slots')
    BY <1>2, <2>1 DEF PixelInv, SlotsOk, Present
  <2>7. HeldOf(slots')
    <3>1. Present(slots') \subseteq Present(slots) \cup {s}
      BY <2>1 DEF Present
    <3>2. Bases(slots') \subseteq Bases(slots) /\ Waiting(slots') \subseteq Waiting(slots)
      BY <1>2, <2>1 DEF Bases, Waiting, Present
    <3>3. IsFiniteSet(Present(slots'))
      BY <3>1, OneMore, FS_Subset DEF PixelInv, HeldOf
    <3> QED
      BY <3>2, <3>3, HeldFewer DEF PixelInv
  <2> QED
    BY <2>5, <2>6, <2>7
<1> QED
  BY <1>5, <1>6, <1>7

LEMMA RetainedFacts ==
  ASSUME PixelStreamAssumption, PixelInv, NEW s \in Streams
  PROVE  /\ Retained(s) \in [Streams -> Slot \cup {None}]
         /\ \A t \in Streams : Retained(s)[t] = slots[t] \/ Retained(s)[t] = None
         /\ Retained(s)[s] = slots[s]
         /\ Present(Retained(s)) \subseteq Present(slots)
         /\ SlotsOk(Retained(s)) /\ HeldOf(Retained(s))
<1>1. /\ Retained(s) \in [Streams -> Slot \cup {None}]
      /\ \A t \in Streams : Retained(s)[t] = slots[t] \/ Retained(s)[t] = None
      /\ Retained(s)[s] = slots[s]
  BY DEF Retained, PixelInv, TypeOK
<1> DEFINE kept == Retained(s)
<1> HIDE DEF kept
<1>2. \A t \in Present(kept) : t \in Present(slots) /\ kept[t] = slots[t]
  BY <1>1 DEF Present, kept
<1>3. SlotsOk(kept)
  BY <1>2 DEF SlotsOk, PixelInv
<1>4. Bases(kept) \subseteq Bases(slots) /\ Waiting(kept) \subseteq Waiting(slots)
  BY <1>2 DEF Bases, Waiting
<1>5. IsFiniteSet(Present(kept))
  BY <1>2, FS_Subset DEF PixelInv, HeldOf
<1>6. HeldOf(kept)
  BY <1>4, <1>5, HeldFewer DEF PixelInv
<1> QED
  BY <1>1, <1>2, <1>3, <1>6 DEF kept

\* A slot renewed for u: empty, or the old one but for its pending picture.
Renews(x, u, old) ==
  /\ x # None
  /\ \/ x.base = None /\ x.flight = None /\ x.closed = FALSE
     \/ /\ old # None /\ old.gen = u.gen /\ x.gen = old.gen /\ x.base = old.base
        /\ x.flight = old.flight /\ x.closed = old.closed

LEMMA RenewedFacts ==
  ASSUME PixelStreamAssumption, NEW s, NEW u \in Update, u.gen \in Gens, u.pic \in Pictures \cup {None},
         NEW old \in Slot \cup {None}
  PROVE  Renews(Renewed(s, u, old), u, old)
<1>1. Renewed(s, u, old) # None
  BY RenewedType DEF PixelStreamAssumption
<1>2. CASE old # None /\ old.gen = u.gen
  BY <1>1, <1>2 DEF Renews, Renewed, Slot
<1>3. CASE ~(old # None /\ old.gen = u.gen)
  BY <1>1, <1>3 DEF Renews, Renewed
<1> QED
  BY <1>2, <1>3

LEMMA FrameStep ==
  ASSUME PixelStreamAssumption, PixelInv, NEW s \in Streams, Apply(s), ApplyFrame(s, batch[s])
  PROVE  FlowInv' /\ SlotsOk(slots') /\ HeldOf(slots')
<1> DEFINE u == batch[s]
           kept == Retained(s)
           x == Renewed(s, u, slots[s])
           m == [kind |-> "error"]
<1>1. u \in Update /\ u.gen \in Gens /\ u.pic \in Pictures \cup {None}
  BY BatchType DEF PixelInv, Apply
<1>2. UNCHANGED <<control, layers, acks, replies, sequence>>
  BY DEF Apply, frontendVars
<1>3. m \in Message /\ m.kind = "error" /\ \A t : ~About(m, t)
  BY DEF Message, About
<1>4. /\ kept \in [Streams -> Slot \cup {None}]
      /\ \A t \in Streams : kept[t] = slots[t] \/ kept[t] = None
      /\ kept[s] = slots[s] /\ Present(kept) \subseteq Present(slots)
      /\ SlotsOk(kept) /\ HeldOf(kept)
  BY RetainedFacts
<1>5. \/ UNCHANGED <<slots, output, pc>>
      \/ slots' = kept /\ Publish(m)
      \/ /\ ~Retired(s, u) /\ slots' = [kept EXCEPT ![s] = x] /\ Held(kept, s) <= Budget
         /\ output' = output
  BY <1>4 DEF ApplyFrame
<1>6. CASE UNCHANGED <<slots, output, pc>>
  BY <1>2, <1>6, IdleStep DEF core, PixelInv, PatchesFit, FlowInv, Queue, Answers
<1>7. CASE slots' = kept /\ Publish(m)
  <2>1. output' = output \/ output' = Append(output, m)
    BY <1>7 DEF Publish
  <2>2. \A t \in Streams : Eased(slots, slots', Answers, t)
    <3> HIDE DEF kept
    <3> QED
      BY <1>4, <1>7 DEF Eased
  <2> HIDE DEF kept, m
  <2>3. FlowInv'
    BY <1>2, <1>3, <2>1, <2>2, NoticeStep
  <2> QED
    BY <1>4, <1>7, <2>3
<1>8. CASE /\ ~Retired(s, u) /\ slots' = [kept EXCEPT ![s] = x] /\ Held(kept, s) <= Budget
           /\ output' = output
  <2>1. /\ x # None
        /\ \/ x.base = None /\ x.flight = None /\ x.closed = FALSE
           \/ /\ slots[s] # None /\ slots[s].gen = u.gen /\ x.gen = slots[s].gen
              /\ x.base = slots[s].base /\ x.flight = slots[s].flight /\ x.closed = slots[s].closed
    <3>1. slots[s] \in Slot \cup {None}
      BY DEF PixelInv, TypeOK
    <3>2. Renews(x, u, slots[s])
      <4> HIDE DEF u
      <4> QED
        BY <1>1, <3>1, RenewedFacts
    <3> HIDE DEF x, u
    <3> QED
      BY <3>2 DEF Renews
  <2>2. slots[s] # None /\ slots[s].gen = u.gen => slots[s].closed # TRUE
    BY <1>8 DEF Retired
  <2> HIDE DEF u, kept, x
  <2>3. slots'[s] = x /\ \A t \in Streams : t # s => slots'[t] = kept[t]
    BY <1>4, <1>8
  <2>4. \A t \in Streams : Eased(slots, slots', Answers, t)
    BY <1>4, <2>1, <2>3 DEF Eased
  <2>5. FlowInv'
    BY <1>2, <1>3, <1>8, <2>4, NoticeStep
  <2>6. SlotsOk(slots')
    <3>1. slots[s] # None => slots[s].closed \in BOOLEAN
      BY SlotType DEF PixelInv
    <3>2. ~x.closed
      BY <2>1, <2>2, <3>1
    <3>3. x.flight # None => x.base # None /\ x.base.seq = x.flight
      BY <2>1 DEF PixelInv, SlotsOk, Present
    <3> QED
      BY <1>4, <2>3, <3>2, <3>3 DEF SlotsOk, Present
  <2>7. HeldOf(slots')
    <3>1. Present(slots') \subseteq Present(kept) \cup {s}
      BY <2>3 DEF Present
    <3>2. Bases(slots') \subseteq Bases(kept)
      BY <1>4, <2>1, <2>3 DEF Bases, Present
    <3>3. \A t \in Waiting(slots') : t = s \/ t \in Waiting(kept)
      BY <2>3 DEF Waiting, Present
    <3> QED
      BY <1>4, <1>8, <3>1, <3>2, <3>3, HeldAccepted
  <2> QED
    BY <2>5, <2>6, <2>7
<1> QED
  BY <1>5, <1>6, <1>7, <1>8

LEMMA QuietStep ==
  ASSUME PixelStreamAssumption, PixelInv, NEW s \in Streams, Encode(s), EncodeQuiet(s)
  PROVE  FlowInv' /\ SlotsOk(slots') /\ HeldOf(slots') /\ Present(slots') = Present(slots)
<1> DEFINE m == [kind |-> "error"]
<1>1. m \in Message /\ m.kind = "error" /\ \A t : ~About(m, t)
  BY DEF Message, About
<1>2. UNCHANGED <<control, layers, acks, replies>> /\ sequence' = sequence + 1
  BY DEF Encode, EncodeQuiet, frontendVars
<1>3. output' = output \/ output' = Append(output, m)
  BY DEF EncodeQuiet, Publish
<1>4. slots[s] # None /\ slots[s] \in Slot
  BY SlotType DEF PixelInv, TodoInv, Encode, Present
<1>5. /\ \A t \in Streams : t # s => slots'[t] = slots[t]
      /\ slots'[s] # None /\ slots'[s].gen = slots[s].gen /\ slots'[s].base = slots[s].base
      /\ slots'[s].flight = slots[s].flight /\ slots'[s].pending = None
      /\ slots'[s].closed = slots[s].closed
  <2> DEFINE x == [slots[s] EXCEPT !.pending = None]
  <2>1. slots'[s] = x /\ \A t \in Streams : t # s => slots'[t] = slots[t]
    BY DEF EncodeQuiet, PixelInv, TypeOK
  <2>2. x \in Slot
    BY <1>4 DEF Slot
  <2>3. x # None
    BY <2>2 DEF PixelStreamAssumption
  <2> QED
    BY <1>4, <2>1, <2>3 DEF Slot
<1> HIDE DEF m
<1>6. \A t \in Streams : Eased(slots, slots', Answers, t)
  BY <1>4, <1>5 DEF Eased
<1>7. FlowInv'
  BY <1>1, <1>2, <1>3, <1>6, NoticeStep
<1>8. Present(slots') = Present(slots)
  BY <1>4, <1>5 DEF Present
<1>9. SlotsOk(slots')
  BY <1>4, <1>5 DEF PixelInv, SlotsOk, Present
<1>10. HeldOf(slots')
  <2>1. Bases(slots') \subseteq Bases(slots) /\ Waiting(slots') \subseteq Waiting(slots)
    BY <1>4, <1>5 DEF Bases, Waiting, Present
  <2> QED
    BY <1>8, <2>1, HeldFewer DEF PixelInv, HeldOf
<1> QED
  BY <1>7, <1>8, <1>9, <1>10

\* A new frame: a patch is made only when the layer shows its base and nothing about the
\* stream is on its way.
LEMMA SentStep ==
  ASSUME PixelStreamAssumption, PixelInv, NEW s \in Streams, Encode(s), EncodeFrame(s)
  PROVE  FlowInv' /\ SlotsOk(slots') /\ HeldOf(slots') /\ Present(slots') = Present(slots)
<1> DEFINE b == [seq |-> sequence + 1, pic |-> slots[s].pending]
           old == Against(slots[s].base, slots[s].pending)
           m == NextFrame(s, IF old = None THEN None ELSE old.seq)
           x == [slots[s] EXCEPT !.pending = None, !.flight = sequence + 1, !.base = b]
<1>1. UNCHANGED <<control, layers, acks, replies>> /\ sequence' = sequence + 1 /\ sequence \in Nat
  BY DEF Encode, EncodeFrame, frontendVars, PixelInv, TypeOK
<1>2. /\ slots[s] # None /\ slots[s] \in Slot /\ s \in Present(slots)
      /\ slots[s].flight = None /\ slots[s].pending # None
  BY SlotType DEF PixelInv, TodoInv, Encode, Present, EncodeFrame
<1>3. /\ slots[s].pending \in Pictures /\ slots[s].gen \in Gens
      /\ slots[s].base # None => slots[s].base.seq \in Nat
  BY <1>2, SlotType DEF PixelInv
<1>4. b \in Base /\ b # None
  <2>1. b \in Base
    BY <1>1, <1>3 DEF Base
  <2> QED
    BY <2>1 DEF PixelStreamAssumption
<1>5. /\ \A t \in Streams : t # s => slots'[t] = slots[t]
      /\ slots'[s] # None /\ slots'[s].gen = slots[s].gen /\ slots'[s].base = b
      /\ slots'[s].flight = sequence + 1 /\ slots'[s].pending = None
      /\ slots'[s].closed = slots[s].closed
  <2>1. slots'[s] = x /\ \A t \in Streams : t # s => slots'[t] = slots[t]
    BY DEF EncodeFrame, PixelInv, TypeOK
  <2>2. x \in Slot
    <3> HIDE DEF b
    <3>1. sequence + 1 \in Nat
      BY <1>1
    <3> QED
      BY <1>2, <1>4, <3>1 DEF Slot
  <2>3. x # None
    BY <2>2 DEF PixelStreamAssumption
  <2> HIDE DEF b
  <2> QED
    BY <1>2, <2>1, <2>3 DEF Slot
<1>6. m \in Message
  <2>1. (IF old = None THEN None ELSE old.seq) \in Nat \cup {None}
    BY <1>3 DEF Against
  <2>2. sequence + 1 \in Nat
    BY <1>1
  <2> QED
    BY <1>3, <2>1, <2>2, MessageForms DEF NextFrame
<1>7. /\ m.kind = "frame" /\ m.stream = s /\ m.gen = slots[s].gen /\ m.seq = sequence + 1
      /\ m.pic = slots[s].pending /\ m.base = IF old = None THEN None ELSE old.seq
  BY DEF NextFrame
<1>8. b.pic = slots[s].pending /\ b.seq = sequence + 1
  OBVIOUS
<1>9. m.base # None => Meets(m, layers) /\ QuietIn(Queue, s)
  <2> SUFFICES ASSUME m.base # None PROVE Meets(m, layers) /\ QuietIn(Queue, s)
    OBVIOUS
  <2>1. /\ slots[s].base # None /\ m.base = slots[s].base.seq
        /\ Dim[slots[s].base.pic] = Dim[slots[s].pending]
    BY <1>7 DEF Against
  <2> HIDE DEF m
  <2>2. QuietIn(Queue, s) /\ Shows(slots, layers, s)
    BY <1>2, <2>1 DEF PixelInv, FlowInv, FlowOf, SyncIn, Handled
  <2> QED
    BY <1>7, <2>1, <2>2 DEF Meets, Shows
<1>10. Publish(m)
  BY DEF EncodeFrame
<1> HIDE DEF b, m, x, old
<1>11. Queue \in Seq(Message) /\ Answers \in SUBSET Ack /\ Answers' = Answers
  BY <1>1, AnswersType DEF PixelInv, Answers
<1>12. FlowOf(Queue, slots', layers, sequence + 1, Answers)
  <2>1. SentSlot(slots, slots', s, sequence + 1)
    BY <1>5 DEF SentSlot
  <2> QED
    BY <1>1, <1>11, <2>1, FlowSlotSent DEF PixelInv, FlowInv
<1>13. FlowOf(Queue', slots', layers, sequence + 1, Answers)
  <2>1. CASE output' = output
    BY <1>1, <1>12, <2>1 DEF Queue
  <2>2. CASE output' = Append(output, m)
    <3>1. Queue' = Append(Queue, m)
      BY <1>1, <1>6, <2>2, Published DEF PixelInv
    <3>2. FlowOf(Append(Queue, m), slots', layers, sequence + 1, Answers)
      <4>1. NumbersIn(Queue, sequence) /\ \A k \in Answers : k.seq <= sequence
        BY DEF PixelInv, FlowInv, FlowOf
      <4>2. m.gen = slots'[m.stream].gen /\ m.pic = slots'[m.stream].base.pic
              /\ slots'[m.stream].flight = sequence + 1
        BY <1>5, <1>7, <1>8
      <4>3. m.base # None => Meets(m, layers) /\ QuietIn(Queue, m.stream)
        BY <1>7, <1>9
      <4> QED
        BY <1>1, <1>6, <1>7, <1>11, <1>12, <4>1, <4>2, <4>3, FlowFrame
    <3> QED
      BY <3>1, <3>2
  <2> QED
    BY <1>10, <2>1, <2>2 DEF Publish
<1>14. FlowInv'
  BY <1>1, <1>11, <1>13 DEF FlowInv
<1>15. Present(slots') = Present(slots)
  BY <1>2, <1>5 DEF Present
<1>16. SlotsOk(slots')
  <2>1. ~slots[s].closed
    BY <1>2 DEF PixelInv, SlotsOk
  <2> QED
    BY <1>4, <1>5, <1>8, <2>1 DEF PixelInv, SlotsOk, Present
<1>17. HeldOf(slots')
  <2>1. Bases(slots') \subseteq Bases(slots) \cup {s} /\ Waiting(slots') = Waiting(slots) \ {s}
    BY <1>2, <1>5 DEF Bases, Waiting, Present
  <2>2. s \in Waiting(slots)
    BY <1>2 DEF Waiting
  <2> QED
    BY <1>15, <2>1, <2>2, HeldSent DEF PixelInv
<1> QED
  BY <1>14, <1>15, <1>16, <1>17

LEMMA ReceiveStep ==
  ASSUME PixelStreamAssumption, PixelInv, Receive
  PROVE  PixelInv'
<1> DEFINE d == Head(control)
           ans == AnswerTo(d)
<1>1. TypeOK' /\ d \in Message /\ frontend = "running"
  BY ReceiveType DEF PixelInv, Receive
<1>2. control \in Seq(Message) /\ output \in Seq(Message) /\ control # <<>> /\ replies \in Seq(Ack)
  BY DEF PixelInv, TypeOK, Receive
<1>3. Queue # <<>> /\ Head(Queue) = d /\ Queue' = Tail(Queue) /\ Queue \in Seq(Message)
  <2>1. (control \o output) # <<>> /\ Head(control \o output) = Head(control)
         /\ Tail(control \o output) = Tail(control) \o output
    BY <1>2
  <2> QED
    BY <2>1, AnswersType DEF Queue, Receive, PixelInv
<1>4. UNCHANGED <<acks, slots, sequence, pc, todo>>
  BY DEF Receive, encoderVars
<1>5. 1 \in DOMAIN Queue /\ Queue[1] = d
  BY <1>3, ChannelType
<1>6. ReceiveFrame(d) \/ ReceiveClose(d) \/ ReceiveError(d)
  BY DEF Receive
<1> HIDE DEF d, ans
<1>7. /\ \A s \in Streams : Taken(d, layers, layers', s)
      /\ replies' = replies \/ (replies' = Append(replies, ans) /\ ans \in Ack /\ Shown(d, layers'))
      /\ frontend' # "base"
  <2>1. CASE ReceiveFrame(d)
    <3>1. /\ d.kind = "frame" /\ d.stream \in Streams /\ d.gen \in Nat /\ d.seq \in Nat
          /\ d.pic \in Pictures /\ d.gen \in Gens
      BY <1>1, <2>1, MessageParts DEF ReceiveFrame, Gens
    <3>2. ans \in Ack
      BY <3>1 DEF Ack, AnswerTo, ans
    <3>3. replies' = IF frontend' = "running" THEN Append(replies, ans) ELSE replies
      BY <2>1 DEF ReceiveFrame, AnswerTo, ans
    <3>4. layers[d.stream] # None => layers[d.stream].gen \in Nat /\ layers[d.stream] \in Layer
      BY <3>1 DEF PixelInv, TypeOK, Layer, Gens
    <3>5. CASE Older(d.stream, d.gen) /\ UNCHANGED <<layers, frontend>>
      BY <1>1, <3>1, <3>2, <3>3, <3>4, <3>5 DEF Taken, Shown, Older
    <3>6. CASE NoLayer(d) /\ frontend' = "layers" /\ layers' = layers
      BY <3>3, <3>6 DEF Taken
    <3>7. CASE ~Older(d.stream, d.gen) /\ (Complete(d) \/ Patch(d)) /\ frontend' = frontend
      <4>1. \A s \in Streams : s # d.stream => layers'[s] = layers[s]
        BY <3>7 DEF Complete, Patch, PixelInv, TypeOK
      <4>2. Shown(d, layers')
        <5>1. CASE Complete(d)
          <6>1. layers'[d.stream] = [gen |-> d.gen, seq |-> d.seq, pic |-> d.pic]
            BY <3>1, <5>1 DEF Complete, PixelInv, TypeOK
          <6>2. [gen |-> d.gen, seq |-> d.seq, pic |-> d.pic] \in Layer
            BY <3>1 DEF Layer
          <6>3. layers'[d.stream] # None
            BY <6>1, <6>2 DEF PixelStreamAssumption
          <6> QED
            BY <3>1, <6>1, <6>3 DEF Shown
        <5>2. CASE Patch(d)
          <6>1. layers[d.stream] \in Layer /\ layers[d.stream].gen = d.gen
            BY <3>4, <5>2 DEF Patch, BaseShown
          <6>2. layers'[d.stream] = [layers[d.stream] EXCEPT !.seq = d.seq, !.pic = d.pic]
            BY <3>1, <5>2 DEF Patch, PixelInv, TypeOK
          <6>3. layers'[d.stream] \in Layer
            BY <3>1, <6>1, <6>2 DEF Layer
          <6>4. layers'[d.stream] # None
            BY <6>3 DEF PixelStreamAssumption
          <6>5. /\ layers'[d.stream].gen = d.gen /\ layers'[d.stream].seq = d.seq
                /\ layers'[d.stream].pic = d.pic
            BY <6>1, <6>2 DEF Layer
          <6> QED
            BY <3>1, <6>4, <6>5 DEF Shown
        <5> QED
          BY <3>7, <5>1, <5>2
      <4> QED
        BY <1>1, <3>1, <3>2, <3>3, <3>7, <4>1, <4>2 DEF Taken, About
    <3>8. ~(~Older(d.stream, d.gen) /\ d.base # None /\ ~BaseShown(d))
      <4> SUFFICES ASSUME ~Older(d.stream, d.gen), d.base # None, ~BaseShown(d) PROVE FALSE
        OBVIOUS
      <4>1. Meets(d, layers)
        BY <1>5, <3>1 DEF PixelInv, FlowInv, FlowOf, PatchesIn
      <4> QED
        BY <3>1, <3>4, <4>1 DEF Meets, Older, BaseShown
    <3> QED
      BY <2>1, <3>5, <3>6, <3>7, <3>8 DEF ReceiveFrame
  <2>2. CASE ReceiveClose(d)
    <3>1. \A s \in Streams : s # d.stream => layers'[s] = layers[s]
      BY <2>2 DEF ReceiveClose, PixelInv, TypeOK
    <3> QED
      BY <1>1, <2>2, <3>1 DEF ReceiveClose, Taken, About
  <2>3. CASE ReceiveError(d)
    BY <2>3 DEF ReceiveError, Taken
  <2> QED
    BY <1>6, <2>1, <2>2, <2>3
<1>8. Answers' = Answers \/ (Answers' = Answers \cup {ans} /\ Shown(d, layers'))
  <2>1. CASE replies' = replies
    BY <1>4, <2>1 DEF Answers
  <2>2. CASE replies' = Append(replies, ans) /\ ans \in Ack /\ Shown(d, layers')
    BY <1>2, <1>4, <2>2, EntryFacts DEF Answers
  <2> QED
    BY <1>7, <2>1, <2>2
<1>9. FlowOf(Tail(Queue), slots, layers', sequence, Answers')
  BY <1>3, <1>7, <1>8, FlowTaken DEF PixelInv, FlowInv, TypeOK, ans
<1> QED
  BY <1>1, <1>3, <1>4, <1>7, <1>9 DEF PixelInv, FlowInv, TodoInv, PatchesFit

-----------------------------------------------------------------------------
(* The theorem *)

\* A leased stream that opens or closes touches no lossless stream.
LEMMA ReceiveLeasedStep ==
  ASSUME PixelStreamAssumption, PixelInv, ReceiveLeased
  PROVE  PixelInv'
<1>1. TypeOK'
  BY ReceiveLeasedType DEF PixelInv
<1>2. /\ UNCHANGED <<acks, output, slots, sequence, control, replies, layers, pc, todo>>
      /\ frontend' # "base"
  BY DEF ReceiveLeased, sessionVars, encoderVars
<1>3. FlowInv'
  BY <1>2 DEF PixelInv, FlowInv, Queue, Answers
<1> QED
  BY <1>1, <1>2, <1>3 DEF PixelInv, TodoInv, PatchesFit

LEMMA PixelInitially ==
  ASSUME PixelStreamAssumption, Init
  PROVE  PixelInv
<1>1. /\ Nothing \in [Streams -> Update \cup {None}] /\ Nothing \in [Streams -> Slot \cup {None}]
      /\ Nothing \in [Streams -> Layer \cup {None}] /\ Present(slots) = {}
  BY DEF Nothing, Present, Init
<1>2. TypeOK
  BY <1>1 DEF Init, TypeOK, PixelStreamAssumption
<1>3. Queue = <<>> /\ Answers = {}
  <2>1. DOMAIN acks = {} /\ DOMAIN replies = {}
    BY DEF Init
  <2> QED
    BY <2>1 DEF Init, Queue, Answers, Entries
<1>4. FlowInv
  <2>1. DOMAIN Queue = {}
    BY <1>3
  <2> QED
    BY <1>1, <1>3, <2>1 DEF FlowInv, FlowOf, NumbersIn, LastIn, PatchesIn, SyncIn
<1>5. HeldOf(slots)
  <2>1. Bases(slots) = {} /\ Waiting(slots) = {}
    BY <1>1 DEF Bases, Waiting
  <2> QED
    BY <1>1, <2>1, FS_EmptySet DEF HeldOf, PixelStreamAssumption
<1> QED
  BY <1>1, <1>2, <1>4, <1>5 DEF PixelInv, TodoInv, SlotsOk, PatchesFit, Init

LEMMA PixelStep ==
  ASSUME PixelStreamAssumption, PixelInv, [Next]_vars
  PROVE  PixelInv'
<1>1. ASSUME NEW s \in Streams, NEW g \in Gens, Submit(s, g)
      PROVE  PixelInv'
  <2>1. TypeOK'
    BY <1>1, SessionType DEF PixelInv
  <2>2. UNCHANGED core /\ TodoInv'
    BY <1>1 DEF Submit, core, encoderVars, frontendVars, TodoInv, PixelInv
  <2> QED
    BY <2>1, <2>2, IdleStep DEF PixelInv
<1>2. CASE Detach \/ Stop \/ Drain \/ Applied \/ Encoded
  <2>1. TypeOK'
    BY <1>2, TurnType DEF PixelInv
  <2>2. UNCHANGED core /\ TodoInv'
    BY <1>2 DEF Detach, Stop, Drain, Applied, Encoded, core, encoderVars, frontendVars,
                sessionVars, TodoInv, PixelInv
  <2> QED
    BY <2>1, <2>2, IdleStep DEF PixelInv
<1>3. ASSUME NEW s \in Streams, Apply(s)
      PROVE  PixelInv'
  <2>1. TypeOK'
    BY <1>3, ApplyType DEF PixelInv
  <2>2. FlowInv' /\ SlotsOk(slots') /\ HeldOf(slots')
    BY <1>3, CloseStep, FrameStep DEF Apply
  <2>3. TodoInv'
    <3>1. todo = {} /\ todo' = {}
      BY <1>3 DEF Apply, PixelInv, TodoInv
    <3> QED
      BY <3>1 DEF TodoInv
  <2> QED
    BY <1>3, <2>1, <2>2, <2>3 DEF PixelInv, PatchesFit, Apply, frontendVars
<1>4. ASSUME NEW s \in Streams, Encode(s)
      PROVE  PixelInv'
  <2>1. TypeOK'
    BY <1>4, EncodeType DEF PixelInv
  <2>2. PatchesFit'
    BY <1>4 DEF PixelInv, PatchesFit, Encode, frontendVars
  <2>3. CASE UNCHANGED <<slots, sequence, output, pc>>
    <3>1. UNCHANGED core
      BY <1>4, <2>3 DEF Encode, core, frontendVars
    <3>2. TodoInv'
      BY <1>4, <2>3 DEF Encode, PixelInv, TodoInv
    <3> QED
      BY <2>1, <3>1, <3>2, IdleStep DEF PixelInv
  <2>4. CASE EncodeQuiet(s) \/ EncodeFrame(s)
    <3>1. FlowInv' /\ SlotsOk(slots') /\ HeldOf(slots') /\ Present(slots') = Present(slots)
      BY <1>4, <2>4, QuietStep, SentStep
    <3>2. pc' \notin {"acks", "apply"}
      BY <1>4, <2>4 DEF Encode, EncodeQuiet, EncodeFrame, Publish
    <3>3. TodoInv'
      BY <1>4, <3>1, <3>2 DEF Encode, PixelInv, TodoInv
    <3> QED
      BY <2>1, <2>2, <3>1, <3>3 DEF PixelInv
  <2> QED
    BY <1>4, <2>3, <2>4, EncodeForms
<1>5. CASE Forward \/ Acknowledge \/ TakeAck \/ Receive
  BY <1>5, ForwardStep, AcknowledgeStep, TakeAckStep, ReceiveStep
<1>6. CASE ReceiveLeased
  BY <1>6, ReceiveLeasedStep
<1>7. CASE UNCHANGED vars
  BY <1>7, IdleStep DEF PixelInv, TypeOK, TodoInv, vars, core
<1> QED
  BY <1>1, <1>2, <1>3, <1>4, <1>5, <1>6, <1>7 DEF Next

LEMMA PixelConsequences ==
  ASSUME PixelInv
  PROVE  PixelsInSync
<1>1. AckedInSync
  <2> SUFFICES ASSUME NEW s \in Streams, slots[s] # None, slots[s].flight = None, slots[s].base # None
               PROVE  Shows(slots, layers, s)
    BY DEF AckedInSync, Shows
  <2> QED
    BY DEF PixelInv, FlowInv, FlowOf, SyncIn, Handled, Present
<1>2. MemoryBound
  BY DEF PixelInv, HeldOf, MemoryBound, Bases, Waiting
<1> QED
  BY <1>1, <1>2 DEF PixelInv, PixelsInSync

\* Lossless streams stay in step and within their budget (canvas_frontend.rs, pixel_stream.rs),
\* for any streams, pictures and capacities: no patch ever misses its base.
THEOREM PixelsAlwaysInSync ==
  ASSUME PixelStreamAssumption
  PROVE  Spec => []PixelsInSync
<1>1. Init => PixelInv
  BY PixelInitially
<1>2. PixelInv /\ [Next]_vars => PixelInv'
  BY PixelStep
<1>3. PixelInv => PixelsInSync
  BY PixelConsequences
<1> QED
  BY <1>1, <1>2, <1>3, PTL DEF Spec

=============================================================================
