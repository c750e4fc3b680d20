---------------------------- MODULE OutboxProofs ----------------------------
(***************************************************************************)
(* Theorems about Outbox, for every capacity, batch size, set of motions   *)
(* and bound on pushes.                                                    *)
(***************************************************************************)
EXTENDS Outbox, TLAPS, SequenceTheorems

-----------------------------------------------------------------------------
(* The queue's sequence operations *)

\* What the next push gives the queue is a message.
LEMMA PushableMessage ==
  ASSUME OutboxAssumption, TypeOK, NEW m \in Pushable
  PROVE  m \in Message /\ m.n = Len(accepted) + 1
  BY DEF OutboxAssumption, TypeOK, Pushable, NextN, Message, Classes

\* Taking a message out of the middle of a sequence.
LEMMA RemoveAtProperties ==
  ASSUME NEW S, NEW s \in Seq(S), NEW i \in DOMAIN s
  PROVE  /\ RemoveAt(s, i) \in Seq(S)
         /\ Len(RemoveAt(s, i)) = Len(s) - 1
         /\ \A k \in 1 .. Len(s) - 1 :
              RemoveAt(s, i)[k] = IF k < i THEN s[k] ELSE s[k + 1]
<1>1. i \in 1 .. Len(s) /\ Len(s) \in Nat
  BY LenProperties
<1> DEFINE a == SubSeq(s, 1, i - 1)
           b == SubSeq(s, i + 1, Len(s))
<1>2. a \in Seq(S) /\ Len(a) = i - 1 /\ \A k \in 1 .. i - 1 : a[k] = s[k]
  BY <1>1
<1>3. b \in Seq(S) /\ Len(b) = Len(s) - i /\ \A k \in 1 .. Len(s) - i : b[k] = s[i + k]
  BY <1>1
<1>4. RemoveAt(s, i) = a \o b
  BY DEF RemoveAt
<1> HIDE DEF a, b
<1>5. /\ a \o b \in Seq(S)
      /\ Len(a \o b) = Len(s) - 1
      /\ \A k \in 1 .. Len(s) - 1 : (a \o b)[k] = IF k <= i - 1 THEN a[k] ELSE b[k - (i - 1)]
  <2>1. Len(a) + Len(b) = Len(s) - 1
    BY <1>1, <1>2, <1>3
  <2>2. /\ a \o b \in Seq(S)
        /\ Len(a \o b) = Len(a) + Len(b)
        /\ \A k \in 1 .. Len(a) + Len(b) : (a \o b)[k] = IF k <= Len(a) THEN a[k] ELSE b[k - Len(a)]
    BY <1>2, <1>3, ConcatProperties
  <2> QED
    BY <1>2, <2>1, <2>2
<1>6. ASSUME NEW k \in 1 .. Len(s) - 1
      PROVE  (a \o b)[k] = IF k < i THEN s[k] ELSE s[k + 1]
  <2>1. CASE k < i
    BY <2>1, <1>1, <1>2, <1>5
  <2>2. CASE ~(k < i)
    <3>1. k - (i - 1) \in 1 .. Len(s) - i /\ i + (k - (i - 1)) = k + 1
      BY <2>2, <1>1
    <3> QED
      BY SMTT(30), <3>1, <2>2, <1>1, <1>3, <1>5
  <2> QED
    BY <2>1, <2>2
<1> QED
  BY <1>4, <1>5, <1>6

\* What Push makes of the queue: the message m at the end, behind a queue that
\* has lost at most one message and kept the order of the others.
PushedBehind(m, rest, last) ==
  /\ queue' = Append(rest, last)
  /\ last.n = m.n
  /\ Len(rest) < Limit
  /\ \A k \in DOMAIN rest : \E j \in DOMAIN queue : rest[k] = queue[j]
  /\ \A k, l \in DOMAIN rest : k < l =>
       \E i, j \in DOMAIN queue : i < j /\ rest[k] = queue[i] /\ rest[l] = queue[j]

LEMMA PushedQueue ==
  ASSUME OutboxAssumption, TypeOK, NEW m \in Pushable, Replace(m) \/ Enqueue(m)
  PROVE  \E rest \in Seq(Message), last \in Message : PushedBehind(m, rest, last)
<1>1. m \in Message /\ queue \in Seq(Message) /\ Len(queue) <= Limit /\ Limit \in Nat
  BY PushableMessage DEF TypeOK, OutboxAssumption
<1>2. CASE Enqueue(m)
  <2>1. /\ queue' = Append(queue, m) /\ Len(queue) < Limit
        /\ \A k \in DOMAIN queue : queue[k] = queue[k]
    BY <1>2 DEF Enqueue
  <2>2. PushedBehind(m, queue, m)
    BY <2>1 DEF PushedBehind
  <2> QED
    BY <1>1, <2>2
<1>3. CASE Replace(m)
  <2>1. PICK i \in DOMAIN queue : queue' = Append(RemoveAt(queue, i), Inherit(m, queue[i]))
    BY <1>3 DEF Replace, Replaced
  <2> DEFINE rest == RemoveAt(queue, i)
             last == Inherit(m, queue[i])
  <2>2. queue[i] \in Message /\ i \in 1 .. Len(queue) /\ Len(queue) \in Nat
    BY <1>1
  <2>3. last \in Message /\ last.n = m.n
    BY <1>1, <2>2 DEF Inherit, Message
  <2>4. /\ rest \in Seq(Message) /\ Len(rest) = Len(queue) - 1
        /\ \A k \in 1 .. Len(queue) - 1 :
             rest[k] = IF k < i THEN queue[k] ELSE queue[k + 1]
    BY <1>1, RemoveAtProperties
  <2> HIDE DEF rest, last
  <2>5. \A k \in DOMAIN rest : \E j \in DOMAIN queue : rest[k] = queue[j]
    BY <1>1, <2>2, <2>4
  <2>6. ASSUME NEW k \in DOMAIN rest, NEW l \in DOMAIN rest, k < l
        PROVE  \E a, b \in DOMAIN queue : a < b /\ rest[k] = queue[a] /\ rest[l] = queue[b]
    <3>1. k \in 1 .. Len(queue) - 1 /\ l \in 1 .. Len(queue) - 1
      BY <2>4
    <3> DEFINE a == IF k < i THEN k ELSE k + 1
               b == IF l < i THEN l ELSE l + 1
    <3>2. a \in DOMAIN queue /\ b \in DOMAIN queue /\ a < b
      BY <1>1, <2>2, <2>6, <3>1
    <3>3. rest[k] = queue[a] /\ rest[l] = queue[b]
      BY <2>4, <3>1
    <3> QED
      BY <3>2, <3>3
  <2>7. queue' = Append(rest, last) /\ Len(rest) < Limit
    BY <1>1, <2>1, <2>2, <2>4 DEF rest, last
  <2>8. PushedBehind(m, rest, last)
    BY <2>3, <2>5, <2>6, <2>7 DEF PushedBehind
  <2> QED
    BY <2>3, <2>4, <2>8
<1> QED
  BY <1>2, <1>3

-----------------------------------------------------------------------------
(* Invariants *)

LEMMA InitType == ASSUME OutboxAssumption, Init PROVE TypeOK
<1>1. closed \in BOOLEAN /\ wake \in BOOLEAN /\ disconnected \in BOOLEAN
  BY DEF Init
<1>2. <<>> \in Seq(Message) /\ Len(<<>>) = 0
  OBVIOUS
<1>3. 0 \in 0 .. MediaCap /\ 0 <= Limit
  BY DEF OutboxAssumption
<1> QED
  BY <1>1, <1>2, <1>3 DEF Init, TypeOK, Labels

LEMMA NextType == ASSUME OutboxAssumption, TypeOK, [Next]_vars PROVE TypeOK'
<1> USE OutboxAssumption DEF TypeOK, Goto, Labels, mediaVars, writerVars
<1>1. ASSUME NEW m \in Pushable, Push(m) PROVE TypeOK'
  <2>1. PICK rest \in Seq(Message), last \in Message : PushedBehind(m, rest, last)
    BY <1>1, PushedQueue DEF Push
  <2>2. queue' \in Seq(Message) /\ Len(queue') <= Limit
    BY <2>1 DEF OutboxAssumption, PushedBehind
  <2>3. accepted' \in Seq(Message)
    BY <1>1, PushableMessage DEF Push
  <2> QED
    BY <1>1, <2>2, <2>3 DEF Push
<1>2. ASSUME NEW m \in Pushable, PushRefused(m) PROVE TypeOK'
  BY <1>2 DEF PushRefused
<1>3. CASE DropConnection \/ WriterCloses
  <2>1. closed' \in BOOLEAN /\ wake' \in BOOLEAN /\ queue' = <<>>
    BY <1>3 DEF DropConnection, WriterCloses, CloseQueue
  <2>2. queue' \in Seq(Message) /\ Len(queue') <= Limit
    BY <2>1 DEF OutboxAssumption
  <2> QED
    BY <1>3, <2>1, <2>2 DEF DropConnection, WriterCloses
<1>4. CASE MediaSend \/ Disconnect
  <2>1. disconnected' \in BOOLEAN
    BY <1>4 DEF MediaSend, Disconnect
  <2>2. media' \in 0 .. MediaCap /\ mediaSent' \in Nat
    BY <1>4 DEF MediaSend, Disconnect, OutboxAssumption
  <2> QED
    BY <1>4, <2>1, <2>2 DEF MediaSend, Disconnect
<1>5. CASE TopClosed \/ TopOpen \/ CheckOpen \/ Pending \/ MediaDone \/ PopDone
  BY <1>5 DEF TopClosed, TopOpen, CheckOpen, Pending, MediaDone, PopDone, OutboxAssumption
<1>6. CASE TakeMedia \/ SelectMedia
  BY <1>6 DEF TakeMedia, SelectMedia, OutboxAssumption
<1>7. CASE Pop
  <2>1. Head(queue) \in Message /\ Tail(queue) \in Seq(Message) /\ Len(Tail(queue)) <= Limit
    BY <1>7 DEF Pop, OutboxAssumption
  <2>2. hand' \in Seq(Message) /\ Len(hand') = 1
    BY <1>7, <2>1 DEF Pop
  <2> QED
    BY <1>7, <2>1, <2>2 DEF Pop
<1>8. CASE SelectWake \/ SelectDisconnected \/ WriteFails
  BY <1>8 DEF SelectWake, SelectDisconnected, WriteFails
<1>9. CASE Written
  BY <1>9 DEF Written
<1>10. CASE UNCHANGED vars
  BY <1>10 DEF vars
<1> QED
  BY <1>1, <1>2, <1>3, <1>4, <1>5, <1>6, <1>7, <1>8, <1>9, <1>10 DEF Next, UI, Writer

\* The queue never outgrows LIMIT, the media channel never outgrows its
\* capacity, and every variable keeps its type.
THEOREM TypeCorrect == Spec => []TypeOK
<1> USE OutboxAssumption
<1>1. Init => TypeOK
  BY InitType
<1>2. TypeOK /\ [Next]_vars => TypeOK'
  BY NextType
<1> QED
  BY <1>1, <1>2, PTL DEF Spec

\* NoLostWakeup is not inductive: the writer reads pending() under a lock it
\* has released before, so the queue may close between the two checks.
WakeInv ==
  /\ NoLostWakeup
  /\ pc = "pending" /\ closed => wake

\* No wake-up is lost: every step that leaves work in the queue, or closes it,
\* leaves a token behind, and only the select consumes one.
THEOREM WakeupKept == Spec => []NoLostWakeup
<1> USE DEF WakeInv, NoLostWakeup, Goto, mediaVars, writerVars
<1>1. Init => WakeInv
  BY DEF Init
<1>2. ASSUME WakeInv, [Next]_vars PROVE WakeInv'
  <2>1. CASE UI
    BY <1>2, <2>1 DEF UI, Push, PushRefused, DropConnection, CloseQueue, MediaSend, Disconnect
  <2>2. CASE Pending
    BY <1>2, <2>2 DEF Pending
  <2>3. CASE SelectWake \/ CheckOpen
    BY <1>2, <2>3 DEF SelectWake, CheckOpen
  <2>4. CASE TopClosed \/ TopOpen \/ MediaDone \/ Pop \/ PopDone
    BY <2>4 DEF TopClosed, TopOpen, MediaDone, Pop, PopDone
  <2>5. CASE TakeMedia \/ SelectMedia \/ SelectDisconnected
    BY <2>5 DEF TakeMedia, SelectMedia, SelectDisconnected
  <2>6. CASE Written \/ WriteFails \/ WriterCloses
    BY <2>6 DEF Written, WriteFails, WriterCloses, CloseQueue
  <2>7. CASE UNCHANGED vars
    BY <1>2, <2>7 DEF vars
  <2> QED
    BY <1>2, <2>1, <2>2, <2>3, <2>4, <2>5, <2>6, <2>7 DEF Next, Writer
<1>3. WakeInv => NoLostWakeup
  OBVIOUS
<1> QED
  BY <1>1, <1>2, <1>3, PTL DEF Spec

-----------------------------------------------------------------------------
(* Order *)

Before(s, t) == \A i \in DOMAIN s, j \in DOMAIN t : s[i].n < t[j].n

\* InOrder, taken apart: each part of the stream is increasing, each part
\* comes before the next, and nothing is numbered past the last accepted push.
OrderInv ==
  /\ Increasing(sent) /\ Increasing(hand) /\ Increasing(queue)
  /\ Before(sent, hand) /\ Before(sent, queue) /\ Before(hand, queue)
  /\ \A i \in DOMAIN sent : sent[i].n <= Len(accepted)
  /\ \A i \in DOMAIN hand : hand[i].n <= Len(accepted)
  /\ \A i \in DOMAIN queue : queue[i].n <= Len(accepted)

\* Where the element of a concatenation comes from.
LEMMA ConcatElement ==
  ASSUME NEW s \in Seq(Message), NEW t \in Seq(Message), NEW k \in DOMAIN (s \o t)
  PROVE  \/ k \in DOMAIN s /\ (s \o t)[k] = s[k]
         \/ k - Len(s) \in DOMAIN t /\ k > Len(s) /\ (s \o t)[k] = t[k - Len(s)]
<1>1. Len(s) \in Nat /\ Len(t) \in Nat /\ k \in 1 .. Len(s) + Len(t)
  BY ConcatProperties, LenProperties
<1>2. (s \o t)[k] = IF k <= Len(s) THEN s[k] ELSE t[k - Len(s)]
  BY <1>1, ConcatProperties
<1> QED
  BY <1>1, <1>2

LEMMA Numbered ==
  ASSUME NEW s \in Seq(Message)
  PROVE  \A i \in DOMAIN s : s[i] \in Message /\ s[i].n \in Nat
<1>1. \A i \in DOMAIN s : s[i] \in Message
  BY ElementOfSeq
<1>2. \A x \in Message : x.n \in Nat
  BY DEF Message
<1> QED
  BY <1>1, <1>2

LEMMA IncreasingConcat ==
  ASSUME NEW s \in Seq(Message), NEW t \in Seq(Message),
         Increasing(s), Increasing(t), Before(s, t)
  PROVE  Increasing(s \o t)
<1> SUFFICES ASSUME NEW i \in DOMAIN (s \o t), NEW j \in DOMAIN (s \o t), i < j
             PROVE  (s \o t)[i].n < (s \o t)[j].n
  BY DEF Increasing
<1>1. Len(s) \in Nat /\ Len(t) \in Nat /\ DOMAIN s = 1 .. Len(s) /\ DOMAIN t = 1 .. Len(t)
  BY LenProperties
<1>2. i \in 1 .. Len(s) + Len(t) /\ j \in 1 .. Len(s) + Len(t)
  BY ConcatProperties, LenProperties
<1>3. CASE j \in DOMAIN s /\ (s \o t)[j] = s[j]
  <2>1. i \in DOMAIN s /\ (s \o t)[i] = s[i]
    BY <1>1, <1>2, <1>3, ConcatElement
  <2> QED
    BY <1>3, <2>1 DEF Increasing
<1>4. CASE j - Len(s) \in DOMAIN t /\ j > Len(s) /\ (s \o t)[j] = t[j - Len(s)]
  <2>1. CASE i \in DOMAIN s /\ (s \o t)[i] = s[i]
    BY <1>4, <2>1 DEF Before
  <2>2. CASE i - Len(s) \in DOMAIN t /\ i > Len(s) /\ (s \o t)[i] = t[i - Len(s)]
    <3>1. i - Len(s) < j - Len(s)
      BY <1>1, <1>2
    <3> QED
      BY <1>4, <2>2, <3>1 DEF Increasing
  <2> QED
    BY <2>1, <2>2, ConcatElement
<1> QED
  BY <1>3, <1>4, ConcatElement

LEMMA BeforeConcat ==
  ASSUME NEW s \in Seq(Message), NEW t \in Seq(Message), NEW u,
         Before(s, u), Before(t, u)
  PROVE  Before(s \o t, u)
<1> SUFFICES ASSUME NEW i \in DOMAIN (s \o t), NEW j \in DOMAIN u
             PROVE  (s \o t)[i].n < u[j].n
  BY DEF Before
<1> QED
  BY ConcatElement DEF Before

\* The messages of the queue in push order, each part before the next.
LEMMA StreamInOrder == ASSUME TypeOK, OrderInv PROVE InOrder
<1>1. Increasing(sent \o hand) /\ Before(sent \o hand, queue)
  BY IncreasingConcat, BeforeConcat DEF OrderInv, TypeOK
<1>2. sent \o hand \in Seq(Message)
  BY ConcatProperties DEF TypeOK
<1> QED
  BY <1>1, <1>2, IncreasingConcat DEF OrderInv, TypeOK, InOrder, Stream

LEMMA OrderNext ==
  ASSUME OutboxAssumption, TypeOK, OrderInv, [Next]_vars PROVE OrderInv'
<1> USE DEF OrderInv
<1>1. ASSUME NEW m \in Pushable, Push(m) PROVE OrderInv'
  <2>0. PICK rest \in Seq(Message), last \in Message : PushedBehind(m, rest, last)
    BY <1>1, PushedQueue DEF Push
  <2>1. /\ queue' = Append(rest, last) /\ last.n = m.n
        /\ \A k \in DOMAIN rest : \E j \in DOMAIN queue : rest[k] = queue[j]
        /\ \A k, l \in DOMAIN rest : k < l =>
             \E i, j \in DOMAIN queue : i < j /\ rest[k] = queue[i] /\ rest[l] = queue[j]
    BY <2>0 DEF PushedBehind
  <2>2. /\ UNCHANGED <<sent, hand>>
        /\ Len(accepted) \in Nat /\ Len(accepted') = Len(accepted) + 1
        /\ last.n = Len(accepted) + 1
    BY <1>1, <2>1, PushableMessage DEF Push, writerVars, TypeOK
  <2>3. /\ Len(rest) \in Nat /\ DOMAIN rest = 1 .. Len(rest)
        /\ DOMAIN queue' = 1 .. Len(rest) + 1
        /\ queue'[Len(rest) + 1] = last
        /\ \A k \in DOMAIN rest : queue'[k] = rest[k]
    BY <2>1, AppendProperties, LenProperties
  <2>4. \A k \in DOMAIN queue' : queue'[k] = last \/ \E j \in DOMAIN queue : queue'[k] = queue[j]
    BY <2>1, <2>3
  <2>5. \A j \in DOMAIN queue : queue[j].n \in Nat /\ queue[j].n <= Len(accepted)
    BY Numbered DEF TypeOK
  <2>6. Increasing(queue')
    <3> SUFFICES ASSUME NEW k \in DOMAIN queue', NEW l \in DOMAIN queue', k < l
                 PROVE  queue'[k].n < queue'[l].n
      BY DEF Increasing
    <3>1. k \in DOMAIN rest /\ queue'[k] = rest[k]
      BY <2>3
    <3>2. CASE l = Len(rest) + 1
      BY <2>1, <2>2, <2>3, <2>5, <3>1, <3>2
    <3>3. CASE l \in DOMAIN rest
      <4>1. PICK i \in DOMAIN queue, j \in DOMAIN queue :
              i < j /\ rest[k] = queue[i] /\ rest[l] = queue[j]
        BY <2>1, <3>1, <3>3
      <4> QED
        BY <2>3, <3>1, <3>3, <4>1 DEF Increasing
    <3> QED
      BY <2>3, <3>2, <3>3
  <2>7. \A k \in DOMAIN queue' : queue'[k].n <= Len(accepted')
    BY <2>2, <2>4, <2>5
  <2>8. /\ \A i \in DOMAIN sent : sent[i].n \in Nat
        /\ \A i \in DOMAIN hand : hand[i].n \in Nat
    BY Numbered DEF TypeOK
  <2>9. Before(sent, queue') /\ Before(hand, queue')
    BY <2>2, <2>4, <2>5, <2>8 DEF Before
  <2> QED
    BY <2>2, <2>6, <2>7, <2>8, <2>9
<1>2. CASE Pop
  <2>1. /\ hand = <<>> /\ UNCHANGED <<sent, accepted>>
        /\ hand' = <<Head(queue)>> /\ queue' = Tail(queue)
        /\ queue \in Seq(Message) /\ queue # <<>>
    BY <1>2 DEF Pop, TypeOK
  <2>2. /\ Len(queue) \in Nat /\ Len(queue) > 0 /\ DOMAIN queue = 1 .. Len(queue)
        /\ DOMAIN queue' = 1 .. Len(queue) - 1
        /\ \A k \in DOMAIN queue' : queue'[k] = queue[k + 1]
        /\ DOMAIN hand' = {1} /\ hand'[1] = queue[1]
    BY <2>1, HeadTailProperties, LenProperties
  <2>3. Increasing(queue') /\ Increasing(hand') /\ Before(hand', queue')
    <3>1. \A k \in DOMAIN queue' : k + 1 \in DOMAIN queue /\ 1 < k + 1 /\ 1 \in DOMAIN queue
      BY <2>2
    <3>2. \A k, l \in DOMAIN queue' : k < l => k + 1 < l + 1
      BY <2>2
    <3>3. Increasing(queue')
      BY <2>2, <3>1, <3>2 DEF Increasing
    <3>4. Before(hand', queue')
      BY <2>2, <3>1 DEF Increasing, Before
    <3>5. Increasing(hand')
      BY <2>2 DEF Increasing
    <3> QED
      BY <3>3, <3>4, <3>5
  <2>4. Before(sent, hand') /\ Before(sent, queue')
    BY <2>2 DEF Before
  <2> QED
    BY <2>1, <2>2, <2>3, <2>4
<1>3. CASE Written
  <2>1. /\ sent' = sent \o hand /\ hand' = <<>> /\ UNCHANGED <<queue, accepted>>
        /\ sent \in Seq(Message) /\ hand \in Seq(Message)
    BY <1>3 DEF Written, TypeOK
  <2>2. Increasing(sent') /\ Before(sent', queue')
    BY <2>1, IncreasingConcat, BeforeConcat
  <2>3. \A k \in DOMAIN sent' : sent'[k].n <= Len(accepted)
    BY <2>1, ConcatElement
  <2>4. Increasing(hand') /\ Before(sent', hand') /\ Before(hand', queue')
        /\ \A k \in DOMAIN hand' : hand'[k].n <= Len(accepted)
    BY <2>1 DEF Increasing, Before
  <2> QED
    BY <2>1, <2>2, <2>3, <2>4
<1>4. CASE DropConnection \/ WriterCloses
  <2>1. queue' = <<>> /\ UNCHANGED <<hand, sent, accepted>>
    BY <1>4 DEF DropConnection, WriterCloses, CloseQueue, writerVars
  <2>2. Increasing(queue') /\ Before(sent, queue') /\ Before(hand, queue')
        /\ \A k \in DOMAIN queue' : queue'[k].n <= Len(accepted)
    BY <2>1 DEF Increasing, Before
  <2> QED
    BY <2>1, <2>2
<1>5. CASE UNCHANGED <<queue, hand, sent, accepted>>
  BY <1>5 DEF Increasing, Before
<1>6. ASSUME NEW m \in Pushable, PushRefused(m) PROVE UNCHANGED <<queue, hand, sent, accepted>>
  BY <1>6 DEF PushRefused, writerVars
<1>7. CASE MediaSend \/ Disconnect \/ UNCHANGED vars
  BY <1>5, <1>7 DEF MediaSend, Disconnect, writerVars, vars
<1>8. CASE TopClosed \/ TopOpen \/ TakeMedia \/ MediaDone \/ PopDone \/ CheckOpen \/ Pending
  BY <1>5, <1>8 DEF TopClosed, TopOpen, TakeMedia, MediaDone, PopDone, CheckOpen, Pending
<1>9. CASE SelectMedia \/ SelectWake \/ SelectDisconnected \/ WriteFails
  BY <1>5, <1>9 DEF SelectMedia, SelectWake, SelectDisconnected, WriteFails
<1> QED
  BY <1>1, <1>2, <1>3, <1>4, <1>5, <1>6, <1>7, <1>8, <1>9 DEF Next, UI, Writer

\* The session reads accepted pushes in push order, for every queue capacity and
\* whatever positions supersede each other: "input IDs still increase".
THEOREM StreamOrdered == Spec => []InOrder
<1> USE OutboxAssumption
<1>1. Init => OrderInv
  BY DEF Init, OrderInv, Increasing, Before
<1>2. TypeOK /\ OrderInv /\ [Next]_vars => OrderInv'
  BY OrderNext
<1>3. TypeOK /\ OrderInv => InOrder
  BY StreamInOrder
<1> QED
  BY <1>1, <1>2, <1>3, TypeCorrect, PTL DEF Spec

-----------------------------------------------------------------------------
(* Losses *)

\* The messages on their way, whatever their order.
OnWay == Range(sent) \cup Range(hand) \cup Range(queue)

Kept(i) == \E d \in OnWay : d.n = i

\* What may lie between a lost position and the newer one that replaced it.
StepsAside(k, i) ==
  /\ accepted[k].class # "control"
  /\ accepted[k].class = "motion" =>
       /\ accepted[k].motion.gen = accepted[i].motion.gen
       /\ accepted[k].motion.fam = accepted[i].motion.fam
            => accepted[k].motion = accepted[i].motion

ReplacedBy(i, j) ==
  /\ Kept(j)
  /\ accepted[i].class = "motion" /\ accepted[i].motion = accepted[j].motion
  /\ \A k \in i + 1 .. j - 1 : StepsAside(k, i)

\* The accepted messages of d's motion, up to d, and those of them that bring
\* an offer since the last one before d that is on its way.
Same(d) == {i \in 1 .. d.n : Supersedes(accepted[i], d)}
Offered(d) == {i \in Same(d) : /\ accepted[i].offer # None
                               /\ \A e \in Same(d) : e < d.n /\ Kept(e) => i > e}
CarriesNewest(d) ==
  IF Offered(d) = {} THEN d.offer = None
  ELSE \A i \in Offered(d) : (\A o \in Offered(d) : o <= i) => d.offer = accepted[i].offer

\* A message on its way is an accepted one but for its offer.
Accepted(d) ==
  /\ d.n \in 1 .. Len(accepted)
  /\ d.class = accepted[d.n].class /\ d.motion = accepted[d.n].motion

Wellformed(d) == d \in Message /\ (d.class = "motion" <=> d.motion \in Motions)

\* NothingElseLost over the set OnWay, with where its members come from.
LossInv ==
  /\ \A d \in OnWay : Accepted(d)
  /\ \A i \in DOMAIN accepted : Wellformed(accepted[i])
  /\ ~closed => \A i \in DOMAIN accepted :
                  Kept(i) \/ \E j \in i + 1 .. Len(accepted) : ReplacedBy(i, j)
  /\ ~closed => \A d \in OnWay : d.class = "motion" => CarriesNewest(d)

LEMMA RangeElement ==
  ASSUME NEW S, NEW s \in Seq(S)
  PROVE  /\ Range(s) = {s[i] : i \in 1 .. Len(s)} /\ DOMAIN s = 1 .. Len(s)
         /\ Len(s) \in Nat /\ Range(s) \subseteq S
  BY LenProperties, ElementOfSeq DEF Range

LEMMA RangeAppend ==
  ASSUME NEW S, NEW s \in Seq(S), NEW e \in S
  PROVE  Range(Append(s, e)) = Range(s) \cup {e}
<1> DEFINE t == Append(s, e)
<1>1. /\ t \in Seq(S) /\ Len(t) = Len(s) + 1 /\ t[Len(s) + 1] = e
      /\ \A i \in 1 .. Len(s) : t[i] = s[i]
  BY AppendProperties
<1> HIDE DEF t
<1>2. Range(t) = {t[i] : i \in 1 .. Len(s) + 1}
  BY <1>1, RangeElement
<1>3. Range(s) = {s[i] : i \in 1 .. Len(s)} /\ Len(s) \in Nat
  BY RangeElement
<1>4. 1 .. Len(s) + 1 = (1 .. Len(s)) \cup {Len(s) + 1}
  BY <1>3
<1>5. Range(t) \subseteq Range(s) \cup {e}
  BY <1>1, <1>2, <1>3, <1>4
<1>6. Range(s) \cup {e} \subseteq Range(t)
  BY <1>1, <1>2, <1>3, <1>4
<1> QED
  BY <1>5, <1>6 DEF t

LEMMA RangeConcat ==
  ASSUME NEW s \in Seq(Message), NEW t \in Seq(Message)
  PROVE  Range(s \o t) = Range(s) \cup Range(t)
<1>1. /\ s \o t \in Seq(Message) /\ Len(s \o t) = Len(s) + Len(t)
      /\ \A i \in 1 .. Len(s) + Len(t) : (s \o t)[i] = IF i <= Len(s) THEN s[i] ELSE t[i - Len(s)]
  BY ConcatProperties
<1>2. \A i \in 1 .. Len(t) : i + Len(s) \in 1 .. Len(s) + Len(t) /\ (s \o t)[i + Len(s)] = t[i]
  BY <1>1, RangeElement
<1>3. Range(s \o t) = {(s \o t)[i] : i \in 1 .. Len(s) + Len(t)}
  BY <1>1, RangeElement
<1>4. /\ Range(s) = {s[i] : i \in 1 .. Len(s)} /\ Range(t) = {t[i] : i \in 1 .. Len(t)}
      /\ Len(s) \in Nat /\ Len(t) \in Nat
  BY RangeElement
<1>5. ASSUME NEW i \in 1 .. Len(s) + Len(t) PROVE (s \o t)[i] \in Range(s) \cup Range(t)
  <2>1. CASE i <= Len(s)
    BY <1>1, <1>4, <2>1
  <2>2. CASE ~(i <= Len(s))
    BY <1>1, <1>4, <2>2
  <2> QED
    BY <2>1, <2>2
<1>6. \A i \in 1 .. Len(s) : s[i] \in Range(s \o t)
  BY <1>1, <1>3, <1>4
<1>7. \A i \in 1 .. Len(t) : t[i] \in Range(s \o t)
  BY <1>2, <1>3, <1>4
<1> QED
  BY <1>3, <1>4, <1>5, <1>6, <1>7

\* The stream is made of the messages on their way.
LEMMA StreamRange ==
  ASSUME TypeOK
  PROVE  OnWay = {Stream[p] : p \in DOMAIN Stream} /\ OnWay \subseteq Message
<1>1. Range(Stream) = OnWay
  <2>1. sent \in Seq(Message) /\ hand \in Seq(Message) /\ queue \in Seq(Message)
    BY DEF TypeOK
  <2>2. sent \o hand \in Seq(Message)
    BY <2>1, ConcatProperties
  <2> QED
    BY <2>1, <2>2, RangeConcat DEF Stream, OnWay
<1>2. OnWay \subseteq Message
  BY RangeElement DEF TypeOK, OnWay
<1> QED
  BY <1>1, <1>2 DEF Range

\* Two messages on their way have different numbers.
LEMMA NumberedApart ==
  ASSUME TypeOK, OrderInv, NEW d \in OnWay, NEW e \in OnWay, d.n = e.n
  PROVE  d = e
<1>1. Stream \in Seq(Message)
  BY ConcatProperties DEF TypeOK, Stream
<1>2. PICK p \in DOMAIN Stream, q \in DOMAIN Stream : d = Stream[p] /\ e = Stream[q]
  BY StreamRange
<1>3. d.n \in Nat /\ e.n \in Nat /\ p \in Nat /\ q \in Nat
  BY <1>1, <1>2, Numbered, LenProperties
<1> QED
  BY <1>2, <1>3, StreamInOrder DEF InOrder, Increasing

\* What a push makes of the set: the message, or the message with the offer it
\* inherits in the place of a position with nothing behind it that it may not pass.
Entered(m) == OnWay' = OnWay \cup {m}

Replaces(m, old) ==
  /\ Supersedes(old, m)
  /\ OnWay' = (OnWay \ {old}) \cup {Inherit(m, old)}
  /\ \A d \in OnWay : d.n > old.n => Passes(d, m)

LEMMA PushedSet ==
  ASSUME OutboxAssumption, TypeOK, OrderInv, NEW m \in Pushable, Push(m)
  PROVE  Entered(m) \/ \E old \in OnWay : Replaces(m, old)
<1> USE DEF writerVars
<1>1. /\ queue \in Seq(Message) /\ sent \in Seq(Message) /\ hand \in Seq(Message)
      /\ m \in Message /\ UNCHANGED <<sent, hand>>
  BY PushableMessage DEF TypeOK, Push
<1>2. CASE Enqueue(m)
  <2>1. Range(queue') = Range(queue) \cup {m}
    BY <1>1, <1>2, RangeAppend DEF Enqueue
  <2> QED
    BY <1>1, <2>1 DEF Entered, OnWay
<1>3. CASE Replace(m)
  <2>1. PICK i \in Replaced(m) : queue' = Append(RemoveAt(queue, i), Inherit(m, queue[i]))
    BY <1>3 DEF Replace
  <2> DEFINE old == queue[i]
             rest == RemoveAt(queue, i)
             new == Inherit(m, old)
  <2>2. /\ i \in 1 .. Len(queue) /\ Len(queue) \in Nat /\ DOMAIN queue = 1 .. Len(queue)
        /\ Supersedes(old, m) /\ \A j \in i + 1 .. Len(queue) : Passes(queue[j], m)
    BY <1>1, <2>1, LenProperties DEF Replaced
  <2>3. \A j \in 1 .. Len(queue) : queue[j] \in Message /\ queue[j].n \in Nat
    BY <1>1, <2>2, Numbered
  <2>4. new \in Message
    BY <1>1, <2>2, <2>3 DEF Inherit, Message
  <2>5. /\ rest \in Seq(Message) /\ Len(rest) = Len(queue) - 1
        /\ \A k \in 1 .. Len(queue) - 1 : rest[k] = IF k < i THEN queue[k] ELSE queue[k + 1]
    BY <1>1, <2>2, RemoveAtProperties
  <2>6. \A j, k \in 1 .. Len(queue) : j < k => queue[j].n < queue[k].n
    BY <2>2 DEF OrderInv, Increasing
  <2>7. Range(queue) = {queue[j] : j \in 1 .. Len(queue)}
    BY <1>1, RangeElement
  <2> HIDE DEF old, rest, new
  <2>8. Range(rest) = {rest[k] : k \in 1 .. Len(queue) - 1}
    BY <2>5, RangeElement
  <2>9. Range(rest) \subseteq Range(queue) \ {old}
    <3> SUFFICES ASSUME NEW k \in 1 .. Len(queue) - 1 PROVE rest[k] \in Range(queue) \ {old}
      BY <2>8
    <3> DEFINE j == IF k < i THEN k ELSE k + 1
    <3>1. j \in 1 .. Len(queue) /\ j # i /\ rest[k] = queue[j]
      BY <2>2, <2>5
    <3>2. queue[j].n # queue[i].n
      BY <2>2, <2>3, <2>6, <3>1
    <3> QED
      BY <2>7, <3>1, <3>2 DEF old
  <2>10. Range(queue) \ {old} \subseteq Range(rest)
    <3> SUFFICES ASSUME NEW j \in 1 .. Len(queue), j # i PROVE queue[j] \in Range(rest)
      BY <2>7 DEF old
    <3> DEFINE k == IF j < i THEN j ELSE j - 1
    <3>1. k \in 1 .. Len(queue) - 1 /\ rest[k] = queue[j]
      BY <2>2, <2>5
    <3> QED
      BY <2>8, <3>1
  <2>11. Range(queue') = (Range(queue) \ {old}) \cup {new}
    BY <2>1, <2>4, <2>5, <2>9, <2>10, RangeAppend DEF rest, new, old
  <2>12. old \notin Range(sent) /\ old \notin Range(hand) /\ old \in Range(queue)
    <3>1. /\ \A j \in DOMAIN sent : sent[j].n < old.n /\ sent[j].n \in Nat
          /\ \A j \in DOMAIN hand : hand[j].n < old.n /\ hand[j].n \in Nat
      BY <1>1, <2>2, Numbered DEF OrderInv, Before, old
    <3> QED
      BY <2>2, <2>7, <3>1 DEF Range, old
  <2>13. OnWay' = (OnWay \ {old}) \cup {new}
    BY <1>1, <2>11, <2>12 DEF OnWay
  <2>14. ASSUME NEW d \in OnWay, d.n > old.n PROVE Passes(d, m)
    <3>1. d \notin Range(sent) /\ d \notin Range(hand)
      <4>1. /\ \A j \in DOMAIN sent : sent[j].n < old.n /\ sent[j].n \in Nat
            /\ \A j \in DOMAIN hand : hand[j].n < old.n /\ hand[j].n \in Nat
        BY <1>1, <2>2, Numbered DEF OrderInv, Before, old
      <4>2. old.n \in Nat
        BY <2>2, <2>3 DEF old
      <4> QED
        BY <2>14, <4>1, <4>2 DEF Range
    <3>2. PICK j \in 1 .. Len(queue) : d = queue[j]
      BY <2>7, <3>1 DEF OnWay
    <3>3. j > i
      BY <2>2, <2>3, <2>6, <2>14, <3>2 DEF old
    <3> QED
      BY <2>2, <3>2, <3>3
  <2> QED
    BY <2>2, <2>12, <2>13, <2>14 DEF Replaces, OnWay, new, old
<1> QED
  BY <1>2, <1>3 DEF Push

\* What a push leaves of the history, and the numbers it gives out.
LEMMA PushedHistory ==
  ASSUME OutboxAssumption, TypeOK, LossInv, NEW m \in Pushable, Push(m)
  PROVE  /\ Len(accepted) \in Nat /\ Len(accepted') = Len(accepted) + 1
         /\ DOMAIN accepted = 1 .. Len(accepted) /\ DOMAIN accepted' = 1 .. Len(accepted) + 1
         /\ accepted'[Len(accepted) + 1] = m
         /\ \A i \in 1 .. Len(accepted) : accepted'[i] = accepted[i]
         /\ m.n = Len(accepted) + 1 /\ Wellformed(m) /\ m \in Message /\ ~closed /\ ~closed'
         /\ \A i \in 1 .. Len(accepted') : Wellformed(accepted'[i])
         /\ \A d \in OnWay : d \in Message /\ d.n \in 1 .. Len(accepted)
<1>1. /\ accepted \in Seq(Message) /\ m \in Message /\ m.n = Len(accepted) + 1
      /\ accepted' = Append(accepted, m) /\ ~closed /\ ~closed'
  BY PushableMessage DEF TypeOK, Push
<1>2. /\ Len(accepted') = Len(accepted) + 1 /\ Len(accepted) \in Nat
      /\ DOMAIN accepted = 1 .. Len(accepted) /\ DOMAIN accepted' = 1 .. Len(accepted) + 1
      /\ accepted'[Len(accepted) + 1] = m
      /\ \A i \in 1 .. Len(accepted) : accepted'[i] = accepted[i]
  BY <1>1, AppendProperties, LenProperties
<1>3. Wellformed(m)
  BY <1>1 DEF Wellformed, Pushable, OutboxAssumption
<1>4. \A i \in 1 .. Len(accepted') : Wellformed(accepted'[i])
  BY <1>2, <1>3 DEF LossInv
<1>5. \A d \in OnWay : d \in Message /\ d.n \in 1 .. Len(accepted)
  BY StreamRange DEF LossInv, Accepted
<1> QED
  BY <1>1, <1>2, <1>3, <1>4, <1>5

\* A push that only adds: every message keeps its number, its predecessors and
\* what became of them.
LEMMA EnteredKeeps ==
  ASSUME OutboxAssumption, TypeOK, OrderInv, LossInv, NEW m \in Pushable, Push(m), Entered(m)
  PROVE  LossInv'
<1> DEFINE N == Len(accepted) + 1
<1> USE PushedHistory
<1>1. \A i \in 1 .. Len(accepted) : Kept(i)' <=> Kept(i)
  BY DEF Kept, Entered
<1>2. \A i : i = N => Kept(i)'
  BY DEF Kept, Entered
<1>3. \A d \in OnWay' : Accepted(d)'
  BY DEF Accepted, Entered, LossInv
<1>4. ASSUME NEW i \in DOMAIN accepted'
      PROVE  Kept(i)' \/ \E j \in i + 1 .. Len(accepted') : ReplacedBy(i, j)'
  <2>1. CASE i = N
    BY <1>2, <2>1
  <2>2. CASE i # N
    <3>1. i \in 1 .. Len(accepted)
      BY <2>2
    <3>2. CASE Kept(i)
      BY <1>1, <3>1, <3>2
    <3>3. CASE ~Kept(i)
      <4>1. PICK j \in i + 1 .. Len(accepted) : ReplacedBy(i, j)
        BY <3>1, <3>3 DEF LossInv
      <4>2. ASSUME NEW k \in i + 1 .. j - 1 PROVE StepsAside(k, i)'
        <5>1. k \in 1 .. Len(accepted)
          BY <3>1, <4>1
        <5>2. accepted'[k] = accepted[k] /\ accepted'[i] = accepted[i]
          BY <3>1, <5>1
        <5>3. StepsAside(k, i)
          BY <4>1 DEF ReplacedBy
        <5> QED
          BY <5>2, <5>3 DEF StepsAside
      <4>3. ReplacedBy(i, j)'
        BY <1>1, <3>1, <4>1, <4>2 DEF ReplacedBy
      <4> QED
        BY <4>1, <4>3
    <3> QED
      BY <3>2, <3>3
  <2> QED
    BY <2>1, <2>2
<1>5. ASSUME NEW d \in OnWay, d.class = "motion" PROVE CarriesNewest(d)'
  <2>1. Same(d)' = Same(d) /\ Same(d) \subseteq 1 .. Len(accepted)
    BY SMTT(30) DEF Same
  <2>2. Offered(d)' = Offered(d) /\ Offered(d) \subseteq 1 .. Len(accepted)
    BY <1>1, <2>1 DEF Offered
  <2>3. CarriesNewest(d)
    BY <1>5 DEF LossInv
  <2> QED
    BY <2>2, <2>3 DEF CarriesNewest
<1>6. m.class = "motion" => CarriesNewest(m)'
  <2> HAVE m.class = "motion"
  <2>1. Offered(m)' \subseteq {N}
    <3> SUFFICES ASSUME NEW i \in Offered(m)', i # N PROVE FALSE
      OBVIOUS
    <3>1. /\ i \in 1 .. Len(accepted) /\ Supersedes(accepted[i], m)
          /\ \A e \in Same(m)' : e < N /\ Kept(e)' => i > e
      BY DEF Offered, Same
    <3>2. CASE Kept(i)
      BY <1>1, <3>1, <3>2 DEF Offered, Same
    <3>3. CASE ~Kept(i)
      <4>1. PICK j \in i + 1 .. Len(accepted) : ReplacedBy(i, j)
        BY <3>1, <3>3 DEF LossInv
      <4>2. PICK d \in OnWay : d.n = j
        BY <4>1 DEF ReplacedBy, Kept
      <4>3. accepted[j].class = "motion"
        <5>1. accepted[i].motion \in Motions /\ Wellformed(accepted[j])
          BY <3>1, <4>1 DEF LossInv, Wellformed, ReplacedBy
        <5> QED
          BY <4>1, <5>1 DEF Wellformed, ReplacedBy
      <4>4. j \in Same(m)'
        BY <3>1, <4>1, <4>3 DEF Same, Supersedes, ReplacedBy
      <4> QED
        BY <1>1, <3>1, <4>1, <4>4 DEF ReplacedBy
    <3> QED
      BY <3>2, <3>3
  <2>2. m.offer # None => N \in Offered(m)'
    BY DEF Offered, Same, Supersedes
  <2>3. m.offer = None => N \notin Offered(m)'
    BY DEF Offered
  <2> QED
    BY <2>1, <2>2, <2>3 DEF CarriesNewest
<1> QED
  BY <1>3, <1>4, <1>5, <1>6 DEF LossInv, Entered

\* What lies behind a replaced position can be passed, so nothing accepted after
\* it is a control, and of its motion there is nothing.
LEMMA BehindReplaced ==
  ASSUME OutboxAssumption, TypeOK, OrderInv, LossInv, NEW m \in Pushable, Push(m),
         NEW old \in OnWay, Replaces(m, old),
         NEW k \in old.n + 1 .. Len(accepted)
  PROVE  /\ accepted[k].class # "control"
         /\ accepted[k].class = "motion" =>
              /\ accepted[k].motion.gen = m.motion.gen
              /\ accepted[k].motion.fam # m.motion.fam
<1>1. /\ old.n \in 1 .. Len(accepted) /\ k \in 1 .. Len(accepted) /\ Len(accepted) \in Nat
      /\ ~closed
  BY PushedHistory
<1>2. \A d \in OnWay : d.n > old.n => Passes(d, m)
  BY DEF Replaces
<1>3. CASE Kept(k)
  <2>1. PICK d \in OnWay : d.n = k
    BY <1>3 DEF Kept
  <2>2. Accepted(d) /\ Passes(d, m)
    BY <1>1, <1>2, <2>1 DEF LossInv
  <2> QED
    BY <2>1, <2>2 DEF Accepted, Passes
<1>4. CASE ~Kept(k)
  <2>1. PICK j \in k + 1 .. Len(accepted) : ReplacedBy(k, j)
    BY <1>1, <1>4, PushedHistory DEF LossInv
  <2>2. PICK d \in OnWay : d.n = j
    BY <2>1 DEF ReplacedBy, Kept
  <2>3. Accepted(d) /\ Passes(d, m)
    BY <1>1, <1>2, <2>1, <2>2 DEF LossInv
  <2>4. accepted[k].class = "motion" /\ accepted[k].motion = d.motion /\ d.class = accepted[j].class
    BY <2>1, <2>2, <2>3 DEF ReplacedBy, Accepted
  <2>5. Wellformed(accepted[k]) /\ Wellformed(accepted[j]) /\ accepted[j].motion = accepted[k].motion
    BY <1>1, <2>1, PushedHistory DEF LossInv, ReplacedBy
  <2>6. d.class = "motion"
    BY <2>4, <2>5 DEF Wellformed
  <2> QED
    BY <2>3, <2>4, <2>6 DEF Passes
<1> QED
  BY <1>3, <1>4

\* A push that takes a position's place: the position is lost to the new message,
\* and what was lost to the position is lost to the new message too.
LEMMA ReplacedKeeps ==
  ASSUME OutboxAssumption, TypeOK, OrderInv, LossInv, NEW m \in Pushable, Push(m),
         NEW old \in OnWay, Replaces(m, old)
  PROVE  LossInv'
<1> DEFINE N == Len(accepted) + 1
           new == Inherit(m, old)
<1> USE PushedHistory
<1>1. /\ old.n \in 1 .. Len(accepted) /\ Supersedes(old, m) /\ Accepted(old)
      /\ OnWay' = (OnWay \ {old}) \cup {new}
  BY DEF Replaces, LossInv
<1>2. /\ new.n = N /\ new.class = "motion" /\ new.motion = m.motion /\ new \in Message
      /\ new.offer = (IF m.offer = None THEN old.offer ELSE m.offer)
      /\ m.class = "motion" /\ m.motion = old.motion /\ old.class = "motion"
      /\ accepted[old.n].class = "motion" /\ accepted[old.n].motion = m.motion
  BY <1>1 DEF Inherit, Message, Supersedes, Accepted
<1> HIDE DEF new
<1>3. \A i \in 1 .. Len(accepted) : Kept(i)' <=> Kept(i) /\ i # old.n
  BY <1>1, <1>2, NumberedApart DEF Kept
<1>4. \A i : i = N => Kept(i)'
  BY <1>1, <1>2 DEF Kept
<1>5. \A k \in old.n + 1 .. Len(accepted) :
        /\ accepted[k].class # "control"
        /\ accepted[k].class = "motion" =>
             accepted[k].motion.gen = m.motion.gen /\ accepted[k].motion.fam # m.motion.fam
  BY BehindReplaced
<1>6. \A d \in OnWay' : Accepted(d)'
  BY <1>1, <1>2 DEF Accepted, LossInv
<1>7. ASSUME NEW i \in DOMAIN accepted'
      PROVE  Kept(i)' \/ \E j \in i + 1 .. Len(accepted') : ReplacedBy(i, j)'
  <2>1. CASE i = N
    BY <1>4, <2>1
  <2>2. CASE i = old.n
    <3>1. \A k \in i + 1 .. N - 1 : StepsAside(k, i)'
      BY <1>1, <1>2, <1>5, <2>2 DEF StepsAside
    <3>2. accepted'[i].class = "motion" /\ accepted'[i].motion = m.motion
      BY <1>1, <1>2, <2>2
    <3>3. \A j : j = N => ReplacedBy(i, j)'
      BY <1>4, <3>1, <3>2 DEF ReplacedBy
    <3> QED
      BY <1>1, <2>2, <3>3
  <2>3. CASE i # N /\ i # old.n
    <3>1. i \in 1 .. Len(accepted)
      BY <2>3
    <3>2. CASE Kept(i)
      BY <1>3, <2>3, <3>1, <3>2
    <3>3. CASE ~Kept(i)
      <4>1. PICK j \in i + 1 .. Len(accepted) : ReplacedBy(i, j)
        BY <3>1, <3>3 DEF LossInv
      <4>2. ASSUME NEW k \in i + 1 .. j - 1 PROVE StepsAside(k, i)'
        <5>1. k \in 1 .. Len(accepted)
          BY <3>1, <4>1
        <5>2. accepted'[k] = accepted[k] /\ accepted'[i] = accepted[i]
          BY <3>1, <5>1
        <5>3. StepsAside(k, i)
          BY <4>1 DEF ReplacedBy
        <5> QED
          BY <5>2, <5>3 DEF StepsAside
      <4>3. CASE j # old.n
        <5>1. ReplacedBy(i, j)'
          BY <1>3, <3>1, <4>1, <4>2, <4>3 DEF ReplacedBy
        <5> QED
          BY <4>1, <5>1
      <4>4. CASE j = old.n
        <5>1. accepted[i].class = "motion" /\ accepted[i].motion = m.motion
          BY <1>2, <4>1, <4>4 DEF ReplacedBy
        <5>2. \A k \in i + 1 .. N - 1 : StepsAside(k, i)'
          <6> SUFFICES ASSUME NEW k \in i + 1 .. N - 1 PROVE StepsAside(k, i)'
            OBVIOUS
          <6>1. /\ k \in 1 .. Len(accepted) /\ accepted'[k] = accepted[k]
                /\ accepted'[i] = accepted[i]
            BY <3>1
          <6>2. CASE k < old.n
            BY <1>1, <3>1, <4>2, <4>4, <6>2
          <6>3. CASE k = old.n
            BY <1>2, <5>1, <6>1, <6>3 DEF StepsAside
          <6>4. CASE k > old.n
            BY <1>1, <1>5, <5>1, <6>1, <6>4 DEF StepsAside
          <6> QED
            BY <1>1, <6>1, <6>2, <6>3, <6>4
        <5>3. \A l : l = N => ReplacedBy(i, l)'
          BY <1>4, <3>1, <5>1, <5>2 DEF ReplacedBy
        <5> QED
          BY <3>1, <5>3
      <4> QED
        BY <4>3, <4>4
    <3> QED
      BY <3>2, <3>3
  <2> QED
    BY <2>1, <2>2, <2>3
<1>8. ASSUME NEW d \in OnWay, d # old, d.class = "motion" PROVE CarriesNewest(d)'
  <2>1. Same(d)' = Same(d) /\ Same(d) \subseteq 1 .. Len(accepted)
    BY SMTT(30) DEF Same
  <2>2. ~(old.n \in Same(d) /\ old.n < d.n)
    <3> SUFFICES ASSUME old.n \in Same(d), old.n < d.n PROVE FALSE
      OBVIOUS
    <3>1. d.n \in old.n + 1 .. Len(accepted) /\ Accepted(d)
      BY <1>1 DEF LossInv
    <3>2. d.motion = m.motion
      BY <1>2 DEF Same, Supersedes
    <3> QED
      BY <1>5, <1>8, <3>1, <3>2 DEF Accepted
  <2>3. Offered(d)' = Offered(d) /\ Offered(d) \subseteq 1 .. Len(accepted)
    <3>1. \A e \in Same(d) : e < d.n => (Kept(e)' <=> Kept(e))
      BY <1>3, <2>1, <2>2
    <3> QED
      BY <2>1, <3>1 DEF Offered
  <2>4. CarriesNewest(d)
    BY <1>8 DEF LossInv
  <2> QED
    BY <2>3, <2>4 DEF CarriesNewest
<1>9. CarriesNewest(new)'
  <2>1. Same(old) \subseteq 1 .. old.n /\ CarriesNewest(old)
    BY <1>1, <1>2 DEF Same, LossInv
  <2>2. \A i \in 1 .. N : Supersedes(accepted'[i], new) <=> i \in Same(old) \/ i = N
    <3> SUFFICES ASSUME NEW i \in 1 .. N
                 PROVE  Supersedes(accepted'[i], new) <=> i \in Same(old) \/ i = N
      OBVIOUS
    <3>1. CASE i = N
      BY <1>2, <3>1 DEF Supersedes
    <3>2. CASE i \in old.n + 1 .. Len(accepted)
      BY <1>1, <1>2, <1>5, <2>1, <3>2 DEF Supersedes
    <3>3. CASE i \in 1 .. old.n
      BY <1>1, <1>2, <3>3 DEF Supersedes, Same
    <3> QED
      BY <1>1, <3>1, <3>2, <3>3
  <2>3. Same(new)' = Same(old) \cup {N}
    BY <1>1, <1>2, <2>1, <2>2 DEF Same
  <2>4. \A e \in Same(new)' : e < N /\ Kept(e)' <=> e \in Same(old) /\ e < old.n /\ Kept(e)
    BY <1>1, <1>3, <2>1, <2>3
  <2>5. Offered(new)' = {i \in Same(new)' : accepted'[i].offer # None /\
                           \A e \in Same(new)' : e < N /\ Kept(e)' => i > e}
    BY <1>2 DEF Offered
  <2>6. Offered(new)' = Offered(old) \cup (IF m.offer # None THEN {N} ELSE {})
    BY SMTT(30), <1>1, <2>1, <2>3, <2>4, <2>5 DEF Offered
  <2>7. Offered(old) \subseteq 1 .. old.n
    BY <2>1 DEF Offered
  <2>8. CASE m.offer # None
    <3>1. \A i \in Offered(new)' : (\A o \in Offered(new)' : o <= i) => i = N
      BY <1>1, <2>6, <2>7, <2>8
    <3> QED
      BY <1>2, <2>6, <2>8, <3>1 DEF CarriesNewest
  <2>9. CASE m.offer = None
    <3>1. Offered(new)' = Offered(old) /\ new.offer = old.offer
      BY <1>2, <2>6, <2>9
    <3>2. \A i \in Offered(old) : accepted'[i] = accepted[i]
      BY <1>1, <2>7
    <3> QED
      BY <2>1, <3>1, <3>2 DEF CarriesNewest
  <2> QED
    BY <2>8, <2>9
<1> QED
  BY <1>1, <1>6, <1>7, <1>8, <1>9 DEF LossInv

\* A step that moves messages from the queue to the writer to the transport, or
\* closes the queue, leaves what is said of an open queue alone.
LEMMA MovedKeeps ==
  ASSUME LossInv, UNCHANGED accepted,
         \/ OnWay' = OnWay /\ UNCHANGED closed
         \/ OnWay' \subseteq OnWay /\ closed'
  PROVE  LossInv'
<1>1. \A d \in OnWay' : Accepted(d)'
  BY DEF LossInv, Accepted
<1>2. \A i \in DOMAIN accepted' : Wellformed(accepted'[i])
  BY DEF LossInv
<1>3. CASE OnWay' = OnWay /\ UNCHANGED closed
  <2>1. \A i : Kept(i)' <=> Kept(i)
    BY <1>3 DEF Kept
  <2>2. \A i, j : ReplacedBy(i, j)' <=> ReplacedBy(i, j)
    BY <2>1 DEF ReplacedBy, StepsAside
  <2>3. \A d : Same(d)' = Same(d)
    BY DEF Same
  <2>4. \A d : Offered(d)' = Offered(d)
    BY <2>1, <2>3 DEF Offered
  <2>5. \A d : CarriesNewest(d)' <=> CarriesNewest(d)
    BY <2>4 DEF CarriesNewest
  <2> QED
    BY <1>1, <1>2, <1>3, <2>1, <2>2, <2>5 DEF LossInv
<1>4. CASE closed'
  BY <1>1, <1>2, <1>4 DEF LossInv
<1> QED
  BY <1>3, <1>4

LEMMA LossNext ==
  ASSUME OutboxAssumption, TypeOK, OrderInv, LossInv, [Next]_vars PROVE LossInv'
<1> USE DEF writerVars, mediaVars
<1>0. queue \in Seq(Message) /\ hand \in Seq(Message) /\ sent \in Seq(Message)
  BY DEF TypeOK
<1>1. ASSUME NEW m \in Pushable, Push(m) PROVE LossInv'
  BY <1>1, PushedSet, EnteredKeeps, ReplacedKeeps
<1>2. CASE Pop
  <2>1. /\ hand = <<>> /\ hand' = <<Head(queue)>> /\ queue' = Tail(queue) /\ queue # <<>>
        /\ UNCHANGED <<sent, accepted, closed>>
    BY <1>2 DEF Pop, TypeOK
  <2>2. queue = hand' \o queue' /\ hand' \in Seq(Message) /\ queue' \in Seq(Message)
    BY <1>0, <2>1
  <2>3. Range(queue) = Range(hand') \cup Range(queue') /\ Range(hand) = {}
    BY SMTT(30), <2>1, <2>2, RangeConcat DEF Range
  <2> QED
    BY <2>1, <2>3, MovedKeeps DEF OnWay
<1>3. CASE Written
  <2>1. sent' = sent \o hand /\ hand' = <<>> /\ UNCHANGED <<queue, accepted, closed>>
    BY <1>3 DEF Written
  <2>2. Range(sent') = Range(sent) \cup Range(hand)
    BY <1>0, <2>1, RangeConcat
  <2>3. Range(hand') = {}
    BY <2>1 DEF Range
  <2> QED
    BY <2>1, <2>2, <2>3, MovedKeeps DEF OnWay
<1>4. CASE DropConnection \/ WriterCloses
  <2>1. queue' = <<>> /\ closed' /\ UNCHANGED <<hand, sent, accepted>>
    BY <1>4 DEF DropConnection, WriterCloses, CloseQueue
  <2>2. Range(queue') = {}
    BY <2>1 DEF Range
  <2> QED
    BY <2>1, <2>2, MovedKeeps DEF OnWay
<1>5. CASE UNCHANGED <<queue, hand, sent, accepted, closed>>
  BY <1>5, MovedKeeps DEF OnWay
<1>6. ASSUME NEW m \in Pushable, PushRefused(m)
      PROVE  UNCHANGED <<queue, hand, sent, accepted, closed>>
  BY <1>6 DEF PushRefused
<1>7. CASE MediaSend \/ Disconnect \/ UNCHANGED vars
  BY <1>5, <1>7 DEF MediaSend, Disconnect, vars
<1>8. CASE TopClosed \/ TopOpen \/ TakeMedia \/ MediaDone \/ PopDone \/ CheckOpen \/ Pending
  BY <1>5, <1>8 DEF TopClosed, TopOpen, TakeMedia, MediaDone, PopDone, CheckOpen, Pending
<1>9. CASE SelectMedia \/ SelectWake \/ SelectDisconnected \/ WriteFails
  BY <1>5, <1>9 DEF SelectMedia, SelectWake, SelectDisconnected, WriteFails
<1> QED
  BY <1>1, <1>2, <1>3, <1>4, <1>5, <1>6, <1>7, <1>8, <1>9 DEF Next, UI, Writer

LEMMA LossMeans ==
  ASSUME TypeOK, LossInv PROVE NothingElseLost
<1>1. OnWay = {Stream[p] : p \in DOMAIN Stream}
  BY StreamRange
<1>2. \A i : Survives(i) <=> Kept(i)
  BY <1>1 DEF Survives, Kept
<1>3. OnlySupersededLost
  BY <1>2 DEF OnlySupersededLost, LossInv, ReplacedBy, StepsAside
<1>4. OfferKept
  <2> SUFFICES ASSUME NEW p \in DOMAIN Stream, ~closed, Stream[p].class = "motion"
               PROVE  LET d == Stream[p]
                          same == {i \in 1 .. d.n : Supersedes(accepted[i], d)}
                          earlier == {i \in same : i < d.n /\ Survives(i)}
                          offered == {i \in same : /\ \A e \in earlier : i > e
                                                   /\ accepted[i].offer # None}
                      IN  IF offered = {} THEN d.offer = None
                          ELSE \A i \in offered :
                                 (\A o \in offered : o <= i) => d.offer = accepted[i].offer
    BY DEF OfferKept
  <2> DEFINE d == Stream[p]
             same == {i \in 1 .. d.n : Supersedes(accepted[i], d)}
             earlier == {i \in same : i < d.n /\ Survives(i)}
             offered == {i \in same : /\ \A e \in earlier : i > e
                                      /\ accepted[i].offer # None}
  <2>1. CarriesNewest(d)
    BY <1>1 DEF LossInv
  <2>2. offered = Offered(d)
    BY <1>2 DEF Offered, Same
  <2> QED
    BY <2>1, <2>2 DEF CarriesNewest
<1> QED
  BY <1>3, <1>4 DEF NothingElseLost

\* What the frontend has accepted reaches the session but for positions that newer
\* ones have made stale, and a hover on its way has the newest offer ("coalesce",
\* input_queue.rs), for every capacity of the queue and every set of positions.
THEOREM OnlyStaleLost == Spec => []NothingElseLost
<1> USE OutboxAssumption
<1>1. Init => LossInv
  BY DEF Init, LossInv, OnWay, Range
<1>2. Init => OrderInv
  BY DEF Init, OrderInv, Increasing, Before
<1>3. TypeOK /\ OrderInv /\ [Next]_vars => OrderInv'
  BY OrderNext
<1>4. TypeOK /\ OrderInv /\ LossInv /\ [Next]_vars => LossInv'
  BY LossNext
<1>5. TypeOK /\ LossInv => NothingElseLost
  BY LossMeans
<1> QED
  BY <1>1, <1>2, <1>3, <1>4, <1>5, TypeCorrect, PTL DEF Spec
=============================================================================
