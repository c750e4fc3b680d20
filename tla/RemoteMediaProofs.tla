------------------------- MODULE RemoteMediaProofs -------------------------
(***************************************************************************)
(* RemoteMedia, as MCTransfers composes it: an inductive invariant for     *)
(* every length of the movie, every window and every capacity.             *)
(***************************************************************************)
EXTENDS TransfersProofs

-----------------------------------------------------------------------------
(* A movie of another machine. *)

Kinds == {"open", "control", "chunk", "eof", "original", "range", "error", "credit", "read", "over"}
RemoteMsg == [kind : Kinds, gen : Nat, n : Nat]
HostSet == [gen : Nat, mode : {"proxy", "original"}, control : Seq(RemoteMsg),
            worker : {"start", "serves", "ended"}, next : Nat, credit : Nat,
            queue : Seq(RemoteMsg), reads : Seq(Nat), over : BOOLEAN, failures : Nat]
FrontSet == [gen : Nat, original : BOOLEAN, got : Seq(Nat), input : Nat, asked : SUBSET Nat,
             credit : Nat, eof : BOOLEAN, pending : Nat, starved : BOOLEAN, dead : BOOLEAN]
HostType == host \in HostSet
FrontType == front \in FrontSet
MediaType == media \in [queue : Seq(RemoteMsg), lost : BOOLEAN]
ToFrontType == toFront \in [control : Seq(RemoteMsg), wire : Seq(RemoteMsg)]
ToHostType == toHost \in Seq(RemoteMsg)
RemoteTypes == HostType /\ MediaType /\ ToFrontType /\ FrontType /\ ToHostType

LEMMA RemoteConstants ==
  /\ Blocks \in Nat \ {0} /\ Window \in Nat \ {0} /\ InFlight \in Nat \ {0} /\ MediaRoom \in Nat
  /\ MediaRoom >= 2 /\ InFlight <= MediaRoom
BY TransfersAssumption DEF R!RemoteMediaAssumption

LEMMA MessageIs ==
  ASSUME NEW kind \in Kinds, NEW g \in Nat, NEW n \in Nat
  PROVE  /\ R!Message(kind, g, n) \in RemoteMsg
         /\ R!Message(kind, g, n).kind = kind /\ R!Message(kind, g, n).gen = g
         /\ R!Message(kind, g, n).n = n
BY DEF R!Message, RemoteMsg

LEMMA MessageHas == ASSUME NEW m \in RemoteMsg PROVE m.kind \in Kinds /\ m.gen \in Nat /\ m.n \in Nat
BY DEF RemoteMsg

\* What the states of both ends hold.
LEMMA HostHas ==
  ASSUME HostType
  PROVE  /\ host.gen \in Nat /\ host.mode \in {"proxy", "original"} /\ host.control \in Seq(RemoteMsg)
         /\ host.worker \in {"start", "serves", "ended"} /\ host.next \in Nat /\ host.credit \in Nat
         /\ host.queue \in Seq(RemoteMsg) /\ host.reads \in Seq(Nat) /\ host.over \in BOOLEAN
         /\ host.failures \in Nat
BY DEF HostType, HostSet
LEMMA FrontHas ==
  ASSUME FrontType
  PROVE  /\ front.gen \in Nat /\ front.original \in BOOLEAN /\ front.got \in Seq(Nat)
         /\ front.input \in Nat /\ front.asked \in SUBSET Nat /\ front.credit \in Nat
         /\ front.eof \in BOOLEAN /\ front.pending \in Nat /\ front.dead \in BOOLEAN
BY DEF FrontType, FrontSet
LEMMA QueuesHave ==
  ASSUME MediaType, ToFrontType
  PROVE  /\ media.queue \in Seq(RemoteMsg) /\ media.lost \in BOOLEAN
         /\ toFront.control \in Seq(RemoteMsg) /\ toFront.wire \in Seq(RemoteMsg)
BY DEF MediaType, ToFrontType

\* The worker queues a message: n and c are its next chunk and its credit from then on.
QueuesMessage(m, w, n, c, r, f) ==
  /\ m \in RemoteMsg /\ host.queue \in Seq(RemoteMsg)
  /\ host'.gen = host.gen /\ host'.mode = host.mode /\ host'.control = host.control
  /\ host'.worker = w /\ host'.next = n /\ host'.credit = c
  /\ host'.queue = Append(host.queue, m) /\ host'.reads = r
  /\ HostType' /\ UNCHANGED <<media, toFront, front, toHost>>

LEMMA EncodeDoes ==
  ASSUME HostType, R!Encode, UNCHANGED <<media, toFront, front, toHost>>
  PROVE  /\ host.mode = "proxy" /\ host.worker = "start" /\ host.credit > 0 /\ host.next <= Blocks
         /\ QueuesMessage(R!Message("chunk", host.gen, host.next), "start", host.next + 1,
                          host.credit - 1, host.reads, host.failures)
<1> USE HostHas
<1>1. PICK n \in Nat : n = host.next + 1
  OBVIOUS
<1>2. host.mode = "proxy" /\ host.worker = "start" /\ host.credit > 0 /\ host.next <= Blocks
  BY DEF R!Encode
<1>3. PICK c \in Nat : c = host.credit - 1
  BY <1>2
<1>4. PICK m \in RemoteMsg : m = R!Message("chunk", host.gen, host.next)
  BY MessageIs DEF Kinds
<1>5. host' = [host EXCEPT !.credit = c, !.next = n, !.queue = Append(@, m)]
  BY <1>1, <1>3, <1>4 DEF R!Encode
<1>6. Append(host.queue, m) \in Seq(RemoteMsg)
  OBVIOUS
<1>7. QueuesMessage(m, "start", n, c, host.reads, host.failures)
  BY <1>2, <1>5, <1>6 DEF QueuesMessage, HostType, HostSet
<1> QED BY <1>1, <1>2, <1>3, <1>4, <1>7

LEMMA EncodeEndDoes ==
  ASSUME HostType, R!EncodeEnd, UNCHANGED <<media, toFront, front, toHost>>
  PROVE  /\ host.mode = "proxy" /\ host.worker = "start"
         /\ QueuesMessage(R!Message("eof", host.gen, 0), "ended", host.next, host.credit,
                          host.reads, host.failures)
<1> USE HostHas
<1>1. PICK m \in RemoteMsg : m = R!Message("eof", host.gen, 0)
  BY MessageIs DEF Kinds
<1>2. host' = [host EXCEPT !.worker = "ended", !.queue = Append(@, m)]
  BY <1>1 DEF R!EncodeEnd
<1>3. Append(host.queue, m) \in Seq(RemoteMsg)
  OBVIOUS
<1>4. QueuesMessage(m, "ended", host.next, host.credit, host.reads, host.failures)
  BY <1>2, <1>3 DEF QueuesMessage, HostType, HostSet
<1> QED BY <1>1, <1>4 DEF R!EncodeEnd

LEMMA OpenOriginalDoes ==
  ASSUME HostType, R!OpenOriginal, UNCHANGED <<media, toFront, front, toHost>>
  PROVE  /\ host.mode = "original" /\ host.worker = "start"
         /\ QueuesMessage(R!Message("original", host.gen, 0), "serves", host.next, host.credit,
                          host.reads, host.failures)
<1> USE HostHas
<1>1. PICK m \in RemoteMsg : m = R!Message("original", host.gen, 0)
  BY MessageIs DEF Kinds
<1>2. host' = [host EXCEPT !.worker = "serves", !.queue = Append(@, m)]
  BY <1>1 DEF R!OpenOriginal
<1>3. Append(host.queue, m) \in Seq(RemoteMsg)
  OBVIOUS
<1>4. QueuesMessage(m, "serves", host.next, host.credit, host.reads, host.failures)
  BY <1>2, <1>3 DEF QueuesMessage, HostType, HostSet
<1> QED BY <1>1, <1>4 DEF R!OpenOriginal

LEMMA ServeDoes ==
  ASSUME HostType, R!Serve, UNCHANGED <<media, toFront, front, toHost>>
  PROVE  /\ host.worker = "serves" /\ host.reads # <<>> /\ Head(host.reads) \in Nat
         /\ QueuesMessage(R!Message("range", host.gen, Head(host.reads)), "serves", host.next,
                          host.credit, Tail(host.reads), host.failures)
<1> USE HostHas
<1>1. host.worker = "serves" /\ host.reads # <<>> /\ Head(host.reads) \in Nat
      /\ Tail(host.reads) \in Seq(Nat)
  BY DEF R!Serve
<1>2. PICK m \in RemoteMsg : m = R!Message("range", host.gen, Head(host.reads))
  BY <1>1, MessageIs DEF Kinds
<1>3. host' = [host EXCEPT !.reads = Tail(@), !.queue = Append(@, m)]
  BY <1>2 DEF R!Serve
<1>4. Append(host.queue, m) \in Seq(RemoteMsg)
  OBVIOUS
<1>5. QueuesMessage(m, "serves", host.next, host.credit, Tail(host.reads), host.failures)
  BY <1>1, <1>3, <1>4 DEF QueuesMessage, HostType, HostSet
<1> QED BY <1>1, <1>2, <1>5

LEMMA FailDoes ==
  ASSUME HostType, R!Fail
  PROVE  /\ host.worker \in {"start", "serves"}
         /\ host.worker = "serves" => host.reads # <<>>
         /\ QueuesMessage(R!Message("error", host.gen, 0), "ended", host.next, host.credit,
                          host.reads, host.failures)
<1> USE HostHas
<1>1. PICK m \in RemoteMsg : m = R!Message("error", host.gen, 0)
  BY MessageIs DEF Kinds
<1>2. PICK f \in Nat : f = host.failures + 1
  OBVIOUS
<1>3. host' = [host EXCEPT !.worker = "ended", !.failures = f, !.queue = Append(@, m)]
  BY <1>1, <1>2 DEF R!Fail
<1>4. Append(host.queue, m) \in Seq(RemoteMsg)
  OBVIOUS
<1>5. QueuesMessage(m, "ended", host.next, host.credit, host.reads, host.failures)
  BY <1>3, <1>4 DEF QueuesMessage, HostType, HostSet, R!Fail
<1> QED BY <1>1, <1>5 DEF R!Fail

-----------------------------------------------------------------------------
\* All that is on its way to the frontend, and in which places.
Boxes == {"asked", "control", "wire", "media", "queue"}
Boxed(a, c, w, m, q) == [p \in Boxes |-> IF p = "asked" THEN a ELSE IF p = "control" THEN c
                                         ELSE IF p = "wire" THEN w ELSE IF p = "media" THEN m ELSE q]
Box == Boxed(host.control, toFront.control, toFront.wire, media.queue, host.queue)
Filled == [Boxes -> Seq(RemoteMsg)]
Contents(B) == {m \in RemoteMsg : \E p \in Boxes : \E i \in DOMAIN B[p] : B[p][i] = m}
OnWay == Contents(Box)

Opener(m) == m.kind \in {"open", "original"}
Data(m) == m.kind \in {"chunk", "range"}

\* No generation is opened twice.
Same(m, n) == Opener(m) /\ Opener(n) /\ m.gen = n.gen
Unique(B) == \A p, q \in Boxes : \A i \in DOMAIN B[p], j \in DOMAIN B[q] :
               Same(B[p][i], B[q][j]) => p = q /\ i = j

LEMMA BoxIs == RemoteTypes => /\ Box \in Filled
                              /\ Box["asked"] = host.control /\ Box["control"] = toFront.control
                              /\ Box["wire"] = toFront.wire /\ Box["media"] = media.queue
                              /\ Box["queue"] = host.queue
<1> SUFFICES ASSUME RemoteTypes PROVE Box \in Filled
                              /\ Box["asked"] = host.control /\ Box["control"] = toFront.control
                              /\ Box["wire"] = toFront.wire /\ Box["media"] = media.queue
                              /\ Box["queue"] = host.queue
  OBVIOUS
<1>1. /\ host.control \in Seq(RemoteMsg) /\ toFront.control \in Seq(RemoteMsg)
      /\ toFront.wire \in Seq(RemoteMsg) /\ media.queue \in Seq(RemoteMsg)
      /\ host.queue \in Seq(RemoteMsg)
  BY HostHas, QueuesHave DEF RemoteTypes
<1> QED BY <1>1 DEF Box, Boxed, Filled, Boxes

LEMMA ContentsHas == ASSUME NEW B \in Filled, NEW p \in Boxes, NEW i \in DOMAIN B[p]
                     PROVE  B[p][i] \in Contents(B) /\ B[p][i] \in RemoteMsg
<1>1. B[p] \in Seq(RemoteMsg)
  BY DEF Filled
<1>2. B[p][i] \in RemoteMsg
  BY <1>1
<1> QED BY <1>2 DEF Contents

LEMMA WayHas ==
  ASSUME RemoteTypes
  PROVE  /\ \A i \in DOMAIN host.control : host.control[i] \in OnWay
         /\ \A i \in DOMAIN toFront.control : toFront.control[i] \in OnWay
         /\ \A i \in DOMAIN toFront.wire : toFront.wire[i] \in OnWay
         /\ \A i \in DOMAIN media.queue : media.queue[i] \in OnWay
         /\ \A i \in DOMAIN host.queue : host.queue[i] \in OnWay
         /\ OnWay \subseteq RemoteMsg
<1>1. Box \in Filled /\ {"asked", "control", "wire", "media", "queue"} \subseteq Boxes
  BY BoxIs DEF Boxes
<1> HIDE DEF Boxes
<1>2. \A p \in Boxes : \A i \in DOMAIN Box[p] : Box[p][i] \in OnWay
  BY <1>1, ContentsHas DEF OnWay
<1>3. OnWay \subseteq RemoteMsg
  BY DEF OnWay, Contents
<1>4. /\ \A i \in DOMAIN Box["asked"] : Box["asked"][i] \in OnWay
      /\ \A i \in DOMAIN Box["control"] : Box["control"][i] \in OnWay
      /\ \A i \in DOMAIN Box["wire"] : Box["wire"][i] \in OnWay
      /\ \A i \in DOMAIN Box["media"] : Box["media"][i] \in OnWay
      /\ \A i \in DOMAIN Box["queue"] : Box["queue"][i] \in OnWay
  BY <1>1, <1>2
<1> QED BY <1>3, <1>4, BoxIs

\* The first messages of a box go to the end of another one, or are gone.
Moves(B, C, from, to) ==
  \E h \in Seq(RemoteMsg) :
    /\ Joined(h, C[from], B[from])
    /\ to \in Boxes => Joined(B[to], h, C[to])
    /\ \A p \in Boxes \ {from, to} : C[p] = B[p]

\* Where what is at a place has been.
OldBox(B, from, to, p, i) == IF p = to /\ i > Len(B[to]) THEN from ELSE p
OldPlace(B, from, to, n, p, i) ==
  IF p = from THEN n + i ELSE IF p = to /\ i > Len(B[to]) THEN i - Len(B[to]) ELSE i

LEMMA MovedFrom ==
  ASSUME NEW B \in Filled, NEW C \in Filled, NEW from \in Boxes, NEW to, to # from,
         NEW h \in Seq(RemoteMsg), Joined(h, C[from], B[from]),
         to \in Boxes => Joined(B[to], h, C[to]),
         \A p \in Boxes \ {from, to} : C[p] = B[p],
         NEW p \in Boxes, NEW i \in DOMAIN C[p]
  PROVE  LET q == OldBox(B, from, to, p, i)
             j == OldPlace(B, from, to, Len(h), p, i)
         IN  q \in Boxes /\ j \in DOMAIN B[q] /\ B[q][j] = C[p][i]
<1>1. /\ B[from] \in Seq(RemoteMsg) /\ C[from] \in Seq(RemoteMsg) /\ C[p] \in Seq(RemoteMsg)
      /\ B[p] \in Seq(RemoteMsg)
  BY DEF Filled
<1>2. i \in 1 .. Len(C[p]) /\ Len(C[p]) \in Nat /\ Len(h) \in Nat /\ DOMAIN h = 1 .. Len(h)
  BY <1>1
<1>3. CASE p = from
  <2>1. Len(h) + i \in DOMAIN B[from] /\ B[from][Len(h) + i] = C[p][i]
    <3>1. Len(B[from]) = Len(h) + Len(C[from]) /\ \A k \in DOMAIN C[from] : B[from][Len(h) + k] = C[from][k]
      BY DEF Joined
    <3>2. DOMAIN B[from] = 1 .. Len(B[from])
      BY <1>1
    <3> QED BY <1>2, <1>3, <3>1, <3>2
  <2>2. OldBox(B, from, to, p, i) = from /\ OldPlace(B, from, to, Len(h), p, i) = Len(h) + i
    BY <1>3 DEF OldBox, OldPlace
  <2> QED BY <1>3, <2>1, <2>2
<1>4. CASE p = to
  <2>1. Joined(B[to], h, C[to]) /\ B[to] \in Seq(RemoteMsg)
    BY <1>1, <1>4
  <2>2. Len(C[to]) = Len(B[to]) + Len(h) /\ Len(B[to]) \in Nat /\ DOMAIN B[to] = 1 .. Len(B[to])
        /\ (\A k \in DOMAIN B[to] : C[to][k] = B[to][k])
        /\ \A k \in DOMAIN h : C[to][Len(B[to]) + k] = h[k]
    BY <2>1 DEF Joined
  <2>3. CASE i > Len(B[to])
    <3>1. i - Len(B[to]) \in DOMAIN h /\ C[to][i] = h[i - Len(B[to])]
      <4>1. i \in Nat /\ i <= Len(B[to]) + Len(h)
        BY <1>2, <1>4, <2>2
      <4> DEFINE k == i - Len(B[to])
      <4>2. k \in 1 .. Len(h) /\ i = Len(B[to]) + k
        BY <1>2, <2>2, <2>3, <4>1
      <4>3. k \in DOMAIN h /\ C[to][Len(B[to]) + k] = h[k]
        <5> HIDE DEF k
        <5> QED BY <1>2, <2>2, <4>2
      <4> QED BY <4>2, <4>3
    <3>2. i - Len(B[to]) \in DOMAIN B[from] /\ B[from][i - Len(B[to])] = h[i - Len(B[to])]
      <4>1. Len(B[from]) = Len(h) + Len(C[from]) /\ \A k \in DOMAIN h : B[from][k] = h[k]
        BY DEF Joined
      <4>2. DOMAIN B[from] = 1 .. Len(B[from]) /\ Len(C[from]) \in Nat
        BY <1>1
      <4> QED BY <1>2, <3>1, <4>1, <4>2
    <3>3. OldBox(B, from, to, p, i) = from
          /\ OldPlace(B, from, to, Len(h), p, i) = i - Len(B[to])
      BY <1>4, <2>3 DEF OldBox, OldPlace
    <3> QED BY <1>4, <3>1, <3>2, <3>3
  <2>4. CASE ~(i > Len(B[to]))
    <3>1. i \in DOMAIN B[to] /\ C[to][i] = B[to][i]
      BY <1>2, <2>2, <2>4
    <3>2. OldBox(B, from, to, p, i) = to /\ OldPlace(B, from, to, Len(h), p, i) = i
      BY <1>4, <2>4 DEF OldBox, OldPlace
    <3> QED BY <1>4, <3>1, <3>2
  <2> QED BY <2>3, <2>4
<1>5. CASE p # from /\ p # to
  BY <1>5 DEF OldBox, OldPlace
<1> QED BY <1>3, <1>4, <1>5

LEMMA MovesKeep ==
  ASSUME NEW B \in Filled, NEW C \in Filled, NEW from \in Boxes, NEW to, to # from,
         Moves(B, C, from, to)
  PROVE  /\ Contents(C) \subseteq Contents(B)
         /\ Unique(B) => Unique(C)
<1>1. PICK h \in Seq(RemoteMsg) :
        /\ Joined(h, C[from], B[from])
        /\ to \in Boxes => Joined(B[to], h, C[to])
        /\ \A p \in Boxes \ {from, to} : C[p] = B[p]
  BY DEF Moves
<1> DEFINE Q(p, i) == OldBox(B, from, to, p, i)
           J(p, i) == OldPlace(B, from, to, Len(h), p, i)
<1>2. \A p \in Boxes : \A i \in DOMAIN C[p] :
        Q(p, i) \in Boxes /\ J(p, i) \in DOMAIN B[Q(p, i)] /\ B[Q(p, i)][J(p, i)] = C[p][i]
  BY <1>1, MovedFrom
<1>3. ASSUME NEW p \in Boxes, NEW q \in Boxes, NEW i \in DOMAIN C[p], NEW j \in DOMAIN C[q],
             Q(p, i) = Q(q, j), J(p, i) = J(q, j)
      PROVE  p = q /\ i = j
  <2>1. /\ C[p] \in Seq(RemoteMsg) /\ C[q] \in Seq(RemoteMsg) /\ B[from] \in Seq(RemoteMsg)
        /\ C[from] \in Seq(RemoteMsg)
    BY DEF Filled
  <2>2. /\ i \in 1 .. Len(C[p]) /\ Len(C[p]) \in Nat /\ j \in 1 .. Len(C[q]) /\ Len(C[q]) \in Nat
        /\ Len(h) \in Nat
    BY <2>1
  <2>3. to \in Boxes => Len(B[to]) \in Nat /\ Len(C[to]) = Len(B[to]) + Len(h)
    <3>1. to \in Boxes => B[to] \in Seq(RemoteMsg)
      BY DEF Filled
    <3> QED BY <1>1, <3>1 DEF Joined
  <2>4. i \in Nat /\ j \in Nat /\ i > 0 /\ j > 0
    BY <2>2
  <2>5. CASE p = from /\ q = from
    BY <1>3, <2>2, <2>4, <2>5 DEF OldBox, OldPlace
  <2>6. CASE p = to /\ q = to
    BY <1>3, <2>2, <2>3, <2>4, <2>6 DEF OldBox, OldPlace
  <2>7. CASE p = from /\ q = to
    <3>1. j > Len(B[to]) /\ Len(h) + i = j - Len(B[to])
      BY <1>3, <2>7 DEF OldBox, OldPlace
    <3>2. j <= Len(B[to]) + Len(h)
      BY <2>2, <2>3, <2>7
    <3>3. Len(B[to]) \in Nat
      BY <2>3, <2>7
    <3>4. \A b, n \in Nat : j <= b + n => n + i # j - b
      BY <2>4
    <3> QED BY <2>2, <3>1, <3>2, <3>3, <3>4
  <2>8. CASE p = to /\ q = from
    <3>1. i > Len(B[to]) /\ Len(h) + j = i - Len(B[to])
      BY <1>3, <2>8 DEF OldBox, OldPlace
    <3>2. i <= Len(B[to]) + Len(h)
      BY <2>2, <2>3, <2>8
    <3>3. Len(B[to]) \in Nat
      BY <2>3, <2>8
    <3>4. \A b, n \in Nat : i <= b + n => n + j # i - b
      BY <2>4
    <3> QED BY <2>2, <3>1, <3>2, <3>3, <3>4
  <2>9. CASE p \notin {from, to} /\ q \notin {from, to}
    BY <1>3, <2>9 DEF OldBox, OldPlace
  <2>10. CASE p \notin {from, to} /\ q \in {from, to}
    BY <1>3, <2>10 DEF OldBox
  <2>11. CASE p \in {from, to} /\ q \notin {from, to}
    BY <1>3, <2>11 DEF OldBox
  <2> QED BY <2>5, <2>6, <2>7, <2>8, <2>9, <2>10, <2>11
<1> HIDE DEF Q, J
<1>4. Contents(C) \subseteq Contents(B)
  BY <1>2 DEF Contents
<1>5. ASSUME Unique(B) PROVE Unique(C)
  <2> SUFFICES ASSUME NEW p \in Boxes, NEW q \in Boxes, NEW i \in DOMAIN C[p], NEW j \in DOMAIN C[q],
                      Same(C[p][i], C[q][j])
               PROVE  p = q /\ i = j
    BY DEF Unique
  <2>1. Q(p, i) = Q(q, j) /\ J(p, i) = J(q, j)
    BY <1>2, <1>5 DEF Unique
  <2> QED BY <1>3, <2>1
<1> QED BY <1>4, <1>5

\* The types of the next state, and the boxes then.
TypesThen(h, m, t) ==
  /\ h \in HostSet /\ m \in [queue : Seq(RemoteMsg), lost : BOOLEAN]
  /\ t \in [control : Seq(RemoteMsg), wire : Seq(RemoteMsg)]
LEMMA BoxThen ==
  ASSUME TypesThen(host', media', toFront')
  PROVE  /\ Box' \in Filled
         /\ Box'["asked"] = host'.control /\ Box'["control"] = toFront'.control
         /\ Box'["wire"] = toFront'.wire /\ Box'["media"] = media'.queue
         /\ Box'["queue"] = host'.queue
<1>1. /\ host'.control \in Seq(RemoteMsg) /\ toFront'.control \in Seq(RemoteMsg)
      /\ toFront'.wire \in Seq(RemoteMsg) /\ media'.queue \in Seq(RemoteMsg)
      /\ host'.queue \in Seq(RemoteMsg)
  BY DEF TypesThen, HostSet
<1>2. Box' = Boxed(host'.control, toFront'.control, toFront'.wire, media'.queue, host'.queue)
  BY DEF Box
<1> QED BY <1>1, <1>2 DEF Boxed, Filled, Boxes

\* A message goes on: what the worker knows, and what is said back, stay.
Stays == /\ host'.gen = host.gen /\ host'.mode = host.mode /\ host'.worker = host.worker
         /\ host'.next = host.next /\ host'.credit = host.credit /\ host'.reads = host.reads
Passes == /\ RemoteTypes' /\ Stays /\ UNCHANGED <<front, toHost>> /\ media'.lost = media.lost
          /\ OnWay' \subseteq OnWay /\ (Unique(Box) => Unique(Box)')

LEMMA MovesPass ==
  ASSUME RemoteTypes, RemoteTypes', NEW from \in Boxes, NEW to, to # from, Moves(Box, Box', from, to),
         Stays, UNCHANGED <<front, toHost>>, media'.lost = media.lost
  PROVE  Passes
<1>1. Box \in Filled /\ Box' \in Filled
  BY BoxIs, BoxThen DEF RemoteTypes, TypesThen, HostType, MediaType, ToFrontType
<1>2. Contents(Box') \subseteq Contents(Box) /\ (Unique(Box) => Unique(Box'))
  BY <1>1, MovesKeep
<1> QED BY <1>2 DEF Passes, OnWay

LEMMA JoinedOn == ASSUME NEW A, NEW q \in Seq(A), NEW r \in Seq(A)
                  PROVE  q \o r \in Seq(A) /\ Joined(q, r, q \o r)
BY DEF Joined

LEMMA NothingIn == ASSUME NEW A PROVE \E q \in Seq(A) : q = <<>>
<1>1. <<>> \in Seq(A)
  OBVIOUS
<1> QED BY <1>1, Zenon

LEMMA EffectsDoes ==
  ASSUME RemoteTypes, R!Effects
  PROVE  /\ Passes /\ UNCHANGED media /\ host'.queue = host.queue /\ toFront'.wire = toFront.wire
         /\ host'.control = <<>> /\ Joined(toFront.control, host.control, toFront'.control)
<1> USE HostHas, QueuesHave, FrontHas DEF RemoteTypes
<1>1. PICK q \in Seq(RemoteMsg) : q = <<>>
  BY NothingIn
<1>2. host' = [host EXCEPT !.control = q]
  BY <1>1 DEF R!Effects
<1>3. PICK c \in Seq(RemoteMsg) : /\ c = toFront.control \o host.control
                                  /\ Joined(toFront.control, host.control, c)
  BY JoinedOn
<1>4. toFront' = [toFront EXCEPT !.control = c]
  BY <1>3 DEF R!Effects
<1>5. UNCHANGED <<media, front, toHost>>
  BY DEF R!Effects
<1>6. /\ host' \in HostSet /\ Stays /\ host'.control = q /\ host'.queue = host.queue
  BY <1>2 DEF HostType, HostSet, Stays
<1>7. /\ toFront' \in [control : Seq(RemoteMsg), wire : Seq(RemoteMsg)]
      /\ toFront'.control = c /\ toFront'.wire = toFront.wire
  BY <1>4 DEF ToFrontType
<1>8. RemoteTypes'
  BY <1>5, <1>6, <1>7 DEF HostType, MediaType, ToFrontType, FrontType, ToHostType
<1>9. Moves(Box, Box', "asked", "control")
  <2>1. /\ Box'["asked"] = q /\ Box'["control"] = c /\ Box'["wire"] = toFront.wire
        /\ Box'["media"] = media.queue /\ Box'["queue"] = host.queue
    BY <1>5, <1>6, <1>7, <1>8, BoxThen DEF TypesThen, MediaType
  <2>2. Joined(host.control, q, host.control)
    BY <1>1 DEF Joined
  <2>3. \A p \in Boxes \ {"asked", "control"} : Box'[p] = Box[p]
    BY <2>1, BoxIs DEF Boxes
  <2> QED BY <1>3, <2>1, <2>2, <2>3, BoxIs DEF Moves
<1>10. Passes
  BY <1>5, <1>6, <1>8, <1>9, MovesPass DEF Boxes
<1> QED BY <1>1, <1>3, <1>5, <1>6, <1>7, <1>10

LEMMA SplitAt ==
  ASSUME NEW A, NEW q \in Seq(A), NEW n \in 0 .. Len(q)
  PROVE  /\ SubSeq(q, 1, n) \in Seq(A) /\ SubSeq(q, n + 1, Len(q)) \in Seq(A)
         /\ Joined(SubSeq(q, 1, n), SubSeq(q, n + 1, Len(q)), q) /\ Len(SubSeq(q, 1, n)) = n
<1>1. n \in Nat /\ Len(q) \in Nat /\ n <= Len(q) /\ DOMAIN q = 1 .. Len(q)
  OBVIOUS
<1>2. /\ SubSeq(q, 1, n) \in Seq(A) /\ Len(SubSeq(q, 1, n)) = n
      /\ \A i \in DOMAIN SubSeq(q, 1, n) : SubSeq(q, 1, n)[i] = q[i]
  BY <1>1
<1>3. PICK m \in Nat : m = Len(q) - n
  <2>1. Len(q) - n \in Nat
    BY <1>1
  <2> QED BY <2>1, Zenon
<1>4. /\ SubSeq(q, n + 1, Len(q)) \in Seq(A) /\ Len(SubSeq(q, n + 1, Len(q))) = m
      /\ \A i \in DOMAIN SubSeq(q, n + 1, Len(q)) : SubSeq(q, n + 1, Len(q))[i] = q[n + i]
  <2>1. SubSeq(q, n + 1, Len(q)) \in Seq(A)
    BY <1>1
  <2>2. Len(SubSeq(q, n + 1, Len(q))) = m
    <3>1. \A k \in Nat : Len(SubSeq(q, n + 1, k)) = IF n + 1 <= k THEN k - (n + 1) + 1 ELSE 0
      BY <1>1
    <3>2. Len(SubSeq(q, n + 1, Len(q))) = IF n + 1 <= Len(q) THEN Len(q) - (n + 1) + 1 ELSE 0
      BY <1>1, <3>1
    <3>3. \A a, b \in Nat : (IF a + 1 <= b THEN b - (a + 1) + 1 ELSE 0) = IF a < b THEN b - a ELSE 0
      OBVIOUS
    <3>4. Len(SubSeq(q, n + 1, Len(q))) = IF n < Len(q) THEN Len(q) - n ELSE 0
      BY <1>1, <3>2, <3>3
    <3>5. \A a, b \in Nat : a <= b => (IF a < b THEN b - a ELSE 0) = b - a
      OBVIOUS
    <3> QED BY <1>1, <1>3, <3>4, <3>5
  <2>3. ASSUME NEW i \in 1 .. m PROVE SubSeq(q, n + 1, Len(q))[i] = q[n + i]
    BY <1>1, <1>3
  <2>4. DOMAIN SubSeq(q, n + 1, Len(q)) = 1 .. m
    BY <2>1, <2>2
  <2> QED BY <2>1, <2>2, <2>3, <2>4
<1>5. Len(q) = n + m
  BY <1>1, <1>3
<1> QED BY <1>2, <1>4, <1>5 DEF Joined

\* What is drained finds room.
Fits == Len(media.queue) + 2 <= MediaRoom =>
          host.mode = "proxy" \/ Len(media.queue) + Len(host.queue) <= MediaRoom

LEMMA DrainDoes ==
  ASSUME RemoteTypes, Fits, R!Drain
  PROVE  /\ Passes /\ UNCHANGED toFront /\ host'.control = host.control /\ host.queue # <<>>
         /\ \E h \in Seq(RemoteMsg) : /\ Joined(h, host'.queue, host.queue)
                                      /\ Joined(media.queue, h, media'.queue)
<1>0. /\ host.queue \in Seq(RemoteMsg) /\ media.queue \in Seq(RemoteMsg) /\ media.lost \in BOOLEAN
      /\ host.mode \in {"proxy", "original"} /\ MediaRoom \in Nat /\ MediaRoom >= 2
  BY HostHas, QueuesHave, RemoteConstants DEF RemoteTypes
<1> DEFINE n == IF Len(host.queue) < R!Burst THEN Len(host.queue) ELSE R!Burst
           h == SubSeq(host.queue, 1, n)
           r == SubSeq(host.queue, n + 1, Len(host.queue))
           all == media.queue \o h
<1>1. n \in 0 .. Len(host.queue) /\ (host.mode = "proxy" => n <= 2)
  BY <1>0 DEF R!Burst
<1>2. h \in Seq(RemoteMsg) /\ r \in Seq(RemoteMsg) /\ Joined(h, r, host.queue) /\ Len(h) = n
  <2> HIDE DEF n
  <2> QED BY <1>0, <1>1, SplitAt
<1>3. all \in Seq(RemoteMsg) /\ Joined(media.queue, h, all)
  <2> HIDE DEF h
  <2> QED BY <1>0, <1>2, JoinedOn
<1>4. Len(all) <= MediaRoom
  <2>1. Len(all) = Len(media.queue) + n /\ Len(media.queue) \in Nat /\ Len(host.queue) \in Nat
    <3> HIDE DEF n, all, h
    <3> QED BY <1>0, <1>2, <1>3 DEF Joined
  <2>2. Len(media.queue) + 2 <= MediaRoom
    BY DEF R!Drain
  <2>3. n <= Len(host.queue)
    BY <1>1, <2>1
  <2> HIDE DEF n, all
  <2>4. CASE host.mode = "proxy"
    BY <1>0, <1>1, <2>1, <2>2, <2>3, <2>4
  <2>5. CASE Len(media.queue) + Len(host.queue) <= MediaRoom
    <3>1. n \in Nat
      BY <1>1
    <3>2. \A a, b, c \in Nat : b <= c /\ a + c <= MediaRoom => a + b <= MediaRoom
      BY <1>0
    <3>3. Len(media.queue) + n <= MediaRoom
      BY <2>1, <2>3, <2>5, <3>1, <3>2
    <3> QED BY <2>1, <3>3
  <2> QED BY <2>2, <2>4, <2>5 DEF Fits
<1>5. /\ host' = [host EXCEPT !.queue = r]
      /\ media' = [queue |-> SubSeq(all, 1, IF Len(all) < MediaRoom THEN Len(all) ELSE MediaRoom),
                   lost |-> media.lost \/ Len(all) > MediaRoom]
      /\ UNCHANGED <<toFront, front, toHost>> /\ host.queue # <<>>
  BY DEF R!Drain
<1> HIDE DEF n, h, r, all
<1>6. media' = [queue |-> all, lost |-> media.lost]
  <2>1. Len(all) \in Nat /\ (IF Len(all) < MediaRoom THEN Len(all) ELSE MediaRoom) = Len(all)
    BY <1>0, <1>3, <1>4
  <2>2. SubSeq(all, 1, Len(all)) = all
    BY <1>3
  <2>3. ~(Len(all) > MediaRoom)
    BY <1>0, <1>4, <2>1
  <2>4. (media.lost \/ Len(all) > MediaRoom) = media.lost
    BY <1>0, <2>3
  <2> QED BY <1>5, <2>1, <2>2, <2>4
<1>7. host' \in HostSet /\ Stays /\ host'.control = host.control /\ host'.queue = r
  BY <1>2, <1>5 DEF RemoteTypes, HostType, HostSet, Stays
<1>8. RemoteTypes'
  BY <1>0, <1>3, <1>5, <1>6, <1>7
     DEF RemoteTypes, HostType, MediaType, ToFrontType, FrontType, ToHostType
<1>9. Moves(Box, Box', "queue", "media")
  <2>1. /\ Box'["asked"] = host.control /\ Box'["control"] = toFront.control
        /\ Box'["wire"] = toFront.wire /\ Box'["media"] = all /\ Box'["queue"] = r
    <3>1. TypesThen(host', media', toFront')
      BY <1>8 DEF RemoteTypes, HostType, MediaType, ToFrontType, TypesThen
    <3>2. /\ Box'["asked"] = host'.control /\ Box'["control"] = toFront'.control
          /\ Box'["wire"] = toFront'.wire /\ Box'["media"] = media'.queue
          /\ Box'["queue"] = host'.queue
      BY <3>1, BoxThen
    <3>3. host'.control = host.control /\ host'.queue = r /\ toFront' = toFront /\ media'.queue = all
      BY <1>5, <1>6, <1>7
    <3> QED BY <3>2, <3>3
  <2>2. \A p \in Boxes \ {"queue", "media"} : Box'[p] = Box[p]
    BY <2>1, BoxIs DEF Boxes
  <2> QED BY <1>2, <1>3, <2>1, <2>2, BoxIs DEF Moves
<1>10. Passes
  BY <1>5, <1>6, <1>7, <1>8, <1>9, MovesPass DEF Boxes
<1>11. Joined(h, host'.queue, host.queue) /\ Joined(media.queue, h, media'.queue)
  BY <1>2, <1>3, <1>6, <1>7
<1> QED BY <1>2, <1>5, <1>7, <1>10, <1>11

LEMMA FirstMoves ==
  ASSUME NEW A, NEW q \in Seq(A), q # <<>>, NEW w \in Seq(A)
  PROVE  /\ Tail(q) \in Seq(A) /\ Head(q) \in A /\ Head(q) = q[1] /\ 1 \in DOMAIN q
         /\ Append(w, Head(q)) \in Seq(A)
         /\ Shorter(q, Tail(q)) /\ Longer(w, Append(w, Head(q)), q[1])
         /\ \E h \in Seq(A) : Joined(h, Tail(q), q) /\ Joined(w, h, Append(w, Head(q)))
<1>1. /\ Tail(q) \in Seq(A) /\ Len(Tail(q)) = Len(q) - 1 /\ Head(q) \in A /\ Head(q) = q[1]
      /\ 1 \in DOMAIN q
      /\ \A i \in DOMAIN Tail(q) : i + 1 \in DOMAIN q /\ Tail(q)[i] = q[i + 1] /\ i \in Nat
  BY TailPlaces
<1>2. /\ Append(w, Head(q)) \in Seq(A) /\ Len(Append(w, Head(q))) = Len(w) + 1
      /\ \A i \in DOMAIN w : Append(w, Head(q))[i] = w[i]
      /\ Append(w, Head(q))[Len(w) + 1] = Head(q)
  BY <1>1, AppendPlaces
<1>3. Len(q) \in Nat /\ Len(w) \in Nat /\ Len(q) # 0
  OBVIOUS
<1>4. Len(q) = Len(Tail(q)) + 1 /\ Len(q) = 1 + Len(Tail(q)) /\ \A i \in Nat : i + 1 = 1 + i
  BY <1>1, <1>3
<1>5. PICK h \in Seq(A) : h = <<Head(q)>>
  <2>1. <<Head(q)>> \in Seq(A)
    BY <1>1
  <2> QED BY <2>1, Zenon
<1>6. Len(h) = 1 /\ DOMAIN h = {1} /\ h[1] = Head(q)
  BY <1>5
<1>7. Shorter(q, Tail(q)) /\ Longer(w, Append(w, Head(q)), q[1])
  BY <1>1, <1>2, <1>4 DEF Shorter, Longer
<1>8. Joined(h, Tail(q), q)
  <2>1. \A i \in DOMAIN Tail(q) : q[1 + i] = Tail(q)[i]
    BY <1>1, <1>4
  <2> QED BY <1>1, <1>4, <1>6, <2>1 DEF Joined
<1>9. Joined(w, h, Append(w, Head(q)))
  BY <1>2, <1>6 DEF Joined
<1> QED BY <1>1, <1>2, <1>7, <1>8, <1>9

\* The writer takes the first message of the controls, or of the media.
WritesControl ==
  /\ toFront.control # <<>> /\ UNCHANGED <<host, media>>
  /\ Shorter(toFront.control, toFront'.control)
  /\ Longer(toFront.wire, toFront'.wire, toFront.control[1]) /\ 1 \in DOMAIN toFront.control
WritesMedia ==
  /\ toFront.control = <<>> /\ toFront'.control = <<>> /\ UNCHANGED host /\ media.queue # <<>>
  /\ Shorter(media.queue, media'.queue)
  /\ Longer(toFront.wire, toFront'.wire, media.queue[1]) /\ 1 \in DOMAIN media.queue

LEMMA WriteDoes ==
  ASSUME RemoteTypes, R!Write
  PROVE  Passes /\ (WritesControl \/ WritesMedia)
<1>0. /\ toFront.control \in Seq(RemoteMsg) /\ toFront.wire \in Seq(RemoteMsg)
      /\ media.queue \in Seq(RemoteMsg) /\ media.lost \in BOOLEAN
  BY QueuesHave DEF RemoteTypes
<1>1. UNCHANGED <<host, front, toHost>>
  BY DEF R!Write
<1>2. CASE toFront.control # <<>>
  <2>1. /\ Tail(toFront.control) \in Seq(RemoteMsg)
        /\ Append(toFront.wire, Head(toFront.control)) \in Seq(RemoteMsg)
        /\ Shorter(toFront.control, Tail(toFront.control))
        /\ Longer(toFront.wire, Append(toFront.wire, Head(toFront.control)), toFront.control[1])
        /\ 1 \in DOMAIN toFront.control
    BY <1>0, <1>2, FirstMoves
  <2>2. PICK h \in Seq(RemoteMsg) :
          /\ Joined(h, Tail(toFront.control), toFront.control)
          /\ Joined(toFront.wire, h, Append(toFront.wire, Head(toFront.control)))
    BY <1>0, <1>2, FirstMoves
  <2>3. /\ toFront' = [control |-> Tail(toFront.control),
                       wire |-> Append(toFront.wire, Head(toFront.control))]
        /\ UNCHANGED media
    BY <1>2 DEF R!Write
  <2>4. /\ toFront'.control = Tail(toFront.control)
        /\ toFront'.wire = Append(toFront.wire, Head(toFront.control))
    BY <2>3
  <2>5. WritesControl
    BY <1>1, <1>2, <2>1, <2>3, <2>4 DEF WritesControl
  <2>6. RemoteTypes'
    BY <1>1, <2>1, <2>3 DEF RemoteTypes, HostType, MediaType, ToFrontType, FrontType, ToHostType
  <2>7. TypesThen(host', media', toFront')
    BY <2>6 DEF RemoteTypes, HostType, MediaType, ToFrontType, TypesThen
  <2>8. /\ Box'["asked"] = host'.control /\ Box'["control"] = toFront'.control
        /\ Box'["wire"] = toFront'.wire /\ Box'["media"] = media'.queue
        /\ Box'["queue"] = host'.queue
    BY <2>7, BoxThen
  <2>9. \A p \in Boxes \ {"control", "wire"} : Box'[p] = Box[p]
    BY <1>1, <2>3, <2>8, BoxIs DEF Boxes
  <2>10. Moves(Box, Box', "control", "wire")
    BY <2>2, <2>4, <2>8, <2>9, BoxIs DEF Moves
  <2>11. Passes
    BY <1>1, <2>3, <2>6, <2>10, MovesPass DEF Boxes, Stays
  <2> QED BY <2>5, <2>11
<1>3. CASE toFront.control = <<>>
  <2>0. media.queue # <<>>
    BY <1>3 DEF R!Write
  <2>1. /\ Tail(media.queue) \in Seq(RemoteMsg)
        /\ Append(toFront.wire, Head(media.queue)) \in Seq(RemoteMsg)
        /\ Shorter(media.queue, Tail(media.queue))
        /\ Longer(toFront.wire, Append(toFront.wire, Head(media.queue)), media.queue[1])
        /\ 1 \in DOMAIN media.queue
    BY <1>0, <2>0, FirstMoves
  <2>2. PICK h \in Seq(RemoteMsg) :
          /\ Joined(h, Tail(media.queue), media.queue)
          /\ Joined(toFront.wire, h, Append(toFront.wire, Head(media.queue)))
    BY <1>0, <2>0, FirstMoves
  <2>3. /\ toFront' = [toFront EXCEPT !.wire = Append(@, Head(media.queue))]
        /\ media' = [media EXCEPT !.queue = Tail(@)]
    BY <1>3 DEF R!Write
  <2>4. /\ toFront'.control = toFront.control
        /\ toFront'.wire = Append(toFront.wire, Head(media.queue))
        /\ toFront' \in [control : Seq(RemoteMsg), wire : Seq(RemoteMsg)]
        /\ media'.queue = Tail(media.queue) /\ media'.lost = media.lost
        /\ media' \in [queue : Seq(RemoteMsg), lost : BOOLEAN]
    BY <2>1, <2>3 DEF RemoteTypes, ToFrontType, MediaType
  <2>5. WritesMedia
    BY <1>1, <1>3, <2>0, <2>1, <2>4 DEF WritesMedia
  <2>6. RemoteTypes'
    BY <1>1, <2>4 DEF RemoteTypes, HostType, MediaType, ToFrontType, FrontType, ToHostType
  <2>7. TypesThen(host', media', toFront')
    BY <2>6 DEF RemoteTypes, HostType, MediaType, ToFrontType, TypesThen
  <2>8. /\ Box'["asked"] = host'.control /\ Box'["control"] = toFront'.control
        /\ Box'["wire"] = toFront'.wire /\ Box'["media"] = media'.queue
        /\ Box'["queue"] = host'.queue
    BY <2>7, BoxThen
  <2>9. \A p \in Boxes \ {"media", "wire"} : Box'[p] = Box[p]
    BY <1>1, <2>4, <2>8, BoxIs DEF Boxes
  <2>10. Moves(Box, Box', "media", "wire")
    BY <2>2, <2>4, <2>8, <2>9, BoxIs DEF Moves
  <2>11. Passes
    BY <1>1, <2>4, <2>6, <2>10, MovesPass DEF Boxes, Stays
  <2> QED BY <2>5, <2>11
<1> QED BY <1>2, <1>3

\* The frontend tells the host something.
Tells(kind, g, n) == \E t \in RemoteMsg : /\ t.kind = kind /\ t.gen = g /\ t.n = n
                                          /\ toHost' = Append(toHost, t)
LEMMA TellsOn ==
  ASSUME NEW kind \in Kinds, NEW g \in Nat, NEW n \in Nat, ToHostType,
         toHost' = Append(toHost, R!Message(kind, g, n))
  PROVE  Tells(kind, g, n) /\ ToHostType'
<1>1. PICK t \in RemoteMsg : t = R!Message(kind, g, n)
  BY MessageIs
<1>2. t.kind = kind /\ t.gen = g /\ t.n = n /\ toHost' = Append(toHost, t)
  BY <1>1, MessageIs
<1>3. ToHostType'
  BY <1>2 DEF ToHostType
<1> QED BY <1>2, <1>3 DEF Tells

\* What the host hears from the frontend.
Hears ==
  /\ toHost # <<>> /\ Shorter(toHost, toHost') /\ 1 \in DOMAIN toHost
  /\ UNCHANGED <<media, toFront, front>>
  /\ host'.gen = host.gen /\ host'.mode = host.mode /\ host'.control = host.control
  /\ host'.worker = host.worker /\ host'.next = host.next /\ host'.queue = host.queue
HearsRead == /\ toHost[1].gen = host.gen /\ toHost[1].kind = "read" /\ host.mode = "original"
             /\ host'.reads = Append(host.reads, toHost[1].n) /\ host'.credit = host.credit
HearsCredit == /\ toHost[1].gen = host.gen /\ toHost[1].kind = "credit"
               /\ host'.reads = host.reads
               /\ host'.credit \in Nat /\ host'.credit <= host.credit + toHost[1].n
HearsOther == host'.reads = host.reads /\ host'.credit = host.credit

LEMMA HostReceiveDoes ==
  ASSUME RemoteTypes, R!HostReceive
  PROVE  RemoteTypes' /\ Hears /\ (HearsRead \/ HearsCredit \/ HearsOther)
<1>1. toHost \in Seq(RemoteMsg) /\ toHost # <<>> /\ toHost' = Tail(toHost)
      /\ UNCHANGED <<media, toFront, front>>
  BY DEF R!HostReceive, RemoteTypes, ToHostType
<1>2. toHost' \in Seq(RemoteMsg) /\ Shorter(toHost, toHost') /\ Head(toHost) = toHost[1]
      /\ 1 \in DOMAIN toHost /\ toHost[1] \in RemoteMsg
  BY <1>1, FirstMoves
<1>3. PICK m \in RemoteMsg : m = toHost[1]
  BY <1>2
<1>4. m.n \in Nat
  BY MessageHas
<1>5. host \in HostSet /\ host.reads \in Seq(Nat) /\ host.credit \in Nat
  BY HostHas DEF RemoteTypes, HostType
<1>6. MediaType' /\ ToFrontType' /\ FrontType' /\ ToHostType'
  BY <1>1, <1>2 DEF RemoteTypes, MediaType, ToFrontType, FrontType, ToHostType
<1>7. CASE m.gen = host.gen /\ m.kind = "read" /\ host.mode = "original" /\ Len(host.reads) < InFlight
  <2>1. PICK r \in Seq(Nat) : r = Append(host.reads, m.n)
    <3>1. Append(host.reads, m.n) \in Seq(Nat)
      BY <1>4, <1>5, AppendPlaces
    <3> QED BY <3>1, Zenon
  <2>2. host' = [host EXCEPT !.reads = r]
    BY <1>2, <1>3, <1>7, <2>1 DEF R!HostReceive, R!Current
  <2>3. host' \in HostSet /\ Hears /\ HearsRead
    BY <1>1, <1>2, <1>3, <1>5, <1>7, <2>1, <2>2 DEF HostSet, Hears, HearsRead
  <2> QED BY <1>6, <2>3 DEF RemoteTypes, HostType
<1>8. CASE m.gen = host.gen /\ m.kind = "credit"
  <2>1. PICK c \in Nat : c = IF host.credit + m.n < Window THEN host.credit + m.n ELSE Window
    BY <1>4, <1>5, RemoteConstants
  <2>2. c <= host.credit + m.n
    BY <1>4, <1>5, <2>1, RemoteConstants
  <2>3. host' = [host EXCEPT !.credit = c]
    BY <1>2, <1>3, <1>8, <2>1 DEF R!HostReceive, R!Current
  <2>4. host' \in HostSet /\ host'.credit = c /\ Hears
    BY <1>1, <1>2, <1>3, <1>5, <2>1, <2>3 DEF HostSet, Hears
  <2>5. host'.reads = host.reads
    BY <1>5, <2>3 DEF HostSet
  <2>6. HearsCredit
    BY <1>3, <1>8, <2>1, <2>2, <2>4, <2>5 DEF HearsCredit
  <2> QED BY <1>6, <2>4, <2>6 DEF RemoteTypes, HostType
<1>9. CASE ~(m.gen = host.gen /\ m.kind = "credit")
           /\ ~(m.gen = host.gen /\ m.kind = "read" /\ host.mode = "original"
                /\ Len(host.reads) < InFlight)
  <2>1. host' = host \/ host' = [host EXCEPT !.over = TRUE]
    BY <1>2, <1>3, <1>9 DEF R!HostReceive, R!Current
  <2>2. host' \in HostSet /\ Hears /\ HearsOther
    BY <1>1, <1>2, <1>5, <2>1 DEF HostSet, Hears, HearsOther
  <2> QED BY <1>6, <2>2 DEF RemoteTypes, HostType
<1> QED BY <1>7, <1>8, <1>9

\* The first message of the wire is taken.
Takes == /\ toFront.wire # <<>> /\ 1 \in DOMAIN toFront.wire /\ toFront.wire[1] \in RemoteMsg
         /\ toFront'.control = toFront.control /\ Shorter(toFront.wire, toFront'.wire)
         /\ UNCHANGED <<host, media>> /\ HostType' /\ MediaType' /\ ToFrontType'
         /\ OnWay' \subseteq OnWay /\ (Unique(Box) => Unique(Box)') /\ ~front.dead
         /\ Unique(Box) => \A k \in OnWay' : ~Same(k, toFront.wire[1])
LEMMA FrontReceiveDoes ==
  ASSUME RemoteTypes, R!FrontReceive
  PROVE  /\ Takes
         /\ LET m == toFront.wire[1] IN
            \/ R!FrontOpen(m) \/ R!FrontChunk(m) \/ R!FrontRange(m) \/ R!FrontEof(m)
            \/ R!FrontControl(m) \/ R!FrontError(m)
<1>1. /\ toFront.wire \in Seq(RemoteMsg) /\ toFront.wire # <<>> /\ ~front.dead
      /\ toFront' = [toFront EXCEPT !.wire = Tail(@)] /\ UNCHANGED <<host, media>>
  BY QueuesHave DEF R!FrontReceive, RemoteTypes
<1>2. PICK e \in Seq(RemoteMsg) : e = <<>>
  BY NothingIn
<1>3. /\ Tail(toFront.wire) \in Seq(RemoteMsg) /\ Head(toFront.wire) = toFront.wire[1]
      /\ 1 \in DOMAIN toFront.wire /\ toFront.wire[1] \in RemoteMsg
      /\ Shorter(toFront.wire, Tail(toFront.wire))
  BY <1>1, FirstMoves
<1>4. PICK h \in Seq(RemoteMsg) : Joined(h, Tail(toFront.wire), toFront.wire)
  BY <1>1, FirstMoves
<1>5. /\ toFront'.control = toFront.control /\ toFront'.wire = Tail(toFront.wire)
      /\ toFront' \in [control : Seq(RemoteMsg), wire : Seq(RemoteMsg)]
  BY <1>1, <1>3 DEF RemoteTypes, ToFrontType
<1>6. HostType' /\ MediaType' /\ ToFrontType'
  BY <1>1, <1>5 DEF RemoteTypes, HostType, MediaType, ToFrontType
<1>7. TypesThen(host', media', toFront')
  BY <1>6 DEF HostType, MediaType, ToFrontType, TypesThen
<1>8. /\ Box'["asked"] = host'.control /\ Box'["control"] = toFront'.control
      /\ Box'["wire"] = toFront'.wire /\ Box'["media"] = media'.queue
      /\ Box'["queue"] = host'.queue /\ Box' \in Filled /\ Box \in Filled
  BY <1>7, BoxThen, BoxIs
<1>9. \A p \in Boxes \ {"wire", "gone"} : Box'[p] = Box[p]
  BY <1>1, <1>5, <1>8, BoxIs DEF Boxes
<1>10. "gone" \notin Boxes /\ "wire" \in Boxes
  BY DEF Boxes
<1>11. Moves(Box, Box', "wire", "gone")
  BY <1>4, <1>5, <1>8, <1>9, <1>10, BoxIs DEF Moves
<1>12. Contents(Box') \subseteq Contents(Box) /\ (Unique(Box) => Unique(Box'))
  BY <1>8, <1>10, <1>11, MovesKeep
<1>13. ASSUME Unique(Box), NEW k \in OnWay', Same(k, toFront.wire[1]) PROVE FALSE
  <2>0. PICK p \in Boxes : \E i \in DOMAIN Box'[p] : Box'[p][i] = k
    BY DEF OnWay, Contents
  <2>1. PICK i \in DOMAIN Box'[p] : Box'[p][i] = k
    BY <2>0
  <2>2. CASE p = "wire"
    <3>1. i \in DOMAIN Tail(toFront.wire) /\ Tail(toFront.wire)[i] = k
      BY <1>5, <1>8, <2>1, <2>2
    <3>2. i \in Nat /\ i + 1 \in DOMAIN toFront.wire /\ toFront.wire[i + 1] = k /\ i # 0
      BY <1>1, <3>1, TailPlaces
    <3>3. i + 1 # 1
      BY <3>2
    <3> QED BY <1>3, <1>10, <1>13, <3>2, <3>3, BoxIs DEF Unique
  <2>3. CASE p # "wire"
    <3>1. i \in DOMAIN Box[p] /\ Box[p][i] = k
      BY <1>9, <1>10, <2>1, <2>3
    <3> QED BY <1>3, <1>10, <1>13, <2>3, <3>1, BoxIs DEF Unique
  <2> QED BY <2>2, <2>3
<1>14. Takes
  BY <1>1, <1>3, <1>5, <1>6, <1>12, <1>13 DEF Takes, OnWay
<1> QED BY <1>3, <1>14 DEF R!FrontReceive

\* What the frontend does with each kind of message.
LEMMA FrontOpenDoes ==
  ASSUME RemoteTypes, NEW m \in RemoteMsg, R!FrontOpen(m)
  PROVE  /\ Opener(m) /\ FrontType' /\ ToHostType'
         /\ front'.gen = m.gen /\ (front'.original <=> m.kind = "original") /\ front'.got = <<>>
         /\ front'.input = 0 /\ front'.asked = {} /\ front'.credit = 0 /\ ~front'.dead
         /\ toHost' = toHost \/ (m.kind = "open" /\ Tells("credit", m.gen, Window))
<1>1. m.gen \in Nat /\ m.kind \in {"open", "original"} /\ front.pending \in Nat
  BY MessageHas, FrontHas DEF R!FrontOpen, RemoteTypes
<1>2. PICK b \in BOOLEAN : b = (m.kind = "open" /\ ~R!Room)
  OBVIOUS
<1>3. PICK o \in BOOLEAN : o = (m.kind = "original")
  OBVIOUS
<1>4. PICK r \in FrontSet :
        r = [gen |-> m.gen, original |-> o, got |-> <<>>, input |-> 0, asked |-> {}, credit |-> 0,
             eof |-> FALSE, pending |-> front.pending, starved |-> FALSE, dead |-> FALSE]
  <2>1. <<>> \in Seq(Nat) /\ {} \in SUBSET Nat
    OBVIOUS
  <2>2. [gen |-> m.gen, original |-> o, got |-> <<>>, input |-> 0, asked |-> {}, credit |-> 0,
         eof |-> FALSE, pending |-> front.pending, starved |-> FALSE, dead |-> FALSE] \in FrontSet
    BY <1>1, <2>1 DEF FrontSet
  <2> QED BY <2>2, Zenon
<1>5. /\ FrontType' /\ front'.gen = m.gen /\ front'.original = o /\ front'.got = <<>>
      /\ front'.input = 0 /\ front'.asked = {} /\ front'.credit = 0 /\ ~front'.dead
  <2>1. front' = [r EXCEPT !.starved = b]
    BY <1>2, <1>3, <1>4 DEF R!FrontOpen, R!Opened
  <2>2. /\ front' \in FrontSet /\ front'.gen = r.gen /\ front'.original = r.original
        /\ front'.got = r.got /\ front'.input = r.input /\ front'.asked = r.asked
        /\ front'.credit = r.credit /\ front'.dead = r.dead
    BY <2>1 DEF FrontSet
  <2> QED BY <1>4, <2>2 DEF FrontType
<1>6. CASE m.kind = "open" /\ R!Room
  <2>1. toHost' = Append(toHost, R!Message("credit", m.gen, Window))
    BY <1>6 DEF R!FrontOpen
  <2>2. Tells("credit", m.gen, Window) /\ ToHostType'
    BY <1>1, <2>1, TellsOn, RemoteConstants DEF Kinds, RemoteTypes
  <2> QED BY <1>1, <1>3, <1>5, <1>6, <2>2 DEF Opener
<1>7. CASE ~(m.kind = "open" /\ R!Room)
  <2>1. toHost' = toHost
    BY <1>7 DEF R!FrontOpen
  <2> QED BY <1>1, <1>3, <1>5, <2>1 DEF Opener, RemoteTypes, ToHostType
<1> QED BY <1>6, <1>7

\* What a data message leaves alone.
KeepsMovie == /\ FrontType' /\ UNCHANGED toHost
              /\ front'.gen = front.gen /\ front'.original = front.original
              /\ front'.credit = front.credit
LEMMA FrontChunkDoes ==
  ASSUME RemoteTypes, NEW m \in RemoteMsg, R!FrontChunk(m), m.gen = front.gen => front.input < Window
  PROVE  /\ m.kind = "chunk" /\ KeepsMovie
         /\ m.gen # front.gen => UNCHANGED front
         /\ m.gen = front.gen =>
              /\ front'.input = front.input + 1 /\ front'.got = Append(front.got, m.n)
              /\ front'.asked = front.asked /\ front'.dead = front.dead
<1>1. front \in FrontSet /\ front.input \in Nat /\ front.got \in Seq(Nat) /\ m.n \in Nat
  BY MessageHas, FrontHas DEF RemoteTypes, FrontType
<1>2. PICK k \in Nat : k = front.input + 1
  BY <1>1
<1>3. PICK g \in Seq(Nat) : g = Append(front.got, m.n)
  <2>1. Append(front.got, m.n) \in Seq(Nat)
    BY <1>1, AppendPlaces
  <2> QED BY <2>1, Zenon
<1>4. m.kind = "chunk" /\ UNCHANGED toHost
  BY DEF R!FrontChunk
<1>5. CASE m.gen = front.gen
  <2>1. front.input # Window
    BY <1>1, <1>5, RemoteConstants
  <2>2. front' = [front EXCEPT !.input = k, !.got = g]
    BY <1>2, <1>3, <1>5, <2>1 DEF R!FrontChunk
  <2>3. /\ front' \in FrontSet /\ front'.gen = front.gen /\ front'.original = front.original
        /\ front'.credit = front.credit /\ front'.input = k /\ front'.got = g
        /\ front'.asked = front.asked /\ front'.dead = front.dead
    BY <1>1, <2>2 DEF FrontSet
  <2> QED BY <1>2, <1>3, <1>4, <1>5, <2>3 DEF KeepsMovie, FrontType
<1>6. CASE m.gen # front.gen
  <2>1. UNCHANGED front
    BY <1>6 DEF R!FrontChunk
  <2> QED BY <1>1, <1>4, <1>6, <2>1 DEF KeepsMovie, FrontType
<1> QED BY <1>5, <1>6

LEMMA FrontRangeDoes ==
  ASSUME RemoteTypes, NEW m \in RemoteMsg, R!FrontRange(m), m.gen = front.gen => m.n \in front.asked
  PROVE  /\ m.kind = "range" /\ KeepsMovie
         /\ m.gen # front.gen => UNCHANGED front
         /\ m.gen = front.gen =>
              /\ front'.asked = front.asked \ {m.n} /\ front'.got = Append(front.got, m.n)
              /\ front'.input = front.input /\ front'.dead = front.dead
<1>1. front \in FrontSet /\ front.asked \in SUBSET Nat /\ front.got \in Seq(Nat) /\ m.n \in Nat
  BY MessageHas, FrontHas DEF RemoteTypes, FrontType
<1>2. PICK a \in SUBSET Nat : a = front.asked \ {m.n}
  BY <1>1
<1>3. PICK g \in Seq(Nat) : g = Append(front.got, m.n)
  <2>1. Append(front.got, m.n) \in Seq(Nat)
    BY <1>1, AppendPlaces
  <2> QED BY <2>1, Zenon
<1>4. m.kind = "range" /\ UNCHANGED toHost
  BY DEF R!FrontRange
<1>5. CASE m.gen = front.gen
  <2>2. front' = [front EXCEPT !.asked = a, !.got = g]
    BY <1>2, <1>3, <1>5 DEF R!FrontRange
  <2>3. /\ front' \in FrontSet /\ front'.gen = front.gen /\ front'.original = front.original
        /\ front'.credit = front.credit /\ front'.asked = a /\ front'.got = g
        /\ front'.input = front.input /\ front'.dead = front.dead
    BY <1>1, <2>2 DEF FrontSet
  <2> QED BY <1>2, <1>3, <1>4, <1>5, <2>3 DEF KeepsMovie, FrontType
<1>6. CASE m.gen # front.gen
  <2>1. UNCHANGED front
    BY <1>6 DEF R!FrontRange
  <2> QED BY <1>1, <1>4, <1>6, <2>1 DEF KeepsMovie, FrontType
<1> QED BY <1>5, <1>6

\* What else the frontend does to its movie: it takes note, or gives it up.
KeepsAll == KeepsMovie /\ front'.got = front.got /\ front'.input = front.input
            /\ front'.asked = front.asked /\ front'.dead = front.dead
LEMMA FrontNoteDoes ==
  ASSUME RemoteTypes, NEW m \in RemoteMsg, R!FrontEof(m) \/ R!FrontControl(m)
  PROVE  m.kind \in {"eof", "control"} /\ KeepsAll
<1>1. front \in FrontSet /\ m.gen \in Nat
  BY MessageHas DEF RemoteTypes, FrontType
<1>2. PICK e \in BOOLEAN : e = (front.eof \/ m.gen = front.gen)
  OBVIOUS
<1>3. front' = [front EXCEPT !.eof = e] \/ front' = [front EXCEPT !.pending = m.gen]
  BY <1>2 DEF R!FrontEof, R!FrontControl
<1>4. /\ front' \in FrontSet /\ front'.gen = front.gen /\ front'.original = front.original
      /\ front'.credit = front.credit /\ front'.asked = front.asked /\ front'.got = front.got
      /\ front'.input = front.input /\ front'.dead = front.dead
  BY <1>1, <1>3 DEF FrontSet
<1> QED BY <1>4 DEF KeepsAll, KeepsMovie, FrontType, R!FrontEof, R!FrontControl

GivesUp(m) ==
  /\ FrontType' /\ ToHostType'
  /\ front'.gen = 0 /\ ~front'.original /\ front'.got = <<>> /\ front'.input = 0
  /\ front'.asked = {} /\ front'.credit = 0 /\ ~front'.dead
  /\ front.gen # 0 => m.gen = front.gen
  /\ toHost' = toHost \/ Tells("over", m.gen, 0)
LEMMA FrontErrorDoes ==
  ASSUME RemoteTypes, NEW m \in RemoteMsg, R!FrontError(m)
  PROVE  m.kind = "error" /\ (UNCHANGED <<front, toHost>> \/ GivesUp(m))
<1>1. m.kind = "error" /\ m.gen \in Nat /\ front.pending \in Nat
  BY MessageHas, FrontHas DEF RemoteTypes, R!FrontError
<1>2. CASE m.gen = (IF front.gen = 0 THEN front.pending ELSE front.gen)
  <2>1. PICK r \in FrontSet :
          r = [gen |-> 0, original |-> FALSE, got |-> <<>>, input |-> 0, asked |-> {}, credit |-> 0,
               eof |-> FALSE, pending |-> front.pending, starved |-> FALSE, dead |-> FALSE]
    <3>1. <<>> \in Seq(Nat) /\ {} \in SUBSET Nat
      OBVIOUS
    <3>2. [gen |-> 0, original |-> FALSE, got |-> <<>>, input |-> 0, asked |-> {}, credit |-> 0,
           eof |-> FALSE, pending |-> front.pending, starved |-> FALSE, dead |-> FALSE] \in FrontSet
      BY <1>1, <3>1 DEF FrontSet
    <3> QED BY <3>2, Zenon
  <2>2. front' = [r EXCEPT !.pending = front.pending]
    BY <1>2, <2>1 DEF R!FrontError, R!NoMovie, R!Opened, R!Message
  <2>5. /\ front' \in FrontSet /\ front'.gen = r.gen /\ front'.original = r.original
        /\ front'.got = r.got /\ front'.input = r.input /\ front'.asked = r.asked
        /\ front'.credit = r.credit /\ front'.dead = r.dead
    BY <1>1, <2>2 DEF FrontSet
  <2>3. /\ FrontType' /\ front'.gen = 0 /\ ~front'.original /\ front'.got = <<>>
        /\ front'.input = 0 /\ front'.asked = {} /\ front'.credit = 0 /\ ~front'.dead
    BY <2>1, <2>5 DEF FrontType
  <2>4. (toHost' = toHost \/ Tells("over", m.gen, 0)) /\ ToHostType'
    <3>1. CASE R!Room
      <4>1. toHost' = Append(toHost, R!Message("over", m.gen, 0))
        BY <1>2, <3>1 DEF R!FrontError
      <4> QED BY <1>1, <4>1, TellsOn DEF Kinds, RemoteTypes
    <3>2. CASE ~R!Room
      BY <1>2, <3>2 DEF R!FrontError, RemoteTypes, ToHostType
    <3> QED BY <3>1, <3>2
  <2> QED BY <1>1, <1>2, <2>3, <2>4 DEF GivesUp
<1>3. CASE ~(m.gen = (IF front.gen = 0 THEN front.pending ELSE front.gen))
  BY <1>1, <1>3 DEF R!FrontError
<1> QED BY <1>2, <1>3

\* The frontend's own steps.
KeepsPlace == /\ FrontType' /\ UNCHANGED <<host, media, toFront>>
              /\ front'.gen = front.gen /\ front'.original = front.original
              /\ front'.got = front.got /\ front'.dead = front.dead
LEMMA ConsumeDoes ==
  ASSUME RemoteTypes, R!Consume
  PROVE  /\ KeepsPlace /\ UNCHANGED toHost /\ front'.asked = front.asked /\ front.input > 0
         /\ front'.input = front.input - 1 /\ front'.credit = front.credit + 1
<1>1. front \in FrontSet /\ front.input \in Nat /\ front.credit \in Nat
  BY FrontHas DEF RemoteTypes, FrontType
<1>2. front.input > 0 /\ UNCHANGED <<host, media, toFront, toHost>>
  BY DEF R!Consume
<1>3. PICK i \in Nat : i = front.input - 1
  <2>1. front.input - 1 \in Nat
    BY <1>1, <1>2
  <2> QED BY <2>1, Zenon
<1>4. PICK c \in Nat : c = front.credit + 1
  BY <1>1
<1>5. front' = [front EXCEPT !.input = i, !.credit = c]
  BY <1>3, <1>4 DEF R!Consume
<1>6. /\ front' \in FrontSet /\ front'.gen = front.gen /\ front'.original = front.original
      /\ front'.got = front.got /\ front'.asked = front.asked /\ front'.dead = front.dead
      /\ front'.input = i /\ front'.credit = c
  BY <1>1, <1>5 DEF FrontSet
<1> QED BY <1>2, <1>3, <1>4, <1>6 DEF KeepsPlace, FrontType

LEMMA GiveCreditDoes ==
  ASSUME RemoteTypes, R!GiveCredit
  PROVE  /\ KeepsPlace /\ ToHostType' /\ front'.asked = front.asked /\ front'.input = front.input
         /\ Tells("credit", front.gen, front.credit) /\ front'.credit = 0
<1>1. front \in FrontSet /\ front.gen \in Nat /\ front.credit \in Nat
  BY FrontHas DEF RemoteTypes, FrontType
<1>2. UNCHANGED <<host, media, toFront>> /\ front' = [front EXCEPT !.credit = 0]
      /\ toHost' = Append(toHost, R!Message("credit", front.gen, front.credit))
  BY DEF R!GiveCredit
<1>3. Tells("credit", front.gen, front.credit) /\ ToHostType'
  BY <1>1, <1>2, TellsOn DEF Kinds, RemoteTypes
<1>4. /\ front' \in FrontSet /\ front'.gen = front.gen /\ front'.original = front.original
      /\ front'.got = front.got /\ front'.asked = front.asked /\ front'.dead = front.dead
      /\ front'.input = front.input /\ front'.credit = 0
  BY <1>1, <1>2 DEF FrontSet
<1> QED BY <1>2, <1>3, <1>4 DEF KeepsPlace, FrontType

LEMMA AskBlockDoes ==
  ASSUME RemoteTypes, R!AskBlock
  PROVE  /\ KeepsPlace /\ ToHostType' /\ front.original /\ front'.input = front.input
         /\ front'.credit = front.credit /\ Cardinality(front.asked) < InFlight
         /\ \E n \in 1 .. Blocks : /\ n \notin front.asked /\ front'.asked = front.asked \cup {n}
                                   /\ Tells("read", front.gen, n)
<1>1. front \in FrontSet /\ front.gen \in Nat /\ front.asked \in SUBSET Nat /\ Blocks \in Nat
  BY FrontHas, RemoteConstants DEF RemoteTypes, FrontType
<1>2. PICK n \in R!Missing : /\ front' = [front EXCEPT !.asked = @ \cup {n}]
                             /\ toHost' = Append(toHost, R!Message("read", front.gen, n))
  BY DEF R!AskBlock
<1>3. n \in 1 .. Blocks /\ n \notin front.asked /\ n \in Nat
  BY <1>1 DEF R!Missing
<1>4. Tells("read", front.gen, n) /\ ToHostType'
  BY <1>1, <1>2, <1>3, TellsOn DEF Kinds, RemoteTypes
<1>5. PICK a \in SUBSET Nat : a = front.asked \cup {n}
  BY <1>1, <1>3
<1>6. /\ front' \in FrontSet /\ front'.gen = front.gen /\ front'.original = front.original
      /\ front'.got = front.got /\ front'.asked = a /\ front'.dead = front.dead
      /\ front'.input = front.input /\ front'.credit = front.credit
  BY <1>1, <1>2, <1>5 DEF FrontSet
<1>7. UNCHANGED <<host, media, toFront>> /\ front.original /\ Cardinality(front.asked) < InFlight
  BY CountedAlike DEF R!AskBlock, R!MayAsk
<1> QED BY <1>3, <1>4, <1>5, <1>6, <1>7 DEF KeepsPlace, FrontType

\* A message more that the worker queues.
LEMMA QueuedOn ==
  ASSUME RemoteTypes, NEW m, NEW w, NEW n, NEW c, NEW r, NEW f, QueuesMessage(m, w, n, c, r, f)
  PROVE  /\ RemoteTypes' /\ OnWay' \subseteq OnWay \cup {m}
         /\ Unique(Box) /\ (\A k \in OnWay : ~Same(k, m)) => Unique(Box)'
<1>1. /\ m \in RemoteMsg /\ host.queue \in Seq(RemoteMsg) /\ host'.control = host.control
      /\ host'.queue = Append(host.queue, m) /\ HostType'
      /\ UNCHANGED <<media, toFront, front, toHost>>
  BY DEF QueuesMessage
<1>2. RemoteTypes'
  BY <1>1 DEF RemoteTypes, MediaType, ToFrontType, FrontType, ToHostType
<1>3. TypesThen(host', media', toFront')
  BY <1>2 DEF RemoteTypes, HostType, MediaType, ToFrontType, TypesThen
<1>4. /\ Box'["queue"] = Append(Box["queue"], m) /\ Box' \in Filled /\ Box \in Filled
      /\ \A p \in Boxes \ {"queue"} : Box'[p] = Box[p]
      /\ Box["queue"] \in Seq(RemoteMsg)
  <2>1. /\ Box'["asked"] = host'.control /\ Box'["control"] = toFront'.control
        /\ Box'["wire"] = toFront'.wire /\ Box'["media"] = media'.queue
        /\ Box'["queue"] = host'.queue /\ Box' \in Filled
    BY <1>3, BoxThen
  <2> QED BY <1>1, <2>1, BoxIs DEF Boxes
<1>5. /\ DOMAIN Box'["queue"] = DOMAIN Box["queue"] \cup {Len(Box["queue"]) + 1}
      /\ \A i \in DOMAIN Box["queue"] : Box'["queue"][i] = Box["queue"][i]
      /\ Box'["queue"][Len(Box["queue"]) + 1] = m
  BY <1>1, <1>4, AppendPlaces
<1>6. ASSUME NEW p \in Boxes, NEW i \in DOMAIN Box'[p]
      PROVE  \/ i \in DOMAIN Box[p] /\ Box'[p][i] = Box[p][i]
             \/ p = "queue" /\ i = Len(Box["queue"]) + 1 /\ Box'[p][i] = m
  BY <1>4, <1>5
<1>7. \A p \in Boxes : \A i \in DOMAIN Box[p] : Box[p][i] \in OnWay
  BY <1>4, ContentsHas DEF OnWay
<1>8. OnWay' \subseteq OnWay \cup {m}
  BY <1>6, <1>7 DEF OnWay, Contents
<1>9. ASSUME Unique(Box), \A k \in OnWay : ~Same(k, m) PROVE Unique(Box)'
  <2>2. \A k \in OnWay : ~Same(m, k)
    BY <1>9 DEF Same
  <2> SUFFICES ASSUME NEW p \in Boxes, NEW q \in Boxes, NEW i \in DOMAIN Box'[p], NEW j \in DOMAIN Box'[q],
                      Same(Box'[p][i], Box'[q][j])
               PROVE  p = q /\ i = j
    BY DEF Unique
  <2>3. CASE i \in DOMAIN Box[p] /\ Box'[p][i] = Box[p][i]
             /\ j \in DOMAIN Box[q] /\ Box'[q][j] = Box[q][j]
    BY <1>9, <2>3 DEF Unique
  <2>4. CASE i \in DOMAIN Box[p] /\ Box'[p][i] = Box[p][i] /\ Box'[q][j] = m
    BY <1>7, <1>9, <2>4
  <2>5. CASE Box'[p][i] = m /\ j \in DOMAIN Box[q] /\ Box'[q][j] = Box[q][j]
    BY <1>7, <2>2, <2>5
  <2>6. CASE p = "queue" /\ i = Len(Box["queue"]) + 1 /\ q = "queue" /\ j = Len(Box["queue"]) + 1
    BY <2>6
  <2> QED BY <1>6, <2>3, <2>4, <2>5, <2>6
<1> QED BY <1>2, <1>8, <1>9

\* A new generation: its first message opens it if the host does not wait for a worker to.
Announces(k, g, mode) == /\ k.gen = g /\ k.kind \in {"open", "control"}
                         /\ k.kind = "open" => mode = "proxy"
\* The messages that announce a generation: at most one opens it, before the control.
LEMMA RestartedIs ==
  ASSUME NEW g \in Nat, NEW mode \in {"proxy", "original"}, NEW f
  PROVE  \E c \in Seq(RemoteMsg) :
           /\ R!Restarted(g, mode, f)
                = [gen |-> g, mode |-> mode, control |-> c, worker |-> "start", next |-> 1,
                   credit |-> 0, queue |-> <<>>, reads |-> <<>>, over |-> FALSE, failures |-> f]
           /\ \A i \in DOMAIN c : /\ Announces(c[i], g, mode)
                                  /\ Opener(c[i]) => i = 1
<1>3. PICK o \in RemoteMsg : o = R!Message("open", g, 0) /\ o.kind = "open" /\ o.gen = g
  BY MessageIs DEF Kinds
<1>4. PICK t \in RemoteMsg : t = R!Message("control", g, 0) /\ t.kind = "control" /\ t.gen = g
  BY MessageIs DEF Kinds
<1>5. PICK d \in Seq(RemoteMsg) : d = IF mode = "proxy" THEN <<o>> ELSE <<>>
  <2>1. <<o>> \in Seq(RemoteMsg) /\ <<>> \in Seq(RemoteMsg)
    OBVIOUS
  <2> QED BY <2>1
<1>6. Len(d) = (IF mode = "proxy" THEN 1 ELSE 0) /\ (mode = "proxy" => d[1] = o)
      /\ <<t>> \in Seq(RemoteMsg) /\ Len(<<t>>) = 1 /\ <<t>>[1] = t
  BY <1>5
<1>7. PICK c \in Seq(RemoteMsg) :
        /\ c = d \o <<t>>
        /\ \A i \in DOMAIN c : /\ c[i] = o => mode = "proxy"
                               /\ \/ c[i] = t
                                  \/ c[i] = o /\ i = 1
  <2>1. /\ d \o <<t>> \in Seq(RemoteMsg) /\ Len(d \o <<t>>) = Len(d) + 1
        /\ \A i \in DOMAIN d : (d \o <<t>>)[i] = d[i]
        /\ (d \o <<t>>)[Len(d) + 1] = t
    BY <1>6
  <2>2. DOMAIN d = (IF mode = "proxy" THEN {1} ELSE {})
        /\ DOMAIN (d \o <<t>>) = (IF mode = "proxy" THEN {1, 2} ELSE {1})
    <3>1. DOMAIN d = 1 .. Len(d) /\ DOMAIN (d \o <<t>>) = 1 .. Len(d \o <<t>>)
      BY <2>1
    <3>2. Len(d \o <<t>>) = (IF mode = "proxy" THEN 2 ELSE 1)
      BY <1>6, <2>1
    <3>3. 1 .. 0 = {} /\ 1 .. 1 = {1} /\ 1 .. 2 = {1, 2}
      OBVIOUS
    <3> QED BY <1>6, <3>1, <3>2, <3>3
  <2>3. \A i \in DOMAIN (d \o <<t>>) : \/ (d \o <<t>>)[i] = t
                                       \/ (d \o <<t>>)[i] = o /\ i = 1 /\ mode = "proxy"
    BY <1>6, <2>1, <2>2
  <2>4. o # t
    BY <1>3, <1>4
  <2>5. \E c \in Seq(RemoteMsg) : c = d \o <<t>>
    BY <2>1, Zenon
  <2> QED BY <2>3, <2>4, <2>5
<1>8. R!Restarted(g, mode, f)
        = [gen |-> g, mode |-> mode, control |-> c, worker |-> "start", next |-> 1,
           credit |-> 0, queue |-> <<>>, reads |-> <<>>, over |-> FALSE, failures |-> f]
  BY <1>3, <1>4, <1>5, <1>7 DEF R!Restarted
<1>9. \A i \in DOMAIN c : /\ Announces(c[i], g, mode)
                          /\ Opener(c[i]) => i = 1
  BY <1>3, <1>4, <1>7 DEF Announces, Opener
<1> QED BY <1>8, <1>9

LEMMA RestartDoes ==
  ASSUME RemoteTypes, \A k \in OnWay : k.gen <= host.gen,
         NEW mode \in {"proxy", "original"}, R!Restart(mode)
  PROVE  /\ RemoteTypes' /\ UNCHANGED <<media, toFront, front, toHost>>
         /\ host'.gen = host.gen + 1 /\ host'.mode = mode /\ host'.worker = "start"
         /\ host'.next = 1 /\ host'.credit = 0 /\ host'.queue = <<>> /\ host'.reads = <<>>
         /\ \A i \in DOMAIN host'.control : Announces(host'.control[i], host.gen + 1, mode)
         /\ \A k \in OnWay' : k \in OnWay \/ Announces(k, host.gen + 1, mode)
         /\ Unique(Box) => Unique(Box)'
<1>1. /\ host.gen \in Nat /\ host.failures \in Nat
      /\ media.queue \in Seq(RemoteMsg)
  BY HostHas, QueuesHave DEF RemoteTypes
<1>2. PICK g \in Nat : g = host.gen + 1
  BY <1>1
<1>7. PICK c \in Seq(RemoteMsg) :
        /\ R!Restarted(g, mode, host.failures)
             = [gen |-> g, mode |-> mode, control |-> c, worker |-> "start", next |-> 1, credit |-> 0,
                queue |-> <<>>, reads |-> <<>>, over |-> FALSE, failures |-> host.failures]
        /\ \A i \in DOMAIN c : /\ Announces(c[i], g, mode)
                               /\ Opener(c[i]) => i = 1
  BY <1>2, RestartedIs
<1>8. /\ host' = [gen |-> g, mode |-> mode, control |-> c, worker |-> "start", next |-> 1,
                  credit |-> 0, queue |-> <<>>, reads |-> <<>>, over |-> FALSE,
                  failures |-> host.failures]
      /\ UNCHANGED <<media, toFront, front, toHost>>
  BY <1>2, <1>7 DEF R!Restart
<1>9. /\ host'.gen = g /\ host'.mode = mode /\ host'.worker = "start" /\ host'.control = c
      /\ host'.next = 1 /\ host'.credit = 0 /\ host'.queue = <<>> /\ host'.reads = <<>>
  BY <1>8
<1>10. HostType'
  <2>1. <<>> \in Seq(RemoteMsg) /\ <<>> \in Seq(Nat)
    OBVIOUS
  <2> QED BY <1>1, <1>8, <2>1 DEF HostType, HostSet
<1>11. RemoteTypes'
  BY <1>8, <1>10 DEF RemoteTypes, MediaType, ToFrontType, FrontType, ToHostType
<1>12. /\ Box'["asked"] = c /\ Box'["queue"] = <<>> /\ Box' \in Filled /\ Box \in Filled
       /\ \A p \in Boxes \ {"asked", "queue"} : Box'[p] = Box[p]
  <2>1. TypesThen(host', media', toFront')
    BY <1>11 DEF RemoteTypes, HostType, MediaType, ToFrontType, TypesThen
  <2>2. /\ Box'["asked"] = host'.control /\ Box'["control"] = toFront'.control
        /\ Box'["wire"] = toFront'.wire /\ Box'["media"] = media'.queue
        /\ Box'["queue"] = host'.queue /\ Box' \in Filled
    BY <2>1, BoxThen
  <2> QED BY <1>8, <1>9, <2>2, BoxIs DEF Boxes
<1>13. \A i \in DOMAIN c : Announces(c[i], g, mode)
  BY <1>7
<1>14. DOMAIN Box'["queue"] = {}
  BY <1>12
<1>15. ASSUME NEW p \in Boxes, NEW i \in DOMAIN Box'[p]
       PROVE  \/ i \in DOMAIN Box[p] /\ Box'[p][i] = Box[p][i] /\ p # "asked"
              \/ p = "asked" /\ i \in DOMAIN c /\ Box'[p][i] = c[i]
  BY <1>12, <1>14
<1>16. \A p \in Boxes : \A i \in DOMAIN Box[p] : Box[p][i] \in OnWay /\ Box[p][i].gen <= host.gen
                                                 /\ Box[p][i].gen \in Nat
  BY <1>12, ContentsHas, MessageHas DEF OnWay
<1>17. \A k \in OnWay' : k \in OnWay \/ Announces(k, g, mode)
  BY <1>13, <1>15, <1>16 DEF OnWay, Contents
<1>18. ASSUME Unique(Box) PROVE Unique(Box)'
  <2> SUFFICES ASSUME NEW p \in Boxes, NEW q \in Boxes, NEW i \in DOMAIN Box'[p], NEW j \in DOMAIN Box'[q],
                      Same(Box'[p][i], Box'[q][j])
               PROVE  p = q /\ i = j
    BY DEF Unique
  <2>1. \A n \in Nat : n <= host.gen => n # g
    BY <1>1, <1>2
  <2>2. \A k \in DOMAIN c : c[k].gen = g
    BY <1>13 DEF Announces
  <2>3. CASE p # "asked" /\ q # "asked"
    BY <1>15, <1>18, <2>3 DEF Unique
  <2>4. CASE p = "asked" /\ q # "asked"
    BY <1>15, <1>16, <2>1, <2>2, <2>4 DEF Same
  <2>5. CASE p # "asked" /\ q = "asked"
    BY <1>15, <1>16, <2>1, <2>2, <2>5 DEF Same
  <2>6. CASE p = "asked" /\ q = "asked"
    <3>1. Opener(c[i]) /\ Opener(c[j]) /\ i \in DOMAIN c /\ j \in DOMAIN c
      BY <1>15, <2>6 DEF Same
    <3>2. i = 1 /\ j = 1
      BY <1>7, <3>1
    <3> QED BY <2>6, <3>2
  <2> QED BY <2>3, <2>4, <2>5, <2>6
<1> QED BY <1>2, <1>8, <1>9, <1>11, <1>13, <1>17, <1>18

\* The five things a worker queues a message for.
Queues(m) ==
  /\ m \in RemoteMsg /\ m.gen = host.gen /\ RemoteTypes' /\ OnWay' \subseteq OnWay \cup {m}
  /\ Unique(Box) /\ (\A k \in OnWay : ~Same(k, m)) => Unique(Box)'
  /\ host'.gen = host.gen /\ host'.mode = host.mode /\ host'.control = host.control
  /\ host'.queue = Append(host.queue, m) /\ UNCHANGED <<media, toFront, front, toHost>>
QueuesChunk(m) ==
  /\ m.kind = "chunk" /\ m.n = host.next /\ host.mode = "proxy" /\ host.worker = "start"
  /\ host.credit > 0 /\ host.next <= Blocks /\ host'.worker = "start" /\ host'.next = host.next + 1
  /\ host'.credit = host.credit - 1 /\ host'.reads = host.reads
QueuesEnd(m) ==
  /\ m.kind = "eof" /\ host.mode = "proxy" /\ host.worker = "start" /\ host'.worker = "ended"
  /\ host'.next = host.next /\ host'.credit = host.credit /\ host'.reads = host.reads
QueuesOriginal(m) ==
  /\ m.kind = "original" /\ host.mode = "original" /\ host.worker = "start"
  /\ host'.worker = "serves" /\ host'.next = host.next /\ host'.credit = host.credit
  /\ host'.reads = host.reads
QueuesRange(m) ==
  /\ m.kind = "range" /\ host.worker = "serves" /\ host.reads # <<>> /\ m.n = Head(host.reads)
  /\ host'.worker = "serves" /\ host'.next = host.next /\ host'.credit = host.credit
  /\ host'.reads = Tail(host.reads)
QueuesError(m) ==
  /\ m.kind = "error" /\ host.worker \in {"start", "serves"}
  /\ host.worker = "serves" => host.reads # <<>>
  /\ host'.worker = "ended" /\ host'.next = host.next /\ host'.credit = host.credit
  /\ host'.reads = host.reads
Worked(m) == \/ QueuesChunk(m) \/ QueuesEnd(m) \/ QueuesOriginal(m) \/ QueuesRange(m)
             \/ QueuesError(m)

LEMMA WorkDoes == ASSUME RemoteTypes, R!Worker \/ R!Fail
                  PROVE  \E m : Queues(m) /\ Worked(m)
<1>0. host.gen \in Nat /\ host.next \in Nat /\ HostType
  BY HostHas DEF RemoteTypes
<1>1. ASSUME NEW m, NEW w, NEW n, NEW c, NEW r, NEW f, QueuesMessage(m, w, n, c, r, f), m.gen = host.gen
      PROVE  /\ Queues(m) /\ host'.worker = w /\ host'.next = n /\ host'.credit = c /\ host'.reads = r
  BY <1>1, QueuedOn DEF Queues, QueuesMessage
<1>2. CASE R!Encode /\ UNCHANGED <<media, toFront, front, toHost>>
  <2>1. PICK m : m = R!Message("chunk", host.gen, host.next)
    OBVIOUS
  <2>2. m.kind = "chunk" /\ m.gen = host.gen /\ m.n = host.next
    BY <1>0, <2>1, MessageIs DEF Kinds
  <2>3. /\ host.mode = "proxy" /\ host.worker = "start" /\ host.credit > 0 /\ host.next <= Blocks
        /\ QueuesMessage(m, "start", host.next + 1, host.credit - 1, host.reads, host.failures)
    BY <1>0, <1>2, <2>1, EncodeDoes
  <2>4. /\ Queues(m) /\ host'.worker = "start" /\ host'.next = host.next + 1
        /\ host'.credit = host.credit - 1 /\ host'.reads = host.reads
    BY <1>1, <2>2, <2>3
  <2> QED BY <2>2, <2>3, <2>4 DEF Worked, QueuesChunk
<1>3. CASE R!EncodeEnd /\ UNCHANGED <<media, toFront, front, toHost>>
  <2>1. PICK m : m = R!Message("eof", host.gen, 0)
    OBVIOUS
  <2>2. m.kind = "eof" /\ m.gen = host.gen
    BY <1>0, <2>1, MessageIs DEF Kinds
  <2>3. /\ host.mode = "proxy" /\ host.worker = "start"
        /\ QueuesMessage(m, "ended", host.next, host.credit, host.reads, host.failures)
    BY <1>0, <1>3, <2>1, EncodeEndDoes
  <2>4. /\ Queues(m) /\ host'.worker = "ended" /\ host'.next = host.next
        /\ host'.credit = host.credit /\ host'.reads = host.reads
    BY <1>1, <2>2, <2>3
  <2> QED BY <2>2, <2>3, <2>4 DEF Worked, QueuesEnd
<1>4. CASE R!OpenOriginal /\ UNCHANGED <<media, toFront, front, toHost>>
  <2>1. PICK m : m = R!Message("original", host.gen, 0)
    OBVIOUS
  <2>2. m.kind = "original" /\ m.gen = host.gen
    BY <1>0, <2>1, MessageIs DEF Kinds
  <2>3. /\ host.mode = "original" /\ host.worker = "start"
        /\ QueuesMessage(m, "serves", host.next, host.credit, host.reads, host.failures)
    BY <1>0, <1>4, <2>1, OpenOriginalDoes
  <2>4. /\ Queues(m) /\ host'.worker = "serves" /\ host'.next = host.next
        /\ host'.credit = host.credit /\ host'.reads = host.reads
    BY <1>1, <2>2, <2>3
  <2> QED BY <2>2, <2>3, <2>4 DEF Worked, QueuesOriginal
<1>5. CASE R!Serve /\ UNCHANGED <<media, toFront, front, toHost>>
  <2>1. PICK m : m = R!Message("range", host.gen, Head(host.reads))
    OBVIOUS
  <2>2. /\ host.worker = "serves" /\ host.reads # <<>> /\ Head(host.reads) \in Nat
        /\ QueuesMessage(m, "serves", host.next, host.credit, Tail(host.reads), host.failures)
    BY <1>0, <1>5, <2>1, ServeDoes
  <2>3. m.kind = "range" /\ m.gen = host.gen /\ m.n = Head(host.reads)
    <3>1. PICK n \in Nat : n = Head(host.reads)
      BY <2>2
    <3>2. m = R!Message("range", host.gen, n)
      BY <2>1, <3>1
    <3> QED BY <1>0, <3>1, <3>2, MessageIs DEF Kinds
  <2>4. /\ Queues(m) /\ host'.worker = "serves" /\ host'.next = host.next
        /\ host'.credit = host.credit /\ host'.reads = Tail(host.reads)
    BY <1>1, <2>2, <2>3
  <2> QED BY <2>2, <2>3, <2>4 DEF Worked, QueuesRange
<1>6. CASE R!Fail
  <2>1. PICK m : m = R!Message("error", host.gen, 0)
    OBVIOUS
  <2>2. m.kind = "error" /\ m.gen = host.gen
    BY <1>0, <2>1, MessageIs DEF Kinds
  <2>3. /\ host.worker \in {"start", "serves"}
        /\ host.worker = "serves" => host.reads # <<>>
        /\ QueuesMessage(m, "ended", host.next, host.credit, host.reads, host.failures)
    BY <1>0, <1>6, <2>1, FailDoes
  <2>4. /\ Queues(m) /\ host'.worker = "ended" /\ host'.next = host.next
        /\ host'.credit = host.credit /\ host'.reads = host.reads
    BY <1>1, <2>2, <2>3
  <2> QED BY <2>2, <2>3, <2>4 DEF Worked, QueuesError
<1>7. \/ R!Encode /\ UNCHANGED <<media, toFront, front, toHost>>
      \/ R!EncodeEnd /\ UNCHANGED <<media, toFront, front, toHost>>
      \/ R!OpenOriginal /\ UNCHANGED <<media, toFront, front, toHost>>
      \/ R!Serve /\ UNCHANGED <<media, toFront, front, toHost>>
      \/ R!Fail
  BY DEF R!Worker
<1> QED BY <1>2, <1>3, <1>4, <1>5, <1>6, <1>7

-----------------------------------------------------------------------------
\* Generations only rise, and what announces one is no data.
Gens ==
  /\ host.gen > 0 /\ front.gen <= host.gen /\ host.next \in 1 .. (Blocks + 1)
  /\ \A k \in OnWay : 0 < k.gen /\ k.gen <= host.gen
  /\ \A i \in DOMAIN toHost : toHost[i].gen <= host.gen
  /\ \A i \in DOMAIN host.queue : host.queue[i].gen = host.gen
  /\ \A i \in DOMAIN host.control : Announces(host.control[i], host.gen, host.mode)
  /\ \A i \in DOMAIN toFront.control : toFront.control[i].kind \in {"open", "control"}

\* Nothing of a generation is there before the frontend has opened it.
Untouched(g) ==
  /\ front.gen # g
  /\ \A k \in OnWay : k.gen = g => ~Data(k)
  /\ \A i \in DOMAIN toHost : toHost[i].gen = g => toHost[i].kind \notin {"credit", "read"}
  /\ host.gen = g => host.credit = 0 /\ host.reads = <<>> /\ host.next = 1
Starting == host.mode = "original" /\ host.worker = "start"
Fresh == /\ \A k \in OnWay : Opener(k) => Untouched(k.gen)
         /\ \A g \in Nat : Starting /\ host.gen = g => Untouched(g)
\* Who opens the host's generation.
Kindly == \A k \in OnWay : Opener(k) /\ k.gen = host.gen =>
            /\ k.kind = "original" <=> host.mode = "original"
            /\ ~Starting
Base == RemoteTypes /\ Gens /\ Fresh /\ Kindly /\ Unique(Box)

LEMMA BaseHas == ASSUME Base
                 PROVE  /\ RemoteTypes /\ Gens /\ Fresh /\ Kindly /\ Unique(Box)
                        /\ host.gen \in Nat /\ front.gen \in Nat /\ host.next \in Nat
                        /\ host.mode \in {"proxy", "original"} /\ host.credit \in Nat
                        /\ host.queue \in Seq(RemoteMsg) /\ host.reads \in Seq(Nat)
                        /\ toHost \in Seq(RemoteMsg) /\ media.queue \in Seq(RemoteMsg)
                        /\ toFront.wire \in Seq(RemoteMsg) /\ toFront.control \in Seq(RemoteMsg)
                        /\ \A k \in OnWay : k \in RemoteMsg /\ k.gen \in Nat
BY HostHas, FrontHas, QueuesHave, WayHas, MessageHas DEF Base, RemoteTypes, ToHostType

LEMMA BaseWork == ASSUME Base, NEW m, Queues(m), Worked(m) PROVE Base'
<1>1. /\ Gens /\ Fresh /\ Kindly /\ Unique(Box) /\ host.gen \in Nat /\ host.next \in Nat
      /\ host.queue \in Seq(RemoteMsg) /\ host.mode \in {"proxy", "original"} /\ Blocks \in Nat
  BY BaseHas, RemoteConstants
<1>2. /\ m \in RemoteMsg /\ m.gen = host.gen /\ RemoteTypes' /\ OnWay' \subseteq OnWay \cup {m}
      /\ host'.gen = host.gen /\ host'.mode = host.mode /\ host'.control = host.control
      /\ host'.queue = Append(host.queue, m) /\ UNCHANGED <<media, toFront, front, toHost>>
  BY DEF Queues
<1>3. host'.next \in 1 .. (Blocks + 1)
  BY <1>1 DEF Gens, Worked, QueuesChunk, QueuesEnd, QueuesOriginal, QueuesRange, QueuesError
<1>4. Gens'
  <2>1. \A i \in DOMAIN host'.queue : host'.queue[i].gen = host'.gen
    BY <1>1, <1>2, AppendPlaces DEF Gens
  <2>2. \A k \in OnWay' : 0 < k.gen /\ k.gen <= host'.gen
    BY <1>1, <1>2 DEF Gens
  <2> QED BY <1>1, <1>2, <1>3, <2>1, <2>2 DEF Gens
\* The worker does no more than open what is not opened.
<1>5. \/ ~Untouched(host.gen)
      \/ /\ ~Data(m) /\ host'.next = host.next /\ host'.credit = host.credit
         /\ host'.reads = host.reads
  BY <1>1 DEF Worked, QueuesChunk, QueuesEnd, QueuesOriginal, QueuesRange, QueuesError, Data, Untouched
<1>6. ASSUME NEW g \in Nat, Untouched(g) PROVE Untouched(g)'
  <2>1. CASE g = host.gen
    BY <1>2, <1>5, <1>6, <2>1 DEF Untouched
  <2>2. CASE g # host.gen
    BY <1>2, <1>6, <2>2 DEF Untouched
  <2> QED BY <2>1, <2>2
<1>7. Opener(m) => Starting
  BY DEF Worked, QueuesChunk, QueuesEnd, QueuesOriginal, QueuesRange, QueuesError, Opener, Starting
<1>8. ~Starting'
  BY <1>2 DEF Worked, QueuesChunk, QueuesEnd, QueuesOriginal, QueuesRange, QueuesError, Starting
<1>9. Opener(m) => m.kind = "original" /\ host.mode = "original"
  BY DEF Worked, QueuesChunk, QueuesEnd, QueuesOriginal, QueuesRange, QueuesError, Opener
<1>10. Fresh'
  <2>1. ASSUME NEW k \in OnWay', Opener(k) PROVE Untouched(k.gen)'
    <3>1. k.gen \in Nat
      BY <1>1, <1>2, BaseHas
    <3>2. Untouched(k.gen)
      BY <1>1, <1>2, <1>7, <2>1, <3>1 DEF Fresh
    <3> QED BY <1>6, <3>1, <3>2
  <2> QED BY <1>8, <2>1 DEF Fresh
<1>11. Kindly'
  BY <1>1, <1>2, <1>8, <1>9 DEF Kindly
<1>12. Unique(Box)'
  <2>1. ASSUME NEW k \in OnWay, Same(k, m) PROVE FALSE
    BY <1>1, <1>2, <1>7, <2>1 DEF Same, Kindly
  <2> QED BY <1>1, <2>1 DEF Queues
<1> QED BY <1>2, <1>4, <1>10, <1>11, <1>12 DEF Base

LEMMA UntouchedPasses ==
  ASSUME NEW g, Untouched(g), OnWay' \subseteq OnWay, front'.gen = front.gen,
         \A i \in DOMAIN toHost' : \E j \in DOMAIN toHost : toHost'[i] = toHost[j],
         host'.gen = host.gen, host'.next = host.next,
         host.gen = g => host'.credit = host.credit /\ host'.reads = host.reads
  PROVE  Untouched(g)'
BY DEF Untouched

LEMMA BasePass ==
  ASSUME Base, Passes,
         \A i \in DOMAIN host'.control : \E j \in DOMAIN host.control : host'.control[i] = host.control[j],
         \A i \in DOMAIN host'.queue : \E j \in DOMAIN host.queue : host'.queue[i] = host.queue[j],
         \A i \in DOMAIN toFront'.control : toFront'.control[i].kind \in {"open", "control"}
  PROVE  Base'
<1>1. /\ Gens /\ Fresh /\ Kindly /\ Unique(Box) /\ host.gen \in Nat
  BY BaseHas
<1>2. /\ RemoteTypes' /\ OnWay' \subseteq OnWay /\ UNCHANGED <<front, toHost>> /\ Unique(Box)'
      /\ host'.gen = host.gen /\ host'.mode = host.mode /\ host'.worker = host.worker
      /\ host'.next = host.next /\ host'.credit = host.credit /\ host'.reads = host.reads
  BY <1>1 DEF Passes, Stays
<1>3. Gens'
  BY <1>1, <1>2 DEF Gens
<1>4. \A g : Untouched(g) => Untouched(g)'
  BY <1>2, UntouchedPasses
<1>5. Fresh'
  BY <1>1, <1>2, <1>4 DEF Fresh, Starting
<1>6. Kindly'
  BY <1>1, <1>2 DEF Kindly, Starting
<1> QED BY <1>2, <1>3, <1>5, <1>6 DEF Base

LEMMA BoxStays == ASSUME UNCHANGED <<media, toFront>>, host'.control = host.control, host'.queue = host.queue
                  PROVE  Box' = Box /\ OnWay' = OnWay
<1>1. Box' = Box
  BY DEF Box
<1> QED BY <1>1 DEF OnWay

LEMMA ShorterHas == ASSUME NEW A, NEW q \in Seq(A), NEW r \in Seq(A), Shorter(q, r)
                    PROVE  \A i \in DOMAIN r : i + 1 \in DOMAIN q /\ r[i] = q[i + 1] /\ i \in Nat
<1>1. DOMAIN r = 1 .. Len(r) /\ DOMAIN q = 1 .. Len(q) /\ Len(r) \in Nat
  OBVIOUS
<1> QED BY <1>1 DEF Shorter

LEMMA BaseHear ==
  ASSUME Base, RemoteTypes', Hears, HearsRead \/ HearsCredit \/ HearsOther
  PROVE  Base'
<1>1. /\ Gens /\ Fresh /\ Kindly /\ Unique(Box) /\ host.gen \in Nat
      /\ toHost \in Seq(RemoteMsg) /\ toHost' \in Seq(RemoteMsg)
  BY BaseHas DEF RemoteTypes, ToHostType
<1>2. /\ UNCHANGED <<media, toFront, front>> /\ Shorter(toHost, toHost') /\ 1 \in DOMAIN toHost
      /\ host'.gen = host.gen /\ host'.mode = host.mode /\ host'.control = host.control
      /\ host'.worker = host.worker /\ host'.next = host.next /\ host'.queue = host.queue
  BY DEF Hears
<1>3. Box' = Box /\ OnWay' = OnWay
  BY <1>2, BoxStays
<1>4. \A i \in DOMAIN toHost' : \E j \in DOMAIN toHost : toHost'[i] = toHost[j]
  BY <1>1, <1>2, ShorterHas
<1>5. Gens'
  BY <1>1, <1>2, <1>3, <1>4 DEF Gens
<1>6. ASSUME NEW g, Untouched(g) PROVE Untouched(g)'
  <2>1. host.gen = g => host'.credit = host.credit /\ host'.reads = host.reads
    BY <1>2, <1>6 DEF Untouched, HearsRead, HearsCredit, HearsOther
  <2> QED BY <1>2, <1>3, <1>4, <1>6, <2>1, UntouchedPasses
<1>7. Fresh'
  BY <1>1, <1>2, <1>3, <1>6 DEF Fresh, Starting
<1>8. Kindly'
  BY <1>1, <1>2, <1>3 DEF Kindly, Starting
<1>9. Unique(Box)'
  BY <1>1, <1>3 DEF Unique
<1> QED BY <1>5, <1>7, <1>8, <1>9 DEF Base

\* What the frontend says adds one message to those on their way.
LEMMA TellsHas ==
  ASSUME ToHostType, NEW kind, NEW g, NEW n, Tells(kind, g, n)
  PROVE  \A i \in DOMAIN toHost' :
           \/ i \in DOMAIN toHost /\ toHost'[i] = toHost[i]
           \/ /\ i = Len(toHost) + 1
              /\ toHost'[i].kind = kind /\ toHost'[i].gen = g /\ toHost'[i].n = n
<1>1. PICK t \in RemoteMsg : t.kind = kind /\ t.gen = g /\ t.n = n /\ toHost' = Append(toHost, t)
  BY DEF Tells
<1>2. toHost \in Seq(RemoteMsg)
  BY DEF ToHostType
<1> QED BY <1>1, <1>2, AppendPlaces

LEMMA BaseOwn ==
  ASSUME Base, RemoteTypes', KeepsPlace,
         \/ UNCHANGED toHost
         \/ \E kind, n : Tells(kind, front.gen, n)
  PROVE  Base'
<1>1. /\ Gens /\ Fresh /\ Kindly /\ Unique(Box) /\ ToHostType
  BY BaseHas DEF RemoteTypes
<1>2. UNCHANGED <<host, media, toFront>> /\ front'.gen = front.gen
  BY DEF KeepsPlace
<1>3. Box' = Box /\ OnWay' = OnWay
  BY <1>2, BoxStays
<1>4. \A i \in DOMAIN toHost' : \/ \E j \in DOMAIN toHost : toHost'[i] = toHost[j]
                                \/ toHost'[i].gen = front.gen
  BY <1>1, TellsHas
<1>5. Gens'
  BY <1>1, <1>2, <1>3, <1>4 DEF Gens
<1>6. ASSUME NEW g, Untouched(g) PROVE Untouched(g)'
  BY <1>2, <1>3, <1>4, <1>6 DEF Untouched
<1>7. Fresh'
  BY <1>1, <1>2, <1>3, <1>6 DEF Fresh, Starting
<1>8. Kindly'
  BY <1>1, <1>2, <1>3 DEF Kindly, Starting
<1>9. Unique(Box)'
  BY <1>1, <1>3 DEF Unique
<1> QED BY <1>5, <1>7, <1>8, <1>9 DEF Base

LEMMA BaseTake ==
  ASSUME Base, RemoteTypes', Takes, NEW m, m = toFront.wire[1],
         \/ front'.gen = front.gen /\ UNCHANGED toHost
         \/ /\ front'.gen = 0
            /\ toHost' = toHost \/ Tells("over", m.gen, 0)
         \/ /\ Opener(m) /\ front'.gen = m.gen
            /\ toHost' = toHost \/ Tells("credit", m.gen, Window)
  PROVE  Base'
<1>1. /\ Gens /\ Fresh /\ Kindly /\ Unique(Box) /\ ToHostType /\ host.gen \in Nat /\ front.gen \in Nat
  BY BaseHas DEF RemoteTypes
<1>2. /\ UNCHANGED <<host, media>> /\ OnWay' \subseteq OnWay /\ Unique(Box)'
      /\ toFront'.control = toFront.control /\ \A k \in OnWay' : ~Same(k, m)
  BY <1>1 DEF Takes
<1>3. m \in OnWay /\ m.gen <= host.gen /\ 0 < m.gen /\ m.gen \in Nat
  BY <1>1, BaseHas, WayHas DEF Takes, Gens
<1>4. \A i \in DOMAIN toHost' : \/ \E j \in DOMAIN toHost : toHost'[i] = toHost[j]
                                \/ toHost'[i].gen = m.gen
  BY <1>1, TellsHas
<1>5. Gens'
  <2>1. \A i \in DOMAIN toHost' : toHost'[i].gen <= host.gen
    BY <1>1, <1>3, <1>4 DEF Gens
  <2>2. front'.gen <= host.gen
    BY <1>1, <1>3 DEF Gens
  <2> QED BY <1>1, <1>2, <2>1, <2>2 DEF Gens
<1>6. ASSUME NEW g \in Nat, g > 0, Untouched(g), Opener(m) => m.gen # g PROVE Untouched(g)'
  <2>1. front'.gen # g
    BY <1>6 DEF Untouched
  <2>2. \A i \in DOMAIN toHost' : toHost'[i].gen = g => toHost'[i].kind \notin {"credit", "read"}
    <3>1. \A i \in DOMAIN toHost' : \/ \E j \in DOMAIN toHost : toHost'[i] = toHost[j]
                                    \/ toHost'[i].gen = m.gen /\ toHost'[i].kind = "over"
                                    \/ toHost'[i].gen = m.gen /\ Opener(m)
      BY <1>1, TellsHas
    <3> QED BY <1>6, <3>1 DEF Untouched
  <2> QED BY <1>2, <1>6, <2>1, <2>2 DEF Untouched
<1>7. Fresh'
  <2>1. ASSUME NEW k \in OnWay', Opener(k) PROVE Untouched(k.gen)'
    <3>1. k \in OnWay /\ k.gen \in Nat /\ k.gen > 0 /\ Untouched(k.gen)
      BY <1>1, <1>2, <2>1, BaseHas DEF Fresh, Gens
    <3>2. Opener(m) => m.gen # k.gen
      BY <1>2, <2>1 DEF Same
    <3> QED BY <1>6, <3>1, <3>2
  <2>2. ASSUME NEW g \in Nat, Starting', host'.gen = g PROVE Untouched(g)'
    <3>1. Starting /\ host.gen = g /\ g > 0 /\ Untouched(g)
      BY <1>1, <1>2, <2>2 DEF Fresh, Starting, Gens
    <3>2. Opener(m) => m.gen # g
      BY <1>1, <1>3, <3>1 DEF Kindly
    <3> QED BY <1>6, <3>1, <3>2
  <2> QED BY <2>1, <2>2 DEF Fresh
<1>8. Kindly'
  BY <1>1, <1>2 DEF Kindly, Starting
<1> QED BY <1>2, <1>5, <1>7, <1>8 DEF Base

LEMMA BaseRestart ==
  ASSUME Base, NEW mode \in {"proxy", "original"}, R!Restart(mode)
  PROVE  Base'
<1>1. /\ Gens /\ Fresh /\ Kindly /\ Unique(Box) /\ host.gen \in Nat /\ front.gen \in Nat
      /\ Blocks \in Nat /\ toHost \in Seq(RemoteMsg)
  BY BaseHas, RemoteConstants
<1>2. \A k \in OnWay : k.gen <= host.gen /\ k.gen \in Nat
  BY <1>1, BaseHas DEF Gens
<1>3. /\ RemoteTypes' /\ UNCHANGED <<media, toFront, front, toHost>>
      /\ host'.gen = host.gen + 1 /\ host'.mode = mode /\ host'.worker = "start"
      /\ host'.next = 1 /\ host'.credit = 0 /\ host'.queue = <<>> /\ host'.reads = <<>>
      /\ \A i \in DOMAIN host'.control : Announces(host'.control[i], host.gen + 1, mode)
      /\ \A k \in OnWay' : k \in OnWay \/ Announces(k, host.gen + 1, mode)
      /\ Unique(Box)'
  BY <1>1, <1>2, BaseHas, RestartDoes
<1>4. \A n \in Nat : n <= host.gen => n # host.gen + 1 /\ n <= host.gen + 1
  BY <1>1
<1>5. \A i \in DOMAIN toHost : toHost[i].gen \in Nat
  BY <1>1, MessageHas
<1>6. Gens'
  <2>1. DOMAIN host'.queue = {}
    BY <1>3
  <2>2. \A k \in OnWay' : 0 < k.gen /\ k.gen <= host'.gen
    BY <1>1, <1>2, <1>3, <1>4 DEF Gens, Announces
  <2>3. host'.next \in 1 .. (Blocks + 1) /\ host'.gen > 0 /\ front'.gen <= host'.gen
    BY <1>1, <1>3 DEF Gens
  <2>4. \A i \in DOMAIN toHost' : toHost'[i].gen <= host'.gen
    BY <1>1, <1>3, <1>4, <1>5 DEF Gens
  <2> QED BY <1>1, <1>3, <2>1, <2>2, <2>3, <2>4 DEF Gens
<1>7. ASSUME NEW g \in Nat, g = host'.gen PROVE Untouched(g)'
  <2>1. front'.gen # g /\ (\A i \in DOMAIN toHost' : toHost'[i].gen # g)
    BY <1>1, <1>3, <1>4, <1>5, <1>7 DEF Gens
  <2>2. \A k \in OnWay' : k.gen = g => ~Data(k)
    BY <1>2, <1>3, <1>4, <1>7 DEF Announces, Data
  <2> QED BY <1>3, <2>1, <2>2 DEF Untouched
<1>8. ASSUME NEW g \in Nat, g <= host.gen, Untouched(g) PROVE Untouched(g)'
  <2>1. host'.gen # g
    BY <1>3, <1>4, <1>8
  <2>2. \A k \in OnWay' : k.gen = g => ~Data(k)
    BY <1>3, <1>8 DEF Announces, Data, Untouched
  <2> QED BY <1>3, <1>8, <2>1, <2>2 DEF Untouched
<1>9. Fresh'
  <2>1. ASSUME NEW k \in OnWay', Opener(k) PROVE Untouched(k.gen)'
    <3>1. CASE k \in OnWay
      BY <1>1, <1>2, <1>8, <2>1, <3>1 DEF Fresh
    <3>2. CASE Announces(k, host.gen + 1, mode)
      BY <1>1, <1>3, <1>7, <3>2 DEF Announces
    <3> QED BY <1>3, <3>1, <3>2
  <2> QED BY <1>7, <2>1 DEF Fresh
<1>10. Kindly'
  <2> SUFFICES ASSUME NEW k \in OnWay', Opener(k), k.gen = host'.gen
               PROVE  (k.kind = "original" <=> host'.mode = "original") /\ ~Starting'
    BY DEF Kindly
  <2>1. Announces(k, host.gen + 1, mode)
    BY <1>2, <1>3, <1>4
  <2>2. k.kind = "open" /\ mode = "proxy"
    BY <2>1 DEF Announces, Opener
  <2> QED BY <1>3, <2>2 DEF Starting
<1> QED BY <1>3, <1>6, <1>9, <1>10 DEF Base

-----------------------------------------------------------------------------
\* What an original's worker opens it with, and any error, is the last of its generation.
Final(g, k) == k.gen = g /\ k.kind \in {"original", "error"}
ErrorLast == \A k \in OnWay : Final(host.gen, k) /\ k.kind = "error" => host.worker = "ended"
QueueLast == \A i \in DOMAIN host.queue : Final(host.gen, host.queue[i]) => i = Len(host.queue)
MediaLast == \A i \in DOMAIN media.queue :
               Final(host.gen, media.queue[i]) => i = Len(media.queue) /\ host.queue = <<>>
WireLast == \A i \in DOMAIN toFront.wire : Final(host.gen, toFront.wire[i]) =>
  /\ media.queue = <<>> /\ host.queue = <<>>
  /\ toFront.wire[i].kind = "original" =>
       /\ \A j \in DOMAIN toFront.wire : i < j => ~Opener(toFront.wire[j])
       /\ \A j \in DOMAIN toFront.control : ~Opener(toFront.control[j])
Last == ErrorLast /\ QueueLast /\ MediaLast /\ WireLast

LEMMA NoFinal == ASSUME Base, Last, NEW m, Queues(m), Worked(m)
                 PROVE  \A k \in OnWay : ~Final(host.gen, k)
<1> SUFFICES ASSUME NEW k \in OnWay, Final(host.gen, k) PROVE FALSE
  OBVIOUS
<1>1. Gens /\ Fresh /\ Kindly /\ host.gen \in Nat /\ host.mode \in {"proxy", "original"}
  BY BaseHas
<1>2. host.worker # "ended"
  BY DEF Worked, QueuesChunk, QueuesEnd, QueuesOriginal, QueuesRange, QueuesError
<1>3. k.kind = "original" /\ k.gen = host.gen
  BY <1>2 DEF Last, ErrorLast, Final
<1>4. Opener(k)
  BY <1>3 DEF Opener
<1>5. host.mode = "original" /\ ~Starting
  BY <1>1, <1>3, <1>4 DEF Kindly
<1>6. Untouched(host.gen)
  BY <1>1, <1>3, <1>4 DEF Fresh
<1>7. host.reads = <<>>
  BY <1>6 DEF Untouched
<1> QED BY <1>2, <1>5, <1>7
        DEF Worked, QueuesChunk, QueuesEnd, QueuesOriginal, QueuesRange, QueuesError, Starting

LEMMA LastWork == ASSUME Base, Last, NEW m, Queues(m), Worked(m) PROVE Last'
<1>1. \A k \in OnWay : ~Final(host.gen, k)
  BY NoFinal
<1>2. /\ host'.gen = host.gen /\ OnWay' \subseteq OnWay \cup {m} /\ host.queue \in Seq(RemoteMsg)
      /\ host'.queue = Append(host.queue, m) /\ UNCHANGED <<media, toFront>> /\ m \in RemoteMsg
  BY BaseHas DEF Queues
<1>3. /\ \A i \in DOMAIN toFront.wire : ~Final(host.gen, toFront.wire[i])
      /\ \A i \in DOMAIN media.queue : ~Final(host.gen, media.queue[i])
      /\ \A i \in DOMAIN host.queue : ~Final(host.gen, host.queue[i])
  BY <1>1, WayHas, BaseHas
<1>4. ErrorLast'
  <2>1. m.kind = "error" => host'.worker = "ended"
    BY DEF Worked, QueuesChunk, QueuesEnd, QueuesOriginal, QueuesRange, QueuesError
  <2> QED BY <1>1, <1>2, <2>1 DEF ErrorLast
<1>5. QueueLast'
  BY <1>2, <1>3, AppendPlaces DEF QueueLast
<1>6. MediaLast' /\ WireLast'
  BY <1>2, <1>3 DEF MediaLast, WireLast
<1> QED BY <1>4, <1>5, <1>6 DEF Last

LEMMA JoinedHas ==
  ASSUME NEW A, NEW q \in Seq(A), NEW r \in Seq(A), NEW s \in Seq(A), Joined(q, r, s)
  PROVE  /\ \A i \in DOMAIN s : \/ i \in DOMAIN q /\ s[i] = q[i]
                                \/ \E j \in DOMAIN r : i = Len(q) + j /\ s[i] = r[j]
         /\ \A i \in DOMAIN q : i \in DOMAIN s /\ s[i] = q[i]
         /\ \A i \in DOMAIN r : Len(q) + i \in DOMAIN s /\ s[Len(q) + i] = r[i]
         /\ Len(s) = Len(q) + Len(r) /\ Len(q) \in Nat /\ Len(r) \in Nat
<1>1. /\ Len(s) = Len(q) + Len(r) /\ Len(q) \in Nat /\ Len(r) \in Nat /\ Len(s) \in Nat
      /\ DOMAIN s = 1 .. Len(s) /\ DOMAIN q = 1 .. Len(q) /\ DOMAIN r = 1 .. Len(r)
      /\ \A i \in DOMAIN q : s[i] = q[i]
      /\ \A i \in DOMAIN r : s[Len(q) + i] = r[i]
  BY DEF Joined
<1>2. PICK a \in Nat : a = Len(q)
  BY <1>1
<1>3. PICK b \in Nat : b = Len(r)
  BY <1>1
<1>4. \A i \in 1 .. (a + b) : i \notin 1 .. a => \E j \in 1 .. b : i = a + j
  <2> SUFFICES ASSUME NEW i \in 1 .. (a + b), i \notin 1 .. a PROVE \E j \in 1 .. b : i = a + j
    OBVIOUS
  <2>1. i - a \in 1 .. b /\ i = a + (i - a)
    OBVIOUS
  <2> QED BY <2>1
<1>5. (\A i \in 1 .. a : i \in 1 .. (a + b)) /\ (\A i \in 1 .. b : a + i \in 1 .. (a + b))
  OBVIOUS
<1>6. DOMAIN s = 1 .. (a + b) /\ DOMAIN q = 1 .. a /\ DOMAIN r = 1 .. b
  BY <1>1, <1>2, <1>3
<1>7. ASSUME NEW i \in DOMAIN s, i \notin DOMAIN q PROVE \E j \in DOMAIN r : i = Len(q) + j /\ s[i] = r[j]
  <2>1. PICK j \in 1 .. b : i = a + j
    BY <1>4, <1>6, <1>7
  <2>2. j \in DOMAIN r /\ i = Len(q) + j /\ s[Len(q) + j] = r[j]
    BY <1>1, <1>2, <1>6, <2>1
  <2> QED BY <2>2
<1>8. /\ \A i \in DOMAIN q : i \in DOMAIN s /\ s[i] = q[i]
      /\ \A i \in DOMAIN r : Len(q) + i \in DOMAIN s /\ s[Len(q) + i] = r[i]
  BY <1>1, <1>2, <1>5, <1>6
<1> QED BY <1>1, <1>7, <1>8

LEMMA LongerHas ==
  ASSUME NEW A, NEW q \in Seq(A), NEW r \in Seq(A), NEW d, Longer(q, r, d)
  PROVE  /\ \A i \in DOMAIN r : \/ i \in DOMAIN q /\ r[i] = q[i]
                                \/ i = Len(q) + 1 /\ r[i] = d
         /\ \A i \in DOMAIN q : i \in DOMAIN r /\ r[i] = q[i]
         /\ Len(q) + 1 \in DOMAIN r /\ r[Len(q) + 1] = d /\ Len(q) \in Nat
<1>1. /\ Len(r) = Len(q) + 1 /\ Len(q) \in Nat /\ DOMAIN q = 1 .. Len(q) /\ DOMAIN r = 1 .. (Len(q) + 1)
      /\ r[Len(q) + 1] = d /\ \A i \in DOMAIN q : r[i] = q[i]
  BY DEF Longer
<1>2. PICK a \in Nat : a = Len(q)
  BY <1>1
<1>3. \A i \in 1 .. (a + 1) : i \in 1 .. a \/ i = a + 1
  OBVIOUS
<1>4. a + 1 \in 1 .. (a + 1) /\ \A i \in 1 .. a : i \in 1 .. (a + 1)
  OBVIOUS
<1> QED BY <1>1, <1>2, <1>3, <1>4

\* The controls on their way announce generations; none is final.
LEMMA ControlsPlain ==
  ASSUME Base
  PROVE  /\ \A i \in DOMAIN host.control : ~\E g : Final(g, host.control[i])
         /\ \A i \in DOMAIN toFront.control : ~\E g : Final(g, toFront.control[i])
         /\ host.mode = "original" => \A i \in DOMAIN host.control : ~Opener(host.control[i])
<1>1. Gens
  BY BaseHas
<1> QED BY <1>1 DEF Gens, Announces, Final, Opener

LEMMA LastEffects == ASSUME Base, Last, R!Effects PROVE Last'
<1>1. /\ Passes /\ UNCHANGED media /\ host'.queue = host.queue /\ toFront'.wire = toFront.wire
      /\ host'.control = <<>> /\ Joined(toFront.control, host.control, toFront'.control)
      /\ RemoteTypes /\ RemoteTypes' /\ host'.gen = host.gen /\ host'.worker = host.worker
      /\ OnWay' \subseteq OnWay
  BY EffectsDoes, BaseHas DEF Passes, Stays
<1>2. /\ toFront.control \in Seq(RemoteMsg) /\ host.control \in Seq(RemoteMsg)
      /\ toFront'.control \in Seq(RemoteMsg)
  BY <1>1, HostHas, QueuesHave DEF RemoteTypes, ToFrontType
<1>3. ASSUME NEW i \in DOMAIN toFront'.wire, Final(host.gen, toFront.wire[i]),
             toFront.wire[i].kind = "original", NEW j \in DOMAIN toFront'.control
      PROVE  ~Opener(toFront'.control[j])
  <2>1. Kindly /\ toFront.wire[i] \in OnWay /\ Opener(toFront.wire[i])
    BY <1>1, <1>3, BaseHas, WayHas DEF Opener
  <2>2. host.mode = "original"
    BY <1>3, <2>1 DEF Kindly, Final
  <2>3. \A k \in DOMAIN toFront.control : ~Opener(toFront.control[k])
    BY <1>1, <1>3 DEF Last, WireLast
  <2>4. \A k \in DOMAIN host.control : ~Opener(host.control[k])
    BY <2>2, ControlsPlain
  <2>5. \A k \in DOMAIN toFront'.control :
          \/ k \in DOMAIN toFront.control /\ toFront'.control[k] = toFront.control[k]
          \/ \E l \in DOMAIN host.control : k = Len(toFront.control) + l
                                           /\ toFront'.control[k] = host.control[l]
    BY <1>1, <1>2, JoinedHas
  <2> QED BY <1>3, <2>3, <2>4, <2>5
<1>4. WireLast'
  BY <1>1, <1>3 DEF Last, WireLast
<1> QED BY <1>1, <1>4 DEF Last, ErrorLast, QueueLast, MediaLast

LEMMA LastDrain == ASSUME Base, Last, Fits, R!Drain PROVE Last'
<1>1. /\ Passes /\ UNCHANGED toFront /\ host'.control = host.control /\ host.queue # <<>>
      /\ RemoteTypes /\ RemoteTypes' /\ host'.gen = host.gen /\ host'.worker = host.worker
      /\ OnWay' \subseteq OnWay
  BY DrainDoes, BaseHas DEF Passes, Stays
<1>2. PICK h \in Seq(RemoteMsg) : Joined(h, host'.queue, host.queue) /\ Joined(media.queue, h, media'.queue)
  BY <1>1, DrainDoes
<1>3. /\ host.queue \in Seq(RemoteMsg) /\ host'.queue \in Seq(RemoteMsg)
      /\ media.queue \in Seq(RemoteMsg) /\ media'.queue \in Seq(RemoteMsg)
  BY <1>1, HostHas, QueuesHave DEF RemoteTypes, HostType, HostSet, MediaType
<1>4. /\ \A i \in DOMAIN media.queue : ~Final(host.gen, media.queue[i])
      /\ \A i \in DOMAIN toFront.wire : ~Final(host.gen, toFront.wire[i])
  BY <1>1 DEF Last, MediaLast, WireLast
<1>5. /\ Len(host.queue) = Len(h) + Len(host'.queue) /\ Len(h) \in Nat /\ Len(host'.queue) \in Nat
      /\ DOMAIN host'.queue = 1 .. Len(host'.queue) /\ DOMAIN h = 1 .. Len(h)
      /\ Len(media'.queue) = Len(media.queue) + Len(h) /\ Len(media.queue) \in Nat
  BY <1>2, <1>3 DEF Joined
<1>6. PICK a \in Nat : a = Len(h)
  BY <1>5
<1>7. PICK b \in Nat : b = Len(host'.queue)
  BY <1>5
<1>8. QueueLast'
  <2> SUFFICES ASSUME NEW i \in DOMAIN host'.queue, Final(host.gen, host'.queue[i])
               PROVE  i = Len(host'.queue)
    BY <1>1 DEF QueueLast
  <2>1. Len(h) + i \in DOMAIN host.queue /\ host.queue[Len(h) + i] = host'.queue[i]
    BY <1>2, <1>3, JoinedHas
  <2>2. Len(h) + i = Len(host.queue)
    BY <2>1 DEF Last, QueueLast
  <2> QED BY <1>5, <2>2
<1>9. MediaLast'
  <2> SUFFICES ASSUME NEW i \in DOMAIN media'.queue, Final(host.gen, media'.queue[i])
               PROVE  i = Len(media'.queue) /\ host'.queue = <<>>
    BY <1>1 DEF MediaLast
  <2>0. \/ i \in DOMAIN media.queue /\ media'.queue[i] = media.queue[i]
        \/ \E j \in DOMAIN h : i = Len(media.queue) + j /\ media'.queue[i] = h[j]
    BY <1>2, <1>3, JoinedHas
  <2>1. PICK j \in DOMAIN h : i = Len(media.queue) + j /\ media'.queue[i] = h[j]
    BY <1>4, <2>0
  <2>2. j \in DOMAIN host.queue /\ host.queue[j] = h[j]
    BY <1>2, <1>3, JoinedHas
  <2>3. j = Len(host.queue)
    BY <2>1, <2>2 DEF Last, QueueLast
  <2>4. j \in 1 .. a /\ j = a + b
    BY <1>5, <1>6, <1>7, <2>3
  <2>5. b = 0 /\ j = a
    BY <2>4
  <2>6. host'.queue = <<>>
    <3>1. \A q \in Seq(RemoteMsg) : Len(q) = 0 => q = <<>>
      OBVIOUS
    <3> QED BY <1>3, <1>7, <2>5, <3>1
  <2> QED BY <1>5, <1>6, <2>1, <2>5, <2>6
<1>10. WireLast' /\ ErrorLast'
  BY <1>1, <1>4 DEF Last, WireLast, ErrorLast
<1> QED BY <1>8, <1>9, <1>10 DEF Last

LEMMA LastWrite == ASSUME Base, Last, Passes, WritesControl \/ WritesMedia PROVE Last'
<1>1. /\ RemoteTypes /\ RemoteTypes' /\ host'.gen = host.gen /\ host'.worker = host.worker
      /\ OnWay' \subseteq OnWay /\ UNCHANGED host /\ Gens
  BY BaseHas DEF Passes, Stays, WritesControl, WritesMedia
<1>2. /\ toFront.wire \in Seq(RemoteMsg) /\ toFront'.wire \in Seq(RemoteMsg)
      /\ toFront.control \in Seq(RemoteMsg) /\ toFront'.control \in Seq(RemoteMsg)
      /\ media.queue \in Seq(RemoteMsg) /\ media'.queue \in Seq(RemoteMsg)
  BY <1>1, QueuesHave DEF RemoteTypes, MediaType, ToFrontType
<1>3. ErrorLast' /\ QueueLast'
  BY <1>1 DEF Last, ErrorLast, QueueLast
<1>4. CASE WritesControl
  <2>1. /\ UNCHANGED media /\ Shorter(toFront.control, toFront'.control)
        /\ Longer(toFront.wire, toFront'.wire, toFront.control[1]) /\ 1 \in DOMAIN toFront.control
    BY <1>4 DEF WritesControl
  <2>2. ~Final(host.gen, toFront.control[1])
    BY <2>1, ControlsPlain
  <2>3. \A i \in DOMAIN toFront'.wire : \/ i \in DOMAIN toFront.wire /\ toFront'.wire[i] = toFront.wire[i]
                                        \/ i = Len(toFront.wire) + 1 /\ toFront'.wire[i] = toFront.control[1]
    BY <1>2, <2>1, LongerHas
  <2>4. \A i \in DOMAIN toFront'.control : toFront'.control[i] = toFront.control[i + 1]
                                           /\ i + 1 \in DOMAIN toFront.control
    BY <1>2, <2>1, ShorterHas
  <2>5. WireLast'
    <3> SUFFICES ASSUME NEW i \in DOMAIN toFront'.wire, Final(host.gen, toFront'.wire[i])
                 PROVE  /\ media.queue = <<>> /\ host.queue = <<>>
                        /\ toFront'.wire[i].kind = "original" =>
                             /\ \A j \in DOMAIN toFront'.wire : i < j => ~Opener(toFront'.wire[j])
                             /\ \A j \in DOMAIN toFront'.control : ~Opener(toFront'.control[j])
      BY <1>1, <2>1 DEF WireLast
    <3>1. i \in DOMAIN toFront.wire /\ toFront'.wire[i] = toFront.wire[i]
      BY <2>2, <2>3
    <3>2. /\ media.queue = <<>> /\ host.queue = <<>>
          /\ toFront.wire[i].kind = "original" =>
               /\ \A j \in DOMAIN toFront.wire : i < j => ~Opener(toFront.wire[j])
               /\ \A j \in DOMAIN toFront.control : ~Opener(toFront.control[j])
      BY <3>1 DEF Last, WireLast
    <3> QED BY <2>1, <2>3, <2>4, <3>1, <3>2
  <2> QED BY <1>1, <1>3, <2>1, <2>5 DEF Last, MediaLast
<1>5. CASE WritesMedia
  <2>1. /\ Shorter(media.queue, media'.queue) /\ toFront'.control = <<>>
        /\ Longer(toFront.wire, toFront'.wire, media.queue[1]) /\ 1 \in DOMAIN media.queue
        /\ media.queue # <<>>
    BY <1>5 DEF WritesMedia
  <2>2. \A i \in DOMAIN toFront'.wire : \/ i \in DOMAIN toFront.wire /\ toFront'.wire[i] = toFront.wire[i]
                                        \/ i = Len(toFront.wire) + 1 /\ toFront'.wire[i] = media.queue[1]
    BY <1>2, <2>1, LongerHas
  <2>3. \A i \in DOMAIN media'.queue : i + 1 \in DOMAIN media.queue /\ media'.queue[i] = media.queue[i + 1]
    BY <1>2, <2>1, ShorterHas
  <2>4. Len(media.queue) = Len(media'.queue) + 1 /\ Len(media'.queue) \in Nat
        /\ DOMAIN media'.queue = 1 .. Len(media'.queue)
    BY <1>2, <2>1 DEF Shorter
  <2>5. MediaLast'
    <3> SUFFICES ASSUME NEW i \in DOMAIN media'.queue, Final(host.gen, media'.queue[i])
                 PROVE  i = Len(media'.queue) /\ host.queue = <<>>
      BY <1>1 DEF MediaLast
    <3>1. i + 1 = Len(media.queue) /\ host.queue = <<>>
      BY <2>3 DEF Last, MediaLast
    <3> QED BY <2>4, <3>1
  <2>6. \A i \in DOMAIN toFront.wire : ~Final(host.gen, toFront.wire[i])
    BY <2>1 DEF Last, WireLast
  <2>7. WireLast'
    <3> SUFFICES ASSUME NEW i \in DOMAIN toFront'.wire, Final(host.gen, toFront'.wire[i])
                 PROVE  /\ media'.queue = <<>> /\ host.queue = <<>>
                        /\ \A j \in DOMAIN toFront'.wire : i < j => FALSE
                        /\ \A j \in DOMAIN toFront'.control : FALSE
      BY <1>1 DEF WireLast
    <3>1. i = Len(toFront.wire) + 1 /\ toFront'.wire[i] = media.queue[1]
      BY <2>2, <2>6
    <3>2. 1 = Len(media.queue) /\ host.queue = <<>>
      BY <2>1, <3>1 DEF Last, MediaLast
    <3>3. media'.queue = <<>>
      <4>1. \A q \in Seq(RemoteMsg) : Len(q) = 0 => q = <<>>
        OBVIOUS
      <4> QED BY <1>2, <2>4, <3>2, <4>1
    <3>4. \A j \in DOMAIN toFront'.wire : ~(i < j)
      <4>1. DOMAIN toFront'.wire = 1 .. (Len(toFront.wire) + 1) /\ Len(toFront.wire) \in Nat
        BY <1>2, <2>1 DEF Longer
      <4> QED BY <3>1, <4>1
    <3>5. DOMAIN toFront'.control = {}
      BY <2>1
    <3> QED BY <3>2, <3>3, <3>4, <3>5
  <2> QED BY <1>3, <2>5, <2>7 DEF Last
<1> QED BY <1>4, <1>5

LEMMA LastStays ==
  ASSUME Last, UNCHANGED <<media, toFront>>, host'.control = host.control, host'.queue = host.queue,
         host'.gen = host.gen, host'.worker = host.worker
  PROVE  Last'
<1>1. OnWay' = OnWay
  BY BoxStays
<1> QED BY <1>1 DEF Last, ErrorLast, QueueLast, MediaLast, WireLast

LEMMA LastTake == ASSUME Base, Last, Takes PROVE Last'
<1>1. /\ toFront.wire \in Seq(RemoteMsg) /\ toFront'.wire \in Seq(RemoteMsg)
      /\ toFront'.control = toFront.control /\ Shorter(toFront.wire, toFront'.wire)
      /\ UNCHANGED <<host, media>> /\ OnWay' \subseteq OnWay
  BY BaseHas DEF Takes, ToFrontType
<1>2. \A i \in DOMAIN toFront'.wire : i + 1 \in DOMAIN toFront.wire /\ i \in Nat
                                      /\ toFront'.wire[i] = toFront.wire[i + 1]
  BY <1>1, ShorterHas
<1>3. \A i, j \in DOMAIN toFront'.wire : i < j => i + 1 < j + 1
  BY <1>2
<1>4. WireLast'
  <2> SUFFICES ASSUME NEW i \in DOMAIN toFront'.wire, Final(host.gen, toFront'.wire[i])
               PROVE  /\ media.queue = <<>> /\ host.queue = <<>>
                      /\ toFront'.wire[i].kind = "original" =>
                           /\ \A j \in DOMAIN toFront'.wire : i < j => ~Opener(toFront'.wire[j])
                           /\ \A j \in DOMAIN toFront.control : ~Opener(toFront.control[j])
    BY <1>1 DEF WireLast
  <2>1. /\ media.queue = <<>> /\ host.queue = <<>>
        /\ toFront.wire[i + 1].kind = "original" =>
             /\ \A j \in DOMAIN toFront.wire : i + 1 < j => ~Opener(toFront.wire[j])
             /\ \A j \in DOMAIN toFront.control : ~Opener(toFront.control[j])
    BY <1>2 DEF Last, WireLast
  <2> QED BY <1>2, <1>3, <2>1
<1> QED BY <1>1, <1>4 DEF Last, ErrorLast, QueueLast, MediaLast

LEMMA LastRestart ==
  ASSUME Base, NEW mode \in {"proxy", "original"}, R!Restart(mode) PROVE Last'
<1>1. /\ Gens /\ host.gen \in Nat /\ \A k \in OnWay : k.gen <= host.gen /\ k.gen \in Nat
  BY BaseHas DEF Gens
<1>2. /\ RemoteTypes' /\ UNCHANGED <<media, toFront>> /\ host'.gen = host.gen + 1
      /\ host'.queue = <<>>
      /\ \A k \in OnWay' : k \in OnWay \/ Announces(k, host.gen + 1, mode)
  BY <1>1, BaseHas, RestartDoes
<1>3. \A k \in OnWay' : ~Final(host'.gen, k)
  BY <1>1, <1>2 DEF Announces, Final
<1>4. /\ \A i \in DOMAIN toFront.wire : toFront.wire[i] \in OnWay
      /\ \A i \in DOMAIN media.queue : media.queue[i] \in OnWay
  BY BaseHas, WayHas
<1>5. \A k \in OnWay : ~Final(host'.gen, k)
  BY <1>1, <1>2 DEF Final
<1> QED BY <1>2, <1>3, <1>4, <1>5 DEF Last, ErrorLast, QueueLast, MediaLast, WireLast

-----------------------------------------------------------------------------
\* A preview is sent as chunks, an original as ranges.
DataFits == \A k \in OnWay : k.gen = front.gen => /\ k.kind = "chunk" => ~front.original
                                                  /\ k.kind = "range" => front.original
Agree == front.gen = host.gen => (front.original <=> host.mode = "original")
Modes == DataFits /\ Agree /\ (host.mode = "proxy" => host.worker # "serves")

\* What opening does to the frontend.
OpensMovie(m) ==
  /\ Opener(m) /\ FrontType' /\ ToHostType'
  /\ front'.gen = m.gen /\ (front'.original <=> m.kind = "original") /\ front'.got = <<>>
  /\ front'.input = 0 /\ front'.asked = {} /\ front'.credit = 0 /\ ~front'.dead
  /\ toHost' = toHost \/ (m.kind = "open" /\ Tells("credit", m.gen, Window))

LEMMA ModesWork == ASSUME Base, Modes, NEW m, Queues(m), Worked(m) PROVE Modes'
<1>1. /\ host'.gen = host.gen /\ host'.mode = host.mode /\ OnWay' \subseteq OnWay \cup {m}
      /\ UNCHANGED front /\ m.gen = host.gen /\ host.mode \in {"proxy", "original"}
  BY BaseHas DEF Queues
<1>2. /\ m.kind = "chunk" => host.mode = "proxy"
      /\ m.kind = "range" => host.mode = "original"
      /\ host.mode = "proxy" => host'.worker # "serves"
  BY <1>1 DEF Modes, Worked, QueuesChunk, QueuesEnd, QueuesOriginal, QueuesRange, QueuesError
<1>3. DataFits'
  BY <1>1, <1>2 DEF Modes, DataFits, Agree
<1> QED BY <1>1, <1>2, <1>3 DEF Modes, Agree

LEMMA ModesStay ==
  ASSUME Modes, OnWay' \subseteq OnWay, front'.gen = front.gen, front'.original = front.original,
         host'.gen = host.gen, host'.mode = host.mode, host'.worker = host.worker
  PROVE  Modes'
BY DEF Modes, DataFits, Agree

LEMMA ModesOpen == ASSUME Base, Modes, Takes, NEW m, m = toFront.wire[1], OpensMovie(m) PROVE Modes'
<1>1. /\ Fresh /\ Kindly /\ m \in OnWay /\ Opener(m) /\ OnWay' \subseteq OnWay /\ UNCHANGED host
      /\ front'.gen = m.gen /\ (front'.original <=> m.kind = "original")
  BY BaseHas, WayHas DEF Takes, OpensMovie
<1>2. Untouched(m.gen)
  BY <1>1 DEF Fresh
<1>3. DataFits'
  BY <1>1, <1>2 DEF DataFits, Untouched, Data
<1>4. Agree'
  BY <1>1 DEF Agree, Kindly
<1> QED BY <1>1, <1>3, <1>4 DEF Modes

LEMMA ModesGiveUp == ASSUME Base, Modes, Takes, NEW m, GivesUp(m) PROVE Modes'
<1>1. /\ Gens /\ OnWay' \subseteq OnWay /\ UNCHANGED host /\ front'.gen = 0 /\ host.gen \in Nat
      /\ \A k \in OnWay : k.gen \in Nat
  BY BaseHas DEF Takes, GivesUp
<1>2. host.gen # 0 /\ \A k \in OnWay : k.gen # 0
  BY <1>1 DEF Gens
<1> QED BY <1>1, <1>2 DEF Modes, DataFits, Agree

LEMMA ModesRestart ==
  ASSUME Base, Modes, NEW mode \in {"proxy", "original"}, R!Restart(mode) PROVE Modes'
<1>1. /\ Gens /\ host.gen \in Nat /\ front.gen \in Nat
      /\ \A k \in OnWay : k.gen <= host.gen /\ k.gen \in Nat
  BY BaseHas DEF Gens
<1>2. /\ UNCHANGED front /\ host'.gen = host.gen + 1 /\ host'.worker = "start"
      /\ \A k \in OnWay' : k \in OnWay \/ Announces(k, host.gen + 1, mode)
  BY <1>1, BaseHas, RestartDoes
<1>3. front.gen # host.gen + 1
  BY <1>1 DEF Gens
<1> QED BY <1>2, <1>3 DEF Modes, DataFits, Agree, Announces

-----------------------------------------------------------------------------
\* An original that the frontend has not opened, or has given up, has next to nothing queued;
\* one that it has opened is all there is.
Resting == host.mode = "original" /\ front.gen # host.gen =>
  /\ Len(host.queue) <= 1
  /\ host.worker = "start" => host.queue = <<>>
  /\ host.worker # "ended" =>
       /\ host.reads = <<>>
       /\ \A i \in DOMAIN toHost : toHost[i].gen = host.gen => toHost[i].kind # "read"
Alone == host.mode = "original" /\ front.gen = host.gen =>
  /\ \A k \in OnWay : ~Opener(k)
  /\ \A i \in DOMAIN media.queue : /\ media.queue[i].gen = host.gen
                                   /\ media.queue[i].kind \in {"range", "error"}
  /\ \A i \in DOMAIN host.queue : host.queue[i].kind \in {"range", "error"}

LEMMA RestingWork == ASSUME Base, Resting, NEW m, Queues(m), Worked(m) PROVE Resting'
<1>1. /\ host'.gen = host.gen /\ host'.mode = host.mode /\ UNCHANGED <<front, toHost>>
      /\ host'.queue = Append(host.queue, m) /\ host.queue \in Seq(RemoteMsg) /\ m \in RemoteMsg
      /\ host.gen \in Nat /\ Fresh
  BY BaseHas DEF Queues
<1> SUFFICES ASSUME host.mode = "original", front.gen # host.gen
             PROVE  /\ Len(host'.queue) <= 1
                    /\ host'.worker = "start" => host'.queue = <<>>
                    /\ host'.worker # "ended" =>
                         /\ host'.reads = <<>>
                         /\ \A i \in DOMAIN toHost : toHost[i].gen = host.gen => toHost[i].kind # "read"
  BY <1>1 DEF Resting
<1>2. host.worker = "start"
  BY DEF Resting, Worked, QueuesChunk, QueuesEnd, QueuesOriginal, QueuesRange, QueuesError
<1>3. /\ host.queue = <<>> /\ host.reads = <<>>
      /\ \A i \in DOMAIN toHost : toHost[i].gen = host.gen => toHost[i].kind # "read"
  BY <1>2 DEF Resting
<1>4. Len(host'.queue) = Len(host.queue) + 1 /\ Len(host.queue) = 0
  BY <1>1, <1>3, AppendPlaces
<1>5. host'.worker # "start" /\ host'.reads = host.reads
  BY <1>2 DEF Worked, QueuesChunk, QueuesEnd, QueuesOriginal, QueuesRange, QueuesError
<1> QED BY <1>3, <1>4, <1>5

LEMMA AloneWork == ASSUME Base, Alone, NEW m, Queues(m), Worked(m) PROVE Alone'
<1>1. /\ host'.gen = host.gen /\ host'.mode = host.mode /\ UNCHANGED <<front, media>>
      /\ host'.queue = Append(host.queue, m) /\ host.queue \in Seq(RemoteMsg) /\ m \in RemoteMsg
      /\ OnWay' \subseteq OnWay \cup {m} /\ host.gen \in Nat /\ Fresh
  BY BaseHas DEF Queues
<1> SUFFICES ASSUME host.mode = "original", front.gen = host.gen
             PROVE  /\ \A k \in OnWay' : ~Opener(k)
                    /\ \A i \in DOMAIN media.queue : /\ media.queue[i].gen = host.gen
                                                     /\ media.queue[i].kind \in {"range", "error"}
                    /\ \A i \in DOMAIN host'.queue : host'.queue[i].kind \in {"range", "error"}
  BY <1>1 DEF Alone
<1>2. ~Starting
  BY <1>1 DEF Fresh, Untouched
<1>3. m.kind \in {"range", "error"}
  BY <1>2 DEF Starting, Worked, QueuesChunk, QueuesEnd, QueuesOriginal, QueuesRange, QueuesError
<1>4. \A i \in DOMAIN host'.queue : host'.queue[i].kind \in {"range", "error"}
  BY <1>1, <1>3, AppendPlaces DEF Alone
<1> QED BY <1>1, <1>3, <1>4 DEF Alone, Opener

LEMMA RestingStays ==
  ASSUME Resting, host'.gen = host.gen, host'.mode = host.mode, host'.worker = host.worker,
         front'.gen = front.gen, Len(host.queue) \in Nat, Len(host'.queue) \in Nat,
         Len(host'.queue) <= Len(host.queue), host.queue = <<>> => host'.queue = <<>>,
         \A i \in DOMAIN toHost' : \/ \E j \in DOMAIN toHost : toHost'[i] = toHost[j]
                                   \/ toHost'[i].kind # "read" \/ toHost'[i].gen = front.gen,
         \/ host'.reads = host.reads
         \/ \E i \in DOMAIN toHost : toHost[i].gen = host.gen /\ toHost[i].kind = "read"
  PROVE  Resting'
<1> SUFFICES ASSUME host.mode = "original", front.gen # host.gen
             PROVE  /\ Len(host'.queue) <= 1
                    /\ host.worker = "start" => host'.queue = <<>>
                    /\ host.worker # "ended" =>
                         /\ host'.reads = <<>>
                         /\ \A i \in DOMAIN toHost' :
                              toHost'[i].gen = host.gen => toHost'[i].kind # "read"
  BY DEF Resting
<1>1. Len(host.queue) <= 1 /\ (host.worker = "start" => host.queue = <<>>)
  BY DEF Resting
<1>2. \A a, b \in Nat : a <= b /\ b <= 1 => a <= 1
  OBVIOUS
<1>3. Len(host'.queue) <= 1
  BY <1>1, <1>2
<1>4. ASSUME host.worker # "ended"
      PROVE  /\ host'.reads = <<>>
             /\ \A i \in DOMAIN toHost' : toHost'[i].gen = host.gen => toHost'[i].kind # "read"
  BY <1>4 DEF Resting
<1> QED BY <1>1, <1>3, <1>4

LEMMA AloneStays ==
  ASSUME Alone, Gens, OnWay' \subseteq OnWay, host'.gen = host.gen, host'.mode = host.mode,
         front'.gen = front.gen,
         \A i \in DOMAIN media'.queue : \/ \E j \in DOMAIN media.queue : media'.queue[i] = media.queue[j]
                                        \/ \E j \in DOMAIN host.queue : media'.queue[i] = host.queue[j],
         \A i \in DOMAIN host'.queue : \E j \in DOMAIN host.queue : host'.queue[i] = host.queue[j]
  PROVE  Alone'
<1> SUFFICES ASSUME host.mode = "original", front.gen = host.gen
             PROVE  /\ \A k \in OnWay' : ~Opener(k)
                    /\ \A i \in DOMAIN media'.queue : /\ media'.queue[i].gen = host.gen
                                                      /\ media'.queue[i].kind \in {"range", "error"}
                    /\ \A i \in DOMAIN host'.queue : host'.queue[i].kind \in {"range", "error"}
  BY DEF Alone
<1> QED BY DEF Alone, Gens

\* The messages of an original's opening that is taken: what was before it is gone.
LEMMA AloneOpen ==
  ASSUME Base, Last, Takes, NEW m, m = toFront.wire[1], OpensMovie(m) PROVE Alone'
<1>1. /\ Gens /\ Kindly /\ m \in OnWay /\ Opener(m) /\ OnWay' \subseteq OnWay /\ UNCHANGED <<host, media>>
      /\ front'.gen = m.gen /\ toFront.wire \in Seq(RemoteMsg) /\ toFront'.wire \in Seq(RemoteMsg)
      /\ Shorter(toFront.wire, toFront'.wire) /\ 1 \in DOMAIN toFront.wire
      /\ toFront'.control = toFront.control /\ HostType' /\ MediaType' /\ ToFrontType'
  BY BaseHas, WayHas DEF Takes, OpensMovie, ToFrontType
<1> SUFFICES ASSUME host.mode = "original", m.gen = host.gen
             PROVE  /\ \A k \in OnWay' : ~Opener(k)
                    /\ media.queue = <<>> /\ host.queue = <<>>
  BY <1>1 DEF Alone
<1>2. m.kind = "original"
  BY <1>1 DEF Kindly
<1>3. Final(host.gen, toFront.wire[1])
  BY <1>2 DEF Final
<1>4. /\ media.queue = <<>> /\ host.queue = <<>>
      /\ \A j \in DOMAIN toFront.wire : 1 < j => ~Opener(toFront.wire[j])
      /\ \A j \in DOMAIN toFront.control : ~Opener(toFront.control[j])
  BY <1>1, <1>2, <1>3 DEF Last, WireLast
<1>5. \A i \in DOMAIN toFront'.wire : i + 1 \in DOMAIN toFront.wire /\ i \in Nat
                                      /\ toFront'.wire[i] = toFront.wire[i + 1]
  BY <1>1, ShorterHas
<1>6. \A i \in DOMAIN toFront'.wire : 1 < i + 1
  <2>1. \A i \in DOMAIN toFront'.wire : i \in Nat /\ i # 0
    BY <1>1
  <2> QED BY <2>1
<1>7. \A i \in DOMAIN toFront'.wire : ~Opener(toFront'.wire[i])
  BY <1>4, <1>5, <1>6
<1>8. \A i \in DOMAIN host.control : ~Opener(host.control[i])
  BY ControlsPlain
<1>9. /\ Box'["asked"] = host.control /\ Box'["control"] = toFront.control
      /\ Box'["wire"] = toFront'.wire /\ Box'["media"] = <<>> /\ Box'["queue"] = <<>>
  <2>1. TypesThen(host', media', toFront')
    BY <1>1 DEF HostType, MediaType, ToFrontType, TypesThen
  <2> QED BY <1>1, <1>4, <2>1, BoxThen
<1>10. ASSUME NEW k \in OnWay', Opener(k) PROVE FALSE
  <2>1. PICK p \in Boxes : \E i \in DOMAIN Box'[p] : Box'[p][i] = k
    BY DEF OnWay, Contents
  <2>2. PICK i \in DOMAIN Box'[p] : Box'[p][i] = k
    BY <2>1
  <2>3. p \in {"asked", "control", "wire", "media", "queue"}
    BY DEF Boxes
  <2>4. DOMAIN (<<>>) = {}
    OBVIOUS
  <2>5. p \in {"asked", "control", "wire"}
    BY <1>9, <2>2, <2>3, <2>4
  <2> QED BY <1>4, <1>7, <1>8, <1>9, <1>10, <2>2, <2>5
<1> QED BY <1>4, <1>10

LEMMA RestingOpen ==
  ASSUME Base, Resting, Alone, Takes, NEW m, m = toFront.wire[1], OpensMovie(m) PROVE Resting'
<1>1. /\ m \in OnWay /\ Opener(m) /\ UNCHANGED host /\ front'.gen = m.gen /\ ToHostType
      /\ toHost' = toHost \/ Tells("credit", m.gen, Window)
  BY BaseHas, WayHas DEF Takes, OpensMovie, RemoteTypes
<1> SUFFICES ASSUME host.mode = "original", m.gen # host.gen
             PROVE  /\ Len(host.queue) <= 1
                    /\ host.worker = "start" => host.queue = <<>>
                    /\ host.worker # "ended" =>
                         /\ host.reads = <<>>
                         /\ \A i \in DOMAIN toHost' :
                              toHost'[i].gen = host.gen => toHost'[i].kind # "read"
  BY <1>1 DEF Resting
<1>2. front.gen # host.gen
  BY <1>1 DEF Alone
<1>3. \A i \in DOMAIN toHost' : \/ \E j \in DOMAIN toHost : toHost'[i] = toHost[j]
                                \/ toHost'[i].kind = "credit"
  BY <1>1, TellsHas
<1> QED BY <1>2, <1>3 DEF Resting

LEMMA RestingGiveUp ==
  ASSUME Base, Last, Resting, Takes, NEW m, m = toFront.wire[1], m.kind = "error", GivesUp(m)
  PROVE  Resting'
<1>1. /\ m \in OnWay /\ UNCHANGED host /\ ToHostType /\ 1 \in DOMAIN toFront.wire
      /\ front.gen # 0 => m.gen = front.gen
      /\ toHost' = toHost \/ Tells("over", m.gen, 0)
      /\ Gens /\ host.gen \in Nat /\ host.queue \in Seq(RemoteMsg)
  BY BaseHas, WayHas DEF Takes, GivesUp, RemoteTypes
<1>2. \A i \in DOMAIN toHost' : \/ \E j \in DOMAIN toHost : toHost'[i] = toHost[j]
                                \/ toHost'[i].kind = "over"
  BY <1>1, TellsHas
<1> SUFFICES ASSUME host.mode = "original"
             PROVE  /\ Len(host.queue) <= 1
                    /\ host.worker = "start" => host.queue = <<>>
                    /\ host.worker # "ended" =>
                         /\ host.reads = <<>>
                         /\ \A i \in DOMAIN toHost' :
                              toHost'[i].gen = host.gen => toHost'[i].kind # "read"
  BY <1>1 DEF Resting
<1>3. CASE front.gen # host.gen
  BY <1>2, <1>3 DEF Resting
<1>4. CASE front.gen = host.gen
  <2>1. Final(host.gen, m)
    BY <1>1, <1>4 DEF Final, Gens
  <2>2. host.queue = <<>> /\ host.worker = "ended"
    BY <1>1, <2>1 DEF Last, WireLast, ErrorLast
  <2>3. Len(host.queue) <= 1
    BY <2>2
  <2> QED BY <2>2, <2>3
<1> QED BY <1>3, <1>4

LEMMA AloneGiveUp == ASSUME Base, Takes, NEW m, GivesUp(m) PROVE Alone'
<1>1. Gens /\ UNCHANGED host /\ front'.gen = 0 /\ host.gen \in Nat
  BY BaseHas DEF Takes, GivesUp
<1> QED BY <1>1 DEF Gens, Alone

LEMMA RestRestart ==
  ASSUME Base, NEW mode \in {"proxy", "original"}, R!Restart(mode) PROVE Resting' /\ Alone'
<1>1. /\ Gens /\ host.gen \in Nat /\ front.gen \in Nat /\ toHost \in Seq(RemoteMsg)
      /\ \A k \in OnWay : k.gen <= host.gen /\ k.gen \in Nat
  BY BaseHas DEF Gens
<1>2. /\ UNCHANGED <<front, toHost>> /\ host'.gen = host.gen + 1
      /\ host'.queue = <<>> /\ host'.reads = <<>>
  BY <1>1, BaseHas, RestartDoes
<1>3. front.gen # host.gen + 1 /\ \A n \in Nat : n <= host.gen => n # host.gen + 1
  BY <1>1 DEF Gens
<1>4. \A i \in DOMAIN toHost : toHost[i].gen # host.gen + 1
  BY <1>1, <1>3, MessageHas DEF Gens
<1>5. Len(host'.queue) <= 1
  BY <1>2
<1> QED BY <1>2, <1>3, <1>4, <1>5 DEF Resting, Alone

-----------------------------------------------------------------------------
\* What messages bring to the generation g: a chunk or block each, and the credit for chunks.
Item(g, m) == IF m.gen = g /\ Data(m) THEN {m.n} ELSE {}
Items(g, s) == [i \in 1 .. Len(s) |-> Item(g, s[i])]
Credit(g, m) == IF m.gen = g /\ m.kind = "credit" THEN m.n ELSE 0
Credits(g, s) == [i \in 1 .. Len(s) |-> Credit(g, s[i])]

LEMMA ItemIs == ASSUME NEW g, NEW m \in RemoteMsg PROVE Item(g, m) \in SUBSET Nat /\ Credit(g, m) \in Nat
BY MessageHas DEF Item, Credit

LEMMA ItemsAre ==
  ASSUME NEW g, NEW s \in Seq(RemoteMsg)
  PROVE  /\ Items(g, s) \in Parts2 /\ Len(Items(g, s)) = Len(s) /\ DOMAIN Items(g, s) = DOMAIN s
         /\ \A i \in DOMAIN s : Items(g, s)[i] = Item(g, s[i])
<1>1. \A i \in 1 .. Len(s) : s[i] \in RemoteMsg
  OBVIOUS
<1>2. \A i \in 1 .. Len(s) : Item(g, s[i]) \in SUBSET Nat
  BY <1>1, ItemIs
<1>3. Len(s) \in Nat /\ DOMAIN s = 1 .. Len(s)
  OBVIOUS
<1>4. Items(g, s) \in Parts2
  BY <1>2, <1>3 DEF Items, Parts2
<1> QED BY <1>3, <1>4 DEF Items, Parts2

LEMMA CreditsAre ==
  ASSUME NEW g, NEW s \in Seq(RemoteMsg)
  PROVE  /\ Credits(g, s) \in Amounts /\ Len(Credits(g, s)) = Len(s)
         /\ DOMAIN Credits(g, s) = DOMAIN s
         /\ \A i \in DOMAIN s : Credits(g, s)[i] = Credit(g, s[i])
<1>1. \A i \in 1 .. Len(s) : s[i] \in RemoteMsg
  OBVIOUS
<1>2. \A i \in 1 .. Len(s) : Credit(g, s[i]) \in Nat
  BY <1>1, ItemIs
<1>3. Len(s) \in Nat /\ DOMAIN s = 1 .. Len(s)
  OBVIOUS
<1>4. Credits(g, s) \in Amounts
  BY <1>2, <1>3 DEF Credits, Amounts
<1> QED BY <1>3, <1>4 DEF Credits, Amounts

LEMMA ItemsLonger ==
  ASSUME NEW g, NEW s \in Seq(RemoteMsg), NEW t \in Seq(RemoteMsg), NEW m, Longer(s, t, m)
  PROVE  /\ Longer(Items(g, s), Items(g, t), Item(g, m))
         /\ Longer(Credits(g, s), Credits(g, t), Credit(g, m))
<1>1. /\ Len(s) + 1 \in DOMAIN t /\ t[Len(s) + 1] = m /\ Len(t) = Len(s) + 1
      /\ \A i \in DOMAIN s : i \in DOMAIN t /\ t[i] = s[i]
  BY LongerHas DEF Longer
<1>2. Longer(Items(g, s), Items(g, t), Item(g, m))
  BY <1>1, ItemsAre DEF Longer
<1>3. Longer(Credits(g, s), Credits(g, t), Credit(g, m))
  BY <1>1, CreditsAre DEF Longer
<1> QED BY <1>2, <1>3

LEMMA ItemsShorter ==
  ASSUME NEW g, NEW s \in Seq(RemoteMsg), NEW t \in Seq(RemoteMsg), Shorter(s, t), 1 \in DOMAIN s
  PROVE  /\ Shorter(Items(g, s), Items(g, t)) /\ Items(g, s)[1] = Item(g, s[1])
         /\ Shorter(Credits(g, s), Credits(g, t)) /\ Credits(g, s)[1] = Credit(g, s[1])
<1>1. /\ Len(s) = Len(t) + 1
      /\ \A i \in DOMAIN t : i + 1 \in DOMAIN s /\ t[i] = s[i + 1]
  BY ShorterHas DEF Shorter
<1>2. Shorter(Items(g, s), Items(g, t)) /\ Items(g, s)[1] = Item(g, s[1])
  BY <1>1, ItemsAre DEF Shorter
<1>3. Shorter(Credits(g, s), Credits(g, t)) /\ Credits(g, s)[1] = Credit(g, s[1])
  BY <1>1, CreditsAre DEF Shorter
<1> QED BY <1>2, <1>3

LEMMA ItemsJoined ==
  ASSUME NEW g, NEW q \in Seq(RemoteMsg), NEW r \in Seq(RemoteMsg), NEW s \in Seq(RemoteMsg),
         Joined(q, r, s)
  PROVE  Joined(Items(g, q), Items(g, r), Items(g, s))
<1>1. /\ Len(s) = Len(q) + Len(r)
      /\ \A i \in DOMAIN q : i \in DOMAIN s /\ s[i] = q[i]
      /\ \A i \in DOMAIN r : Len(q) + i \in DOMAIN s /\ s[Len(q) + i] = r[i]
  BY JoinedHas
<1> QED BY <1>1, ItemsAre DEF Joined

-----------------------------------------------------------------------------
\* What the frontend waits for: the rest of the movie, or the blocks it has asked for.  The wire
\* brings the first of it, the media channel what comes after, the queue what comes then.
Rest(n) == {k \in 1 .. Blocks : k > n}
Awaited == IF front.original THEN front.asked ELSE Rest(Len(front.got))
Granted == (Len(front.got) - front.input) + Window
Flows(o, g, x, a, b, c, w, m, q) ==
  /\ Leads(~o, Items(g, w), x, a)
  /\ Leads(~o, Items(g, m), a, b)
  /\ Leads(~o, Items(g, q), b, c)
Streamed(a, b, c) == Flows(front.original, front.gen, Awaited, a, b, c,
                           toFront.wire, media.queue, host.queue)

\* A preview's chunks that are not granted are not encoded yet.
Ending(c) == ~front.original =>
  /\ \A k \in 1 .. Blocks : k > Granted => k \in c
  /\ host.gen = front.gen => c = Rest(host.next - 1)

\* An original's requests on their way: each is for a block of S, and no two for the same.
IsRead(i) == toHost[i].gen = host.gen /\ toHost[i].kind = "read"
Requests(of) ==
  /\ \A i \in DOMAIN host.reads : host.reads[i] \in of
  /\ \A i, j \in DOMAIN host.reads : i # j => host.reads[i] # host.reads[j]
  /\ \A i \in DOMAIN toHost : IsRead(i) =>
       /\ toHost[i].n \in of
       /\ \A j \in DOMAIN host.reads : host.reads[j] # toHost[i].n
       /\ \A j \in DOMAIN toHost : IsRead(j) /\ i # j => toHost[i].n # toHost[j].n
Counted(a, c) == front.original /\ host.gen = front.gen =>
  /\ Len(media.queue) + Len(host.queue) <= Cardinality(a)
  /\ host.worker = "serves" =>
       /\ Len(media.queue) + Len(host.queue) + Cardinality(c) = Cardinality(a)
       /\ Requests(c)
Parting(a, b, c) == Streamed(a, b, c) /\ Ending(c) /\ Counted(a, c)
Flow == \E a, b, c \in SUBSET (1 .. Blocks) : Parting(a, b, c)

\* The frontend has no more than it was sent, and asks for no more than it may.
Sized == /\ front.input <= Len(front.got) /\ front.asked \subseteq 1 .. Blocks
         /\ Cardinality(front.asked) <= InFlight

\* A preview's credit, wherever it is, is for chunks that are granted.
Paid == ~front.original /\ host.gen = front.gen =>
  /\ front.credit <= Granted
  /\ Pays(Credits(front.gen, toHost), (host.next - 1) + host.credit, Granted - front.credit)

Held == Base /\ Last /\ Modes /\ Resting /\ Alone
LEMMA HeldHas == ASSUME Held
                 PROVE  /\ Base /\ Last /\ Modes /\ Resting /\ Alone /\ RemoteTypes /\ Gens /\ Fresh
                        /\ host.gen \in Nat /\ front.gen \in Nat /\ host.next \in Nat
                        /\ host.mode \in {"proxy", "original"} /\ host.credit \in Nat
                        /\ host.queue \in Seq(RemoteMsg) /\ host.reads \in Seq(Nat)
                        /\ toHost \in Seq(RemoteMsg) /\ media.queue \in Seq(RemoteMsg)
                        /\ toFront.wire \in Seq(RemoteMsg)
                        /\ front.original \in BOOLEAN /\ front.got \in Seq(Nat)
                        /\ front.input \in Nat /\ front.credit \in Nat /\ front.asked \in SUBSET Nat
                        /\ Len(front.got) \in Nat
BY BaseHas, FrontHas DEF Held, RemoteTypes

LEMMA PartsFinite == ASSUME NEW a \in SUBSET (1 .. Blocks)
                     PROVE  IsFiniteSet(a) /\ Cardinality(a) \in Nat /\ a \in SUBSET Nat
<1>1. Blocks \in Nat
  BY RemoteConstants
<1>2. IsFiniteSet(1 .. Blocks)
  BY <1>1, FS_Interval
<1>3. IsFiniteSet(a)
  BY <1>2, FS_Subset
<1> QED BY <1>1, <1>3, FS_CardinalityType

\* A message that the frontend does not wait for adds nothing.
LEMMA QueuePlain ==
  ASSUME Held, NEW a \in SUBSET (1 .. Blocks), NEW b \in SUBSET (1 .. Blocks),
         NEW c \in SUBSET (1 .. Blocks), Streamed(a, b, c), NEW m, Queues(m), NEW d \in SUBSET Nat,
         Item(front.gen, m) = d, d \subseteq c, ~front.original => \A n \in d, k \in c : n <= k
  PROVE  Streamed(a, b, c \ d)'
<1>1. /\ host.queue \in Seq(RemoteMsg) /\ m \in RemoteMsg /\ host'.queue = Append(host.queue, m)
      /\ UNCHANGED <<media, toFront, front>> /\ b \in SUBSET Nat
  BY HeldHas, PartsFinite DEF Queues
<1>2. host'.queue \in Seq(RemoteMsg) /\ Longer(host.queue, host'.queue, m)
  BY <1>1, AppendPlaces DEF Longer
<1>3. Longer(Items(front.gen, host.queue), Items(front.gen, host'.queue), d)
  BY <1>1, <1>2, ItemsLonger
<1>4. Items(front.gen, host.queue) \in Parts2 /\ Items(front.gen, host'.queue) \in Parts2
  BY <1>1, <1>2, ItemsAre
<1>5. Leads(~front.original, Items(front.gen, host.queue), b, c)
  BY DEF Streamed, Flows
<1>6. Leads(~front.original, Items(front.gen, host'.queue), b, c \ d)
  BY <1>1, <1>3, <1>4, <1>5, LeadsOn
<1> QED BY <1>1, <1>6 DEF Streamed, Flows, Awaited

\* What is granted: the credit of the worker included.
LEMMA GrantedIs == ASSUME Held, Sized
                   PROVE  Granted \in Nat /\ Window <= Granted
                          /\ Len(front.got) = front.input + (Granted - Window)
<1>1. /\ Len(front.got) \in Nat /\ front.input \in Nat /\ front.input <= Len(front.got) /\ Window \in Nat
  BY HeldHas, RemoteConstants DEF Sized
<1>2. \A l, i, w \in Nat : i <= l => /\ (l - i) + w \in Nat /\ w <= (l - i) + w
                                     /\ l = i + (((l - i) + w) - w)
  OBVIOUS
<1> QED BY <1>1, <1>2 DEF Granted

LEMMA NextGranted == ASSUME Held, Sized, Paid, ~front.original, host.gen = front.gen, host.credit > 0
                     PROVE  host.next <= Granted
<1>1. /\ Granted \in Nat /\ front.credit \in Nat /\ front.credit <= Granted /\ host.next \in Nat
      /\ host.next > 0 /\ host.credit \in Nat /\ Credits(front.gen, toHost) \in Amounts
  BY GrantedIs, HeldHas, CreditsAre DEF Paid, Gens
<1>2. PICK p \in Nat : p = (host.next - 1) + host.credit
  BY <1>1
<1>3. PICK q \in Nat : q = Granted - front.credit
  BY <1>1
<1>4. Pays(Credits(front.gen, toHost), p, q)
  BY <1>2, <1>3 DEF Paid
<1>5. p <= q
  BY <1>1, <1>4, PaysMeans
<1>6. \A n, r, g, f \in Nat : n > 0 /\ r > 0 /\ f <= g /\ (n - 1) + r <= g - f => n <= g
  OBVIOUS
<1> QED BY <1>1, <1>2, <1>3, <1>5, <1>6

LEMMA FlowChunk ==
  ASSUME Held, Sized, Paid, NEW a \in SUBSET (1 .. Blocks), NEW b \in SUBSET (1 .. Blocks),
         NEW c \in SUBSET (1 .. Blocks), Parting(a, b, c), NEW m, Queues(m), QueuesChunk(m),
         host.gen = front.gen, NEW n \in Nat, n = host.next
  PROVE  Parting(a, b, c \ {n})'
<1>1. ~front.original
  BY HeldHas DEF QueuesChunk, Modes, Agree
<1>2. /\ m.gen = host.gen /\ m.kind = "chunk" /\ m.n = host.next /\ host.next <= Blocks
      /\ host'.next = host.next + 1 /\ host'.gen = host.gen /\ UNCHANGED <<media, toFront, front, toHost>>
      /\ host.next \in Nat /\ host.next > 0 /\ Blocks \in Nat /\ host.credit > 0
  BY HeldHas, RemoteConstants DEF Queues, QueuesChunk, Gens
<1>3. c = Rest(host.next - 1)
  BY <1>1 DEF Parting, Ending
<1>4. Item(front.gen, m) = {n}
  BY <1>2 DEF Item, Data
<1>5. /\ {n} \subseteq c /\ {n} \in SUBSET Nat
      /\ \A l \in {n}, k \in c : l <= k
  <2>1. \A k, l \in Nat : l > 0 => (k > l - 1 <=> l <= k)
    OBVIOUS
  <2>2. \A k \in 1 .. Blocks : k \in Nat
    BY <1>2
  <2>3. \A k \in c : host.next <= k
    BY <1>2, <1>3, <2>1, <2>2 DEF Rest
  <2>4. host.next \in c
    BY <1>2, <1>3, <2>1 DEF Rest
  <2> QED BY <1>2, <2>3, <2>4
<1>6. Streamed(a, b, c \ {n})'
  BY <1>2, <1>4, <1>5, QueuePlain DEF Parting
<1>7. c \ {n} = Rest(host'.next - 1)
  <2>1. \A k, l \in Nat : l > 0 => ((k > l - 1 /\ k # l) <=> k > (l + 1) - 1)
    OBVIOUS
  <2>2. \A k \in 1 .. Blocks : k \in Nat
    BY <1>2
  <2> QED BY <1>2, <1>3, <2>1, <2>2 DEF Rest
<1>8. Ending(c \ {n})'
  <2>1. host.next <= Granted /\ Granted \in Nat
    BY <1>1, <1>2, NextGranted, GrantedIs
  <2>2. \A k \in 1 .. Blocks : k > Granted => k \in c \ {n}
    BY <1>1, <1>2, <2>1 DEF Parting, Ending
  <2>3. Granted' = Granted /\ front'.original = front.original
    BY <1>2 DEF Granted
  <2> QED BY <1>7, <2>2, <2>3 DEF Ending
<1> QED BY <1>1, <1>2, <1>6, <1>8 DEF Parting, Counted

LEMMA FlowRange ==
  ASSUME Held, NEW a \in SUBSET (1 .. Blocks), NEW b \in SUBSET (1 .. Blocks),
         NEW c \in SUBSET (1 .. Blocks), Parting(a, b, c), NEW m, Queues(m), QueuesRange(m),
         host.gen = front.gen
  PROVE  Parting(a, b, c \ {m.n})'
<1>1. front.original /\ host.worker = "serves"
  BY HeldHas DEF QueuesRange, Modes, Agree
<1>2. /\ m.gen = host.gen /\ m.kind = "range" /\ m.n = Head(host.reads) /\ host.reads # <<>>
      /\ host'.reads = Tail(host.reads) /\ host'.gen = host.gen /\ host'.worker = "serves"
      /\ UNCHANGED <<media, toFront, front, toHost>> /\ host.reads \in Seq(Nat)
      /\ host'.queue = Append(host.queue, m) /\ host.queue \in Seq(RemoteMsg) /\ m \in RemoteMsg
      /\ media.queue \in Seq(RemoteMsg)
  BY HeldHas DEF Queues, QueuesRange
<1>3. /\ Len(media.queue) + Len(host.queue) + Cardinality(c) = Cardinality(a) /\ Requests(c)
  BY <1>1 DEF Parting, Counted
<1>4. /\ host.reads[1] = m.n /\ 1 \in DOMAIN host.reads
      /\ \A i \in DOMAIN Tail(host.reads) : /\ i + 1 \in DOMAIN host.reads /\ i \in Nat /\ 1 < i + 1
                                            /\ Tail(host.reads)[i] = host.reads[i + 1]
  BY <1>2, TailPlaces
<1>5. m.n \in c
  BY <1>3, <1>4 DEF Requests
<1>6. Streamed(a, b, c \ {m.n})'
  <2>1. Item(front.gen, m) = {m.n} /\ {m.n} \in SUBSET Nat
    BY <1>2, MessageHas DEF Item, Data
  <2> QED BY <1>1, <1>5, <2>1, QueuePlain DEF Parting
<1>7. /\ Len(host'.queue) = Len(host.queue) + 1 /\ Len(host.queue) \in Nat /\ Len(media.queue) \in Nat
  BY <1>2, AppendPlaces
<1>8. Cardinality(c) \in Nat /\ Cardinality(a) \in Nat /\ Cardinality(c \ {m.n}) = Cardinality(c) - 1
      /\ Cardinality(c \ {m.n}) \in Nat
  BY <1>5, PartsFinite, FS_RemoveElement
<1>9. /\ Len(media.queue) + Len(host'.queue) + Cardinality(c \ {m.n}) = Cardinality(a)
      /\ Len(media.queue) + Len(host'.queue) <= Cardinality(a)
  <2>1. \A l, q, x, y, z \in Nat : l + q + x = y /\ z = x - 1 => l + (q + 1) + z = y /\ l + (q + 1) <= y
    OBVIOUS
  <2>2. PICK l \in Nat : l = Len(media.queue)
    BY <1>7
  <2>3. PICK q \in Nat : q = Len(host.queue)
    BY <1>7
  <2>5. PICK x \in Nat : x = Cardinality(c)
    BY <1>8
  <2>6. PICK y \in Nat : y = Cardinality(a)
    BY <1>8
  <2>7. l + q + x = y
    BY <1>3, <2>2, <2>3, <2>5, <2>6
  <2>4. l + (q + 1) + Cardinality(c \ {m.n}) = Cardinality(a) /\ l + (q + 1) <= Cardinality(a)
    BY <1>8, <2>1, <2>5, <2>6, <2>7
  <2> QED BY <1>7, <2>2, <2>3, <2>4
<1>10. Requests(c \ {m.n})'
  <2>1. \A i \in DOMAIN Tail(host.reads) : Tail(host.reads)[i] \in c \ {m.n}
    BY <1>3, <1>4 DEF Requests
  <2>2. \A i, j \in DOMAIN Tail(host.reads) : i # j => Tail(host.reads)[i] # Tail(host.reads)[j]
    <3>1. \A i, j \in Nat : i # j => i + 1 # j + 1
      OBVIOUS
    <3> SUFFICES ASSUME NEW i \in DOMAIN Tail(host.reads), NEW j \in DOMAIN Tail(host.reads), i # j
                 PROVE  Tail(host.reads)[i] # Tail(host.reads)[j]
      OBVIOUS
    <3>2. i + 1 # j + 1 /\ i + 1 \in DOMAIN host.reads /\ j + 1 \in DOMAIN host.reads
      BY <1>4, <3>1
    <3>3. host.reads[i + 1] # host.reads[j + 1]
      BY <1>3, <3>2 DEF Requests
    <3> QED BY <1>4, <3>3
  <2>3. \A i \in DOMAIN toHost : IsRead(i) =>
          /\ toHost[i].n \in c \ {m.n}
          /\ \A j \in DOMAIN Tail(host.reads) : Tail(host.reads)[j] # toHost[i].n
    BY <1>3, <1>4 DEF Requests
  <2>4. \A i, j \in DOMAIN toHost : IsRead(i) /\ IsRead(j) /\ i # j => toHost[i].n # toHost[j].n
    BY <1>3 DEF Requests
  <2>5. \A i : IsRead(i)' <=> IsRead(i)
    BY <1>2 DEF IsRead
  <2> QED BY <1>2, <2>1, <2>2, <2>3, <2>4, <2>5 DEF Requests
<1>11. Counted(a, c \ {m.n})'
  BY <1>2, <1>9, <1>10 DEF Counted
<1> QED BY <1>1, <1>2, <1>6, <1>11 DEF Parting, Ending

\* Neither an end nor an error is waited for; nor is what another generation's worker queues.
LEMMA FlowOther ==
  ASSUME Held, NEW a \in SUBSET (1 .. Blocks), NEW b \in SUBSET (1 .. Blocks),
         NEW c \in SUBSET (1 .. Blocks), Parting(a, b, c), NEW m, Queues(m), Worked(m),
         host.gen = front.gen => ~Data(m)
  PROVE  Parting(a, b, c)'
<1>1. /\ m.gen = host.gen /\ host'.gen = host.gen /\ UNCHANGED <<media, toFront, front, toHost>>
      /\ host'.queue = Append(host.queue, m) /\ host.queue \in Seq(RemoteMsg) /\ m \in RemoteMsg
      /\ media.queue \in Seq(RemoteMsg) /\ host.reads \in Seq(Nat)
  BY HeldHas DEF Queues
<1>2. Streamed(a, b, c)'
  <2>1. Item(front.gen, m) = {} /\ {} \in SUBSET Nat /\ c \ {} = c
    BY <1>1 DEF Item
  <2>2. Streamed(a, b, c \ {})'
    BY <2>1, QueuePlain DEF Parting
  <2> QED BY <2>1, <2>2
<1>3. Ending(c)'
  <2>1. host.gen = front.gen => host'.next = host.next
    BY DEF Worked, QueuesChunk, QueuesEnd, QueuesOriginal, QueuesRange, QueuesError, Data
  <2> QED BY <1>1, <2>1 DEF Parting, Ending, Granted
<1>4. ASSUME front.original, host.gen = front.gen
      PROVE  /\ host'.worker # "serves"
             /\ Len(media.queue) + Len(host'.queue) <= Cardinality(a)
  <2>1. host.mode = "original" /\ ~Starting
    BY <1>4, HeldHas DEF Modes, Agree, Fresh, Untouched
  <2>2. QueuesError(m) /\ host.worker = "serves" /\ host.reads # <<>>
    BY <1>4, <2>1 DEF Worked, QueuesChunk, QueuesEnd, QueuesOriginal, QueuesRange, QueuesError, Data, Starting
  <2>3. Len(media.queue) + Len(host.queue) + Cardinality(c) = Cardinality(a) /\ Requests(c)
    BY <1>4, <2>2 DEF Parting, Counted
  <2>4. host.reads[1] \in c
    BY <1>1, <2>2, <2>3, TailPlaces DEF Requests
  <2>5. Cardinality(c) \in Nat /\ Cardinality(a) \in Nat /\ Cardinality(c) # 0
    BY <2>4, PartsFinite, FS_EmptySet
  <2>6. /\ Len(host'.queue) = Len(host.queue) + 1 /\ Len(host.queue) \in Nat /\ Len(media.queue) \in Nat
    BY <1>1, AppendPlaces
  <2>7. \A l, q, x, y \in Nat : l + q + x = y /\ x # 0 => l + (q + 1) <= y
    OBVIOUS
  <2>8. Len(media.queue) + Len(host'.queue) <= Cardinality(a)
    <3>1. PICK l \in Nat : l = Len(media.queue)
      BY <2>6
    <3>2. PICK q \in Nat : q = Len(host.queue)
      BY <2>6
    <3>4. PICK x \in Nat : x = Cardinality(c)
      BY <2>5
    <3>5. PICK y \in Nat : y = Cardinality(a)
      BY <2>5
    <3>6. l + q + x = y /\ x # 0
      BY <2>3, <2>5, <3>1, <3>2, <3>4, <3>5
    <3>3. l + (q + 1) <= Cardinality(a)
      BY <2>7, <3>5, <3>6
    <3> QED BY <2>6, <3>1, <3>2, <3>3
  <2> QED BY <2>2, <2>8 DEF QueuesError
<1>5. Counted(a, c)'
  BY <1>1, <1>4 DEF Counted
<1> QED BY <1>2, <1>3, <1>5 DEF Parting

LEMMA FlowWork ==
  ASSUME Held, Sized, Paid, Flow, NEW m, Queues(m), Worked(m)
  PROVE  Flow'
<1>1. PICK a, b, c \in SUBSET (1 .. Blocks) : Parting(a, b, c)
  BY DEF Flow
<1>2. CASE host.gen = front.gen /\ Data(m)
  <2>1. QueuesChunk(m) \/ QueuesRange(m)
    BY <1>2 DEF Worked, QueuesChunk, QueuesEnd, QueuesOriginal, QueuesRange, QueuesError, Data
  <2>4. PICK n \in Nat : n = host.next
    BY HeldHas
  <2>2. Parting(a, b, c \ {n})' \/ Parting(a, b, c \ {m.n})'
    BY <1>1, <1>2, <2>1, <2>4, FlowChunk, FlowRange
  <2>3. c \ {n} \in SUBSET (1 .. Blocks) /\ c \ {m.n} \in SUBSET (1 .. Blocks)
    BY <1>1
  <2> QED BY <2>2, <2>3 DEF Flow
<1>3. CASE ~(host.gen = front.gen /\ Data(m))
  BY <1>1, <1>3, FlowOther DEF Flow
<1> QED BY <1>2, <1>3

LEMMA PaidWork ==
  ASSUME Held, Sized, Paid, NEW m, Queues(m), Worked(m)
  PROVE  Paid'
<1>1. /\ host'.gen = host.gen /\ UNCHANGED <<front, toHost>> /\ host.next \in Nat /\ host.credit \in Nat
  BY HeldHas DEF Queues
<1>2. (host'.next - 1) + host'.credit = (host.next - 1) + host.credit
  <2>1. \A n, c \in Nat : ((n + 1) - 1) + (c - 1) = (n - 1) + c
    OBVIOUS
  <2> QED BY <1>1, <2>1 DEF Worked, QueuesChunk, QueuesEnd, QueuesOriginal, QueuesRange, QueuesError
<1> QED BY <1>1, <1>2 DEF Paid, Granted

-----------------------------------------------------------------------------
\* What moves on: the frontend, and what it says, stay.
LEMMA PaidStays ==
  ASSUME Paid, front'.gen = front.gen, front'.original = front.original, front'.credit = front.credit,
         Granted' = Granted, UNCHANGED toHost, host'.gen = host.gen, host'.next = host.next,
         host'.credit = host.credit
  PROVE  Paid'
BY DEF Paid

LEMMA EndingStays ==
  ASSUME NEW c, Ending(c), front'.gen = front.gen, front'.original = front.original,
         Granted' = Granted, host'.gen = host.gen, host'.next = host.next
  PROVE  Ending(c)'
BY DEF Ending

LEMMA RequestsStay ==
  ASSUME NEW c, Requests(c), UNCHANGED toHost, host'.gen = host.gen, host'.reads = host.reads
  PROVE  Requests(c)'
<1>1. \A i : IsRead(i)' <=> IsRead(i)
  BY DEF IsRead
<1> QED BY <1>1 DEF Requests

LEMMA CountedStays ==
  ASSUME NEW a, NEW c, Counted(a, c), UNCHANGED toHost, front'.gen = front.gen,
         front'.original = front.original, host'.gen = host.gen, host'.reads = host.reads,
         host'.worker = host.worker, UNCHANGED media, host'.queue = host.queue
  PROVE  Counted(a, c)'
BY RequestsStay DEF Counted

LEMMA PassKeeps == ASSUME Passes, Sized, Paid PROVE Sized' /\ Paid' /\ Granted' = Granted
<1>1. /\ UNCHANGED <<front, toHost>> /\ host'.gen = host.gen /\ host'.next = host.next
      /\ host'.credit = host.credit
  BY DEF Passes, Stays
<1>2. Granted' = Granted /\ Sized'
  BY <1>1 DEF Granted, Sized
<1> QED BY <1>1, <1>2, PaidStays

LEMMA FlowEffects == ASSUME Held, Flow, R!Effects PROVE Flow'
<1>1. /\ UNCHANGED <<media, front, toHost>> /\ host'.queue = host.queue /\ toFront'.wire = toFront.wire
      /\ host'.gen = host.gen /\ host'.next = host.next /\ host'.reads = host.reads
      /\ host'.worker = host.worker
  BY EffectsDoes, HeldHas DEF Passes, Stays
<1>2. PICK a, b, c \in SUBSET (1 .. Blocks) : Parting(a, b, c)
  BY DEF Flow
<1>3. Streamed(a, b, c)'
  BY <1>1, <1>2 DEF Parting, Streamed, Flows, Awaited
<1>4. Granted' = Granted
  BY <1>1 DEF Granted
<1>5. Ending(c)' /\ Counted(a, c)'
  BY <1>1, <1>2, <1>4, EndingStays, CountedStays DEF Parting
<1> QED BY <1>2, <1>3, <1>5 DEF Flow, Parting

\* What is drained finds room: a preview's burst is two, an original has no more in flight.
LEMMA WillFit == ASSUME Held, Sized, Flow PROVE Fits
<1>1. /\ host.mode \in {"proxy", "original"} /\ host.queue \in Seq(RemoteMsg)
      /\ media.queue \in Seq(RemoteMsg) /\ MediaRoom \in Nat /\ InFlight \in Nat /\ InFlight <= MediaRoom
  BY HeldHas, RemoteConstants
<1>2. Len(host.queue) \in Nat /\ Len(media.queue) \in Nat
  BY <1>1
<1>3. PICK a, b, c \in SUBSET (1 .. Blocks) : Parting(a, b, c)
  BY DEF Flow
<1> SUFFICES ASSUME Len(media.queue) + 2 <= MediaRoom, host.mode = "original"
             PROVE  Len(media.queue) + Len(host.queue) <= MediaRoom
  BY <1>1 DEF Fits
<1>4. CASE front.gen # host.gen
  <2>1. Len(host.queue) <= 1
    BY <1>4, HeldHas DEF Resting
  <2>2. \A l, q \in Nat : l + 2 <= MediaRoom /\ q <= 1 => l + q <= MediaRoom
    BY <1>1
  <2> QED BY <1>2, <2>1, <2>2
<1>5. CASE front.gen = host.gen
  <2>1. front.original
    BY <1>5, HeldHas DEF Modes, Agree
  <2>2. Len(media.queue) + Len(host.queue) <= Cardinality(a)
    BY <1>3, <1>5, <2>1 DEF Parting, Counted
  <2>3. a \subseteq front.asked
    <3>1. Leads(~front.original, Items(front.gen, toFront.wire), front.asked, a)
      BY <1>3, <2>1 DEF Parting, Streamed, Flows, Awaited
    <3> QED BY <3>1, LeadsShrinks
  <2>4. front.asked \in SUBSET (1 .. Blocks) /\ Cardinality(front.asked) <= InFlight
    BY DEF Sized
  <2>5. /\ Cardinality(a) <= Cardinality(front.asked)
        /\ Cardinality(a) \in Nat /\ Cardinality(front.asked) \in Nat
    BY <2>3, <2>4, PartsFinite, FS_Subset
  <2>6. \A l, q, x, y \in Nat : l + q <= x /\ x <= y /\ y <= InFlight => l + q <= MediaRoom
    BY <1>1
  <2> QED BY <1>2, <2>2, <2>4, <2>5, <2>6
<1> QED BY <1>4, <1>5

LEMMA FlowDrain == ASSUME Held, Fits, Flow, R!Drain PROVE Flow'
<1>1. /\ Passes /\ UNCHANGED <<toFront, front, toHost>> /\ host'.gen = host.gen
      /\ host'.next = host.next /\ host'.reads = host.reads /\ host'.worker = host.worker
      /\ RemoteTypes'
  BY DrainDoes, HeldHas DEF Passes, Stays
<1>2. PICK a, b, c \in SUBSET (1 .. Blocks) : Parting(a, b, c)
  BY DEF Flow
<1>3. PICK h \in Seq(RemoteMsg) : Joined(h, host'.queue, host.queue) /\ Joined(media.queue, h, media'.queue)
  BY HeldHas, DrainDoes
<1>4. PICK q \in Seq(RemoteMsg) : q = host'.queue
  BY <1>1 DEF RemoteTypes, HostType, HostSet
<1>5. PICK m \in Seq(RemoteMsg) : m = media'.queue
  BY <1>1 DEF RemoteTypes, MediaType
<1>6. /\ host.queue \in Seq(RemoteMsg) /\ media.queue \in Seq(RemoteMsg)
      /\ a \in SUBSET Nat /\ b \in SUBSET Nat
  BY HeldHas, PartsFinite
<1>7. /\ Joined(Items(front.gen, h), Items(front.gen, q), Items(front.gen, host.queue))
      /\ Joined(Items(front.gen, media.queue), Items(front.gen, h), Items(front.gen, m))
      /\ Items(front.gen, h) \in Parts2 /\ Items(front.gen, q) \in Parts2
      /\ Items(front.gen, m) \in Parts2 /\ Items(front.gen, host.queue) \in Parts2
      /\ Items(front.gen, media.queue) \in Parts2
  BY <1>3, <1>4, <1>5, <1>6, ItemsJoined, ItemsAre
<1>8. /\ Leads(~front.original, Items(front.gen, media.queue), a, b)
      /\ Leads(~front.original, Items(front.gen, host.queue), b, c)
  BY <1>2 DEF Parting, Streamed, Flows
<1>9. PICK y \in SUBSET b : /\ Leads(~front.original, Items(front.gen, h), b, y)
                            /\ Leads(~front.original, Items(front.gen, q), y, c)
  <2>1. PICK o \in BOOLEAN : o = ~front.original
    OBVIOUS
  <2>2. \E y \in SUBSET b : /\ Leads(o, Items(front.gen, h), b, y)
                           /\ Leads(o, Items(front.gen, q), y, c)
    <3>1. PICK r \in Parts2 : r = Items(front.gen, h)
      BY <1>7
    <3>2. PICK s \in Parts2 : s = Items(front.gen, q)
      BY <1>7
    <3>3. PICK t \in Parts2 : t = Items(front.gen, host.queue)
      BY <1>7
    <3>4. Leads(o, t, b, c) /\ Joined(r, s, t)
      BY <1>7, <1>8, <2>1, <3>1, <3>2, <3>3
    <3>5. \E y \in SUBSET b : Leads(o, r, b, y) /\ Leads(o, s, y, c)
      BY <1>6, <3>4, LeadsApart
    <3> QED BY <3>1, <3>2, <3>5
  <2> QED BY <2>1, <2>2
<1>10. Leads(~front.original, Items(front.gen, m), a, y)
  BY <1>6, <1>7, <1>8, <1>9, LeadsJoin
<1>11. Streamed(a, y, c)'
  BY <1>1, <1>2, <1>4, <1>5, <1>9, <1>10 DEF Parting, Streamed, Flows, Awaited
<1>12. Granted' = Granted
  BY <1>1 DEF Granted
<1>13. Ending(c)'
  BY <1>1, <1>2, <1>12, EndingStays DEF Parting
<1>14. Len(media'.queue) + Len(host'.queue) = Len(media.queue) + Len(host.queue)
  <2>1. /\ Len(host.queue) = Len(h) + Len(q) /\ Len(m) = Len(media.queue) + Len(h)
        /\ Len(h) \in Nat /\ Len(q) \in Nat /\ Len(media.queue) \in Nat
    BY <1>3, <1>4, <1>5, <1>6 DEF Joined
  <2>2. \A i, j, l \in Nat : (i + j) + l = i + (j + l)
    OBVIOUS
  <2>3. (Len(media.queue) + Len(h)) + Len(q) = Len(media.queue) + (Len(h) + Len(q))
    BY <2>1, <2>2
  <2> QED BY <1>4, <1>5, <2>1, <2>3
<1>15. Requests(c) => Requests(c)'
  BY <1>1, RequestsStay
<1>16. Counted(a, c)'
  BY <1>1, <1>2, <1>14, <1>15 DEF Parting, Counted
<1>17. y \in SUBSET (1 .. Blocks)
  BY <1>9
<1> QED BY <1>2, <1>11, <1>13, <1>16, <1>17 DEF Flow, Parting

\* What the writer takes goes on the wire.
LEMMA WireOn ==
  ASSUME Held, NEW a \in SUBSET (1 .. Blocks), NEW x \in SUBSET Nat,
         Leads(~front.original, Items(front.gen, toFront.wire), x, a), NEW m \in RemoteMsg,
         Longer(toFront.wire, toFront'.wire, m), toFront'.wire \in Seq(RemoteMsg),
         Item(front.gen, m) \subseteq a,
         ~front.original => \A n \in Item(front.gen, m), k \in a : n <= k
  PROVE  Leads(~front.original, Items(front.gen, toFront'.wire), x, a \ Item(front.gen, m))
<1>1. toFront.wire \in Seq(RemoteMsg)
  BY HeldHas
<1>2. PICK w \in Seq(RemoteMsg) : w = toFront'.wire
  OBVIOUS
<1>3. Longer(Items(front.gen, toFront.wire), Items(front.gen, w), Item(front.gen, m))
  BY <1>1, <1>2, ItemsLonger
<1>4. /\ Items(front.gen, toFront.wire) \in Parts2 /\ Items(front.gen, w) \in Parts2
      /\ Item(front.gen, m) \in SUBSET Nat
  BY <1>1, ItemsAre, ItemIs
<1> QED BY <1>2, <1>3, <1>4, LeadsOn

LEMMA AwaitedIs == ASSUME Held, Sized PROVE Awaited \in SUBSET (1 .. Blocks) /\ Awaited \in SUBSET Nat
<1>1. Awaited \in SUBSET (1 .. Blocks)
  BY DEF Awaited, Sized, Rest
<1> QED BY <1>1, PartsFinite

LEMMA FlowWritesControl == ASSUME Held, Sized, Flow, Passes, WritesControl PROVE Flow'
<1>1. /\ UNCHANGED <<host, media, front, toHost>> /\ 1 \in DOMAIN toFront.control
      /\ Longer(toFront.wire, toFront'.wire, toFront.control[1]) /\ toFront'.wire \in Seq(RemoteMsg)
      /\ toFront.control \in Seq(RemoteMsg)
  BY HeldHas, QueuesHave DEF Passes, WritesControl, RemoteTypes, ToFrontType
<1>2. PICK a, b, c \in SUBSET (1 .. Blocks) : Parting(a, b, c)
  BY DEF Flow
<1>3. PICK m \in RemoteMsg : m = toFront.control[1]
  BY <1>1
<1>4. m.kind \in {"open", "control"}
  BY <1>1, <1>3, HeldHas DEF Gens
<1>5. Item(front.gen, m) = {}
  BY <1>4 DEF Item, Data
<1>6. Leads(~front.original, Items(front.gen, toFront.wire), Awaited, a)
  BY <1>2 DEF Parting, Streamed, Flows
<1>7. Leads(~front.original, Items(front.gen, toFront'.wire), Awaited, a \ {})
  BY <1>1, <1>3, <1>5, <1>6, AwaitedIs, WireOn
<1>8. a \ {} = a
  OBVIOUS
<1>9. Streamed(a, b, c)'
  BY <1>1, <1>2, <1>7, <1>8 DEF Parting, Streamed, Flows, Awaited
<1>10. Granted' = Granted
  BY <1>1 DEF Granted
<1>11. Ending(c)' /\ Counted(a, c)'
  BY <1>1, <1>2, <1>10, EndingStays, CountedStays DEF Parting
<1> QED BY <1>2, <1>9, <1>11 DEF Flow, Parting

LEMMA FlowWritesMedia == ASSUME Held, Sized, Flow, Passes, WritesMedia PROVE Flow'
<1>1. /\ UNCHANGED <<host, front, toHost>> /\ 1 \in DOMAIN media.queue
      /\ Longer(toFront.wire, toFront'.wire, media.queue[1]) /\ toFront'.wire \in Seq(RemoteMsg)
      /\ Shorter(media.queue, media'.queue) /\ media.queue \in Seq(RemoteMsg)
      /\ media'.queue \in Seq(RemoteMsg)
  BY HeldHas DEF Passes, WritesMedia, RemoteTypes, ToFrontType, MediaType
<1>2. PICK a, b, c \in SUBSET (1 .. Blocks) : Parting(a, b, c)
  BY DEF Flow
<1>3. PICK m \in RemoteMsg : m = media.queue[1]
  BY <1>1
<1>4. PICK q \in Seq(RemoteMsg) : q = media'.queue
  BY <1>1
<1>5. PICK d \in SUBSET Nat : d = Item(front.gen, m)
  BY ItemIs
<1>6. /\ Leads(~front.original, Items(front.gen, toFront.wire), Awaited, a)
      /\ Leads(~front.original, Items(front.gen, media.queue), a, b)
      /\ Leads(~front.original, Items(front.gen, host.queue), b, c)
  BY <1>2 DEF Parting, Streamed, Flows
<1>7. /\ Shorter(Items(front.gen, media.queue), Items(front.gen, q))
      /\ Items(front.gen, media.queue)[1] = d
      /\ Items(front.gen, media.queue) \in Parts2 /\ Items(front.gen, q) \in Parts2
      /\ a \in SUBSET Nat
  BY <1>1, <1>3, <1>4, <1>5, ItemsShorter, ItemsAre, PartsFinite
<1>8. /\ d \subseteq a /\ Leads(~front.original, Items(front.gen, q), a \ d, b)
      /\ ~front.original => \A n \in d, k \in a : n <= k
  <2>1. PICK o \in BOOLEAN : o = ~front.original
    OBVIOUS
  <2>2. /\ d \subseteq a /\ Leads(o, Items(front.gen, q), a \ d, b)
        /\ o => \A n \in d, k \in a : n <= k
    <3>1. PICK r \in Parts2 : r = Items(front.gen, media.queue)
      BY <1>7
    <3>2. PICK s \in Parts2 : s = Items(front.gen, q)
      BY <1>7
    <3>3. Leads(o, r, a, b) /\ Shorter(r, s) /\ r[1] = d
      BY <1>6, <1>7, <2>1, <3>1, <3>2
    <3>4. /\ r[1] \subseteq a /\ Leads(o, s, a \ r[1], b)
          /\ o => \A n \in r[1], k \in a : n <= k
      BY <1>7, <3>3, LeadsOff
    <3> QED BY <3>2, <3>3, <3>4
  <2> QED BY <2>1, <2>2
<1>9. Leads(~front.original, Items(front.gen, toFront'.wire), Awaited, a \ d)
  BY <1>1, <1>3, <1>5, <1>6, <1>8, AwaitedIs, WireOn
<1>10. Streamed(a \ d, b, c)'
  BY <1>1, <1>4, <1>6, <1>8, <1>9 DEF Streamed, Flows, Awaited
<1>11. Granted' = Granted
  BY <1>1 DEF Granted
<1>12. Ending(c)'
  BY <1>1, <1>2, <1>11, EndingStays DEF Parting
<1>13. Counted(a \ d, c)'
  <2> SUFFICES ASSUME front.original, host.gen = front.gen
               PROVE  /\ Len(media'.queue) + Len(host.queue) <= Cardinality(a \ d)
                      /\ host.worker = "serves" =>
                           /\ Len(media'.queue) + Len(host.queue) + Cardinality(c) = Cardinality(a \ d)
                           /\ Requests(c)'
    BY <1>1 DEF Counted
  <2>1. host.mode = "original"
    BY HeldHas DEF Modes, Agree
  <2>2. m.gen = host.gen /\ m.kind \in {"range", "error"}
    BY <1>1, <1>3, <2>1, HeldHas DEF Alone
  <2>3. /\ Len(media.queue) + Len(host.queue) <= Cardinality(a)
        /\ host.worker = "serves" =>
             /\ Len(media.queue) + Len(host.queue) + Cardinality(c) = Cardinality(a)
             /\ Requests(c)
    BY <1>2 DEF Parting, Counted
  <2>4. Requests(c) => Requests(c)'
    BY <1>1, RequestsStay
  <2>5. /\ Len(media.queue) = Len(q) + 1 /\ Len(q) \in Nat /\ Len(host.queue) \in Nat
        /\ Cardinality(a) \in Nat /\ Cardinality(c) \in Nat
    BY <1>1, <1>4, HeldHas, PartsFinite DEF Shorter
  <2>6. PICK l \in Nat : l = Len(q)
    BY <2>5
  <2>7. PICK n \in Nat : n = Len(host.queue)
    BY <2>5
  <2>8. PICK x \in Nat : x = Cardinality(c)
    BY <2>5
  <2>9. PICK y \in Nat : y = Cardinality(a)
    BY <2>5
  <2>10. (l + 1) + n <= y /\ (host.worker = "serves" => (l + 1) + n + x = y)
    BY <2>3, <2>5, <2>6, <2>7, <2>8, <2>9
  <2>11. CASE m.kind = "range"
    <3>1. d = {m.n} /\ m.n \in a
      BY <1>5, <1>8, <2>2, <2>11 DEF Item, Data
    <3>2. Cardinality(a \ d) = y - 1
      BY <2>9, <3>1, PartsFinite, FS_RemoveElement
    <3>3. l + n <= y - 1 /\ (host.worker = "serves" => l + n + x = y - 1)
      BY <2>10
    <3> QED BY <1>4, <2>3, <2>4, <2>6, <2>7, <2>8, <3>2, <3>3
  <2>12. CASE m.kind = "error"
    <3>1. d = {} /\ a \ d = a
      BY <1>5, <2>12 DEF Item, Data
    <3>2. host.worker = "ended"
      <4>1. Final(host.gen, m) /\ m \in OnWay
        BY <1>1, <1>3, <2>2, <2>12, HeldHas, WayHas DEF Final
      <4> QED BY <2>12, <4>1, HeldHas DEF Last, ErrorLast
    <3>3. l + n <= y
      BY <2>10
    <3> QED BY <1>4, <2>6, <2>7, <2>9, <3>1, <3>2, <3>3
  <2> QED BY <2>2, <2>11, <2>12
<1>14. a \ d \in SUBSET (1 .. Blocks)
  OBVIOUS
<1> QED BY <1>2, <1>10, <1>12, <1>13, <1>14 DEF Flow, Parting

-----------------------------------------------------------------------------
\* The host hears.
LEMMA RequestsThen ==
  ASSUME NEW c, NEW r, r = host'.reads, NEW t, t = toHost',
         \A i \in DOMAIN r : r[i] \in c,
         \A i, j \in DOMAIN r : i # j => r[i] # r[j],
         \A i \in DOMAIN t : IsRead(i)' => t[i].n \in c,
         \A i \in DOMAIN t : IsRead(i)' => \A j \in DOMAIN r : r[j] # t[i].n,
         \A i, j \in DOMAIN t : IsRead(i)' /\ IsRead(j)' /\ i # j => t[i].n # t[j].n
  PROVE  Requests(c)'
<1>1. /\ \A i \in DOMAIN host'.reads : host'.reads[i] \in c
      /\ \A i, j \in DOMAIN host'.reads : i # j => host'.reads[i] # host'.reads[j]
  OBVIOUS
<1>2. ASSUME NEW i \in DOMAIN toHost', IsRead(i)'
      PROVE  /\ toHost'[i].n \in c
             /\ \A j \in DOMAIN host'.reads : host'.reads[j] # toHost'[i].n
             /\ \A j \in DOMAIN toHost' : IsRead(j)' /\ i # j => toHost'[i].n # toHost'[j].n
  BY <1>2
<1> QED BY <1>1, <1>2 DEF Requests

LEMMA RequestsHear ==
  ASSUME Held, NEW c, Requests(c), Hears, HearsRead \/ HearsCredit \/ HearsOther, RemoteTypes'
  PROVE  Requests(c)'
<1>1. /\ toHost \in Seq(RemoteMsg) /\ toHost' \in Seq(RemoteMsg) /\ Shorter(toHost, toHost')
      /\ 1 \in DOMAIN toHost /\ host'.gen = host.gen /\ host.reads \in Seq(Nat)
  BY HeldHas DEF Hears, RemoteTypes, ToHostType
<1>2. PICK t \in Seq(RemoteMsg) : t = toHost'
  BY <1>1
<1>3. \A i \in DOMAIN t : i + 1 \in DOMAIN toHost /\ t[i] = toHost[i + 1] /\ i \in Nat
  BY <1>1, <1>2, ShorterHas
<1>4. \A i \in DOMAIN t : i + 1 # 1 /\ \A j \in DOMAIN t : i # j => i + 1 # j + 1
  <2>1. \A i \in DOMAIN t : i # 0
    BY <1>2
  <2>2. \A i, j \in Nat : (i # 0 => i + 1 # 1) /\ (i # j => i + 1 # j + 1)
    OBVIOUS
  <2> QED BY <1>3, <2>1, <2>2
<1>5. \A i \in DOMAIN t : IsRead(i)' => IsRead(i + 1)
  BY <1>1, <1>2, <1>3 DEF IsRead
<1>6. \A i \in DOMAIN t : IsRead(i)' => /\ t[i].n \in c
                                        /\ \A j \in DOMAIN host.reads : host.reads[j] # t[i].n
                                        /\ \A j \in DOMAIN t : IsRead(j)' /\ i # j => t[i].n # t[j].n
  <2> SUFFICES ASSUME NEW i \in DOMAIN t, IsRead(i)'
               PROVE  /\ t[i].n \in c
                      /\ \A j \in DOMAIN host.reads : host.reads[j] # t[i].n
                      /\ \A j \in DOMAIN t : IsRead(j)' /\ i # j => t[i].n # t[j].n
    OBVIOUS
  <2>1. i + 1 \in DOMAIN toHost /\ IsRead(i + 1) /\ t[i] = toHost[i + 1]
    BY <1>3, <1>5
  <2>2. /\ toHost[i + 1].n \in c
        /\ \A j \in DOMAIN host.reads : host.reads[j] # toHost[i + 1].n
        /\ \A j \in DOMAIN toHost : IsRead(j) /\ i + 1 # j => toHost[i + 1].n # toHost[j].n
    BY <2>1 DEF Requests
  <2>3. ASSUME NEW j \in DOMAIN t, IsRead(j)', i # j PROVE t[i].n # t[j].n
    <3>1. j + 1 \in DOMAIN toHost /\ IsRead(j + 1) /\ t[j] = toHost[j + 1] /\ i + 1 # j + 1
      BY <1>3, <1>4, <1>5, <2>3
    <3> QED BY <2>1, <2>2, <3>1
  <2> QED BY <2>1, <2>2, <2>3
<1>7. /\ \A i \in DOMAIN host.reads : host.reads[i] \in c
      /\ \A i, j \in DOMAIN host.reads : i # j => host.reads[i] # host.reads[j]
  BY DEF Requests
<1>10. /\ \A i \in DOMAIN t : IsRead(i)' => t[i].n \in c
       /\ \A i, j \in DOMAIN t : IsRead(i)' /\ IsRead(j)' /\ i # j => t[i].n # t[j].n
  <2>1. ASSUME NEW i \in DOMAIN t, IsRead(i)' PROVE t[i].n \in c
    BY <1>6, <2>1
  <2>2. ASSUME NEW i \in DOMAIN t, NEW j \in DOMAIN t, IsRead(i)', IsRead(j)', i # j
        PROVE  t[i].n # t[j].n
    BY <1>6, <2>2
  <2> QED BY <2>1, <2>2
<1>8. CASE host'.reads = host.reads
  <2>1. PICK r : r = host.reads
    OBVIOUS
  <2>2. /\ \A i \in DOMAIN r : r[i] \in c
        /\ \A i, j \in DOMAIN r : i # j => r[i] # r[j]
        /\ r = host'.reads
    BY <1>7, <1>8, <2>1
  <2>3. \A i \in DOMAIN t : IsRead(i)' => \A j \in DOMAIN r : r[j] # t[i].n
    BY <1>6, <2>1
  <2> QED BY <1>2, <1>10, <2>2, <2>3, RequestsThen
<1>9. CASE HearsRead
  <2>1. PICK n : n = toHost[1].n
    OBVIOUS
  <2>2. IsRead(1) /\ n \in Nat
    BY <1>1, <1>9, <2>1, MessageHas DEF HearsRead, IsRead
  <2>3. /\ n \in c /\ \A j \in DOMAIN host.reads : host.reads[j] # n
        /\ \A j \in DOMAIN toHost : IsRead(j) /\ 1 # j => n # toHost[j].n
    BY <1>1, <2>1, <2>2 DEF Requests
  <2>4. \A i \in DOMAIN t : IsRead(i)' => n # t[i].n
    BY <1>3, <1>4, <1>5, <2>3
  <2>5. PICK r : r = host'.reads
    OBVIOUS
  <2>6. \A i \in DOMAIN r : \/ i \in DOMAIN host.reads /\ r[i] = host.reads[i]
                            \/ i = Len(host.reads) + 1 /\ r[i] = n
    BY <1>1, <1>9, <2>1, <2>2, <2>5, AppendPlaces DEF HearsRead
  <2>7. \A i \in DOMAIN r : r[i] \in c
    BY <1>7, <2>3, <2>6
  <2>8. \A i, j \in DOMAIN r : i # j => r[i] # r[j]
    BY <1>7, <2>3, <2>6
  <2>9. \A i \in DOMAIN t : IsRead(i)' => \A j \in DOMAIN r : r[j] # t[i].n
    BY <1>6, <2>4, <2>6
  <2> QED BY <1>2, <1>10, <2>5, <2>7, <2>8, <2>9, RequestsThen
<1> QED BY <1>8, <1>9 DEF HearsCredit, HearsOther

LEMMA FlowHear ==
  ASSUME Held, Flow, Hears, HearsRead \/ HearsCredit \/ HearsOther, RemoteTypes' PROVE Flow'
<1>1. /\ UNCHANGED <<media, toFront, front>> /\ host'.gen = host.gen /\ host'.next = host.next
      /\ host'.worker = host.worker /\ host'.queue = host.queue
  BY DEF Hears
<1>2. PICK a, b, c \in SUBSET (1 .. Blocks) : Parting(a, b, c)
  BY DEF Flow
<1>3. Streamed(a, b, c)'
  BY <1>1, <1>2 DEF Parting, Streamed, Flows, Awaited
<1>4. Granted' = Granted
  BY <1>1 DEF Granted
<1>5. Ending(c)'
  BY <1>1, <1>2, <1>4, EndingStays DEF Parting
<1>6. Requests(c) => Requests(c)'
  BY RequestsHear
<1>7. Counted(a, c)'
  BY <1>1, <1>2, <1>6 DEF Parting, Counted
<1> QED BY <1>2, <1>3, <1>5, <1>7 DEF Flow, Parting

LEMMA PaidHear ==
  ASSUME Held, Sized, Paid, Hears, HearsRead \/ HearsCredit \/ HearsOther, RemoteTypes' PROVE Paid'
<1>1. /\ UNCHANGED front /\ host'.gen = host.gen /\ host'.next = host.next
      /\ toHost \in Seq(RemoteMsg) /\ toHost' \in Seq(RemoteMsg) /\ Shorter(toHost, toHost')
      /\ 1 \in DOMAIN toHost /\ host.credit \in Nat /\ host'.credit \in Nat
      /\ host.next \in Nat /\ host.next > 0
  BY HeldHas, HostHas DEF Hears, RemoteTypes, ToHostType, HostType, HostSet, Gens
<1> SUFFICES ASSUME ~front.original, host.gen = front.gen
             PROVE  /\ front.credit <= Granted
                    /\ Pays(Credits(front.gen, toHost'), (host.next - 1) + host'.credit,
                            Granted - front.credit)
  BY <1>1 DEF Paid, Granted
<1>2. /\ Granted \in Nat /\ front.credit \in Nat /\ front.credit <= Granted
      /\ Pays(Credits(front.gen, toHost), (host.next - 1) + host.credit, Granted - front.credit)
  BY HeldHas, GrantedIs DEF Paid
<1>3. PICK t \in Seq(RemoteMsg) : t = toHost'
  BY <1>1
<1>4. PICK q \in Amounts : q = Credits(front.gen, toHost)
  BY <1>1, CreditsAre
<1>5. PICK r \in Amounts : r = Credits(front.gen, t)
  BY CreditsAre
<1>6. Shorter(q, r) /\ q[1] = Credit(front.gen, toHost[1]) /\ q[1] \in Nat
  BY <1>1, <1>3, <1>4, <1>5, ItemsShorter, ItemIs
<1>7. PICK x \in Nat : x = (host.next - 1) + host.credit
  BY <1>1
<1>8. PICK y \in Nat : y = Granted - front.credit
  BY <1>2
<1>9. PICK z \in Nat : z = (host.next - 1) + host'.credit
  BY <1>1
<1>10. Pays(r, x + q[1], y)
  BY <1>2, <1>4, <1>6, <1>7, <1>8, PaysOff
<1>11. z <= x + q[1]
  <2>1. host'.credit <= host.credit + q[1]
    BY <1>1, <1>6 DEF HearsRead, HearsCredit, HearsOther, Credit
  <2>2. \A n, i, j, k \in Nat : n > 0 /\ i <= j + k => (n - 1) + i <= ((n - 1) + j) + k
    OBVIOUS
  <2> QED BY <1>1, <1>6, <1>7, <1>9, <2>1, <2>2
<1>12. PICK v \in Nat : v = x + q[1]
  BY <1>6
<1>13. Pays(r, z, y)
  BY <1>10, <1>11, <1>12, PaysWeaker
<1> QED BY <1>2, <1>3, <1>5, <1>8, <1>9, <1>13

-----------------------------------------------------------------------------
\* The frontend takes a message.
LEMMA WireOff ==
  ASSUME Held, Sized, NEW a \in SUBSET (1 .. Blocks), Takes, NEW m, m = toFront.wire[1],
         NEW d, d = Item(front.gen, m),
         Leads(~front.original, Items(front.gen, toFront.wire), Awaited, a)
  PROVE  /\ d \subseteq Awaited
         /\ Leads(~front.original, Items(front.gen, toFront'.wire), Awaited \ d, a)
         /\ ~front.original => \A n \in d, k \in Awaited : n <= k
<1>1. /\ toFront.wire \in Seq(RemoteMsg) /\ toFront'.wire \in Seq(RemoteMsg)
      /\ Shorter(toFront.wire, toFront'.wire) /\ 1 \in DOMAIN toFront.wire
  BY HeldHas DEF Takes, ToFrontType
<1>2. PICK w \in Seq(RemoteMsg) : w = toFront'.wire
  BY <1>1
<1>3. PICK r \in Parts2 : r = Items(front.gen, toFront.wire)
  BY <1>1, ItemsAre
<1>4. PICK s \in Parts2 : s = Items(front.gen, w)
  BY ItemsAre
<1>5. Shorter(r, s) /\ r[1] = d
  BY <1>1, <1>2, <1>3, <1>4, ItemsShorter
<1>6. PICK o \in BOOLEAN : o = ~front.original
  OBVIOUS
<1>7. PICK x \in SUBSET Nat : x = Awaited
  BY AwaitedIs
<1>8. Leads(o, r, x, a)
  BY <1>3, <1>6, <1>7
<1>9. /\ r[1] \subseteq x /\ Leads(o, s, x \ r[1], a)
      /\ o => \A n \in r[1], k \in x : n <= k
  BY <1>5, <1>8, LeadsOff
<1> QED BY <1>2, <1>4, <1>5, <1>6, <1>7, <1>9

\* The next chunk of a preview is the one that the decoder waits for, and there is room for it.
LEMMA ChunkIsNext ==
  ASSUME Held, Sized, Flow, Takes, NEW m, m = toFront.wire[1], m.kind = "chunk", m.gen = front.gen
  PROVE  /\ ~front.original /\ m.n = Len(front.got) + 1 /\ front.input < Window
<1>1. PICK a, b, c \in SUBSET (1 .. Blocks) : Parting(a, b, c)
  BY DEF Flow
<1>2. m \in OnWay /\ m \in RemoteMsg
  BY HeldHas, WayHas DEF Takes
<1>3. ~front.original
  BY <1>2, HeldHas DEF Modes, DataFits
<1>4. Item(front.gen, m) = {m.n}
  BY DEF Item, Data
<1>5. Leads(~front.original, Items(front.gen, toFront.wire), Awaited, a)
  BY <1>1 DEF Parting, Streamed, Flows
<1>6. m.n \in Awaited /\ \A k \in Awaited : m.n <= k
  BY <1>3, <1>4, <1>5, WireOff
<1>7. Awaited = Rest(Len(front.got))
  BY <1>3 DEF Awaited
<1>8. PICK l \in Nat : l = Len(front.got)
  BY HeldHas
<1>9. Blocks \in Nat /\ m.n \in 1 .. Blocks /\ m.n > l /\ m.n \in Nat
  BY <1>6, <1>7, <1>8, RemoteConstants DEF Rest
<1>10. l + 1 \in 1 .. Blocks /\ l + 1 > l
  BY <1>9
<1>11. m.n <= l + 1
  BY <1>6, <1>7, <1>8, <1>10 DEF Rest
<1>12. m.n = l + 1
  BY <1>9, <1>11
<1>13. m.n \notin c
  <2>1. 1 \in DOMAIN toFront.wire /\ toFront.wire \in Seq(RemoteMsg)
    BY HeldHas DEF Takes
  <2>2. Items(front.gen, toFront.wire)[1] = {m.n} /\ 1 \in DOMAIN Items(front.gen, toFront.wire)
    BY <1>4, <2>1, ItemsAre
  <2>3. m.n \notin a
    BY <1>5, <2>2 DEF Leads
  <2>4. c \subseteq b /\ b \subseteq a
    BY <1>1, LeadsShrinks DEF Parting, Streamed, Flows
  <2> QED BY <2>3, <2>4
<1>14. m.n <= Granted
  <2>1. ~(m.n > Granted)
    BY <1>1, <1>3, <1>9, <1>13 DEF Parting, Ending
  <2> QED BY <1>9, <2>1, GrantedIs
<1>15. front.input < Window
  <2>1. \A i, w \in Nat : i <= l /\ l + 1 <= (l - i) + w => i < w
    BY <1>8
  <2>2. front.input \in Nat /\ Window \in Nat /\ front.input <= l
    BY <1>8, HeldHas, RemoteConstants DEF Sized
  <2>3. l + 1 <= (l - front.input) + Window
    BY <1>8, <1>12, <1>14 DEF Granted
  <2> QED BY <2>1, <2>2, <2>3
<1> QED BY <1>3, <1>8, <1>12, <1>15

LEMMA RangeIsAsked ==
  ASSUME Held, Sized, Flow, Takes, NEW m, m = toFront.wire[1], m.kind = "range", m.gen = front.gen
  PROVE  front.original /\ m.n \in front.asked
<1>1. PICK a, b, c \in SUBSET (1 .. Blocks) : Parting(a, b, c)
  BY DEF Flow
<1>2. m \in OnWay /\ m \in RemoteMsg
  BY HeldHas, WayHas DEF Takes
<1>3. front.original
  BY <1>2, HeldHas DEF Modes, DataFits
<1>4. Item(front.gen, m) = {m.n}
  BY DEF Item, Data
<1>5. Leads(~front.original, Items(front.gen, toFront.wire), Awaited, a)
  BY <1>1 DEF Parting, Streamed, Flows
<1>6. m.n \in Awaited
  BY <1>4, <1>5, WireOff
<1> QED BY <1>3, <1>6 DEF Awaited

-----------------------------------------------------------------------------
\* A message of the movie, or a note: the generation stays.
LEMMA HeldTake == ASSUME Held, Takes, KeepsMovie PROVE Held' /\ RemoteTypes'
<1>1. /\ Base /\ Last /\ Modes /\ Resting /\ Alone /\ Gens
  BY HeldHas
<1>2. /\ UNCHANGED <<host, media, toHost>> /\ OnWay' \subseteq OnWay /\ FrontType'
      /\ front'.gen = front.gen /\ front'.original = front.original
      /\ HostType' /\ MediaType' /\ ToFrontType'
  BY DEF Takes, KeepsMovie
<1>3. RemoteTypes'
  BY <1>2, HeldHas DEF RemoteTypes, ToHostType
<1>4. Base'
  BY <1>1, <1>2, <1>3, BaseTake
<1>5. Last'
  BY <1>1, LastTake
<1>6. Modes'
  BY <1>1, <1>2, ModesStay
<1>7. Resting'
  BY <1>1, <1>2 DEF Resting
<1>8. Alone'
  BY <1>1, <1>2 DEF Alone
<1> QED BY <1>3, <1>4, <1>5, <1>6, <1>7, <1>8 DEF Held

LEMMA FlowTake ==
  ASSUME Held, Sized, Flow, Takes, KeepsMovie, NEW m, m = toFront.wire[1],
         NEW d, d = Item(front.gen, m), Awaited' = Awaited \ d, Granted' = Granted
  PROVE  Flow'
<1>1. PICK a, b, c \in SUBSET (1 .. Blocks) : Parting(a, b, c)
  BY DEF Flow
<1>2. /\ UNCHANGED <<host, media, toHost>>
      /\ front'.gen = front.gen /\ front'.original = front.original
  BY DEF Takes, KeepsMovie
<1>3. /\ Leads(~front.original, Items(front.gen, toFront.wire), Awaited, a)
      /\ Leads(~front.original, Items(front.gen, media.queue), a, b)
      /\ Leads(~front.original, Items(front.gen, host.queue), b, c)
  BY <1>1 DEF Parting, Streamed, Flows
<1>4. Leads(~front.original, Items(front.gen, toFront'.wire), Awaited \ d, a)
  BY <1>3, WireOff
<1>5. Leads(~front'.original, Items(front'.gen, toFront'.wire), Awaited', a)
  BY <1>2, <1>4
<1>6. Streamed(a, b, c)'
  BY <1>2, <1>3, <1>5 DEF Streamed, Flows
<1>7. Ending(c)' /\ Counted(a, c)'
  BY <1>1, <1>2, EndingStays, CountedStays DEF Parting
<1> QED BY <1>1, <1>6, <1>7 DEF Flow, Parting

\* What the runs check.
Kept == R!WindowHeld /\ R!NoneDropped /\ R!InMovieOrder
Rules == Sized /\ Flow /\ Paid /\ Kept

LEMMA TakeSame ==
  ASSUME Held, Rules, Takes, KeepsMovie, front'.got = front.got, front'.input = front.input,
         front'.asked = front.asked, front'.dead = front.dead, NEW m, m = toFront.wire[1],
         Item(front.gen, m) = {}
  PROVE  Rules'
<1>1. /\ UNCHANGED <<host, media, toHost>>
      /\ front'.gen = front.gen /\ front'.original = front.original /\ front'.credit = front.credit
  BY DEF Takes, KeepsMovie
<1>2. Granted' = Granted /\ Awaited' = Awaited \ {}
  BY <1>1 DEF Granted, Awaited
<1>3. Flow'
  BY <1>2, FlowTake DEF Rules
<1>4. Paid'
  BY <1>1, <1>2, PaidStays DEF Rules
<1>5. Sized' /\ Kept'
  BY <1>1 DEF Rules, Sized, Kept, R!WindowHeld, R!NoneDropped, R!InMovieOrder
<1> QED BY <1>3, <1>4, <1>5 DEF Rules

LEMMA TakeChunk ==
  ASSUME Held, Rules, Takes, NEW m, m = toFront.wire[1], R!FrontChunk(m)
  PROVE  Held' /\ Rules'
<1>1. m \in RemoteMsg /\ m.kind = "chunk"
  BY DEF Takes, R!FrontChunk
<1>2. m.gen = front.gen => /\ ~front.original /\ m.n = Len(front.got) + 1 /\ front.input < Window
  BY <1>1, ChunkIsNext DEF Rules
<1>3. /\ KeepsMovie
      /\ m.gen # front.gen => UNCHANGED front
      /\ m.gen = front.gen =>
           /\ front'.input = front.input + 1 /\ front'.got = Append(front.got, m.n)
           /\ front'.asked = front.asked /\ front'.dead = front.dead
  BY <1>1, <1>2, HeldHas, FrontChunkDoes
<1>4. Held'
  BY <1>3, HeldTake
<1>5. CASE m.gen # front.gen
  <2>1. Item(front.gen, m) = {}
    BY <1>5 DEF Item
  <2> QED BY <1>3, <1>4, <1>5, <2>1, TakeSame
<1>6. CASE m.gen = front.gen
  <2>1. /\ UNCHANGED <<host, media, toHost>> /\ front'.asked = front.asked /\ front'.dead = front.dead
        /\ front'.gen = front.gen /\ front'.original = front.original /\ front'.credit = front.credit
    BY <1>3, <1>6 DEF Takes, KeepsMovie
  <2>2. PICK l \in Nat : l = Len(front.got)
    BY HeldHas
  <2>3. PICK i \in Nat : i = front.input
    BY HeldHas
  <2>4. m.n = l + 1 /\ front.got \in Seq(Nat) /\ m.n \in Nat
    BY <1>2, <1>6, <2>2, HeldHas
  <2>5. PICK g \in Seq(Nat) : g = front'.got
    BY HeldHas, <1>4 DEF FrontType, FrontSet, Held, Base, RemoteTypes
  <2>6. /\ Len(g) = l + 1 /\ g[l + 1] = l + 1
        /\ \A k \in DOMAIN g : (k \in DOMAIN front.got /\ g[k] = front.got[k]) \/ k = l + 1
    BY <1>3, <1>6, <2>2, <2>4, <2>5, AppendPlaces
  <2>7. front'.input = i + 1 /\ i <= l
    BY <1>3, <1>6, <2>2, <2>3 DEF Rules, Sized
  <2>8. Granted' = Granted
    <3>1. Window \in Nat
      BY RemoteConstants
    <3>2. ((l + 1) - (i + 1)) + Window = (l - i) + Window
      BY <2>7
    <3> QED BY <2>2, <2>3, <2>5, <2>6, <2>7, <3>2 DEF Granted
  <2>9. Item(front.gen, m) = {l + 1}
    BY <1>1, <1>6, <2>4 DEF Item, Data
  <2>10. Awaited' = Awaited \ {l + 1}
    <3>1. Awaited = Rest(l) /\ Awaited' = Rest(l + 1)
      BY <1>2, <1>6, <2>1, <2>2, <2>5, <2>6 DEF Awaited
    <3>2. \A k \in Nat : k > l + 1 <=> (k > l /\ k # l + 1)
      OBVIOUS
    <3>3. \A k \in 1 .. Blocks : k \in Nat
      BY RemoteConstants
    <3> QED BY <3>1, <3>2, <3>3 DEF Rest
  <2>11. Flow'
    BY <1>3, <2>8, <2>9, <2>10, FlowTake DEF Rules
  <2>12. Paid'
    BY <2>1, <2>8, PaidStays DEF Rules
  <2>13. Sized'
    <3>1. front'.input <= Len(front'.got)
      BY <2>5, <2>6, <2>7
    <3> QED BY <2>1, <3>1 DEF Rules, Sized
  <2>14. Kept'
    <3>1. \A k \in DOMAIN front.got : front.got[k] = k
      BY <1>2, <1>6 DEF Rules, Kept, R!InMovieOrder
    <3>2. \A k \in DOMAIN g : g[k] = k
      BY <2>6, <3>1
    <3> QED BY <2>1, <2>5, <3>2 DEF Rules, Kept, R!WindowHeld, R!NoneDropped, R!InMovieOrder
  <2> QED BY <1>4, <2>11, <2>12, <2>13, <2>14 DEF Rules
<1> QED BY <1>5, <1>6

LEMMA TakeRange ==
  ASSUME Held, Rules, Takes, NEW m, m = toFront.wire[1], R!FrontRange(m)
  PROVE  Held' /\ Rules'
<1>1. m \in RemoteMsg /\ m.kind = "range"
  BY DEF Takes, R!FrontRange
<1>2. m.gen = front.gen => front.original /\ m.n \in front.asked
  BY <1>1, RangeIsAsked DEF Rules
<1>3. /\ KeepsMovie
      /\ m.gen # front.gen => UNCHANGED front
      /\ m.gen = front.gen =>
           /\ front'.asked = front.asked \ {m.n} /\ front'.got = Append(front.got, m.n)
           /\ front'.input = front.input /\ front'.dead = front.dead
  BY <1>1, <1>2, HeldHas, FrontRangeDoes
<1>4. Held'
  BY <1>3, HeldTake
<1>5. CASE m.gen # front.gen
  <2>1. Item(front.gen, m) = {}
    BY <1>5 DEF Item
  <2> QED BY <1>3, <1>4, <1>5, <2>1, TakeSame
<1>6. CASE m.gen = front.gen
  <2>1. /\ UNCHANGED <<host, media, toHost>> /\ front'.input = front.input /\ front'.dead = front.dead
        /\ front'.gen = front.gen /\ front'.original = front.original /\ front'.credit = front.credit
        /\ front'.asked = front.asked \ {m.n} /\ front.original
    BY <1>2, <1>3, <1>6 DEF Takes, KeepsMovie
  <2>2. front.got \in Seq(Nat) /\ m.n \in Nat
    BY <1>1, HeldHas, MessageHas
  <2>3. PICK l \in Nat : l = Len(front.got)
    BY <2>2
  <2>4. Len(front'.got) = l + 1
    BY <1>3, <1>6, <2>2, <2>3, AppendPlaces
  <2>5. Item(front.gen, m) = {m.n}
    BY <1>1, <1>6 DEF Item, Data
  <2>6. Awaited' = Awaited \ {m.n}
    BY <2>1 DEF Awaited
  <2>7. Sized'
    <3>1. front.asked \in SUBSET (1 .. Blocks) /\ front.input <= l /\ front.input \in Nat
          /\ Cardinality(front.asked) <= InFlight /\ InFlight \in Nat
      BY <2>3, HeldHas, RemoteConstants DEF Rules, Sized
    <3>2. IsFiniteSet(front.asked) /\ Cardinality(front.asked) \in Nat
      BY <3>1, PartsFinite
    <3>3. Cardinality(front.asked \ {m.n}) <= InFlight
      <4>1. front.asked \ {m.n} \in SUBSET front.asked
        OBVIOUS
      <4>2. Cardinality(front.asked \ {m.n}) <= Cardinality(front.asked)
        BY <3>2, <4>1, FS_Subset
      <4>3. Cardinality(front.asked \ {m.n}) \in Nat
        BY <3>1, PartsFinite
      <4> QED BY <3>1, <3>2, <4>2, <4>3
    <3>4. front'.input <= Len(front'.got)
      BY <2>1, <2>4, <3>1
    <3> QED BY <2>1, <3>1, <3>3, <3>4 DEF Sized
  <2>8. Flow'
    <3>1. PICK a, b, c \in SUBSET (1 .. Blocks) : Parting(a, b, c)
      BY DEF Rules, Flow
    <3>2. /\ Leads(~front.original, Items(front.gen, toFront.wire), Awaited, a)
          /\ Leads(~front.original, Items(front.gen, media.queue), a, b)
          /\ Leads(~front.original, Items(front.gen, host.queue), b, c)
      BY <3>1 DEF Parting, Streamed, Flows
    <3>3. Leads(~front.original, Items(front.gen, toFront'.wire), Awaited \ {m.n}, a)
      BY <2>5, <3>2, WireOff DEF Rules
    <3>4. Leads(~front'.original, Items(front'.gen, toFront'.wire), Awaited', a)
      BY <2>1, <2>6, <3>3
    <3>5. Streamed(a, b, c)'
      BY <2>1, <3>2, <3>4 DEF Streamed, Flows
    <3>6. Counted(a, c)'
      BY <2>1, <3>1, CountedStays DEF Parting
    <3>7. Ending(c)'
      BY <2>1 DEF Ending
    <3> QED BY <3>1, <3>5, <3>6, <3>7 DEF Flow, Parting
  <2>9. Paid' /\ Kept'
    BY <2>1 DEF Rules, Paid, Kept, R!WindowHeld, R!NoneDropped, R!InMovieOrder
  <2> QED BY <1>4, <2>7, <2>8, <2>9 DEF Rules
<1> QED BY <1>5, <1>6

LEMMA TakeNote ==
  ASSUME Held, Rules, Takes, NEW m, m = toFront.wire[1], R!FrontEof(m) \/ R!FrontControl(m)
  PROVE  Held' /\ Rules'
<1>1. m \in RemoteMsg
  BY DEF Takes
<1>2. m.kind \in {"eof", "control"} /\ KeepsAll
  BY <1>1, HeldHas, FrontNoteDoes
<1>3. Item(front.gen, m) = {}
  BY <1>2 DEF Item, Data
<1>4. Rules'
  BY <1>2, <1>3, TakeSame DEF KeepsAll
<1> QED BY <1>2, <1>4, HeldTake DEF KeepsAll

-----------------------------------------------------------------------------
\* Nothing is on its way that a new generation waits for, or is paid for.
LEMMA NothingComes ==
  ASSUME RemoteTypes', NEW g, \A k \in OnWay' : k.gen = g => ~Data(k),
         NEW x, NEW o
  PROVE  Flows(o, g, x, x, x, x, toFront'.wire, media'.queue, host'.queue)
<1>1. /\ toFront'.wire \in Seq(RemoteMsg) /\ media'.queue \in Seq(RemoteMsg)
      /\ host'.queue \in Seq(RemoteMsg)
  BY DEF RemoteTypes, HostType, HostSet, MediaType, ToFrontType
<1>2. /\ Box' \in Filled /\ Box'["wire"] = toFront'.wire /\ Box'["media"] = media'.queue
      /\ Box'["queue"] = host'.queue
  BY BoxThen DEF RemoteTypes, HostType, MediaType, ToFrontType, TypesThen
<1>3. {"wire", "media", "queue"} \subseteq Boxes
  BY DEF Boxes
<1>4. \A p \in Boxes : \A i \in DOMAIN Box'[p] : Box'[p][i] \in OnWay'
  BY <1>2, ContentsHas DEF OnWay
<1>5. /\ \A i \in DOMAIN Box'["wire"] : Box'["wire"][i] \in OnWay'
      /\ \A i \in DOMAIN Box'["media"] : Box'["media"][i] \in OnWay'
      /\ \A i \in DOMAIN Box'["queue"] : Box'["queue"][i] \in OnWay'
  BY <1>3, <1>4
<1>6. \A k \in OnWay' : Item(g, k) = {}
  BY DEF Item
<1>7. /\ \A i \in DOMAIN Items(g, toFront'.wire) : Items(g, toFront'.wire)[i] = {}
      /\ \A i \in DOMAIN Items(g, media'.queue) : Items(g, media'.queue)[i] = {}
      /\ \A i \in DOMAIN Items(g, host'.queue) : Items(g, host'.queue)[i] = {}
  BY <1>1, <1>2, <1>5, <1>6, ItemsAre
<1> QED BY <1>7, LeadsNothing DEF Flows

LEMMA HeldOpen ==
  ASSUME Held, Takes, NEW m, m = toFront.wire[1], OpensMovie(m) PROVE Held' /\ RemoteTypes'
<1>1. /\ Base /\ Last /\ Modes /\ Resting /\ Alone
  BY HeldHas
<1>2. RemoteTypes'
  BY DEF Takes, OpensMovie, RemoteTypes
<1>3. Base'
  BY <1>1, <1>2, BaseTake DEF OpensMovie
<1> QED BY <1>1, <1>2, <1>3, LastTake, ModesOpen, RestingOpen, AloneOpen DEF Held

\* A movie that has just been opened waits for all of it.
LEMMA TakeOpen ==
  ASSUME Held, Rules, Takes, NEW m, m = toFront.wire[1], R!FrontOpen(m)
  PROVE  Held' /\ Rules'
<1>1. m \in RemoteMsg /\ m \in OnWay
  BY HeldHas, WayHas DEF Takes
<1>2. OpensMovie(m)
  BY <1>1, HeldHas, FrontOpenDoes DEF OpensMovie
<1>3. Held' /\ RemoteTypes'
  BY <1>2, HeldOpen
<1>4. /\ UNCHANGED <<host, media>> /\ OnWay' \subseteq OnWay /\ Opener(m)
      /\ front'.gen = m.gen /\ (front'.original <=> m.kind = "original") /\ front'.got = <<>>
      /\ front'.input = 0 /\ front'.asked = {} /\ front'.credit = 0 /\ ~front'.dead
      /\ toHost' = toHost \/ (m.kind = "open" /\ Tells("credit", m.gen, Window))
  BY <1>2 DEF Takes, OpensMovie
<1>5. Untouched(m.gen)
  BY <1>1, <1>4, HeldHas DEF Fresh
<1>6. m.gen \in Nat /\ Window \in Nat /\ Blocks \in Nat /\ InFlight \in Nat
  BY <1>1, MessageHas, RemoteConstants
<1>7. Granted' = Window
  <2>1. Len(front'.got) = 0
    BY <1>4
  <2> QED BY <1>4, <1>6, <2>1 DEF Granted
<1>8. PICK x \in SUBSET (1 .. Blocks) : x = Awaited'
  <2>1. Awaited' \in SUBSET (1 .. Blocks)
    BY <1>4 DEF Awaited, Rest
  <2> QED BY <2>1
<1>9. Streamed(x, x, x)'
  <2>1. \A k \in OnWay' : k.gen = m.gen => ~Data(k)
    BY <1>4, <1>5 DEF Untouched
  <2>2. Flows(front'.original, m.gen, x, x, x, x, toFront'.wire, media'.queue, host'.queue)
    BY <1>3, <2>1, NothingComes
  <2> QED BY <1>4, <1>8, <2>2 DEF Streamed
<1>10. ~front'.original => x = 1 .. Blocks
  <2>1. Len(front'.got) = 0
    BY <1>4
  <2>2. ~front'.original => x = Rest(0)
    BY <1>8, <2>1 DEF Awaited
  <2>3. Rest(0) = 1 .. Blocks
    BY <1>6 DEF Rest
  <2> QED BY <2>2, <2>3
<1>11. Ending(x)'
  <2>1. host'.gen = front'.gen => host'.next = 1
    BY <1>4, <1>5 DEF Untouched
  <2>2. Rest(1 - 1) = 1 .. Blocks
    BY <1>6 DEF Rest
  <2> QED BY <1>10, <2>1, <2>2 DEF Ending
<1>12. Counted(x, x)'
  <2> SUFFICES ASSUME front'.original, host'.gen = front'.gen
               PROVE  /\ Len(media'.queue) + Len(host'.queue) <= Cardinality(x)
                      /\ Len(media'.queue) + Len(host'.queue) + Cardinality(x) = Cardinality(x)
                      /\ Requests(x)'
    BY DEF Counted
  <2>1. m.kind = "original" /\ m.gen = host.gen
    BY <1>4
  <2>2. Final(host.gen, m)
    BY <2>1 DEF Final
  <2>3. media.queue = <<>> /\ host.queue = <<>>
    BY <2>2, HeldHas DEF Takes, Last, WireLast
  <2>4. x = {} /\ Cardinality(x) = 0
    BY <1>4, <1>8, FS_EmptySet DEF Awaited
  <2>5. Len(media'.queue) = 0 /\ Len(host'.queue) = 0
    BY <1>4, <2>3
  <2>6. toHost' = toHost /\ host.reads = <<>>
        /\ \A i \in DOMAIN toHost : ~(toHost[i].gen = host.gen /\ toHost[i].kind = "read")
    BY <1>4, <1>5, <2>1 DEF Untouched
  <2>7. Requests(x)'
    BY <1>4, <2>6 DEF Requests, IsRead
  <2> QED BY <2>4, <2>5, <2>7
<1>13. Flow'
  BY <1>9, <1>11, <1>12 DEF Flow, Parting
<1>14. Sized'
  <2>1. Len(front'.got) = 0 /\ Cardinality(front'.asked) = 0
    BY <1>4, FS_EmptySet
  <2> QED BY <1>4, <1>6, <2>1 DEF Sized
<1>15. Paid'
  <2> SUFFICES ASSUME ~front'.original, host'.gen = front'.gen
               PROVE  /\ front'.credit <= Granted'
                      /\ Pays(Credits(front'.gen, toHost'), (host'.next - 1) + host'.credit,
                              Granted' - front'.credit)
    BY DEF Paid
  <2>1. host'.next = 1 /\ host'.credit = 0
    BY <1>4, <1>5 DEF Untouched
  <2>2. (host'.next - 1) + host'.credit = 0 /\ Granted' - front'.credit = Window
    BY <1>4, <1>6, <1>7, <2>1
  <2>3. PICK q \in Amounts : q = Credits(m.gen, toHost)
    BY HeldHas, CreditsAre
  <2>4. \A i \in DOMAIN q : q[i] = 0
    <3>1. \A i \in DOMAIN toHost : Credit(m.gen, toHost[i]) = 0
      BY <1>5 DEF Untouched, Credit
    <3> QED BY <2>3, <3>1, HeldHas, CreditsAre
  <2>5. CASE toHost' = toHost
    <3>1. Pays(q, 0, Window)
      BY <1>6, <2>4, PaysNothing
    <3> QED BY <1>4, <1>6, <1>7, <2>2, <2>3, <2>5, <3>1
  <2>6. CASE Tells("credit", m.gen, Window)
    <3>1. PICK t \in RemoteMsg : /\ t.kind = "credit" /\ t.gen = m.gen /\ t.n = Window
                                 /\ toHost' = Append(toHost, t)
      BY <2>6 DEF Tells
    <3>2. PICK s \in Seq(RemoteMsg) : s = Append(toHost, t)
      BY HeldHas, AppendPlaces
    <3>3. PICK r \in Amounts : r = Credits(m.gen, s)
      BY CreditsAre
    <3>4. Longer(toHost, s, t)
      <4>1. PICK u \in Seq(RemoteMsg) : u = toHost
        BY HeldHas
      <4>2. Longer(u, Append(u, t), t)
        BY <4>1, AppendPlaces DEF Longer
      <4> QED BY <3>2, <4>1, <4>2
    <3>5. Longer(q, r, Window)
      <4>1. Credit(m.gen, t) = Window
        BY <3>1 DEF Credit
      <4> QED BY <2>3, <3>3, <3>4, <4>1, HeldHas, ItemsLonger
    <3>6. Pays(q, 0, 0)
      BY <2>4, PaysNothing
    <3>7. Pays(r, 0, 0 + Window)
      BY <1>6, <3>5, <3>6, PaysOn
    <3>8. 0 + Window = Window
      BY <1>6
    <3> QED BY <1>4, <1>6, <1>7, <2>2, <3>1, <3>2, <3>3, <3>7, <3>8
  <2> QED BY <1>4, <2>5, <2>6
<1>16. Kept'
  BY <1>4 DEF Rules, Kept, R!WindowHeld, R!NoneDropped, R!InMovieOrder
<1> QED BY <1>3, <1>13, <1>14, <1>15, <1>16 DEF Rules

LEMMA TakeError ==
  ASSUME Held, Rules, Takes, NEW m, m = toFront.wire[1], R!FrontError(m)
  PROVE  Held' /\ Rules'
<1>1. m \in RemoteMsg /\ m \in OnWay
  BY HeldHas, WayHas DEF Takes
<1>2. m.kind = "error" /\ (UNCHANGED <<front, toHost>> \/ GivesUp(m))
  BY <1>1, HeldHas, FrontErrorDoes
<1>3. CASE UNCHANGED <<front, toHost>>
  <2>1. Item(front.gen, m) = {}
    BY <1>2 DEF Item, Data
  <2>2. KeepsMovie
    BY <1>3, HeldHas DEF KeepsMovie, RemoteTypes, FrontType
  <2> QED BY <1>3, <2>1, <2>2, TakeSame, HeldTake
<1>4. CASE GivesUp(m)
  <2>1. /\ Base /\ Last /\ Modes /\ Resting /\ Alone /\ Gens /\ Fresh
    BY HeldHas
  <2>2. /\ UNCHANGED <<host, media>> /\ OnWay' \subseteq OnWay /\ HostType' /\ MediaType' /\ ToFrontType'
        /\ FrontType' /\ ToHostType' /\ front'.gen = 0 /\ ~front'.original /\ front'.got = <<>>
        /\ front'.input = 0 /\ front'.asked = {} /\ front'.credit = 0 /\ ~front'.dead
        /\ toHost' = toHost \/ Tells("over", m.gen, 0)
    BY <1>4 DEF Takes, GivesUp
  <2>3. RemoteTypes'
    BY <2>2 DEF RemoteTypes
  <2>4. Base'
    BY <2>1, <2>2, <2>3, BaseTake
  <2>5. Held'
    BY <1>2, <1>4, <2>1, <2>4, LastTake, ModesGiveUp, RestingGiveUp, AloneGiveUp DEF Held
  <2>6. Blocks \in Nat /\ Window \in Nat /\ InFlight \in Nat
    BY RemoteConstants
  <2>7. PICK x \in SUBSET (1 .. Blocks) : x = 1 .. Blocks
    OBVIOUS
  <2>8. Len(front'.got) = 0 /\ Cardinality(front'.asked) = 0
    BY <2>2, FS_EmptySet
  <2>9. Awaited' = x
    <3>1. Awaited' = Rest(0)
      BY <2>2, <2>8 DEF Awaited
    <3> QED BY <2>6, <2>7, <3>1 DEF Rest
  <2>10. host.gen # 0 /\ \A k \in OnWay' : k.gen = 0 => ~Data(k)
    BY <2>1, <2>2, HeldHas DEF Gens
  <2>11. Flows(front'.original, 0, x, x, x, x, toFront'.wire, media'.queue, host'.queue)
    BY <2>3, <2>10, NothingComes
  <2>12. Streamed(x, x, x)'
    BY <2>2, <2>9, <2>11 DEF Streamed
  <2>13. Ending(x)' /\ Counted(x, x)'
    BY <2>2, <2>7, <2>10 DEF Ending, Counted
  <2>14. Flow'
    BY <2>12, <2>13 DEF Flow, Parting
  <2>15. Sized'
    BY <2>2, <2>6, <2>8 DEF Sized
  <2>16. Paid'
    BY <2>2, <2>10 DEF Paid
  <2>17. Kept'
    BY <2>2 DEF Rules, Kept, R!WindowHeld, R!NoneDropped, R!InMovieOrder
  <2> QED BY <2>5, <2>14, <2>15, <2>16, <2>17 DEF Rules
<1> QED BY <1>2, <1>3, <1>4

-----------------------------------------------------------------------------
\* Each step keeps what is held.
LEMMA KeptStays ==
  ASSUME Kept, front'.dead = front.dead, front'.original = front.original, front'.got = front.got,
         media'.lost = media.lost
  PROVE  Kept'
BY DEF Kept, R!WindowHeld, R!NoneDropped, R!InMovieOrder

LEMMA RemoteWorks == ASSUME Held, Rules, R!Worker \/ R!Fail PROVE Held' /\ Rules'
<1>1. /\ Base /\ Last /\ Modes /\ Resting /\ Alone /\ RemoteTypes
  BY HeldHas
<1>2. PICK m : Queues(m) /\ Worked(m)
  BY <1>1, WorkDoes
<1>3. Held'
  BY <1>1, <1>2, BaseWork, LastWork, ModesWork, RestingWork, AloneWork DEF Held
<1>4. UNCHANGED <<media, toFront, front, toHost>>
  BY <1>2 DEF Queues
<1>5. Sized' /\ Kept'
  BY <1>4, KeptStays DEF Rules, Sized
<1>6. Flow' /\ Paid'
  BY <1>2, FlowWork, PaidWork DEF Rules
<1> QED BY <1>3, <1>5, <1>6 DEF Rules

\* A message that moves towards the frontend.
LEMMA HeldPasses ==
  ASSUME Held, Passes, Last',
         \A i \in DOMAIN host'.control : \E j \in DOMAIN host.control : host'.control[i] = host.control[j],
         \A i \in DOMAIN host'.queue : \E j \in DOMAIN host.queue : host'.queue[i] = host.queue[j],
         \A i \in DOMAIN toFront'.control : toFront'.control[i].kind \in {"open", "control"},
         \A i \in DOMAIN media'.queue : \/ \E j \in DOMAIN media.queue : media'.queue[i] = media.queue[j]
                                        \/ \E j \in DOMAIN host.queue : media'.queue[i] = host.queue[j],
         Len(host'.queue) <= Len(host.queue), host.queue = <<>> => host'.queue = <<>>
  PROVE  Held'
<1>1. /\ Base /\ Modes /\ Resting /\ Alone /\ Gens /\ RemoteTypes
  BY HeldHas
<1>2. /\ OnWay' \subseteq OnWay /\ front'.gen = front.gen /\ front'.original = front.original
      /\ host'.gen = host.gen /\ host'.mode = host.mode /\ host'.worker = host.worker
      /\ host'.reads = host.reads /\ toHost' = toHost
  BY DEF Passes, Stays
<1>3. Base'
  BY <1>1, BasePass
<1>4. Len(host.queue) \in Nat /\ Len(host'.queue) \in Nat
  BY <1>1, HostHas, BoxThen DEF Passes, RemoteTypes, HostType, HostSet
<1>5. Resting'
  BY <1>1, <1>2, <1>4, RestingStays
<1>6. Alone' /\ Modes'
  BY <1>1, <1>2, AloneStays, ModesStay
<1> QED BY <1>3, <1>5, <1>6 DEF Held

LEMMA PassRules == ASSUME Held, Rules, Passes, Flow' PROVE Rules'
<1>1. Sized' /\ Paid'
  BY PassKeeps DEF Rules
<1>2. Kept'
  BY KeptStays DEF Rules, Passes
<1> QED BY <1>1, <1>2 DEF Rules

LEMMA RemoteEffects == ASSUME Held, Rules, R!Effects PROVE Held' /\ Rules'
<1>1. /\ Base /\ Last /\ Gens /\ RemoteTypes
  BY HeldHas
<1>2. /\ Passes /\ UNCHANGED media /\ host'.queue = host.queue
      /\ host'.control = <<>> /\ Joined(toFront.control, host.control, toFront'.control)
  BY <1>1, EffectsDoes
<1>3. /\ toFront.control \in Seq(RemoteMsg) /\ host.control \in Seq(RemoteMsg)
      /\ toFront'.control \in Seq(RemoteMsg) /\ host.queue \in Seq(RemoteMsg)
  BY <1>1, <1>2, HostHas, QueuesHave DEF Passes, RemoteTypes, ToFrontType
<1>4. \A i \in DOMAIN toFront'.control :
        \/ i \in DOMAIN toFront.control /\ toFront'.control[i] = toFront.control[i]
        \/ \E j \in DOMAIN host.control : toFront'.control[i] = host.control[j]
  BY <1>2, <1>3, JoinedHas
<1>5. \A i \in DOMAIN toFront'.control : toFront'.control[i].kind \in {"open", "control"}
  BY <1>1, <1>4 DEF Gens, Announces
<1>6. Last' /\ Flow'
  BY <1>1, LastEffects, FlowEffects DEF Rules
<1>7. Len(host'.queue) <= Len(host.queue) /\ DOMAIN host'.control = {}
  BY <1>2, <1>3
<1>8. Held'
  BY <1>2, <1>5, <1>6, <1>7, HeldPasses
<1> QED BY <1>2, <1>6, <1>8, PassRules

LEMMA RemoteDrains == ASSUME Held, Rules, R!Drain PROVE Held' /\ Rules'
<1>1. /\ Base /\ Last /\ Gens /\ RemoteTypes /\ Fits
  BY HeldHas, WillFit DEF Rules
<1>2. /\ Passes /\ UNCHANGED toFront /\ host'.control = host.control /\ host.queue # <<>>
      /\ \E h \in Seq(RemoteMsg) : /\ Joined(h, host'.queue, host.queue)
                                   /\ Joined(media.queue, h, media'.queue)
  BY <1>1, DrainDoes
<1>3. PICK h \in Seq(RemoteMsg) : /\ Joined(h, host'.queue, host.queue)
                                  /\ Joined(media.queue, h, media'.queue)
  BY <1>2
<1>4. /\ media.queue \in Seq(RemoteMsg) /\ media'.queue \in Seq(RemoteMsg)
      /\ host.queue \in Seq(RemoteMsg) /\ host'.queue \in Seq(RemoteMsg)
  BY <1>1, <1>2, HostHas, QueuesHave DEF Passes, RemoteTypes, HostType, HostSet, MediaType
<1>5. /\ Len(host.queue) = Len(h) + Len(host'.queue) /\ Len(h) \in Nat /\ Len(host'.queue) \in Nat
      /\ \A i \in DOMAIN host'.queue : Len(h) + i \in DOMAIN host.queue
                                       /\ host.queue[Len(h) + i] = host'.queue[i]
      /\ \A i \in DOMAIN h : i \in DOMAIN host.queue /\ host.queue[i] = h[i]
  <2>1. PICK q \in Seq(RemoteMsg) : q = host.queue
    BY <1>4
  <2>2. PICK r \in Seq(RemoteMsg) : r = host'.queue
    BY <1>4
  <2>3. Joined(h, r, q)
    BY <1>3, <2>1, <2>2
  <2>4. /\ Len(q) = Len(h) + Len(r) /\ Len(h) \in Nat /\ Len(r) \in Nat
        /\ \A i \in DOMAIN r : Len(h) + i \in DOMAIN q /\ q[Len(h) + i] = r[i]
        /\ \A i \in DOMAIN h : i \in DOMAIN q /\ q[i] = h[i]
    BY <2>3, JoinedHas
  <2> QED BY <2>1, <2>2, <2>4
<1>6. \A i \in DOMAIN host'.queue : \E j \in DOMAIN host.queue : host'.queue[i] = host.queue[j]
  BY <1>5
<1>7. \A i \in DOMAIN media'.queue : \/ \E j \in DOMAIN media.queue : media'.queue[i] = media.queue[j]
                                     \/ \E j \in DOMAIN h : media'.queue[i] = h[j]
  BY <1>3, <1>4, JoinedHas
<1>8. \A i \in DOMAIN media'.queue : \/ \E j \in DOMAIN media.queue : media'.queue[i] = media.queue[j]
                                     \/ \E j \in DOMAIN host.queue : media'.queue[i] = host.queue[j]
  BY <1>5, <1>7
<1>9. Len(host'.queue) <= Len(host.queue)
  BY <1>5
<1>10. Last' /\ Flow'
  BY <1>1, LastDrain, FlowDrain DEF Rules
<1>11. \A i \in DOMAIN toFront'.control : toFront'.control[i].kind \in {"open", "control"}
  BY <1>1, <1>2 DEF Gens
<1>12. Held'
  BY <1>2, <1>6, <1>8, <1>9, <1>10, <1>11, HeldPasses
<1> QED BY <1>2, <1>10, <1>12, PassRules

LEMMA RemoteWrites == ASSUME Held, Rules, R!Write PROVE Held' /\ Rules'
<1>1. /\ Base /\ Last /\ Gens /\ RemoteTypes
  BY HeldHas
<1>2. Passes /\ (WritesControl \/ WritesMedia)
  BY <1>1, WriteDoes
<1>3. Last' /\ Flow'
  BY <1>1, <1>2, LastWrite, FlowWritesControl, FlowWritesMedia DEF Rules
<1>4. /\ media.queue \in Seq(RemoteMsg) /\ media'.queue \in Seq(RemoteMsg)
      /\ toFront.control \in Seq(RemoteMsg) /\ toFront'.control \in Seq(RemoteMsg)
      /\ host.queue \in Seq(RemoteMsg) /\ UNCHANGED host
  BY <1>1, <1>2, HostHas, QueuesHave
     DEF Passes, RemoteTypes, MediaType, ToFrontType, WritesControl, WritesMedia
<1>5. \A i \in DOMAIN toFront'.control : toFront'.control[i].kind \in {"open", "control"}
  <2>1. CASE WritesControl
    <3>1. \A i \in DOMAIN toFront'.control : i + 1 \in DOMAIN toFront.control
                                             /\ toFront'.control[i] = toFront.control[i + 1]
      BY <1>4, <2>1, ShorterHas DEF WritesControl
    <3> QED BY <1>1, <3>1 DEF Gens
  <2>2. CASE WritesMedia
    <3>1. DOMAIN toFront'.control = {}
      BY <2>2 DEF WritesMedia
    <3> QED BY <3>1
  <2> QED BY <1>2, <2>1, <2>2
<1>6. \A i \in DOMAIN media'.queue : \E j \in DOMAIN media.queue : media'.queue[i] = media.queue[j]
  <2>1. CASE WritesControl
    BY <2>1 DEF WritesControl
  <2>2. CASE WritesMedia
    <3>1. \A i \in DOMAIN media'.queue : i + 1 \in DOMAIN media.queue
                                         /\ media'.queue[i] = media.queue[i + 1]
      BY <1>4, <2>2, ShorterHas DEF WritesMedia
    <3> QED BY <3>1
  <2> QED BY <1>2, <2>1, <2>2
<1>7. Len(host'.queue) <= Len(host.queue)
  BY <1>4
<1>8. Held'
  BY <1>2, <1>3, <1>4, <1>5, <1>6, <1>7, HeldPasses
<1> QED BY <1>2, <1>3, <1>8, PassRules

\* A message that the host takes.
LEMMA RemoteHears == ASSUME Held, Rules, R!HostReceive PROVE Held' /\ Rules'
<1>1. /\ Base /\ Last /\ Modes /\ Resting /\ Alone /\ Gens /\ RemoteTypes
  BY HeldHas
<1>2. RemoteTypes' /\ Hears /\ (HearsRead \/ HearsCredit \/ HearsOther)
  BY <1>1, HostReceiveDoes
<1>3. /\ UNCHANGED <<media, toFront, front>> /\ host'.gen = host.gen /\ host'.mode = host.mode
      /\ host'.control = host.control /\ host'.worker = host.worker /\ host'.queue = host.queue
      /\ Shorter(toHost, toHost') /\ 1 \in DOMAIN toHost
      /\ toHost \in Seq(RemoteMsg) /\ toHost' \in Seq(RemoteMsg) /\ host.queue \in Seq(RemoteMsg)
  BY <1>2, HeldHas DEF Hears, RemoteTypes, ToHostType
<1>4. Base'
  BY <1>1, <1>2, BaseHear
<1>5. OnWay' = OnWay
  BY <1>3, BoxStays
<1>6. \A i \in DOMAIN toHost' : \E j \in DOMAIN toHost : toHost'[i] = toHost[j]
  BY <1>3, ShorterHas
<1>7. \/ host'.reads = host.reads
      \/ \E i \in DOMAIN toHost : toHost[i].gen = host.gen /\ toHost[i].kind = "read"
  BY <1>2, <1>3 DEF HearsRead, HearsCredit, HearsOther
<1>8. Len(host.queue) \in Nat /\ Len(host'.queue) = Len(host.queue)
  BY <1>3
<1>9. Resting'
  BY <1>1, <1>3, <1>6, <1>7, <1>8, RestingStays
<1>10. Last' /\ Modes'
  BY <1>1, <1>3, <1>5, LastStays, ModesStay
<1>11. Alone'
  BY <1>1, <1>3, <1>5, AloneStays
<1>12. Held'
  BY <1>4, <1>9, <1>10, <1>11 DEF Held
<1>13. Flow' /\ Paid'
  BY <1>2, FlowHear, PaidHear DEF Rules
<1>14. Sized' /\ Kept'
  BY <1>3, KeptStays DEF Rules, Sized
<1> QED BY <1>12, <1>13, <1>14 DEF Rules

-----------------------------------------------------------------------------
\* What the frontend does by itself.
LEMMA HeldOwn ==
  ASSUME Held, KeepsPlace, ToHostType',
         UNCHANGED toHost \/ \E kind, n : Tells(kind, front.gen, n)
  PROVE  Held' /\ RemoteTypes'
<1>1. /\ Base /\ Last /\ Modes /\ Resting /\ Alone /\ Gens /\ RemoteTypes
  BY HeldHas
<1>2. /\ UNCHANGED <<host, media, toFront>> /\ FrontType' /\ front'.gen = front.gen
      /\ front'.original = front.original
  BY DEF KeepsPlace
<1>3. RemoteTypes'
  BY <1>1, <1>2 DEF RemoteTypes, HostType, MediaType, ToFrontType
<1>4. Base'
  BY <1>1, <1>3, BaseOwn
<1>5. \A i \in DOMAIN toHost' : \/ \E j \in DOMAIN toHost : toHost'[i] = toHost[j]
                                \/ toHost'[i].kind # "read" \/ toHost'[i].gen = front.gen
  <2>1. CASE UNCHANGED toHost
    BY <2>1
  <2>2. ASSUME NEW kind, NEW n, Tells(kind, front.gen, n)
        PROVE  \A i \in DOMAIN toHost' : \/ \E j \in DOMAIN toHost : toHost'[i] = toHost[j]
                                         \/ toHost'[i].gen = front.gen
    BY <1>1, <2>2, TellsHas DEF RemoteTypes
  <2> QED BY <2>1, <2>2
<1>6. Len(host.queue) \in Nat /\ Len(host'.queue) = Len(host.queue)
  BY <1>1, <1>2, HeldHas
<1>7. Resting'
  BY <1>1, <1>2, <1>5, <1>6, RestingStays
<1>8. OnWay' = OnWay
  BY <1>2, BoxStays
<1>9. Last' /\ Modes' /\ Alone'
  BY <1>1, <1>2, <1>8, LastStays, ModesStay, AloneStays
<1> QED BY <1>3, <1>4, <1>7, <1>9 DEF Held

LEMMA OwnKept == ASSUME Kept, KeepsPlace PROVE Kept'
BY KeptStays DEF KeepsPlace

\* The decoder takes a chunk: what was granted grows by one, and so does what is owed.
LEMMA RemoteConsumes == ASSUME Held, Rules, R!Consume PROVE Held' /\ Rules'
<1>1. /\ RemoteTypes /\ front.input \in Nat /\ front.credit \in Nat /\ front.got \in Seq(Nat)
      /\ Len(front.got) \in Nat /\ Window \in Nat /\ front.original \in BOOLEAN
  BY HeldHas, RemoteConstants
<1>2. /\ KeepsPlace /\ UNCHANGED toHost /\ front'.asked = front.asked /\ front.input > 0
      /\ front'.input = front.input - 1 /\ front'.credit = front.credit + 1
  BY <1>1, ConsumeDoes
<1>3. Held' /\ RemoteTypes'
  BY <1>1, <1>2, HeldOwn DEF RemoteTypes, ToHostType
<1>4. /\ UNCHANGED <<host, media, toFront>> /\ front'.gen = front.gen
      /\ front'.original = front.original /\ front'.got = front.got
  BY <1>2 DEF KeepsPlace
<1>5. /\ Granted \in Nat /\ Granted' = Granted + 1
  <2>1. \A l, i, w \in Nat : i > 0 /\ i <= l => (l - (i - 1)) + w = ((l - i) + w) + 1
    OBVIOUS
  <2>2. front.input <= Len(front.got)
    BY DEF Rules, Sized
  <2> QED BY <1>1, <1>2, <1>4, <2>1, <2>2, GrantedIs DEF Granted, Rules
<1>6. Sized'
  BY <1>1, <1>2, <1>4 DEF Rules, Sized
<1>7. PICK a, b, c \in SUBSET (1 .. Blocks) : Parting(a, b, c)
  BY DEF Rules, Flow
<1>8. Streamed(a, b, c)'
  BY <1>2, <1>4, <1>7 DEF Parting, Streamed, Flows, Awaited
<1>9. Ending(c)'
  <2>1. \A k \in 1 .. Blocks : k > Granted' => k > Granted
    BY <1>5
  <2> QED BY <1>4, <1>7, <2>1 DEF Parting, Ending
<1>10. Counted(a, c)'
  BY <1>2, <1>4, <1>7, CountedStays DEF Parting
<1>11. Flow'
  BY <1>7, <1>8, <1>9, <1>10 DEF Flow, Parting
<1>12. Paid'
  <2>1. \A g, n \in Nat : n <= g => n + 1 <= g + 1 /\ (g + 1) - (n + 1) = g - n
    OBVIOUS
  <2>2. ASSUME ~front.original, host.gen = front.gen
        PROVE  front'.credit <= Granted' /\ Granted' - front'.credit = Granted - front.credit
    BY <1>1, <1>2, <1>5, <2>1, <2>2 DEF Rules, Paid
  <2> QED BY <1>2, <1>4, <2>2 DEF Rules, Paid
<1>13. Kept'
  BY <1>2, OwnKept DEF Rules
<1> QED BY <1>3, <1>6, <1>11, <1>12, <1>13 DEF Rules

\* A request or credit that is sent disturbs no request that was sent before it.
LEMMA RequestsTold ==
  ASSUME Held, NEW c, Requests(c), ToHostType, NEW n, Tells("credit", front.gen, n),
         host'.gen = host.gen, host'.reads = host.reads
  PROVE  Requests(c)'
<1>1. \A i \in DOMAIN toHost' : \/ i \in DOMAIN toHost /\ toHost'[i] = toHost[i]
                                \/ toHost'[i].kind = "credit"
  BY TellsHas
<1>2. PICK t : t = toHost'
  OBVIOUS
<1>3. PICK r : r = host.reads
  OBVIOUS
<1>4. \A i \in DOMAIN t : IsRead(i)' => i \in DOMAIN toHost /\ t[i] = toHost[i] /\ IsRead(i)
  BY <1>1, <1>2 DEF IsRead
<1>5. /\ \A i \in DOMAIN r : r[i] \in c
      /\ \A i, j \in DOMAIN r : i # j => r[i] # r[j]
      /\ \A i \in DOMAIN t : IsRead(i)' => t[i].n \in c
      /\ \A i \in DOMAIN t : IsRead(i)' => \A j \in DOMAIN r : r[j] # t[i].n
  BY <1>3, <1>4 DEF Requests
<1>6. \A i, j \in DOMAIN t : IsRead(i)' /\ IsRead(j)' /\ i # j => t[i].n # t[j].n
  BY <1>4 DEF Requests
<1> QED BY <1>2, <1>3, <1>5, <1>6, RequestsThen

LEMMA RemoteGivesCredit == ASSUME Held, Rules, R!GiveCredit PROVE Held' /\ Rules'
<1>1. /\ RemoteTypes /\ ToHostType /\ front.credit \in Nat /\ front.original \in BOOLEAN
      /\ front.gen \in Nat /\ host.next \in Nat /\ host.next > 0 /\ host.credit \in Nat
  BY HeldHas DEF RemoteTypes, Gens
<1>2. /\ KeepsPlace /\ ToHostType' /\ front'.asked = front.asked /\ front'.input = front.input
      /\ Tells("credit", front.gen, front.credit) /\ front'.credit = 0
  BY <1>1, GiveCreditDoes
<1>3. Held' /\ RemoteTypes'
  BY <1>2, HeldOwn
<1>4. /\ UNCHANGED <<host, media, toFront>> /\ front'.gen = front.gen
      /\ front'.original = front.original /\ front'.got = front.got
  BY <1>2 DEF KeepsPlace
<1>5. Granted \in Nat /\ Granted' = Granted
  BY <1>2, <1>4, GrantedIs DEF Granted, Rules
<1>6. Sized'
  BY <1>2, <1>4 DEF Rules, Sized
<1>7. PICK a, b, c \in SUBSET (1 .. Blocks) : Parting(a, b, c)
  BY DEF Rules, Flow
<1>8. Streamed(a, b, c)'
  BY <1>2, <1>4, <1>7 DEF Parting, Streamed, Flows, Awaited
<1>9. Ending(c)'
  BY <1>4, <1>5, <1>7, EndingStays DEF Parting
<1>10. Counted(a, c)'
  <2>1. Requests(c) => Requests(c)'
    BY <1>1, <1>2, <1>4, RequestsTold
  <2> QED BY <1>4, <1>7, <2>1 DEF Parting, Counted
<1>11. Flow'
  BY <1>7, <1>8, <1>9, <1>10 DEF Flow, Parting
<1>12. Paid'
  <2> SUFFICES ASSUME ~front.original, host.gen = front.gen
               PROVE  /\ 0 <= Granted
                      /\ Pays(Credits(front.gen, toHost'), (host.next - 1) + host.credit, Granted - 0)
    BY <1>2, <1>4, <1>5 DEF Paid
  <2>1. front.credit <= Granted
        /\ Pays(Credits(front.gen, toHost), (host.next - 1) + host.credit, Granted - front.credit)
    BY DEF Rules, Paid
  <2>2. PICK t \in RemoteMsg : /\ t.kind = "credit" /\ t.gen = front.gen /\ t.n = front.credit
                               /\ toHost' = Append(toHost, t)
    BY <1>2 DEF Tells
  <2>3. PICK s \in Seq(RemoteMsg) : s = toHost
    BY <1>1 DEF ToHostType
  <2>4. PICK u \in Seq(RemoteMsg) : u = toHost'
    BY <1>2 DEF ToHostType
  <2>5. Longer(s, u, t)
    BY <2>2, <2>3, <2>4, AppendPlaces DEF Longer
  <2>6. Credit(front.gen, t) = front.credit
    BY <2>2 DEF Credit
  <2>7. PICK q \in Amounts : q = Credits(front.gen, s)
    BY CreditsAre
  <2>8. PICK r \in Amounts : r = Credits(front.gen, u)
    BY CreditsAre
  <2>9. PICK v \in Nat : v = front.credit
    BY <1>1
  <2>10. Longer(q, r, v)
    BY <2>5, <2>6, <2>7, <2>8, <2>9, ItemsLonger
  <2>11. PICK x \in Nat : x = (host.next - 1) + host.credit
    BY <1>1
  <2>12. PICK y \in Nat : y = Granted - v
    BY <1>5, <2>1, <2>9
  <2>13. Pays(q, x, y)
    BY <2>1, <2>3, <2>7, <2>9, <2>11, <2>12
  <2>14. Pays(r, x, y + v)
    BY <2>10, <2>13, PaysOn
  <2>15. y + v = Granted - 0
    BY <1>5, <2>1, <2>9, <2>12
  <2> QED BY <1>5, <2>4, <2>8, <2>11, <2>14, <2>15
<1>13. Kept'
  BY <1>2, OwnKept DEF Rules
<1> QED BY <1>3, <1>6, <1>11, <1>12, <1>13 DEF Rules

\* The reader asks for a block that it has not asked for: it is waited for at every place.
LEMMA RequestsMore ==
  ASSUME Held, NEW c, Requests(c), ToHostType, NEW n, n \notin c, Tells("read", front.gen, n),
         host'.gen = host.gen, host'.reads = host.reads
  PROVE  Requests(c \cup {n})'
<1>1. \A i \in DOMAIN toHost' :
        \/ i \in DOMAIN toHost /\ toHost'[i] = toHost[i]
        \/ i = Len(toHost) + 1 /\ toHost'[i].n = n
  BY TellsHas
<1>2. PICK t : t = toHost'
  OBVIOUS
<1>3. PICK r : r = host.reads
  OBVIOUS
<1>4. \A i \in DOMAIN t : IsRead(i)' =>
        \/ i \in DOMAIN toHost /\ t[i] = toHost[i] /\ IsRead(i)
        \/ i = Len(toHost) + 1 /\ t[i].n = n
  BY <1>1, <1>2 DEF IsRead
<1>5. /\ \A i \in DOMAIN r : r[i] \in c
      /\ \A i, j \in DOMAIN r : i # j => r[i] # r[j]
      /\ \A i \in DOMAIN toHost : IsRead(i) =>
           /\ toHost[i].n \in c
           /\ \A j \in DOMAIN r : r[j] # toHost[i].n
      /\ \A i, j \in DOMAIN toHost : IsRead(i) /\ IsRead(j) /\ i # j => toHost[i].n # toHost[j].n
  BY <1>3 DEF Requests
<1>6. \A i \in DOMAIN r : r[i] \in c \cup {n}
  BY <1>5
<1>7. \A i \in DOMAIN t : IsRead(i)' => t[i].n \in c \cup {n}
  BY <1>4, <1>5
<1>8. \A i \in DOMAIN t : IsRead(i)' => \A j \in DOMAIN r : r[j] # t[i].n
  BY <1>4, <1>5
<1>9. \A i, j \in DOMAIN t : IsRead(i)' /\ IsRead(j)' /\ i # j => t[i].n # t[j].n
  <2> SUFFICES ASSUME NEW i \in DOMAIN t, NEW j \in DOMAIN t, IsRead(i)', IsRead(j)', i # j
               PROVE  t[i].n # t[j].n
    OBVIOUS
  <2>1. \/ i \in DOMAIN toHost /\ t[i] = toHost[i] /\ IsRead(i) /\ t[i].n \in c
        \/ i = Len(toHost) + 1 /\ t[i].n = n
    BY <1>4, <1>5
  <2>2. \/ j \in DOMAIN toHost /\ t[j] = toHost[j] /\ IsRead(j) /\ t[j].n \in c
        \/ j = Len(toHost) + 1 /\ t[j].n = n
    BY <1>4, <1>5
  <2> QED BY <1>5, <2>1, <2>2
<1>10. r = host'.reads /\ t = toHost'
  BY <1>2, <1>3
<1>11. PICK d : d = c \cup {n}
  OBVIOUS
<1>12. Requests(d)'
  BY <1>5, <1>6, <1>7, <1>8, <1>9, <1>10, <1>11, RequestsThen
<1> QED BY <1>11, <1>12

LEMMA FlowAsk ==
  ASSUME Held, Sized, NEW a \in SUBSET (1 .. Blocks), NEW b \in SUBSET (1 .. Blocks),
         NEW c \in SUBSET (1 .. Blocks), Parting(a, b, c), front.original, KeepsPlace, ToHostType,
         NEW n \in 1 .. Blocks, n \notin front.asked, front'.asked = front.asked \cup {n},
         Tells("read", front.gen, n),
         NEW d, d = a \cup {n}, NEW e, e = b \cup {n}, NEW f, f = c \cup {n}
  PROVE  Parting(d, e, f)'
<1>1. /\ UNCHANGED <<host, media, toFront>> /\ front'.gen = front.gen /\ front'.original = front.original
      /\ media.queue \in Seq(RemoteMsg) /\ host.queue \in Seq(RemoteMsg)
  BY HeldHas DEF KeepsPlace
<1>2. PICK x : x = front.asked
  OBVIOUS
<1>3. /\ Leads(FALSE, Items(front.gen, toFront.wire), x, a)
      /\ Leads(FALSE, Items(front.gen, media.queue), a, b)
      /\ Leads(FALSE, Items(front.gen, host.queue), b, c)
  <2>1. ~front.original <=> FALSE
    OBVIOUS
  <2>2. Awaited = x
    BY <1>2 DEF Awaited
  <2>3. /\ Leads(~front.original, Items(front.gen, toFront.wire), x, a)
        /\ Leads(~front.original, Items(front.gen, media.queue), a, b)
        /\ Leads(~front.original, Items(front.gen, host.queue), b, c)
    BY <2>2 DEF Parting, Streamed, Flows
  <2> QED BY <2>1, <2>3 DEF Leads
<1>4. a \subseteq x /\ b \subseteq a /\ c \subseteq b
  BY <1>3, LeadsShrinks
<1>5. n \notin x /\ n \notin a /\ n \notin b /\ n \notin c
  BY <1>2, <1>4
<1>6. /\ Leads(FALSE, Items(front.gen, toFront.wire), x \cup {n}, d)
      /\ Leads(FALSE, Items(front.gen, media.queue), d, e)
      /\ Leads(FALSE, Items(front.gen, host.queue), e, f)
  BY <1>3, <1>5, LeadsMore
<1>7. Streamed(d, e, f)'
  <2>1. Awaited' = x \cup {n}
    BY <1>1, <1>2 DEF Awaited
  <2>2. Flows(front.original, front.gen, x \cup {n}, d, e, f, toFront.wire, media.queue, host.queue)
    BY <1>6 DEF Flows, Leads
  <2> QED BY <1>1, <2>1, <2>2 DEF Streamed
<1>8. Ending(f)'
  BY <1>1 DEF Ending
<1>9. Counted(d, f)'
  <2> SUFFICES ASSUME host.gen = front.gen
               PROVE  /\ Len(media.queue) + Len(host.queue) <= Cardinality(d)
                      /\ host.worker = "serves" =>
                           /\ Len(media.queue) + Len(host.queue) + Cardinality(f) = Cardinality(d)
                           /\ Requests(f)'
    BY <1>1 DEF Counted
  <2>1. /\ Cardinality(d) = Cardinality(a) + 1 /\ Cardinality(f) = Cardinality(c) + 1
        /\ Cardinality(a) \in Nat /\ Cardinality(c) \in Nat
    BY <1>5, PartsFinite, FS_AddElement
  <2>2. PICK l \in Nat : l = Len(media.queue)
    BY <1>1
  <2>3. PICK q \in Nat : q = Len(host.queue)
    BY <1>1
  <2>4. /\ l + q <= Cardinality(a)
        /\ host.worker = "serves" => l + q + Cardinality(c) = Cardinality(a) /\ Requests(c)
    BY <2>2, <2>3 DEF Parting, Counted
  <2>5. \A i, j, k, y \in Nat : /\ i + j <= k => i + j <= k + 1
                                /\ i + j + y = k => i + j + (y + 1) = k + 1
    OBVIOUS
  <2>6. l + q <= Cardinality(d)
    BY <2>1, <2>4, <2>5
  <2>7. host.worker = "serves" => l + q + Cardinality(f) = Cardinality(d)
    BY <2>1, <2>4, <2>5
  <2>8. host.worker = "serves" => Requests(f)'
    BY <1>1, <1>5, <2>4, RequestsMore
  <2> QED BY <2>2, <2>3, <2>6, <2>7, <2>8
<1> QED BY <1>7, <1>8, <1>9 DEF Parting

LEMMA RemoteAsks == ASSUME Held, Rules, R!AskBlock PROVE Held' /\ Rules'
<1>1. /\ RemoteTypes /\ ToHostType /\ InFlight \in Nat
  BY HeldHas, RemoteConstants DEF RemoteTypes
<1>2. /\ KeepsPlace /\ ToHostType' /\ front.original /\ front'.input = front.input
      /\ front'.credit = front.credit /\ Cardinality(front.asked) < InFlight
      /\ \E n \in 1 .. Blocks : /\ n \notin front.asked /\ front'.asked = front.asked \cup {n}
                                /\ Tells("read", front.gen, n)
  BY <1>1, AskBlockDoes
<1>3. PICK n \in 1 .. Blocks : /\ n \notin front.asked /\ front'.asked = front.asked \cup {n}
                               /\ Tells("read", front.gen, n)
  BY <1>2
<1>4. Held' /\ RemoteTypes'
  BY <1>2, <1>3, HeldOwn
<1>5. /\ front'.gen = front.gen /\ front'.original = front.original /\ front'.got = front.got
  BY <1>2 DEF KeepsPlace
<1>6. Sized'
  <2>1. front.asked \in SUBSET (1 .. Blocks) /\ front.input <= Len(front.got)
    BY DEF Rules, Sized
  <2>2. Cardinality(front'.asked) = Cardinality(front.asked) + 1 /\ Cardinality(front.asked) \in Nat
    BY <1>3, <2>1, PartsFinite, FS_AddElement
  <2>3. Cardinality(front'.asked) <= InFlight
    BY <1>1, <1>2, <2>2
  <2> QED BY <1>2, <1>3, <1>5, <2>1, <2>3 DEF Sized
<1>7. PICK a, b, c \in SUBSET (1 .. Blocks) : Parting(a, b, c)
  BY DEF Rules, Flow
<1>8. PICK d \in SUBSET (1 .. Blocks) : d = a \cup {n}
  BY <1>7
<1>9. PICK e \in SUBSET (1 .. Blocks) : e = b \cup {n}
  BY <1>7
<1>10. PICK f \in SUBSET (1 .. Blocks) : f = c \cup {n}
  BY <1>7
<1>11. Parting(d, e, f)'
  BY <1>1, <1>2, <1>3, <1>7, <1>8, <1>9, <1>10, FlowAsk DEF Rules
<1>12. Flow'
  BY <1>11 DEF Flow
<1>13. Paid'
  BY <1>2, <1>5 DEF Paid
<1>14. Kept'
  BY <1>2, OwnKept DEF Rules
<1> QED BY <1>4, <1>6, <1>12, <1>13, <1>14 DEF Rules

\* Another generation: the frontend still takes what is on its way of the last one.
LEMMA RemoteRestarts ==
  ASSUME Held, Rules, NEW mode \in {"proxy", "original"}, R!Restart(mode) PROVE Held' /\ Rules'
<1>1. /\ Base /\ Last /\ Modes /\ Gens /\ RemoteTypes /\ host.gen \in Nat /\ front.gen \in Nat
  BY HeldHas
<1>2. \A k \in OnWay : k.gen <= host.gen
  BY <1>1 DEF Gens
<1>3. /\ RemoteTypes' /\ UNCHANGED <<media, toFront, front, toHost>>
      /\ host'.gen = host.gen + 1 /\ host'.queue = <<>>
  BY <1>1, <1>2, RestartDoes
<1>4. Held'
  BY <1>1, BaseRestart, LastRestart, ModesRestart, RestRestart DEF Held
<1>5. host'.gen # front'.gen
  BY <1>1, <1>3 DEF Gens
<1>6. Sized' /\ Paid' /\ Kept'
  BY <1>3, <1>5, KeptStays DEF Rules, Sized, Paid
<1>7. PICK a, b, c \in SUBSET (1 .. Blocks) : Parting(a, b, c)
  BY DEF Rules, Flow
<1>8. /\ Leads(~front.original, Items(front.gen, toFront.wire), Awaited, a)
      /\ Leads(~front.original, Items(front.gen, media.queue), a, b)
      /\ Leads(~front.original, Items(front.gen, host.queue), b, c)
  BY <1>7 DEF Parting, Streamed, Flows
<1>9. Leads(~front.original, Items(front.gen, host'.queue), b, b)
  <2>1. PICK q \in Seq(RemoteMsg) : q = host'.queue
    BY <1>3, NothingIn
  <2>2. DOMAIN Items(front.gen, q) = DOMAIN q
    BY ItemsAre
  <2>3. DOMAIN q = {}
    BY <1>3, <2>1
  <2> QED BY <2>1, <2>2, <2>3, LeadsNothing
<1>10. Streamed(a, b, b)'
  BY <1>3, <1>8, <1>9 DEF Streamed, Flows, Awaited
<1>11. Ending(b)'
  <2>1. c \subseteq b
    BY <1>8, LeadsShrinks
  <2> QED BY <1>3, <1>5, <1>7, <2>1 DEF Parting, Ending, Granted
<1>12. Counted(a, b)'
  BY <1>5 DEF Counted
<1>13. Flow'
  BY <1>7, <1>10, <1>11, <1>12 DEF Flow, Parting
<1> QED BY <1>4, <1>6, <1>13 DEF Rules

-----------------------------------------------------------------------------
\* The first generation: nothing is sent yet, and the frontend has no movie.
LEMMA StartTypes ==
  ASSUME R!RemoteInit
  PROVE  /\ RemoteTypes
         /\ host.gen = 1 /\ host.worker = "start" /\ host.next = 1 /\ host.credit = 0
         /\ host.queue = <<>> /\ host.reads = <<>>
         /\ \A i \in DOMAIN host.control : /\ Announces(host.control[i], 1, host.mode)
                                           /\ Opener(host.control[i]) => i = 1
<1>1. PICK mode \in {"proxy", "original"} : host = R!Restarted(1, mode, 0)
  BY DEF R!RemoteInit
<1>2. PICK c \in Seq(RemoteMsg) :
        /\ host = [gen |-> 1, mode |-> mode, control |-> c, worker |-> "start", next |-> 1,
                   credit |-> 0, queue |-> <<>>, reads |-> <<>>, over |-> FALSE, failures |-> 0]
        /\ \A i \in DOMAIN c : /\ Announces(c[i], 1, mode)
                               /\ Opener(c[i]) => i = 1
  BY <1>1, RestartedIs
<1>3. <<>> \in Seq(RemoteMsg) /\ <<>> \in Seq(Nat)
  OBVIOUS
<1>4. HostType
  BY <1>2, <1>3 DEF HostType, HostSet
<1>5. MediaType /\ ToFrontType /\ FrontType /\ ToHostType
  BY <1>3 DEF R!RemoteInit, MediaType, ToFrontType, FrontType, FrontSet, ToHostType
<1> QED BY <1>2, <1>4, <1>5 DEF RemoteTypes

LEMMA StartBase == ASSUME R!RemoteInit PROVE Base
<1>1. /\ RemoteTypes
      /\ host.gen = 1 /\ host.worker = "start" /\ host.next = 1 /\ host.credit = 0
      /\ host.queue = <<>> /\ host.reads = <<>>
      /\ \A i \in DOMAIN host.control : /\ Announces(host.control[i], 1, host.mode)
                                        /\ Opener(host.control[i]) => i = 1
  BY StartTypes
<1>2. /\ media.queue = <<>> /\ toFront.control = <<>> /\ toFront.wire = <<>> /\ toHost = <<>>
      /\ front.gen = 0
  BY DEF R!RemoteInit
<1>3. Blocks \in Nat
  BY RemoteConstants
<1>4. /\ Box \in Filled /\ Box["asked"] = host.control /\ Box["control"] = <<>>
      /\ Box["wire"] = <<>> /\ Box["media"] = <<>> /\ Box["queue"] = <<>>
  BY <1>1, <1>2, BoxIs
<1>5. ASSUME NEW p \in Boxes, NEW i \in DOMAIN Box[p]
      PROVE  /\ p = "asked" /\ Announces(Box[p][i], 1, host.mode)
             /\ Opener(Box[p][i]) => i = 1
  <2>1. /\ DOMAIN Box["control"] = {} /\ DOMAIN Box["wire"] = {} /\ DOMAIN Box["media"] = {}
        /\ DOMAIN Box["queue"] = {}
    BY <1>4
  <2>2. p = "asked"
    BY <2>1 DEF Boxes
  <2> QED BY <1>1, <1>4, <2>2
<1>6. \A k \in OnWay : Announces(k, 1, host.mode)
  BY <1>5 DEF OnWay, Contents
<1>7. Gens
  <2>1. DOMAIN toHost = {} /\ DOMAIN host.queue = {} /\ DOMAIN toFront.control = {}
    BY <1>1, <1>2
  <2>2. \A k \in OnWay : 0 < k.gen /\ k.gen <= host.gen
    BY <1>1, <1>6 DEF Announces
  <2>3. \A i \in DOMAIN host.control : Announces(host.control[i], host.gen, host.mode)
    BY <1>1
  <2> QED BY <1>1, <1>2, <1>3, <2>1, <2>2, <2>3 DEF Gens
<1>8. Untouched(1)
  <2>1. DOMAIN toHost = {}
    BY <1>2
  <2> QED BY <1>1, <1>2, <1>6, <2>1 DEF Untouched, Announces, Data
<1>9. Fresh
  BY <1>1, <1>6, <1>8 DEF Fresh, Announces
<1>10. Kindly
  BY <1>6 DEF Kindly, Announces, Opener, Starting
<1>11. Unique(Box)
  BY <1>5 DEF Unique, Same
<1> QED BY <1>1, <1>7, <1>9, <1>10, <1>11 DEF Base

LEMMA RemoteStart == R!RemoteInit => Held /\ Rules
<1> SUFFICES ASSUME R!RemoteInit PROVE Held /\ Rules
  OBVIOUS
<1>1. /\ RemoteTypes
      /\ host.gen = 1 /\ host.worker = "start" /\ host.next = 1 /\ host.credit = 0
      /\ host.queue = <<>> /\ host.reads = <<>>
      /\ \A i \in DOMAIN host.control : /\ Announces(host.control[i], 1, host.mode)
                                        /\ Opener(host.control[i]) => i = 1
  BY StartTypes
<1>2. /\ media.queue = <<>> /\ toFront.control = <<>> /\ toFront.wire = <<>> /\ toHost = <<>>
      /\ ~media.lost /\ front.gen = 0 /\ ~front.original /\ front.got = <<>> /\ front.input = 0
      /\ front.asked = {} /\ front.credit = 0 /\ ~front.dead
  BY DEF R!RemoteInit
<1>3. Base
  BY StartBase
<1>4. \A k \in OnWay : /\ k.gen = 1 /\ k.kind \in {"open", "control"}
                       /\ k.kind = "open" => host.mode = "proxy"
  <2>3. /\ Box["asked"] = host.control /\ Box["control"] = <<>>
        /\ Box["wire"] = <<>> /\ Box["media"] = <<>> /\ Box["queue"] = <<>>
    BY <1>1, <1>2, BoxIs
  <2>4. /\ DOMAIN Box["control"] = {} /\ DOMAIN Box["wire"] = {} /\ DOMAIN Box["media"] = {}
        /\ DOMAIN Box["queue"] = {}
    BY <2>3
  <2>5. \A k \in OnWay : Announces(k, 1, host.mode)
    BY <1>1, <2>3, <2>4 DEF OnWay, Contents, Boxes
  <2> QED BY <2>5 DEF Announces
<1>5. Last
  <2>1. DOMAIN host.queue = {} /\ DOMAIN media.queue = {} /\ DOMAIN toFront.wire = {}
    BY <1>1, <1>2
  <2> QED BY <1>4, <2>1 DEF Last, ErrorLast, QueueLast, MediaLast, WireLast, Final
<1>6. Modes
  BY <1>1, <1>2, <1>4 DEF Modes, DataFits, Agree
<1>7. Resting /\ Alone
  <2>1. Len(host.queue) = 0 /\ DOMAIN toHost = {}
    BY <1>1, <1>2
  <2> QED BY <1>1, <1>2, <2>1 DEF Resting, Alone
<1>8. Blocks \in Nat /\ Window \in Nat /\ InFlight \in Nat
  BY RemoteConstants
<1>9. Len(front.got) = 0 /\ Cardinality(front.asked) = 0
  BY <1>2, FS_EmptySet
<1>10. Sized
  BY <1>2, <1>8, <1>9 DEF Sized
<1>11. PICK x \in SUBSET (1 .. Blocks) : x = 1 .. Blocks
  OBVIOUS
<1>12. Awaited = x
  <2>1. Awaited = Rest(0)
    BY <1>2, <1>9 DEF Awaited
  <2> QED BY <1>8, <1>11, <2>1 DEF Rest
<1>13. Streamed(x, x, x)
  <2>1. PICK e \in Seq(RemoteMsg) : e = <<>>
    BY NothingIn
  <2>2. DOMAIN Items(front.gen, e) = DOMAIN e
    BY ItemsAre
  <2>4. DOMAIN e = {}
    BY <2>1
  <2>3. Leads(~front.original, Items(front.gen, e), x, x)
    BY <2>2, <2>4, LeadsNothing
  <2> QED BY <1>1, <1>2, <1>12, <2>1, <2>3 DEF Streamed, Flows
<1>14. Ending(x) /\ Counted(x, x)
  BY <1>1, <1>2, <1>11 DEF Ending, Counted
<1>15. Flow
  BY <1>13, <1>14 DEF Flow, Parting
<1>16. Paid
  BY <1>1, <1>2 DEF Paid
<1>17. Kept
  BY <1>2 DEF Kept, R!WindowHeld, R!NoneDropped, R!InMovieOrder
<1> QED BY <1>3, <1>5, <1>6, <1>7, <1>10, <1>15, <1>16, <1>17 DEF Held, Rules

LEMMA RemoteTakes == ASSUME Held, Rules, R!FrontReceive PROVE Held' /\ Rules'
<1>1. PICK m : m = toFront.wire[1]
  OBVIOUS
<1>2. /\ Takes
      /\ \/ R!FrontOpen(m) \/ R!FrontChunk(m) \/ R!FrontRange(m) \/ R!FrontEof(m)
         \/ R!FrontControl(m) \/ R!FrontError(m)
  BY <1>1, HeldHas, FrontReceiveDoes
<1> QED BY <1>1, <1>2, TakeOpen, TakeChunk, TakeRange, TakeNote, TakeError

LEMMA RemoteRests == ASSUME Held, Rules, UNCHANGED R!remoteVars PROVE Held' /\ Rules'
<1>1. UNCHANGED <<host, media, toFront, front, toHost>>
  BY DEF R!remoteVars
<1>2. Base'
  BY <1>1 DEF Held, Base, RemoteTypes, HostType, FrontType, MediaType, ToFrontType, ToHostType, Gens,
              Fresh, Kindly, Untouched, Starting, OnWay, Box
<1>3. Last' /\ Modes' /\ Resting' /\ Alone'
  BY <1>1 DEF Held, Last, ErrorLast, QueueLast, MediaLast, WireLast, Modes, DataFits, Agree, Resting,
              Alone, OnWay, Box
<1>4. Sized' /\ Paid' /\ Kept'
  BY <1>1, KeptStays DEF Rules, Sized, Paid, Granted
<1>5. Flow'
  <2>1. PICK a, b, c \in SUBSET (1 .. Blocks) : Parting(a, b, c)
    BY DEF Rules, Flow
  <2>2. Granted' = Granted /\ Awaited' = Awaited
    BY <1>1 DEF Granted, Awaited
  <2>3. Ending(c)' /\ Counted(a, c)'
    BY <1>1, <2>1, <2>2, EndingStays, CountedStays DEF Parting
  <2>4. Streamed(a, b, c)'
    BY <1>1, <2>1, <2>2 DEF Parting, Streamed
  <2> QED BY <2>1, <2>3, <2>4 DEF Flow, Parting
<1> QED BY <1>2, <1>3, <1>4, <1>5 DEF Held, Rules

LEMMA RemoteStep == Held /\ Rules /\ [R!RemoteNext]_R!remoteVars => Held' /\ Rules'
<1> SUFFICES ASSUME Held, Rules, [R!RemoteNext]_R!remoteVars PROVE Held' /\ Rules'
  OBVIOUS
<1>1. CASE R!RemoteNext
  <2>1. CASE \E mode \in {"proxy", "original"} : R!Restart(mode)
    BY <2>1, RemoteRestarts
  <2>2. CASE R!Worker \/ R!Fail
    BY <2>2, RemoteWorks
  <2>3. CASE R!Effects \/ R!Drain \/ R!Write
    BY <2>3, RemoteEffects, RemoteDrains, RemoteWrites
  <2>4. CASE R!HostReceive \/ R!FrontReceive
    BY <2>4, RemoteHears, RemoteTakes
  <2>5. CASE R!Consume \/ R!GiveCredit \/ R!AskBlock
    BY <2>5, RemoteConsumes, RemoteGivesCredit, RemoteAsks
  <2> QED BY <1>1, <2>1, <2>2, <2>3, <2>4, <2>5 DEF R!RemoteNext
<1>2. CASE UNCHANGED R!remoteVars
  BY <1>2, RemoteRests
<1> QED BY <1>1, <1>2

-----------------------------------------------------------------------------
(* The theorem. *)

\* A movie of another machine: whatever the user restarts it with, and however far apart the two
\* ends are, the frontend is never sent what ends it, no message finds the media channel full, and
\* the decoder of a preview gets the movie from its start without a gap.
THEOREM RemoteMovieKept ==
  Transfers => [](R!WindowHeld /\ R!NoneDropped /\ R!InMovieOrder)
<1>1. Start => Held /\ Rules
  BY RemoteStart DEF Start
<1>2. Held /\ Rules /\ [Turn]_allVars => Held' /\ Rules'
  BY EachPart, RemoteStep
<1>3. Held /\ Rules => R!WindowHeld /\ R!NoneDropped /\ R!InMovieOrder
  BY DEF Rules, Kept
<1> QED BY <1>1, <1>2, <1>3, PTL DEF Transfers

\* No receiver is sent more than it takes: of a movie's blocks, of a canvas's packets and of a
\* song's blocks, whatever was opened, closed and restarted meanwhile, so that a message that was
\* sent for a credit finds room.  A canvas whose decoder broke, or whose window was made smaller
\* than the credit that was out, is excepted (CreditFits).
THEOREM CreditsAlwaysKept == Transfers => []CreditsKept
<1>1. Start => Held /\ Rules /\ VideoInv /\ SongInv
  BY RemoteStart, VideoStart, SongStart DEF Start
<1>2. Held /\ Rules /\ VideoInv /\ SongInv /\ [Turn]_allVars => Held' /\ Rules' /\ VideoInv' /\ SongInv'
  BY EachPart, RemoteStep, VideoStep, SongStep
<1>3. Held /\ Rules /\ VideoInv /\ SongInv => CreditsKept
  BY VideoMeans, SongMeans DEF Rules, Kept, CreditsKept
<1> QED BY <1>1, <1>2, <1>3, PTL DEF Transfers

\* Media of another machine is played whole: the decoder of a preview gets its movie in order and
\* without a gap, a song that is reported as finished was heard to its end, block by block, and
\* one that stopped by itself has told the host so.
THEOREM MediaAlwaysIntact == Transfers => []MediaIntact
<1>1. Start => Held /\ Rules /\ SongInv
  BY RemoteStart, SongStart DEF Start
<1>2. Held /\ Rules /\ SongInv /\ [Turn]_allVars => Held' /\ Rules' /\ SongInv'
  BY EachPart, RemoteStep, SongStep
<1>3. Held /\ Rules /\ SongInv => MediaIntact
  BY SongMeans DEF Rules, Kept, MediaIntact
<1> QED BY <1>1, <1>2, <1>3, PTL DEF Transfers
=============================================================================
