------------------------- MODULE PresentationProofs -------------------------
(***************************************************************************)
(* For any number of connections, resizes, switches and keys: the queues   *)
(* of Presentation keep their bounds, and every key reaches the            *)
(* application once, in order, in the attachment it was typed in, and in   *)
(* the geometry on the terminal when it was typed.                         *)
(*                                                                         *)
(* The argument is about what the attached frontend has sent and the       *)
(* session has not yet read.  In that queue the geometries only rise, from *)
(* what the session knows to what the frontend has; and whatever geometry  *)
(* a key names, the queue before it makes the session know it, and know    *)
(* that it was on the terminal.                                            *)
(***************************************************************************)
EXTENDS Presentation, TLAPS

----------------------------------------------------------------------------
(* Types. *)

Shots == [rev : Nat, gen : Nat]
Control == [type : {"hello", "toggle"}]
Carried == [type : {"scene"}, scene : Scene]
Message == [type : {"hello", "presentation"}, gen : Nat] \cup [type : {"eof"}]
             \cup [type : {"resize"}, gen : Nat, id : Nat]
             \cup [type : {"key"}, n : Nat, typed : Nat, rev : Nat, gen : Nat, id : Nat]
             \cup [type : {"presented"}, rev : Nat, gen : Nat]
Channel == [control : Seq(Control), slot : Opt(Scene), wire : Seq(Control \cup Carried),
            messages : Seq(Control), frames : Opt(Scene)]
Session == [peer : 0 .. MaxConns, view : Nat, scene : Scene, attached : BOOLEAN, dirty : BOOLEAN,
            budget : Opt(Shots), last : Nat, target : Opt(Scene), history : SUBSET Scene]
Client == [conn : 0 .. MaxConns, tried : Conns, connected : BOOLEAN, known : BOOLEAN, gen : Nat,
           hello : Nat, last : Opt(Scene), shown : Opt(Scene), pixels : BOOLEAN,
           pending : Seq([n : Nat, typed : Nat]), id : Nat, typed : Nat, resizes : Nat,
           hovers : Nat, pc : {"controls", "output", "link", "input", "stopped"}, todo : Nat]
Renderer == [input : Opt(Scene), busy : Opt(Scene), output : Seq(Scene)]
Given == [n : Nat, typed : Nat, conn : Nat, gen : Nat, view : Nat, seen : Nat]

Types ==
  /\ app \in [content : 1 .. MaxContent, toggles : 0 .. MaxToggles]
  /\ se \in Session /\ fe \in Client /\ paint \in Renderer
  /\ up \in [Conns -> Seq(Message)] /\ down \in [Conns -> Channel]
  /\ link \in [Conns -> {"new", "open", "cut"}]
  /\ delivered \in Seq(Given)

Bounds == /\ \A c \in Conns : Len(down[c].wire) <= WireCap
          /\ Len(fe.pending) <= KeyCap
          /\ Len(paint.output) <= 2

----------------------------------------------------------------------------
(* Who is connected to whom. *)

\* The session has read nothing of this connection yet, its Hello included.
Unheard(c) == /\ Len(up[c]) = 1 /\ up[c][1].type = "hello" /\ down[c] = NoChannels
              /\ ~fe.connected
Links == /\ fe.conn <= fe.tried /\ se.peer <= fe.tried
         /\ fe.connected => fe.conn # 0
         /\ \A c \in Conns : c > fe.tried => up[c] = <<>> /\ down[c] = NoChannels
         /\ \A c \in Conns : link[c] = "open" => c = fe.conn /\ (se.peer = c \/ Unheard(c))

\* A Hello comes first, the session has not read it yet, and only the end follows.
HelloFirst == \A c \in Conns : \A i \in DOMAIN up[c] :
                up[c][i].type = "hello" =>
                  /\ i = 1 /\ c # se.peer /\ up[c][i].gen <= fe.gen
                  /\ \A j \in DOMAIN up[c] : j > 1 => up[c][j].type = "eof"

Drains == /\ fe.conn = 0 => fe.todo = 0
          /\ fe.conn # 0 => fe.todo <= Len(down[fe.conn].messages)
          /\ fe.pc # "controls" => fe.todo = 0

----------------------------------------------------------------------------
(* Every scene on its way is one the session has sent. *)

Ours(s) == s # None => s \in se.history
OnlyOurs ==
  /\ \A c \in Conns : /\ Ours(down[c].slot) /\ Ours(down[c].frames)
                      /\ \A i \in DOMAIN down[c].wire :
                           down[c].wire[i].type = "scene" => Ours(down[c].wire[i].scene)
  /\ \A c \in Conns : \A i \in DOMAIN up[c] :
       up[c][i].type = "presented" => \E h \in se.history : up[c][i] = Shows(h)
  /\ Ours(fe.last) /\ Ours(paint.input) /\ Ours(paint.busy)
  /\ \A i \in DOMAIN paint.output : Ours(paint.output[i])

----------------------------------------------------------------------------
(* What the session has not yet read of its peer, u. *)

Views == {"resize", "presentation"}     \* what the session learns of the geometry from
Acks == {"presented"}                   \* ... and of the terminal
Inputs == {"resize", "key"}

\* The geometries named by messages of types T rise from low to high.
Rises(u, T, low, high) ==
  /\ low <= high
  /\ \A i \in DOMAIN u : u[i].type \in T => low <= u[i].gen /\ u[i].gen <= high
  /\ \A i, j \in DOMAIN u : i < j /\ u[i].type \in T /\ u[j].type \in T => u[i].gen <= u[j].gen

\* Messages of types T have brought the reader from low to gen before position p.
Reaches(u, T, low, p, gen) ==
  /\ low <= gen
  /\ \A i \in DOMAIN u : i < p /\ u[i].type \in T => u[i].gen <= gen
  /\ low = gen \/ \E i \in DOMAIN u : i < p /\ u[i].type \in T /\ u[i].gen = gen
KeysReach(u, T, low) ==
  \A p \in DOMAIN u : u[p].type = "key" => Reaches(u, T, low, p, u[p].gen)

\* Inputs are numbered upwards from what the session has admitted.
Numbered(u, low, high) ==
  /\ low <= high
  /\ \A i \in DOMAIN u : u[i].type \in Inputs => low < u[i].id /\ u[i].id <= high
  /\ \A i, j \in DOMAIN u : i < j /\ u[i].type \in Inputs /\ u[j].type \in Inputs => u[i].id < u[j].id

\* Keys of connection c in the order they were typed, after those given away.
InOrder(u, c, given, typed) ==
  /\ \A i \in DOMAIN given : given[i].n <= typed
  /\ \A i \in DOMAIN u : u[i].type = "key" =>
       /\ u[i].typed = c /\ u[i].n <= typed
       /\ \A k \in DOMAIN given : given[k].n < u[i].n
  /\ \A i, j \in DOMAIN u : i < j /\ u[i].type = "key" /\ u[j].type = "key" => u[i].n < u[j].n

Heard == IF se.peer = 0 THEN <<>> ELSE up[se.peer]
Seen == IF se.target = None THEN 0 ELSE se.target.gen

Stream(u, c, last, view, seen, given, id, gen, typed) ==
  /\ Numbered(u, last, id) /\ InOrder(u, c, given, typed)
  /\ Rises(u, Views, view, gen) /\ KeysReach(u, Views, view)
  /\ Rises(u, Acks, seen, gen) /\ KeysReach(u, Acks, seen)
Flow == Stream(Heard, se.peer, se.last, se.view, Seen, delivered, fe.id, fe.gen, fe.typed)

\* Once the session has read all this, it is where the frontend is.
Attached == fe.connected /\ link[fe.conn] = "open"
Shown == fe.shown # None /\ fe.shown.gen = fe.gen
UpToNow(u, T, low) == Reaches(u, T, low, Len(u) + 1, fe.gen)
Current == Attached => /\ UpToNow(Heard, Views, se.view)
                       /\ Shown => UpToNow(Heard, Acks, Seen)

\* The keys that wait follow all others and belong to this attachment.
Waiting(q, u, given, typed) ==
  /\ \A i \in DOMAIN q : /\ q[i].n <= typed
                         /\ \A k \in DOMAIN given : given[k].n < q[i].n
                         /\ \A k \in DOMAIN u : u[k].type = "key" => u[k].n < q[i].n
  /\ \A i, j \in DOMAIN q : i < j => q[i].n < q[j].n
Own == fe.pc # "stopped" => \A i \in DOMAIN fe.pending : fe.conn # 0 /\ fe.pending[i].typed = fe.conn

Keys == /\ Flow /\ Current /\ Own /\ KeysKept
        /\ Waiting(fe.pending, Heard, delivered, fe.typed)

KeyInv == Types /\ Bounds /\ Links /\ HelloFirst /\ Drains /\ OnlyOurs /\ Keys

----------------------------------------------------------------------------
(* Types are kept. *)

\* The head and the tail of a queue.
LEMMA Tails ==
  ASSUME NEW S, NEW q \in Seq(S), q # <<>>
  PROVE  /\ Head(q) = q[1] /\ Head(q) \in S /\ Len(q) \in Nat /\ Len(q) > 0 /\ 1 \in DOMAIN q
         /\ Tail(q) \in Seq(S) /\ Len(Tail(q)) = Len(q) - 1
         /\ \A i \in DOMAIN Tail(q) : i \in Nat /\ i + 1 \in DOMAIN q /\ Tail(q)[i] = q[i + 1]
         /\ \A i \in DOMAIN q : i # 1 => i - 1 \in DOMAIN Tail(q)
OBVIOUS

LEMMA Entries ==
  ASSUME NEW S, NEW q \in Seq(S)
  PROVE  \A i \in DOMAIN q : q[i] \in S
OBVIOUS

LEMMA Appends ==
  ASSUME NEW S, NEW q \in Seq(S), NEW e \in S
  PROVE  /\ Append(q, e) \in Seq(S) /\ Len(Append(q, e)) = Len(q) + 1
         /\ \A i \in DOMAIN Append(q, e) :
              Append(q, e)[i] = e \/ (i \in DOMAIN q /\ Append(q, e)[i] = q[i])
OBVIOUS

LEMMA Concats ==
  ASSUME NEW S, NEW q \in Seq(S), NEW r \in Seq(S), NEW w, w = q \o r
  PROVE  /\ w \in Seq(S) /\ Len(w) = Len(q) + Len(r) /\ Len(q) \in Nat /\ Len(r) \in Nat
         /\ \A i \in DOMAIN w : \/ i \in DOMAIN q /\ w[i] = q[i]
                                \/ i > Len(q) /\ i - Len(q) \in DOMAIN r /\ w[i] = r[i - Len(q)]
         /\ \A i \in DOMAIN q : i \in DOMAIN w /\ w[i] = q[i] /\ i <= Len(q)
         /\ \A i \in DOMAIN r : i + Len(q) \in DOMAIN w /\ w[i + Len(q)] = r[i]
         /\ DOMAIN q \subseteq Nat /\ DOMAIN r \subseteq Nat /\ DOMAIN w \subseteq Nat
OBVIOUS

\* What a message carries, by its type.
LEMMA Carries ==
  ASSUME NEW m \in Message
  PROVE  /\ m.type \in {"hello", "presentation", "eof", "resize", "key", "presented"}
         /\ m.type # "eof" => m.gen \in Nat
         /\ m.type \in Inputs => m.id \in Nat
         /\ m.type = "key" => m.n \in Nat /\ m.typed \in Nat /\ m.rev \in Nat
         /\ m.type = "presented" => m.rev \in Nat /\ Shot(m) = [rev |-> m.rev, gen |-> m.gen]
BY DEF Message, Inputs, Shot

LEMMA EndIsMessage == [type |-> "eof"] \in Message
BY DEF Message

\* A queue cut short and ended is still a queue, and what is left of it is unchanged.
CutOf(w, u) ==
  \A i \in DOMAIN w : (i = Len(w) /\ w[i].type = "eof") \/ (i \in DOMAIN u /\ w[i] = u[i])

LEMMA CutShort ==
  ASSUME NEW u \in Seq(Message), NEW n \in 0 .. Len(u),
         NEW w, w = SubSeq(u, 1, n) \o <<[type |-> "eof"]>>
  PROVE  w \in Seq(Message) /\ CutOf(w, u)
<1>1. SubSeq(u, 1, n) \in Seq(Message) /\ Len(SubSeq(u, 1, n)) = n
        /\ \A i \in 1 .. n : SubSeq(u, 1, n)[i] = u[i]
  OBVIOUS
<1>2. w \in Seq(Message) /\ Len(w) = n + 1
        /\ \A i \in 1 .. Len(w) : w[i] = IF i <= n THEN u[i] ELSE [type |-> "eof"]
  BY <1>1, EndIsMessage
<1>3. ASSUME NEW i \in DOMAIN w  PROVE (i = Len(w) /\ w[i].type = "eof") \/ (i \in DOMAIN u /\ w[i] = u[i])
  <2>1. i \in 1 .. Len(w)
    BY <1>2
  <2>2. i <= n \/ i = n + 1
    BY <1>2, <2>1
  <2>3. CASE i <= n
    BY <1>2, <2>1, <2>3
  <2>4. CASE i = n + 1
    <3>1. ~(i <= n)
      BY <2>4
    <3> QED  BY <1>2, <2>1, <2>4, <3>1
  <2> QED  BY <2>2, <2>3, <2>4
<1> QED  BY <1>2, <1>3 DEF CutOf

LEMMA CutsUp ==
  ASSUME Types, NEW c \in Conns, CutUp(c)
  PROVE  /\ up' \in [Conns -> Seq(Message)]
         /\ \A d \in Conns : CutOf(up'[d], up[d])
         /\ \A d \in Conns : d # c => up'[d] = up[d]
<1>1. PICK n \in 0 .. Len(up[c]) : up' = [up EXCEPT ![c] = SubSeq(@, 1, n) \o <<[type |-> "eof"]>>]
  BY DEF CutUp
<1>2. up[c] \in Seq(Message) /\ up'[c] = SubSeq(up[c], 1, n) \o <<[type |-> "eof"]>>
  BY <1>1 DEF Types
<1>3. up'[c] \in Seq(Message) /\ CutOf(up'[c], up[c])
  BY <1>2, CutShort
<1> QED  BY <1>1, <1>3 DEF Types, CutOf

\* Sending extends one queue, or none.
LEMMA Sends ==
  ASSUME Types, NEW c \in 0 .. MaxConns, NEW ms \in Seq(Message), up' = Sent(c, ms)
  PROVE  /\ up' \in [Conns -> Seq(Message)]
         /\ \A d \in Conns : d # c => up'[d] = up[d]
         /\ c # 0 /\ link[c] = "open" => c \in Conns /\ up'[c] = up[c] \o ms
         /\ ~(c # 0 /\ link[c] = "open") => up' = up
<1>1. c # 0 => c \in Conns
  BY PresentationAssumption DEF Conns
<1> QED  BY <1>1 DEF Sent, Types

\* Dropping a peer takes its controls and its scene.
LEMMA Drops ==
  ASSUME Types, NEW d \in Conns
  PROVE  /\ Dropped(down, d) \in [Conns -> Channel]
         /\ Dropped(down, d)[d].slot = None /\ Dropped(down, d)[d].control = <<>>
         /\ \A c \in Conns : /\ c # d => Dropped(down, d)[c] = down[c]
                             /\ Dropped(down, d)[c].messages = down[c].messages
                             /\ Dropped(down, d)[c].wire = down[c].wire
                             /\ Dropped(down, d)[c].frames = down[c].frames
<1>1. <<>> \in Seq(Control) /\ None \in Opt(Scene) /\ down \in [Conns -> Channel]
  BY DEF Opt, Types
<1>2. Dropped(down, d) = [down EXCEPT ![d] = [[down[d] EXCEPT !.control = <<>>] EXCEPT !.slot = None]]
  BY <1>1 DEF Dropped
<1>3. down[d] \in Channel
  BY <1>1
<1> DEFINE x == [[down[d] EXCEPT !.control = <<>>] EXCEPT !.slot = None]
<1>4. /\ x \in Channel /\ x.slot = None /\ x.control = <<>>
      /\ x.messages = down[d].messages /\ x.wire = down[d].wire /\ x.frames = down[d].frames
  BY <1>1, <1>3 DEF Channel
<1>5. Dropped(down, d) = [down EXCEPT ![d] = x]
  BY <1>2
<1> HIDE DEF x
<1> QED  BY <1>1, <1>4, <1>5

LEMMA SessionTypes ==
  ASSUME Types, Work \/ AskToggle \/ Paint \/ (\E c \in Conns : Receive(c))
  PROVE  Types'
<1> USE PresentationAssumption
<1>1. CASE Work
  BY SMTT(30), <1>1 DEF Work, Types
<1>2. CASE AskToggle
  <2>1. se.peer \in Conns /\ down[se.peer] \in Channel
    BY SMTT(30), <1>2 DEF AskToggle, Types, Session, Conns
  <2>2. Append(down[se.peer].control, [type |-> "toggle"]) \in Seq(Control)
    BY <2>1 DEF Channel, Control
  <2>3. down' \in [Conns -> Channel]
    BY <1>2, <2>1, <2>2 DEF AskToggle, Types, Channel
  <2>4. app.toggles + 1 \in 0 .. MaxToggles /\ app.content \in 1 .. MaxContent
    BY <1>2 DEF AskToggle, Types
  <2>5. app' \in [content : 1 .. MaxContent, toggles : 0 .. MaxToggles]
    BY <1>2, <2>4 DEF AskToggle, Types
  <2> QED  BY <1>2, <2>3, <2>5 DEF AskToggle, Types
<1>3. CASE Paint
  <2>1. se.peer \in Conns /\ down[se.peer] \in Channel
    BY SMTT(30), <1>3 DEF Paint, Types, Session, Conns
  <2>2. Built \in Scene
    BY DEF Built, NextScene, Types, Session, Scene
  <2>3. Shot(Built) \in Shots
    BY <2>2 DEF Shot, Scene, Shots
  <2>4. se' \in Session
    BY <1>3, <2>2, <2>3 DEF Paint, Types, Session, Opt
  <2>5. down' \in [Conns -> Channel]
    BY <1>3, <2>1, <2>2 DEF Paint, Types, Channel, Opt
  <2> QED  BY <1>3, <2>4, <2>5 DEF Paint, Types
<1>4. ASSUME NEW c \in Conns, Receive(c)  PROVE Types'
  <2> DEFINE m == Head(up[c])
  <2>1. m \in Message /\ Tail(up[c]) \in Seq(Message)
    BY <1>4 DEF Receive, Types
  <2> HIDE DEF m
  <2>2. Attach(c, m) \/ Eof(c, m) \/ ResizeInput(c, m) \/ KeyInput(c, m)
          \/ Presented(c, m) \/ SwitchInput(c, m)
    BY <1>4 DEF Receive, m
  <2>3. ASSUME NEW d \in Conns  PROVE Dropped(down, d) \in [Conns -> Channel]
                                      /\ CutLink(link, d) \in [Conns -> {"new", "open", "cut"}]
    BY Drops DEF CutLink, Types
  <2>4. [up EXCEPT ![c] = Tail(@)] \in [Conns -> Seq(Message)]
    BY <2>1 DEF Types
  <2>5. CASE Attach(c, m)
    <3>0. m.gen \in Nat /\ c \in 0 .. MaxConns
      BY <1>4, <2>5, <2>1, Carries DEF Attach, Conns
    <3>1. se' \in Session
      BY <2>5, <3>0 DEF Attach, Types, Session, Opt
    <3>2. (IF se.peer = 0 THEN down ELSE Dropped(down, se.peer)) \in [Conns -> Channel]
            /\ link' \in [Conns -> {"new", "open", "cut"}]
      <4>1. se.peer # 0 => se.peer \in Conns
        BY DEF Types, Session, Conns
      <4> QED  BY <2>5, <2>3, <4>1 DEF Attach, Types
    <3>3. <<[type |-> "hello"]>> \in Seq(Control)
      BY DEF Control
    <3>4. down' \in [Conns -> Channel]
      <4> DEFINE d == IF se.peer = 0 THEN down ELSE Dropped(down, se.peer)
      <4>1. down' = [d EXCEPT ![c].control = <<[type |-> "hello"]>>] /\ d \in [Conns -> Channel]
        BY <2>5, <3>2 DEF Attach
      <4> HIDE DEF d
      <4> QED  BY <1>4, <3>3, <4>1 DEF Channel
    <3> QED  BY <2>4, <2>5, <3>1, <3>2, <3>4 DEF Attach, Types
  <2>6. CASE Eof(c, m)
    <3>1. se' \in Session
      <4>1. 0 \in 0 .. MaxConns /\ se' = [se EXCEPT !.peer = 0] /\ se \in Session
        BY <2>6 DEF Eof, Types
      <4> QED  BY <4>1 DEF Session
    <3> QED  BY <2>3, <2>4, <2>6, <3>1 DEF Eof, FromPeer, Types
  <2>7. CASE ResizeInput(c, m)
    <3>1. se' \in Session
      BY <2>7, <2>1, Carries DEF ResizeInput, Types, Session, Inputs
    <3> QED  BY <2>4, <2>7, <3>1 DEF ResizeInput, FromPeer, Types
  <2>8. CASE KeyInput(c, m)
    <3>1. se' \in Session
      BY <2>8, <2>1, Carries DEF KeyInput, Types, Session, Inputs
    <3>2. se.target # None => se.target.gen \in Nat
      BY DEF Types, Session, Opt, Scene
    <3>3. [n |-> m.n, typed |-> m.typed, conn |-> c, gen |-> m.gen, view |-> se.view,
           seen |-> IF se.target = None THEN 0 ELSE se.target.gen] \in Given
      <4>1. m.n \in Nat /\ m.typed \in Nat /\ m.gen \in Nat
        BY <2>8, <2>1, Carries DEF KeyInput
      <4>2. c \in Nat /\ se.view \in Nat
        BY <1>4 DEF Types, Session, Conns
      <4> QED  BY <3>2, <4>1, <4>2 DEF Given
    <3>4. delivered' \in Seq(Given)
      BY <2>8, <3>3 DEF KeyInput, Types
    <3> QED  BY <2>4, <2>8, <3>1, <3>4 DEF KeyInput, FromPeer, Types
  <2>9. CASE Presented(c, m)
    <3>1. se' \in Session
      BY <2>9 DEF Presented, Types, Session, Opt
    <3> QED  BY <2>4, <2>9, <3>1 DEF Presented, FromPeer, Types
  <2>10. CASE SwitchInput(c, m)
    <3>1. se' \in Session
      BY <2>10, <2>1, Carries DEF SwitchInput, Types, Session
    <3> QED  BY <2>4, <2>10, <3>1 DEF SwitchInput, FromPeer, Types
  <2> QED  BY <2>2, <2>5, <2>6, <2>7, <2>8, <2>9, <2>10
<1> QED  BY <1>1, <1>2, <1>3, <1>4

\* The renderer's queue of finished frames.
LEMMA Queues ==
  ASSUME NEW q \in Seq(Scene), NEW s \in Scene
  PROVE  /\ Queued(q, s) \in Seq(Scene)
         /\ Len(q) <= 2 => Len(Queued(q, s)) <= 2
         /\ \A i \in DOMAIN Queued(q, s) : Queued(q, s)[i] = s \/ \E j \in DOMAIN q : Queued(q, s)[i] = q[j]
<1>0. Len(q) \in Nat
  OBVIOUS
<1>1. CASE Len(q) = 2
  <2>1. q # <<>>
    BY <1>1
  <2>2. Tail(q) \in Seq(Scene) /\ Len(Tail(q)) = 1 /\ \A i \in DOMAIN Tail(q) : \E j \in DOMAIN q : Tail(q)[i] = q[j]
    BY <1>1, <2>1, Tails
  <2> DEFINE w == Append(Tail(q), s)
  <2>3. Queued(q, s) = w
    BY <1>1 DEF Queued
  <2>4. /\ w \in Seq(Scene) /\ Len(w) = Len(Tail(q)) + 1
        /\ \A i \in DOMAIN w : w[i] = s \/ (i \in DOMAIN Tail(q) /\ w[i] = Tail(q)[i])
    BY SMTT(30), <2>2, Appends
  <2> HIDE DEF w
  <2>5. Len(w) <= 2
    <3>1. Len(w) = 2
      BY <2>2, <2>4
    <3> QED  BY <3>1
  <2>6. \A i \in DOMAIN w : w[i] = s \/ \E j \in DOMAIN q : w[i] = q[j]
    BY <2>2, <2>4
  <2> QED  BY <2>3, <2>4, <2>5, <2>6
<1>2. CASE Len(q) # 2
  <2> DEFINE w == Append(q, s)
  <2>1. Queued(q, s) = w
    BY <1>2 DEF Queued
  <2>2. /\ w \in Seq(Scene) /\ Len(w) = Len(q) + 1
        /\ \A i \in DOMAIN w : w[i] = s \/ (i \in DOMAIN q /\ w[i] = q[i])
    BY Appends
  <2> HIDE DEF w
  <2>3. Len(q) <= 2 => Len(w) <= 2
    <3>1. Len(w) = Len(q) + 1
      BY <2>2
    <3> HIDE DEF w
    <3>2. \A n \in Nat : n # 2 /\ n <= 2 => n + 1 <= 2
      OBVIOUS
    <3> QED  BY <1>0, <1>2, <3>1, <3>2
  <2> QED  BY <2>1, <2>2, <2>3
<1> QED  BY <1>1, <1>2

LEMMA ThreadTypes ==
  ASSUME Types, RenderTake \/ RenderPut \/ (\E c \in Conns : Write(c) \/ Read(c) \/ Lose(c))
  PROVE  Types'
<1>1. CASE RenderTake
  BY <1>1 DEF RenderTake, Types, Renderer, Opt
<1>2. CASE RenderPut
  <2>1. paint.busy \in Scene /\ paint.output \in Seq(Scene)
    BY <1>2 DEF RenderPut, Types, Renderer, Opt
  <2>2. Queued(paint.output, paint.busy) \in Seq(Scene)
    BY <2>1, Queues
  <2>3. paint' \in Renderer
    BY <1>2, <2>2 DEF RenderPut, Types, Renderer, Opt
  <2> QED  BY <1>2, <2>3 DEF RenderPut, Types
<1>3. ASSUME NEW c \in Conns, Write(c)  PROVE Types'
  <2>1. down[c] \in Channel
    BY SMTT(30), <1>3 DEF Types
  <2>2. CASE /\ down[c].control # <<>>
             /\ down' = [down EXCEPT ![c].control = Tail(@), ![c].wire = Append(@, Head(down[c].control))]
    <3>1. Tail(down[c].control) \in Seq(Control)
            /\ Append(down[c].wire, Head(down[c].control)) \in Seq(Control \cup Carried)
      <4>1. down[c].control \in Seq(Control) /\ down[c].wire \in Seq(Control \cup Carried)
        BY <2>1 DEF Channel
      <4> QED  BY <4>1, <2>2
    <3>2. [down[c] EXCEPT !.control = Tail(@), !.wire = Append(@, Head(down[c].control))] \in Channel
      BY <2>1, <3>1 DEF Channel
    <3>3. down' \in [Conns -> Channel]
      BY <1>3, <2>2, <3>2 DEF Types
    <3> QED  BY <1>3, <3>3 DEF Write, Types
  <2>3. CASE /\ down[c].slot # None
             /\ down' = [down EXCEPT ![c].slot = None,
                                ![c].wire = Append(@, [type |-> "scene", scene |-> down[c].slot])]
    <3>1. [type |-> "scene", scene |-> down[c].slot] \in Carried
      BY <2>1, <2>3 DEF Channel, Carried, Opt
    <3>2. Append(down[c].wire, [type |-> "scene", scene |-> down[c].slot]) \in Seq(Control \cup Carried)
      BY <2>1, <3>1 DEF Channel
    <3>3. [down[c] EXCEPT !.slot = None,
                          !.wire = Append(@, [type |-> "scene", scene |-> down[c].slot])] \in Channel
      <4>1. None \in Opt(Scene)
        BY DEF Opt
      <4> QED  BY <2>1, <3>2, <4>1 DEF Channel
    <3>4. down' \in [Conns -> Channel]
      BY <1>3, <2>3, <3>3 DEF Types
    <3> QED  BY <1>3, <3>4 DEF Write, Types
  <2> QED  BY <1>3, <2>2, <2>3 DEF Write
<1>4. ASSUME NEW c \in Conns, Read(c)  PROVE Types'
  <2> DEFINE m == Head(down[c].wire)
  <2>1. down[c] \in Channel /\ m \in Control \cup Carried /\ Tail(down[c].wire) \in Seq(Control \cup Carried)
    BY SMTT(30), <1>4 DEF Read, Types, Channel
  <2>2. m.type = "scene" => m.scene \in Scene
    BY <2>1 DEF Control, Carried
  <2>3. m.type # "scene" => Append(down[c].messages, m) \in Seq(Control)
    BY <2>1 DEF Control, Carried, Channel
  <2>4. down' = IF m.type = "scene"
                  THEN [down EXCEPT ![c].wire = Tail(@), ![c].frames = m.scene]
                  ELSE [down EXCEPT ![c].wire = Tail(@), ![c].messages = Append(@, m)]
    BY <1>4 DEF Read
  <2> HIDE DEF m
  <2>5. down' \in [Conns -> Channel]
    <3>1. CASE m.type = "scene"
      BY <1>4, <2>1, <2>2, <2>4, <3>1 DEF Types, Channel, Opt
    <3>2. CASE m.type # "scene"
      BY <1>4, <2>1, <2>3, <2>4, <3>2 DEF Types, Channel
    <3> QED  BY <3>1, <3>2
  <2> QED  BY <1>4, <2>5 DEF Read, Types
<1>5. ASSUME NEW c \in Conns, Lose(c)  PROVE Types'
  <2>1. up' \in [Conns -> Seq(Message)]
    BY <1>5, CutsUp DEF Lose
  <2> QED  BY <1>5, <2>1 DEF Lose, CutLink, Types
<1> QED  BY <1>1, <1>2, <1>3, <1>4, <1>5

----------------------------------------------------------------------------
(* The frontend's steps. *)

LEMMA Submits ==
  ASSUME NEW p \in Renderer, NEW s \in Scene
  PROVE  Submitted(p, s) \in Renderer
<1>1. <<s>> \in Seq(Scene) /\ s \in Opt(Scene)
  BY DEF Opt
<1> QED  BY <1>1 DEF Submitted, Renderer

\* With something drained the frontend has a connection, and its first control.
LEMMA Drained ==
  ASSUME Types, Drains, fe.todo > 0
  PROVE  /\ fe.conn \in Conns /\ down[fe.conn] \in Channel /\ down[fe.conn].messages # <<>>
         /\ Tail(down[fe.conn].messages) \in Seq(Control)
<1>1. fe.conn # 0 /\ fe.todo \in Nat
  BY DEF Types, Drains, Client
<1>2. fe.conn \in Conns /\ down[fe.conn] \in Channel
  BY <1>1 DEF Types, Client, Conns
<1>3. down[fe.conn].messages \in Seq(Control) /\ Len(down[fe.conn].messages) > 0
  BY <1>1, <1>2 DEF Channel, Drains
<1> QED  BY <1>2, <1>3

LEMMA AgainTypes ==
  ASSUME Types, NEW f \in Client
  PROVE  Again(f) \in Client
<1>1. ASSUME f.conn # 0  PROVE Len(down[f.conn].messages) \in Nat
  <2>1. f.conn \in Conns
    BY <1>1 DEF Client, Conns
  <2>2. down[f.conn].messages \in Seq(Control)
    BY <2>1 DEF Types, Channel
  <2> QED  BY <2>2
<1> QED  BY <1>1 DEF Again, Client

\* What the frontend sends.
LEMMA Sendable ==
  ASSUME Types
  PROVE  /\ \A gen \in Nat : ResizeTo(gen) \in Message
         /\ [type |-> "presentation", gen |-> fe.gen + 1] \in Message
         /\ \A s \in Scene : Shows(s) \in Message
         /\ \A n, t \in Nat : fe.shown # None => Key(n, t) \in Message
<1>1. fe.gen \in Nat /\ fe.id + 1 \in Nat /\ fe.gen + 1 \in Nat
  BY SMTT(30) DEF Types, Client
<1>2. fe.shown # None => fe.shown.rev \in Nat /\ fe.shown.gen \in Nat
  BY DEF Types, Client, Opt, Scene
<1>3. \A gen \in Nat : ResizeTo(gen) \in Message
  BY <1>1 DEF ResizeTo, Message
<1>4. [type |-> "presentation", gen |-> fe.gen + 1] \in Message
  BY <1>1 DEF Message
<1>5. \A s \in Scene : Shows(s) \in Message
  BY DEF Shows, Scene, Message
<1>6. ASSUME NEW n \in Nat, NEW t \in Nat, fe.shown # None  PROVE Key(n, t) \in Message
  BY <1>1, <1>2, <1>6 DEF Key, Message
<1> QED  BY <1>3, <1>4, <1>5, <1>6

\* A scene finished for this geometry is one of the renderer's.
LEMMA FinishedOnes ==
  ASSUME Types, NEW mine, mine = Finished(1) \o Finished(2)
  PROVE  /\ mine \in Seq(Scene)
         /\ \A i \in DOMAIN mine : /\ mine[i].gen = fe.gen
                                   /\ \E j \in DOMAIN paint.output : mine[i] = paint.output[j]
<1>1. paint.output \in Seq(Scene)
  BY DEF Types, Renderer
<1>2. ASSUME NEW i \in {1, 2}
      PROVE  /\ Finished(i) \in Seq(Scene)
             /\ \A k \in DOMAIN Finished(i) : /\ Finished(i)[k].gen = fe.gen
                                            /\ \E j \in DOMAIN paint.output : Finished(i)[k] = paint.output[j]
  <2>1. CASE i \in DOMAIN paint.output /\ paint.output[i].gen = fe.gen
    <3>1. paint.output[i] \in Scene /\ Finished(i) = <<paint.output[i]>>
      BY <1>1, <2>1 DEF Finished
    <3>2. <<paint.output[i]>> \in Seq(Scene) /\ DOMAIN <<paint.output[i]>> = {1}
            /\ <<paint.output[i]>>[1] = paint.output[i]
      BY <3>1
    <3> QED  BY <2>1, <3>1, <3>2
  <2>2. CASE ~(i \in DOMAIN paint.output /\ paint.output[i].gen = fe.gen)
    BY <2>2 DEF Finished
  <2> QED  BY <2>1, <2>2
<1>3. /\ Finished(1) \in Seq(Scene) /\ Finished(2) \in Seq(Scene)
  BY <1>2
<1> DEFINE a == Finished(1)
<1> DEFINE b == Finished(2)
<1>4. /\ a \o b \in Seq(Scene)
      /\ \A i \in DOMAIN (a \o b) : (i \in DOMAIN a /\ (a \o b)[i] = a[i])
                                      \/ (i - Len(a) \in DOMAIN b /\ (a \o b)[i] = b[i - Len(a)])
  <2>1. a \in Seq(Scene) /\ b \in Seq(Scene)
    BY <1>3
  <2> HIDE DEF a, b
  <2> QED  BY <2>1
<1>5. ASSUME NEW i \in DOMAIN mine
      PROVE  mine[i].gen = fe.gen /\ \E j \in DOMAIN paint.output : mine[i] = paint.output[j]
  <2>1. CASE i \in DOMAIN a /\ mine[i] = a[i]
    BY <1>2, <2>1
  <2>2. CASE i - Len(a) \in DOMAIN b /\ mine[i] = b[i - Len(a)]
    BY <1>2, <2>2
  <2> QED  BY <1>4, <1>5, <2>1, <2>2
<1> QED  BY <1>4, <1>5

\* Connections are numbered.
LEMMA Numbers ==
  ASSUME Types
  PROVE  /\ MaxConns \in Nat /\ Conns \subseteq 1 .. MaxConns /\ 0 \in 0 .. MaxConns
         /\ \A c \in 0 .. MaxConns : c \in Nat /\ (c # 0 => c \in Conns)
         /\ fe.conn \in 0 .. MaxConns /\ fe.tried \in Conns /\ se.peer \in 0 .. MaxConns
         /\ fe.gen \in Nat /\ fe.id \in Nat /\ fe.typed \in Nat /\ fe.todo \in Nat
         /\ None \in Opt(Scene)
<1>1. MaxConns \in Nat
  BY PresentationAssumption
<1> QED  BY <1>1 DEF Types, Client, Session, Conns, Opt

LEMMA FrontTypes ==
  ASSUME Types, Links, Drains, Frontend
  PROVE  Types'
<1>1. CASE Handle
  <2> DEFINE m == Head(down[fe.conn].messages)
  <2>1. fe.conn \in Conns /\ down[fe.conn] \in Channel /\ Tail(down[fe.conn].messages) \in Seq(Control)
          /\ fe.todo - 1 \in Nat
    BY SMTT(30), <1>1, Drained DEF Handle, Types, Client
  <2>2. down' \in [Conns -> Channel]
    BY <1>1, <2>1 DEF Handle, Types, Channel
  <2>3. fe' \in Client /\ paint' \in Renderer /\ link' = link
    <3>1. CASE HandleHello(m)
      <4>1. None \in Opt(Scene) /\ fe.id + 1 \in Nat
        BY DEF Opt, Types, Client
      <4> QED  BY <2>1, <3>1, <4>1 DEF HandleHello, Forgotten, Types, Client
    <3>2. CASE HandleToggle(m)
      <4>1. None \in Opt(Scene) /\ fe.gen + 1 \in Nat /\ <<>> \in Seq(Scene)
        BY DEF Opt, Types, Client
      <4> QED  BY <2>1, <3>2, <4>1 DEF HandleToggle, NoPaint, Types, Client, Renderer
    <3> QED  BY <1>1, <3>1, <3>2 DEF Handle, FeStep
  <2>4. up' \in [Conns -> Seq(Message)]
    <3>1. ResizeTo(fe.gen) \in Message /\ [type |-> "presentation", gen |-> fe.gen + 1] \in Message
      BY Sendable DEF Types, Client
    <3>2. <<ResizeTo(fe.gen)>> \in Seq(Message) /\ <<[type |-> "presentation", gen |-> fe.gen + 1]>> \in Seq(Message)
      BY <3>1
    <3>3. up' = Sent(fe.conn, <<ResizeTo(fe.gen)>>)
            \/ up' = Sent(fe.conn, <<[type |-> "presentation", gen |-> fe.gen + 1]>>)
      BY <1>1 DEF Handle, HandleHello, HandleToggle
    <3> QED  BY <3>2, <3>3, Sends DEF Types, Client
  <2> QED  BY <1>1, <2>2, <2>3, <2>4 DEF Handle, FeStep, Types
<1>2. CASE TakeFrame
  <2> DEFINE scene == IF fe.conn = 0 THEN None ELSE down[fe.conn].frames
  <2> DEFINE mine == scene # None /\ scene.gen = fe.gen
  <2>1. fe.conn # 0 => fe.conn \in Conns
    BY SMTT(30) DEF Types, Client, Conns
  <2>2. scene \in Opt(Scene) /\ None \in Opt(Scene)
    BY <2>1 DEF Types, Channel, Opt
  <2>3. /\ fe' = [fe EXCEPT !.pc = "output", !.last = IF mine THEN scene ELSE @]
        /\ paint' = IF mine THEN Submitted(paint, scene) ELSE paint
        /\ down' = IF scene = None THEN down ELSE [down EXCEPT ![fe.conn].frames = None]
    BY <1>2 DEF TakeFrame
  <2>4. scene # None => fe.conn \in Conns /\ scene \in Scene
    BY <2>1, <2>2 DEF Opt
  <2> HIDE DEF scene
  <2>5. paint' \in Renderer
    BY <2>3, <2>4, Submits DEF Types
  <2>6. fe' \in Client
    BY <2>2, <2>3 DEF Types, Client
  <2>7. down' \in [Conns -> Channel]
    BY <2>2, <2>3, <2>4 DEF Types, Channel
  <2> QED  BY <1>2, <2>5, <2>6, <2>7 DEF TakeFrame, FeStep, Types
<1>3. CASE Show
  <2> DEFINE mine == Finished(1) \o Finished(2)
  <2> DEFINE acks == [i \in DOMAIN mine |-> Shows(mine[i])]
  <2>1. mine \in Seq(Scene)
    BY FinishedOnes
  <2>2. /\ fe' = [fe EXCEPT !.pc = "link", !.shown = IF mine = <<>> THEN @ ELSE Last(mine)]
        /\ up' = IF fe.connected THEN Sent(fe.conn, acks) ELSE up
        /\ paint' = [paint EXCEPT !.output = <<>>]
    BY <1>3 DEF Show
  <2> HIDE DEF mine
  <2>3. mine # <<>> => Last(mine) \in Scene
    BY <2>1 DEF Last
  <2>4. fe' \in Client
    BY <2>2, <2>3 DEF Types, Client, Opt
  <2>5. acks \in Seq(Message)
    <3>1. \A i \in DOMAIN mine : Shows(mine[i]) \in Message
      BY <2>1, Sendable
    <3> QED  BY <2>1, <3>1
  <2>6. up' \in [Conns -> Seq(Message)]
    <3> HIDE DEF acks
    <3> QED  BY <2>2, <2>5, Sends DEF Types, Client
  <2>7. paint' \in Renderer
    <3>1. <<>> \in Seq(Scene)
      OBVIOUS
    <3> QED  BY <2>2, <3>1 DEF Types, Renderer
  <2> QED  BY <1>3, <2>4, <2>6, <2>7 DEF Show, FeStep, Types
<1>4. CASE Dead
  <2>1. fe.conn \in Conns
    BY <1>4 DEF Dead, Types, Client, Conns
  <2>2. up' \in [Conns -> Seq(Message)] /\ link' \in [Conns -> {"new", "open", "cut"}]
    BY <1>4, <2>1, CutsUp DEF Dead, CutLink, Types
  <2>3. <<>> \in Seq([n : Nat, typed : Nat]) /\ 0 \in 0 .. MaxConns /\ None \in Opt(Scene)
    BY PresentationAssumption DEF Opt
  <2>4. fe' \in Client
    BY <1>4, <2>3 DEF Dead, Cleared, Types, Client
  <2>5. paint' \in Renderer
    <3>1. fe.last # None => fe.last \in Scene
      BY DEF Types, Client, Opt
    <3> QED  BY <1>4, <3>1, Submits DEF Dead, Types
  <2> QED  BY <1>4, <2>2, <2>4, <2>5 DEF Dead, FeStep, Types
<1>5. CASE Reconnect
  <2>1. fe.tried + 1 \in Conns /\ fe.gen + 1 \in Nat
    <3>1. fe.tried \in 1 .. MaxConns /\ fe.tried < MaxConns /\ MaxConns \in Nat /\ fe.gen \in Nat
      BY <1>5, Numbers DEF Reconnect
    <3> QED  BY <3>1 DEF Conns
  <2>2. <<[type |-> "hello", gen |-> fe.gen + 1]>> \in Seq(Message)
    <3>1. [type |-> "hello", gen |-> fe.gen + 1] \in Message
      BY <2>1 DEF Message
    <3> QED  BY <3>1
  <2>3. up' \in [Conns -> Seq(Message)] /\ link' \in [Conns -> {"new", "open", "cut"}]
    BY <1>5, <2>1, <2>2 DEF Reconnect, Types
  <2>4. fe.tried + 1 \in 0 .. MaxConns
    BY <2>1 DEF Conns
  <2>5. fe' \in Client
    BY <1>5, <2>1, <2>4 DEF Reconnect, Types, Client
  <2> QED  BY <1>5, <2>3, <2>5 DEF Reconnect, FeStep, Types
<1>6. CASE Dispatch
  <2>1. Head(fe.pending) \in [n : Nat, typed : Nat] /\ Tail(fe.pending) \in Seq([n : Nat, typed : Nat])
          /\ fe.shown # None /\ fe.id + 1 \in Nat
    <3>1. fe.pending \in Seq([n : Nat, typed : Nat]) /\ fe.pending # <<>> /\ fe.id \in Nat
      BY <1>6 DEF Dispatch, Dispatches, Types, Client
    <3>2. fe.shown # None
      BY <1>6 DEF Dispatch, Dispatches, SceneReady
    <3>3. Head(fe.pending) \in [n : Nat, typed : Nat] /\ Tail(fe.pending) \in Seq([n : Nat, typed : Nat])
      BY <3>1, Tails
    <3> QED  BY <3>1, <3>2, <3>3
  <2>2. up' = Sent(fe.conn, <<Key(Head(fe.pending).n, Head(fe.pending).typed)>>)
    BY <1>6 DEF Dispatch
  <2>3. <<Key(Head(fe.pending).n, Head(fe.pending).typed)>> \in Seq(Message)
    <3>1. Key(Head(fe.pending).n, Head(fe.pending).typed) \in Message
      BY <2>1, Sendable
    <3> QED  BY <3>1
  <2>4. up' \in [Conns -> Seq(Message)]
    BY <2>2, <2>3, Sends DEF Types, Client
  <2>5. [fe EXCEPT !.pending = Tail(@), !.id = @ + 1] \in Client
    BY <2>1 DEF Types, Client
  <2>6. fe' \in Client
    BY <1>6, <2>5, AgainTypes DEF Dispatch
  <2> QED  BY <1>6, <2>4, <2>6 DEF Dispatch, FeStep, Types
<1>7. CASE TerminalEvent
  <2>1. /\ fe.typed + 1 \in Nat /\ fe.id + 1 \in Nat /\ fe.gen + 1 \in Nat /\ fe.conn \in Nat
        /\ fe.resizes + 1 \in Nat /\ fe.hovers + 1 \in Nat /\ None \in Opt(Scene)
        /\ <<>> \in Seq([n : Nat, typed : Nat])
    <3>1. fe.resizes \in Nat /\ fe.hovers \in Nat
      BY DEF Types, Client
    <3> QED  BY <3>1, Numbers
  <2>2. CASE TypeKey
    <3>1. Typed \in Client /\ [Typed EXCEPT !.id = @ + 1] \in Client
      BY <2>1 DEF Typed, Types, Client
    <3>2. [Typed EXCEPT !.pending = Append(@, [n |-> fe.typed + 1, typed |-> fe.conn])] \in Client
      <4>1. [n |-> fe.typed + 1, typed |-> fe.conn] \in [n : Nat, typed : Nat]
        BY <2>1
      <4>2. Append(Typed.pending, [n |-> fe.typed + 1, typed |-> fe.conn]) \in Seq([n : Nat, typed : Nat])
        BY <3>1, <4>1 DEF Client
      <4> QED  BY <3>1, <4>2 DEF Client
    <3>3. [Typed EXCEPT !.pc = "stopped", !.conn = 0, !.connected = FALSE] \in Client
      <4>1. 0 \in 0 .. MaxConns
        BY PresentationAssumption
      <4> QED  BY <3>1, <4>1 DEF Client
    <3>4. fe' \in Client
      BY <2>2, <3>1, <3>2, <3>3, AgainTypes DEF TypeKey
    <3>5. up' \in [Conns -> Seq(Message)] /\ link' \in [Conns -> {"new", "open", "cut"}]
      <4>1. CASE UNCHANGED <<up, link>>
        BY <4>1 DEF Types
      <4>0. fe.connected => fe.conn \in Conns
        BY Numbers DEF Links
      <4>2. CASE fe.connected /\ SceneReady /\ up' = Sent(fe.conn, <<Key(fe.typed + 1, fe.conn)>>) /\ link' = link
        <5>1. Key(fe.typed + 1, fe.conn) \in Message
          BY <2>1, <4>2, Sendable DEF SceneReady
        <5>2. <<Key(fe.typed + 1, fe.conn)>> \in Seq(Message)
          BY <5>1
        <5> QED  BY <4>2, <5>2, Sends DEF Types, Client
      <4>3. CASE link[fe.conn] = "open" /\ fe.connected /\ fe.conn \in Conns /\ link' = CutLink(link, fe.conn) /\ CutUp(fe.conn)
        BY <4>3, CutsUp DEF CutLink, Types
      <4> QED  BY <2>2, <4>0, <4>1, <4>2, <4>3 DEF TypeKey
    <3> QED  BY <1>7, <2>2, <3>4, <3>5 DEF TerminalEvent, TypeKey, FeStep, Types
  <2>3. CASE Resize
    <3>1. [fe EXCEPT !.resizes = @ + 1, !.gen = @ + 1, !.last = None, !.shown = None,
                            !.id = IF fe.connected THEN @ + 1 ELSE @] \in Client
      BY <2>1 DEF Types, Client
    <3>2. fe' \in Client
      BY <2>3, <3>1, AgainTypes DEF Resize
    <3>3. <<ResizeTo(fe.gen + 1)>> \in Seq(Message)
      <4>1. ResizeTo(fe.gen + 1) \in Message
        BY <2>1, Sendable
      <4> QED  BY <4>1
    <3>4. up' \in [Conns -> Seq(Message)]
      BY <2>3, <3>3, Sends DEF Resize, Types, Client
    <3> QED  BY <1>7, <2>3, <3>2, <3>4 DEF TerminalEvent, Resize, FeStep, Types
  <2>4. CASE LoseFocus \/ Quiet
    <3>1. [fe EXCEPT !.pending = <<>>] \in Client /\ fe \in Client
      BY <2>1 DEF Types, Client
    <3>2. fe' \in Client
      BY <2>4, <3>1, AgainTypes DEF LoseFocus, Quiet
    <3>3. paint' \in Renderer
      <4>1. CASE paint' = paint
        BY <4>1 DEF Types
      <4>2. CASE fe.last # None /\ paint' = Submitted(paint, fe.last)
        <5>1. fe.last \in Scene
          BY <4>2 DEF Types, Client, Opt
        <5> QED  BY <4>2, <5>1, Submits DEF Types
      <4> QED  BY <2>4, <4>1, <4>2 DEF LoseFocus, Quiet, Repainted
    <3> QED  BY <1>7, <2>4, <3>2, <3>3 DEF TerminalEvent, LoseFocus, Quiet, FeStep, Types
  <2>5. CASE Hover
    <3>1. [fe EXCEPT !.hovers = @ + 1] \in Client
      BY <2>1 DEF Types, Client
    <3>2. fe' \in Client
      BY <2>5, <3>1, AgainTypes DEF Hover
    <3>3. fe.last \in Scene
      BY <2>5 DEF Hover, Types, Client, Opt
    <3>4. paint' \in Renderer
      BY <2>5, <3>3, Submits DEF Hover, Repainted, Types
    <3> QED  BY <1>7, <2>5, <3>2, <3>4 DEF TerminalEvent, Hover, FeStep, Types
  <2> QED  BY <1>7, <2>2, <2>3, <2>4, <2>5 DEF TerminalEvent
<1> QED  BY <1>1, <1>2, <1>3, <1>4, <1>5, <1>6, <1>7 DEF Frontend

----------------------------------------------------------------------------
(* What each kind of step does to the connections. *)

\* Channels change, but not those of a connection the session has not heard.
LEMMA LinksAsBefore ==
  ASSUME Types, Types', Links, HelloFirst, UNCHANGED <<up, link>>,
         fe'.conn = fe.conn \/ (fe'.conn = 0 /\ link[fe.conn] # "open"),
         fe'.connected => fe.connected /\ fe'.conn # 0,
         fe'.tried = fe.tried, fe'.gen >= fe.gen, se'.peer = se.peer,
         \A c \in Conns : down'[c] = down[c] \/ (c <= fe.tried /\ ~Unheard(c))
  PROVE  Links' /\ HelloFirst'
<1>1. Links'
  BY Numbers DEF Links, Unheard
<1>2. HelloFirst'
  <2>1. fe.gen \in Nat /\ fe'.gen \in Nat /\ fe'.gen >= fe.gen
    BY DEF Types, Client
  <2>2. ASSUME NEW c \in Conns, NEW i \in DOMAIN up[c], up[c][i].type = "hello", up[c][i].gen <= fe.gen
        PROVE  up[c][i].gen <= fe'.gen
    <3>1. up[c][i] \in Message
      BY DEF Types
    <3>2. up[c][i].gen \in Nat
      BY <2>2, <3>1, Carries
    <3> QED  BY <2>1, <2>2, <3>2
  <2> QED  BY <2>2 DEF HelloFirst
<1> QED  BY <1>1, <1>2

\* The frontend sends on a connection the session has heard.
LEMMA LinksSend ==
  ASSUME Types, Types', Links, HelloFirst, link' = link,
         NEW ms \in Seq(Message), up' = Sent(fe.conn, ms), \A i \in DOMAIN ms : ms[i].type # "hello",
         fe'.conn = fe.conn, fe'.tried = fe.tried, fe'.gen >= fe.gen, se'.peer = se.peer,
         fe.conn # 0 => ~Unheard(fe.conn),
         \A c \in Conns : down'[c] = down[c] \/ c = fe.conn,
         fe'.connected => fe.conn # 0,
         fe'.connected => fe.connected \/ ~Unheard(fe.conn)
  PROVE  /\ Links' /\ HelloFirst'
         /\ fe.conn # 0 /\ link[fe.conn] = "open" => se.peer = fe.conn /\ up'[fe.conn] = up[fe.conn] \o ms
<1>1. \A c \in Conns : c # fe.conn => up'[c] = up[c] /\ down'[c] = down[c]
  BY Sends, Numbers
<1>2. ASSUME fe.conn # 0, link[fe.conn] = "open"
      PROVE  fe.conn \in Conns /\ se.peer = fe.conn /\ up'[fe.conn] = up[fe.conn] \o ms
  BY <1>2, Sends, Numbers DEF Links
<1>3. ~(fe.conn # 0 /\ link[fe.conn] = "open") => up' = up
  BY Sends, Numbers
<1>4. Links'
  <2>1. ASSUME NEW c \in Conns, c > fe.tried  PROVE up'[c] = <<>> /\ down'[c] = NoChannels
    <3>1. c # fe.conn
      BY <2>1, Numbers DEF Links, Conns
    <3> QED  BY <1>1, <2>1, <3>1 DEF Links
  <2>2. ASSUME NEW c \in Conns, link[c] = "open"  PROVE c = fe.conn /\ se.peer = c
    BY <2>2, Numbers DEF Links
  <2> QED  BY <2>1, <2>2 DEF Links
<1>5. HelloFirst'
  <2>1. fe.gen \in Nat /\ fe'.gen \in Nat /\ fe'.gen >= fe.gen
    BY DEF Types, Client
  <2>2. ASSUME NEW c \in Conns, NEW i \in DOMAIN up[c], up[c][i].type = "hello", up[c][i].gen <= fe.gen
        PROVE  up[c][i].gen <= fe'.gen
    <3>1. up[c][i] \in Message
      BY DEF Types
    <3>2. up[c][i].gen \in Nat
      BY <2>2, <3>1, Carries
    <3> QED  BY <2>1, <2>2, <3>2
  <2>3. ASSUME NEW c \in Conns, up'[c] = up[c], NEW i \in DOMAIN up'[c], up'[c][i].type = "hello"
        PROVE  /\ i = 1 /\ c # se'.peer /\ up'[c][i].gen <= fe'.gen
               /\ \A j \in DOMAIN up'[c] : j > 1 => up'[c][j].type = "eof"
    BY <2>2, <2>3 DEF HelloFirst
  <2>4. ASSUME fe.conn # 0, link[fe.conn] = "open", NEW i \in DOMAIN up'[fe.conn]
        PROVE  up'[fe.conn][i].type # "hello"
    <3>1. up[fe.conn] \in Seq(Message)
      BY <1>2, <2>4 DEF Types
    <3>2. \A j \in DOMAIN up[fe.conn] : up[fe.conn][j].type # "hello"
      BY <1>2, <2>4 DEF HelloFirst
    <3> DEFINE q == up[fe.conn]
    <3> DEFINE w == up'[fe.conn]
    <3>3. q \in Seq(Message) /\ w = q \o ms /\ i \in DOMAIN w
      BY <1>2, <2>4, <3>1
    <3>4. \A j \in DOMAIN q : q[j].type # "hello"
      BY <3>2
    <3> HIDE DEF q
    <3>5. \/ i \in DOMAIN q /\ w[i] = q[i]
          \/ i - Len(q) \in DOMAIN ms /\ w[i] = ms[i - Len(q)]
      <4> HIDE DEF w
      <4> QED  BY <3>3, Concats
    <3> QED  BY <3>4, <3>5
  <2>5. CASE fe.conn # 0 /\ link[fe.conn] = "open"
    BY <1>1, <2>3, <2>4, <2>5 DEF HelloFirst
  <2>6. CASE ~(fe.conn # 0 /\ link[fe.conn] = "open")
    BY <1>3, <2>3, <2>6 DEF HelloFirst
  <2> QED  BY <2>5, <2>6
<1> QED  BY <1>2, <1>4, <1>5

\* A connection ends.
LEMMA LinksCut ==
  ASSUME Types, Types', Links, HelloFirst, NEW c \in Conns, c = fe.conn, link' = CutLink(link, c), CutUp(c),
         down' = down, fe'.tried = fe.tried, fe'.gen = fe.gen, se'.peer = se.peer,
         fe'.conn \in {0, fe.conn}, fe'.connected => fe.connected /\ fe'.conn # 0
  PROVE  Links' /\ HelloFirst'
<1>1. /\ \A d \in Conns : CutOf(up'[d], up[d])
      /\ \A d \in Conns : d # c => up'[d] = up[d]
  BY CutsUp
<1>2. \A d \in Conns : link'[d] = "open" => d # c /\ link[d] = "open"
  BY DEF CutLink, Types
<1>3. Links'
  <2>1. fe'.conn <= fe.tried
    BY Numbers DEF Links
  <2>2. \A d \in Conns : link'[d] # "open"
    BY <1>2 DEF Links
  <2>3. \A d \in Conns : d > fe.tried => d # c
    BY Numbers DEF Links
  <2> QED  BY <1>1, <2>1, <2>2, <2>3 DEF Links
<1>4. HelloFirst'
  <2>1. ASSUME NEW d \in Conns, NEW i \in DOMAIN up'[d], up'[d][i].type = "hello"
        PROVE  /\ i = 1 /\ d # se'.peer /\ up'[d][i].gen <= fe'.gen
               /\ \A j \in DOMAIN up'[d] : j > 1 => up'[d][j].type = "eof"
    <3>1. i \in DOMAIN up[d] /\ up'[d][i] = up[d][i]
      BY <1>1, <2>1 DEF CutOf
    <3>2. /\ i = 1 /\ d # se.peer /\ up[d][i].gen <= fe.gen
          /\ \A j \in DOMAIN up[d] : j > 1 => up[d][j].type = "eof"
      BY <2>1, <3>1 DEF HelloFirst
    <3> QED  BY <1>1, <3>1, <3>2 DEF CutOf
  <2> QED  BY <2>1 DEF HelloFirst
<1> QED  BY <1>3, <1>4

\* The session reads what its peer sent, or drops it.
LEMMA LinksRead ==
  ASSUME Types, Types', Links, HelloFirst, UNCHANGED fe,
         NEW c \in Conns, c = se.peer, up[c] # <<>>, up' = [up EXCEPT ![c] = Tail(@)],
         \/ se'.peer = c /\ link' = link /\ down' = down
         \/ se'.peer = 0 /\ link' = CutLink(link, c) /\ down' = Dropped(down, c)
  PROVE  Links' /\ HelloFirst'
<1>1. /\ up'[c] = Tail(up[c]) /\ up[c] \in Seq(Message)
      /\ \A d \in Conns : d # c => up'[d] = up[d]
  BY DEF Types
<1>2. \A i \in DOMAIN up'[c] : i + 1 \in DOMAIN up[c] /\ up'[c][i] = up[c][i + 1]
  <2> DEFINE q == up[c]
  <2>1. q \in Seq(Message) /\ q # <<>>
    BY <1>1
  <2> HIDE DEF q
  <2>2. \A i \in DOMAIN Tail(q) : i + 1 \in DOMAIN q /\ Tail(q)[i] = q[i + 1]
    BY <2>1, Tails
  <2> QED  BY <1>1, <2>2 DEF q
<1>3. \A d \in Conns : d # c => down'[d] = down[d]
  BY DEF Dropped, Types
<1>4. \A d \in Conns : link'[d] = "open" => link[d] = "open" /\ (d = c => link' = link)
  BY DEF CutLink, Types
<1>5. Links'
  <2>1. se'.peer <= fe.tried /\ c <= fe.tried
    BY Numbers DEF Links
  <2>2. \A d \in Conns : d > fe.tried => d # c
    BY <2>1, Numbers
  <2>3. ASSUME NEW d \in Conns, link'[d] = "open"
        PROVE  d = fe.conn /\ (se'.peer = d \/ Unheard(d)')
    <3>1. link[d] = "open" /\ d = fe.conn /\ (se.peer = d \/ Unheard(d))
      BY <1>4, <2>3 DEF Links
    <3>2. CASE d = c
      <4>1. link'[c] # "cut"
        BY <2>3, <3>2
      <4>2. link' # CutLink(link, c)
        BY <4>1 DEF CutLink, Types
      <4> QED  BY <3>1, <3>2, <4>2
    <3>3. CASE d # c
      BY <1>1, <1>3, <3>1, <3>3 DEF Unheard
    <3> QED  BY <3>2, <3>3
  <2> QED  BY <1>1, <1>3, <2>1, <2>2, <2>3 DEF Links
<1>6. HelloFirst'
  <2>1. ASSUME NEW i \in DOMAIN up'[c]  PROVE up'[c][i].type # "hello"
    BY <1>2 DEF HelloFirst
  <2>2. \A d \in Conns : se'.peer = d => d = c
    BY DEF Conns
  <2> QED  BY <1>1, <2>1, <2>2 DEF HelloFirst
<1> QED  BY <1>5, <1>6

LEMMA LinksAttach ==
  ASSUME Types, Types', Links, HelloFirst, NEW c \in Conns, up[c] # <<>>, Attach(c, Head(up[c]))
  PROVE  Links' /\ HelloFirst'
<1>1. /\ up'[c] = Tail(up[c]) /\ up[c] \in Seq(Message) /\ Head(up[c]) = up[c][1]
      /\ \A d \in Conns : d # c => up'[d] = up[d]
  BY Tails DEF Attach, Types
<1>2. \A i \in DOMAIN up'[c] : i + 1 \in DOMAIN up[c] /\ up'[c][i] = up[c][i + 1] /\ i \in Nat /\ i # 0
  BY <1>1, Tails
<1>3. up[c][1].type = "hello" /\ c # se.peer /\ se'.peer = c /\ UNCHANGED fe
  BY <1>1 DEF Attach, Types, Session
<1>4. \A i \in DOMAIN up'[c] : up'[c][i].type = "eof"
  <2>1. 1 \in DOMAIN up[c]
    BY <1>1, Tails
  <2>2. ASSUME NEW i \in DOMAIN up'[c]  PROVE i + 1 > 1
    BY <1>2
  <2> QED  BY <1>2, <1>3, <2>1, <2>2 DEF HelloFirst
<1>5. c <= fe.tried
  <2>1. ~(c > fe.tried)
    BY DEF Links
  <2> QED  BY <2>1, Numbers DEF Conns
<1>6. \A d \in Conns : d # c /\ d # se.peer => down'[d] = down[d] /\ link'[d] = link[d]
  BY DEF Attach, Dropped, CutLink, Types
<1>7. se.peer \in Conns => link'[se.peer] # "open"
  BY DEF Attach, CutLink, Types, Conns
<1>8. link'[c] = link[c]
  BY <1>3 DEF Attach, CutLink, Types
<1>9. Links'
  <2>1. \A d \in Conns : d > fe.tried => d # c /\ d # se.peer
    BY <1>5, Numbers DEF Links
  <2>2. ASSUME NEW d \in Conns, link'[d] = "open"
        PROVE  d = fe.conn /\ (se'.peer = d \/ Unheard(d)')
    <3>1. d # se.peer
      BY <1>7, <2>2
    <3>2. link[d] = "open"
      BY <1>6, <1>8, <2>2, <3>1
    <3>3. d = fe.conn /\ Unheard(d)
      BY <3>1, <3>2 DEF Links
    <3>4. d # c => Unheard(d)'
      BY <1>1, <1>3, <1>6, <3>1, <3>3 DEF Unheard
    <3> QED  BY <1>3, <3>3, <3>4
  <2>3. ASSUME NEW d \in Conns, d > fe.tried  PROVE up'[d] = <<>> /\ down'[d] = NoChannels
    BY <1>1, <1>6, <2>1, <2>3 DEF Links
  <2> QED  BY <1>3, <1>5, <2>2, <2>3 DEF Links
<1>10. HelloFirst'
  <2>1. \A i \in DOMAIN up'[c] : up'[c][i].type # "hello"
    BY <1>4
  <2>2. ASSUME NEW d \in Conns, d # c, NEW i \in DOMAIN up'[d], up'[d][i].type = "hello"
        PROVE  /\ i = 1 /\ d # se'.peer /\ up'[d][i].gen <= fe'.gen
               /\ \A j \in DOMAIN up'[d] : j > 1 => up'[d][j].type = "eof"
    BY <1>1, <1>3, <2>2 DEF HelloFirst
  <2> QED  BY <2>1, <2>2 DEF HelloFirst
<1> QED  BY <1>9, <1>10

LEMMA LinksReconnect ==
  ASSUME Types, Types', Links, HelloFirst, Reconnect
  PROVE  Links' /\ HelloFirst'
<1> DEFINE h == [type |-> "hello", gen |-> fe.gen + 1]
<1>0. PICK c \in Conns : c = fe.tried + 1
  <2>1. fe.tried \in 1 .. MaxConns /\ fe.tried < MaxConns /\ MaxConns \in Nat
    BY Numbers DEF Reconnect
  <2> QED  BY <2>1 DEF Conns
<1>1. c > fe.tried /\ fe.conn = 0
  BY <1>0, Numbers DEF Reconnect, Conns
<1>2. /\ fe'.conn = c /\ fe'.tried = c /\ fe'.gen = fe.gen + 1 /\ fe'.connected = fe.connected
      /\ se' = se /\ down' = down
  BY <1>0 DEF Reconnect, FeStep, Types, Client
<1>3. /\ up'[c] = <<h>> /\ \A d \in Conns : d # c => up'[d] = up[d]
      /\ \A d \in Conns : d # c => link'[d] = link[d]
  BY <1>0 DEF Reconnect, Types
<1>4. \A d \in Conns : link[d] # "open"
  BY <1>1 DEF Links, Conns
<1>5. ~fe.connected
  BY <1>1 DEF Links
<1>6. /\ Len(up'[c]) = 1 /\ DOMAIN up'[c] = {1} /\ up'[c][1] = h
  BY <1>3
<1>7. Links'
  <2>1. Unheard(c)'
    <3>1. down'[c] = NoChannels /\ ~fe'.connected
      BY <1>1, <1>2, <1>5 DEF Links
    <3>2. up'[c][1].type = "hello"
      BY <1>6
    <3> QED  BY <1>6, <3>1, <3>2 DEF Unheard, NoChannels
  <2>2. c # 0 /\ fe'.conn <= fe'.tried /\ se'.peer <= fe'.tried
    BY <1>1, <1>2, Numbers DEF Links, Conns
  <2>3. \A d \in Conns : d > c => d > fe.tried /\ d # c
    BY <1>1, Numbers DEF Conns
  <2>4. ASSUME NEW d \in Conns, d > fe'.tried  PROVE up'[d] = <<>> /\ down'[d] = NoChannels
    BY <1>2, <1>3, <2>3, <2>4 DEF Links
  <2>5. ASSUME NEW d \in Conns, link'[d] = "open"  PROVE d = fe'.conn /\ (se'.peer = d \/ Unheard(d)')
    BY <1>2, <1>3, <1>4, <2>1, <2>5
  <2> QED  BY <1>2, <1>5, <2>2, <2>4, <2>5 DEF Links
<1>8. HelloFirst'
  <2>1. c # se.peer /\ fe.gen \in Nat
    BY <1>1, Numbers DEF Links
  <2>2. ASSUME NEW d \in Conns, d # c, NEW i \in DOMAIN up[d], up[d][i].type = "hello"
        PROVE  up[d][i].gen <= fe.gen + 1
    <3>1. up[d][i].gen \in Nat /\ up[d][i].gen <= fe.gen
      <4>1. up[d][i] \in Message
        BY DEF Types
      <4> QED  BY <2>2, <4>1, Carries DEF HelloFirst
    <3> QED  BY <2>1, <3>1
  <2>3. h.gen = fe'.gen /\ fe'.gen \in Nat
    BY <1>2, <2>1
  <2>4. ASSUME NEW i \in DOMAIN up'[c]
        PROVE  /\ i = 1 /\ c # se'.peer /\ up'[c][i].gen <= fe'.gen
               /\ \A j \in DOMAIN up'[c] : j > 1 => up'[c][j].type = "eof"
    BY <1>2, <1>6, <2>1, <2>3
  <2>5. ASSUME NEW d \in Conns, d # c, NEW i \in DOMAIN up'[d], up'[d][i].type = "hello"
        PROVE  /\ i = 1 /\ d # se'.peer /\ up'[d][i].gen <= fe'.gen
               /\ \A j \in DOMAIN up'[d] : j > 1 => up'[d][j].type = "eof"
    BY <1>2, <1>3, <2>2, <2>5 DEF HelloFirst
  <2> QED  BY <2>4, <2>5 DEF HelloFirst
<1> QED  BY <1>7, <1>8

\* The next round of the loop begins.
LEMMA AgainFields ==
  ASSUME NEW f \in Client
  PROVE  /\ Again(f).conn = f.conn /\ Again(f).tried = f.tried /\ Again(f).connected = f.connected
         /\ Again(f).gen = f.gen /\ Again(f).id = f.id /\ Again(f).last = f.last
         /\ Again(f).shown = f.shown /\ Again(f).pending = f.pending /\ Again(f).typed = f.typed
         /\ Again(f).pc = "controls"
         /\ Again(f).todo = IF f.conn = 0 THEN 0 ELSE Len(down[f.conn].messages)
BY DEF Again, Client

\* What a terminal event does.
Same == /\ fe'.conn = fe.conn /\ fe'.connected = fe.connected
NewRound == /\ fe'.pc = "controls"
            /\ fe'.todo = IF fe'.conn = 0 THEN 0 ELSE Len(down[fe'.conn].messages)
EventQuiet ==
  /\ NewRound /\ Same /\ UNCHANGED <<up, link>>
  /\ fe'.gen = fe.gen /\ fe'.id = fe.id /\ fe'.shown = fe.shown /\ fe'.last = fe.last
  /\ fe'.typed \in {fe.typed, fe.typed + 1} /\ fe'.pending \in {fe.pending, <<>>}
  /\ paint' = paint \/ (fe.last \in Scene /\ paint' = Submitted(paint, fe.last))
EventDeferred ==
  /\ NewRound /\ Same /\ UNCHANGED <<up, link, paint>> /\ fe.connected
  /\ fe'.gen = fe.gen /\ fe'.id = fe.id /\ fe'.shown = fe.shown /\ fe'.last = fe.last
  /\ fe'.typed = fe.typed + 1 /\ Len(fe.pending) < KeyCap
  /\ fe'.pending = Append(fe.pending, [n |-> fe.typed + 1, typed |-> fe.conn])
EventKey ==
  /\ NewRound /\ Same /\ UNCHANGED <<link, paint>> /\ fe.connected /\ SceneReady /\ fe.pending = <<>>
  /\ fe'.gen = fe.gen /\ fe'.id = fe.id + 1 /\ fe'.shown = fe.shown /\ fe'.last = fe.last
  /\ fe'.typed = fe.typed + 1 /\ fe'.pending = fe.pending
  /\ up' = Sent(fe.conn, <<Key(fe.typed + 1, fe.conn)>>)
EventResize ==
  /\ NewRound /\ Same /\ UNCHANGED <<link, paint>>
  /\ fe'.gen = fe.gen + 1 /\ fe'.shown = None /\ fe'.last = None
  /\ fe'.typed = fe.typed /\ fe'.pending = fe.pending
  /\ \/ fe.connected /\ fe'.id = fe.id + 1 /\ up' = Sent(fe.conn, <<ResizeTo(fe.gen + 1)>>)
     \/ ~fe.connected /\ fe'.id = fe.id /\ up' = up
EventStop ==
  /\ fe'.conn = 0 /\ ~fe'.connected /\ fe.connected /\ fe'.pc = "stopped" /\ fe'.todo = fe.todo
  /\ fe'.gen = fe.gen /\ fe'.id = fe.id /\ fe'.shown = fe.shown /\ fe'.last = fe.last
  /\ fe'.typed = fe.typed + 1 /\ fe'.pending = fe.pending /\ paint' = paint
  /\ IF link[fe.conn] = "open" THEN link' = CutLink(link, fe.conn) /\ CutUp(fe.conn)
                               ELSE UNCHANGED <<link, up>>

LEMMA EventEffect ==
  ASSUME Types, TerminalEvent
  PROVE  /\ UNCHANGED <<app, se, delivered, down>> /\ fe.pc \in {"input", "link"} /\ fe'.tried = fe.tried
         /\ EventQuiet \/ EventDeferred \/ EventKey \/ EventResize \/ EventStop
<1>1. fe \in Client /\ fe.gen \in Nat /\ fe.id + 1 \in Nat /\ fe.typed + 1 \in Nat /\ fe.gen + 1 \in Nat
        /\ fe.conn \in Nat /\ (fe.last # None => fe.last \in Scene)
  <2>1. fe \in Client
    BY DEF Types
  <2> QED  BY SMTT(30), <2>1, Numbers DEF Client, Opt
<1>2. UNCHANGED <<app, se, delivered, down>> /\ fe.pc \in {"input", "link"}
        /\ ((Reads /\ TypeKey) \/ Resize \/ LoseFocus \/ Hover \/ Quiet)
  BY DEF TerminalEvent, FeStep, InputStage
<1>3. ASSUME NEW f \in Client, fe' = Again(f)
      PROVE  /\ fe'.conn = f.conn /\ fe'.tried = f.tried /\ fe'.connected = f.connected
             /\ fe'.gen = f.gen /\ fe'.id = f.id /\ fe'.last = f.last
             /\ fe'.shown = f.shown /\ fe'.pending = f.pending /\ fe'.typed = f.typed
             /\ NewRound
  BY <1>3, AgainFields DEF NewRound
<1>4. CASE Reads /\ TypeKey
  <2>1. /\ Typed \in Client /\ Typed.conn = fe.conn /\ Typed.tried = fe.tried
        /\ Typed.connected = fe.connected /\ Typed.gen = fe.gen /\ Typed.id = fe.id
        /\ Typed.last = fe.last /\ Typed.shown = fe.shown /\ Typed.pending = fe.pending
        /\ Typed.typed = fe.typed + 1 /\ Typed.todo = fe.todo
    BY <1>1 DEF Typed, Client
  <2>2. CASE fe' = Again(Typed) /\ UNCHANGED <<up, link, paint>>
    <3>1. /\ fe'.conn = fe.conn /\ fe'.tried = fe.tried /\ fe'.connected = fe.connected
          /\ fe'.gen = fe.gen /\ fe'.id = fe.id /\ fe'.last = fe.last
          /\ fe'.shown = fe.shown /\ fe'.pending = fe.pending /\ fe'.typed = fe.typed + 1 /\ NewRound
      BY <1>3, <2>1, <2>2
    <3> QED  BY <1>2, <2>2, <3>1 DEF EventQuiet, Same
  <2>3. CASE /\ fe.connected /\ SceneReady /\ UNCHANGED <<link, paint>>
             /\ up' = Sent(fe.conn, <<Key(fe.typed + 1, fe.conn)>>)
             /\ fe' = Again([Typed EXCEPT !.id = @ + 1])
    <3> DEFINE f == [Typed EXCEPT !.id = @ + 1]
    <3>1. /\ f \in Client /\ f.conn = fe.conn /\ f.tried = fe.tried /\ f.connected = fe.connected
          /\ f.gen = fe.gen /\ f.id = fe.id + 1 /\ f.last = fe.last
          /\ f.shown = fe.shown /\ f.pending = fe.pending /\ f.typed = fe.typed + 1
      BY <1>1, <2>1 DEF Client
    <3>2. fe' = Again(f)
      BY <2>3
    <3> HIDE DEF f
    <3>3. /\ fe'.conn = fe.conn /\ fe'.tried = fe.tried /\ fe'.connected = fe.connected
          /\ fe'.gen = fe.gen /\ fe'.id = fe.id + 1 /\ fe'.last = fe.last
          /\ fe'.shown = fe.shown /\ fe'.pending = fe.pending /\ fe'.typed = fe.typed + 1 /\ NewRound
      BY <1>3, <3>1, <3>2
    <3>4. fe.pending = <<>>
      BY <1>4, <2>3 DEF Reads, Dispatches
    <3> QED  BY <1>2, <2>3, <3>3, <3>4 DEF EventKey, Same
  <2>4. CASE /\ fe.connected /\ Len(fe.pending) < KeyCap /\ UNCHANGED <<up, link, paint>>
             /\ fe' = Again([Typed EXCEPT !.pending = Append(@, [n |-> fe.typed + 1, typed |-> fe.conn])])
    <3> DEFINE f == [Typed EXCEPT !.pending = Append(@, [n |-> fe.typed + 1, typed |-> fe.conn])]
    <3> DEFINE p == Append(fe.pending, [n |-> fe.typed + 1, typed |-> fe.conn])
    <3>1. p \in Seq([n : Nat, typed : Nat])
      <4>1. [n |-> fe.typed + 1, typed |-> fe.conn] \in [n : Nat, typed : Nat]
        BY <1>1
      <4>2. fe.pending \in Seq([n : Nat, typed : Nat])
        BY <1>1 DEF Client
      <4> QED  BY <4>1, <4>2, Appends
    <3>2. f = [Typed EXCEPT !.pending = p]
      BY <2>1
    <3>3. fe' = Again(f)
      BY <2>4
    <3> HIDE DEF f, p
    <3>4. /\ f \in Client /\ f.conn = fe.conn /\ f.tried = fe.tried /\ f.connected = fe.connected
          /\ f.gen = fe.gen /\ f.id = fe.id /\ f.last = fe.last
          /\ f.shown = fe.shown /\ f.pending = p /\ f.typed = fe.typed + 1
      BY <2>1, <3>1, <3>2 DEF Client
    <3>5. /\ fe'.conn = fe.conn /\ fe'.tried = fe.tried /\ fe'.connected = fe.connected
          /\ fe'.gen = fe.gen /\ fe'.id = fe.id /\ fe'.last = fe.last
          /\ fe'.shown = fe.shown /\ fe'.pending = p /\ fe'.typed = fe.typed + 1 /\ NewRound
      BY <1>3, <3>3, <3>4
    <3> QED  BY <1>2, <2>4, <3>5 DEF EventDeferred, Same, p
  <2>5. CASE /\ fe.connected /\ paint' = paint
             /\ fe' = [Typed EXCEPT !.pc = "stopped", !.conn = 0, !.connected = FALSE]
             /\ IF link[fe.conn] = "open" THEN link' = CutLink(link, fe.conn) /\ CutUp(fe.conn)
                                          ELSE UNCHANGED <<link, up>>
    <3>1. /\ fe'.conn = 0 /\ ~fe'.connected /\ fe'.tried = fe.tried /\ fe'.gen = fe.gen /\ fe'.pc = "stopped"
          /\ fe'.todo = fe.todo /\ fe'.id = fe.id /\ fe'.shown = fe.shown /\ fe'.last = fe.last
          /\ fe'.typed = fe.typed + 1 /\ fe'.pending = fe.pending
      BY <2>1, <2>5 DEF Client
    <3> QED  BY <1>2, <2>5, <3>1 DEF EventStop
  <2> QED  BY <1>4, <2>2, <2>3, <2>4, <2>5 DEF TypeKey
<1>5. CASE Resize
  <2> DEFINE f == [fe EXCEPT !.resizes = @ + 1, !.gen = @ + 1, !.last = None, !.shown = None,
                            !.id = IF fe.connected THEN @ + 1 ELSE @]
  <2>1. f \in Client
    <3>1. fe.resizes + 1 \in Nat /\ None \in Opt(Scene)
      BY SMTT(30), <1>1, Numbers DEF Client
    <3> QED  BY <1>1, <3>1 DEF Client
  <2>2. /\ f.conn = fe.conn /\ f.tried = fe.tried /\ f.connected = fe.connected /\ f.gen = fe.gen + 1
        /\ f.last = None /\ f.shown = None /\ f.pending = fe.pending /\ f.typed = fe.typed
        /\ f.id = IF fe.connected THEN fe.id + 1 ELSE fe.id
    BY <1>1 DEF Client
  <2>3. fe' = Again(f) /\ UNCHANGED <<link, paint>>
          /\ up' = IF fe.connected THEN Sent(fe.conn, <<ResizeTo(fe.gen + 1)>>) ELSE up
    BY <1>5 DEF Resize
  <2> HIDE DEF f
  <2>4. /\ fe'.conn = fe.conn /\ fe'.tried = fe.tried /\ fe'.connected = fe.connected /\ fe'.gen = fe.gen + 1
        /\ fe'.last = None /\ fe'.shown = None /\ fe'.pending = fe.pending /\ fe'.typed = fe.typed
        /\ fe'.id = (IF fe.connected THEN fe.id + 1 ELSE fe.id) /\ NewRound
    BY <1>3, <2>1, <2>2, <2>3
  <2> QED  BY <1>2, <2>3, <2>4 DEF EventResize, Same
<1>6. CASE LoseFocus
  <2> DEFINE f == [fe EXCEPT !.pending = <<>>]
  <2>1. f \in Client
    <3>1. <<>> \in Seq([n : Nat, typed : Nat])
      OBVIOUS
    <3> QED  BY <1>1, <3>1 DEF Client
  <2>2. /\ f.conn = fe.conn /\ f.tried = fe.tried /\ f.connected = fe.connected /\ f.gen = fe.gen
        /\ f.last = fe.last /\ f.shown = fe.shown /\ f.pending = <<>> /\ f.typed = fe.typed /\ f.id = fe.id
    BY <1>1 DEF Client
  <2>3. fe' = Again(f) /\ UNCHANGED <<up, link>>
          /\ (paint' = paint \/ (fe.last \in Scene /\ paint' = Submitted(paint, fe.last)))
    BY <1>1, <1>6 DEF LoseFocus, Repainted
  <2> HIDE DEF f
  <2>4. /\ fe'.conn = fe.conn /\ fe'.tried = fe.tried /\ fe'.connected = fe.connected /\ fe'.gen = fe.gen
        /\ fe'.last = fe.last /\ fe'.shown = fe.shown /\ fe'.pending = <<>> /\ fe'.typed = fe.typed /\ fe'.id = fe.id
        /\ NewRound
    BY <1>3, <2>1, <2>2, <2>3
  <2> QED  BY <1>2, <2>3, <2>4 DEF EventQuiet, Same
<1>7. CASE Hover
  <2> DEFINE f == [fe EXCEPT !.hovers = @ + 1]
  <2>1. f \in Client
    <3>1. fe.hovers + 1 \in Nat
      BY SMTT(30), <1>1 DEF Client
    <3> QED  BY <1>1, <3>1 DEF Client
  <2>2. /\ f.conn = fe.conn /\ f.tried = fe.tried /\ f.connected = fe.connected /\ f.gen = fe.gen
        /\ f.last = fe.last /\ f.shown = fe.shown /\ f.pending = fe.pending /\ f.typed = fe.typed /\ f.id = fe.id
    BY <1>1 DEF Client
  <2>3. fe' = Again(f) /\ UNCHANGED <<up, link>> /\ fe.last \in Scene /\ paint' = Submitted(paint, fe.last)
    BY <1>1, <1>7 DEF Hover, Repainted
  <2> HIDE DEF f
  <2>4. /\ fe'.conn = fe.conn /\ fe'.tried = fe.tried /\ fe'.connected = fe.connected /\ fe'.gen = fe.gen
        /\ fe'.last = fe.last /\ fe'.shown = fe.shown /\ fe'.pending = fe.pending /\ fe'.typed = fe.typed /\ fe'.id = fe.id
        /\ NewRound
    BY <1>3, <2>1, <2>2, <2>3
  <2> QED  BY <1>2, <2>3, <2>4 DEF EventQuiet, Same
<1>8. CASE Quiet
  <2>1. fe' = Again(fe) /\ UNCHANGED <<up, link, paint>>
    BY <1>8 DEF Quiet
  <2>2. /\ fe'.conn = fe.conn /\ fe'.tried = fe.tried /\ fe'.connected = fe.connected /\ fe'.gen = fe.gen
        /\ fe'.last = fe.last /\ fe'.shown = fe.shown /\ fe'.pending = fe.pending /\ fe'.typed = fe.typed /\ fe'.id = fe.id
        /\ NewRound
    BY <1>1, <1>3, <2>1
  <2> QED  BY <1>2, <2>1, <2>2 DEF EventQuiet, Same
<1> QED  BY <1>2, <1>4, <1>5, <1>6, <1>7, <1>8

\* What the frontend does with a control.
LEMMA HandleEffect ==
  ASSUME Types, Drains, Handle
  PROVE  /\ UNCHANGED <<app, se, delivered, link>> /\ fe.pc = "controls"
         /\ fe.conn \in Conns /\ ~Unheard(fe.conn)
         /\ down[fe.conn].messages # <<>>
         /\ down' = [down EXCEPT ![fe.conn].messages = Tail(@)]
         /\ fe'.conn = fe.conn /\ fe'.tried = fe.tried /\ fe'.pending = fe.pending /\ fe'.typed = fe.typed
         /\ fe'.pc = fe.pc /\ fe'.todo = fe.todo - 1 /\ fe'.last = None /\ fe'.shown = None
         /\ \/ /\ fe'.connected /\ fe'.gen = fe.gen /\ fe'.id = fe.id + 1
               /\ up' = Sent(fe.conn, <<ResizeTo(fe.gen)>>) /\ paint' = paint
            \/ /\ fe'.connected = fe.connected /\ fe'.gen = fe.gen + 1 /\ fe'.id = fe.id
               /\ up' = Sent(fe.conn, <<[type |-> "presentation", gen |-> fe.gen + 1]>>)
               /\ paint' = NoPaint
<1> DEFINE m == Head(down[fe.conn].messages)
<1>1. fe.conn \in Conns /\ down[fe.conn] \in Channel /\ down[fe.conn].messages # <<>> /\ fe \in Client
  BY Drained DEF Handle, Types
<1>2. ~Unheard(fe.conn)
  BY <1>1 DEF Unheard, NoChannels
<1>3. /\ fe.pc = "controls" /\ UNCHANGED <<app, se, delivered>>
      /\ HandleHello(m) \/ HandleToggle(m)
      /\ down' = [down EXCEPT ![fe.conn].messages = Tail(@)]
  BY DEF Handle, FeStep
<1> HIDE DEF m
<1>4. CASE HandleHello(m)
  <2>1. fe' = [Forgotten(fe) EXCEPT !.connected = TRUE, !.known = TRUE, !.id = @ + 1, !.todo = @ - 1]
    BY <1>4 DEF HandleHello
  <2>2. /\ fe'.conn = fe.conn /\ fe'.tried = fe.tried /\ fe'.pending = fe.pending /\ fe'.typed = fe.typed
        /\ fe'.pc = fe.pc /\ fe'.todo = fe.todo - 1 /\ fe'.last = None /\ fe'.shown = None
        /\ fe'.connected /\ fe'.gen = fe.gen /\ fe'.id = fe.id + 1
    BY <1>1, <2>1 DEF Forgotten, Client
  <2> QED  BY <1>1, <1>2, <1>3, <1>4, <2>2 DEF HandleHello
<1>5. CASE HandleToggle(m)
  <2>1. fe' = [fe EXCEPT !.pixels = ~@, !.gen = @ + 1, !.last = None, !.shown = None, !.todo = @ - 1]
    BY <1>5 DEF HandleToggle
  <2>2. /\ fe'.conn = fe.conn /\ fe'.tried = fe.tried /\ fe'.pending = fe.pending /\ fe'.typed = fe.typed
        /\ fe'.pc = fe.pc /\ fe'.todo = fe.todo - 1 /\ fe'.last = None /\ fe'.shown = None
        /\ fe'.connected = fe.connected /\ fe'.gen = fe.gen + 1 /\ fe'.id = fe.id
    BY <1>1, <2>1 DEF Client
  <2> QED  BY <1>1, <1>2, <1>3, <1>5, <2>2 DEF HandleToggle
<1> QED  BY <1>3, <1>4, <1>5

\* What it does with the finished frames.
LEMMA ShowEffect ==
  ASSUME Types, Show
  PROVE  /\ UNCHANGED <<app, se, delivered, down, link>> /\ fe.pc = "output" /\ fe'.pc = "link"
         /\ paint' = [paint EXCEPT !.output = <<>>]
         /\ fe'.conn = fe.conn /\ fe'.tried = fe.tried /\ fe'.pending = fe.pending /\ fe'.typed = fe.typed
         /\ fe'.connected = fe.connected /\ fe'.gen = fe.gen /\ fe'.id = fe.id /\ fe'.last = fe.last
         /\ fe'.todo = fe.todo
         /\ \E acks \in Seq(Message) :
              /\ up' = IF fe.connected THEN Sent(fe.conn, acks) ELSE up
              /\ \A i \in DOMAIN acks :
                   /\ acks[i].type = "presented" /\ acks[i].gen = fe.gen
                   /\ \E j \in DOMAIN paint.output : acks[i] = Shows(paint.output[j])
              /\ fe'.shown = fe.shown \/ acks # <<>>
<1> DEFINE mine == Finished(1) \o Finished(2)
<1> DEFINE acks == [i \in DOMAIN mine |-> Shows(mine[i])]
<1>1. /\ fe.pc = "output" /\ UNCHANGED <<app, se, delivered, down, link>>
      /\ fe' = [fe EXCEPT !.pc = "link", !.shown = IF mine = <<>> THEN @ ELSE Last(mine)]
      /\ up' = IF fe.connected THEN Sent(fe.conn, acks) ELSE up
      /\ paint' = [paint EXCEPT !.output = <<>>]
  BY DEF Show, FeStep
<1>2. fe \in Client
  BY DEF Types
<1>3. mine \in Seq(Scene) /\ \A i \in DOMAIN mine : /\ mine[i].gen = fe.gen
                                                    /\ \E j \in DOMAIN paint.output : mine[i] = paint.output[j]
  BY FinishedOnes
<1> HIDE DEF mine
<1>4. /\ fe'.conn = fe.conn /\ fe'.tried = fe.tried /\ fe'.pending = fe.pending /\ fe'.typed = fe.typed
      /\ fe'.connected = fe.connected /\ fe'.gen = fe.gen /\ fe'.id = fe.id /\ fe'.last = fe.last
      /\ fe'.todo = fe.todo /\ (mine = <<>> => fe'.shown = fe.shown) /\ fe'.pc = "link"
  BY <1>1, <1>2 DEF Client
<1>5. DOMAIN acks = DOMAIN mine /\ \A i \in DOMAIN mine : acks[i] = Shows(mine[i])
  OBVIOUS
<1>6. acks \in Seq(Message)
  <2>1. \A i \in DOMAIN mine : Shows(mine[i]) \in Message
    BY <1>3, Sendable
  <2> QED  BY <1>3, <2>1
<1> HIDE DEF acks
<1>7. ASSUME NEW i \in DOMAIN acks
      PROVE  /\ acks[i].type = "presented" /\ acks[i].gen = fe.gen
             /\ \E j \in DOMAIN paint.output : acks[i] = Shows(paint.output[j])
  <2>1. PICK j \in DOMAIN paint.output : mine[i] = paint.output[j]
    BY <1>3, <1>5
  <2>2. acks[i] = Shows(mine[i]) /\ mine[i].gen = fe.gen
    BY <1>3, <1>5
  <2> QED  BY <2>1, <2>2 DEF Shows
<1>8. mine = <<>> \/ acks # <<>>
  <2>1. mine # <<>> => 1 \in DOMAIN mine
    BY <1>3
  <2> QED  BY <1>5, <2>1
<1> QED  BY <1>1, <1>4, <1>6, <1>7, <1>8

\* What it does with a deferred key.
LEMMA DispatchEffect ==
  ASSUME Types, Dispatch
  PROVE  /\ UNCHANGED <<app, se, delivered, down, link, paint>> /\ fe.pc # "stopped"
         /\ fe.connected /\ SceneReady /\ fe.pending # <<>> /\ fe'.pending = Tail(fe.pending)
         /\ fe'.conn = fe.conn /\ fe'.tried = fe.tried /\ fe'.typed = fe.typed
         /\ fe'.connected = fe.connected /\ fe'.gen = fe.gen /\ fe'.id = fe.id + 1
         /\ fe'.last = fe.last /\ fe'.shown = fe.shown /\ fe'.pc = "controls"
         /\ fe'.todo = IF fe.conn = 0 THEN 0 ELSE Len(down[fe.conn].messages)
         /\ up' = Sent(fe.conn, <<Key(Head(fe.pending).n, Head(fe.pending).typed)>>)
         /\ Head(fe.pending).n \in Nat /\ Head(fe.pending).typed \in Nat
<1> DEFINE f == [fe EXCEPT !.pending = Tail(@), !.id = @ + 1]
<1>1. fe \in Client /\ fe.pending # <<>> /\ fe.pending \in Seq([n : Nat, typed : Nat]) /\ fe.id + 1 \in Nat
  <2>1. fe \in Client /\ fe.pending # <<>>
    BY DEF Types, Dispatch, Dispatches
  <2> QED  BY <2>1 DEF Client
<1>2. Head(fe.pending) \in [n : Nat, typed : Nat] /\ Tail(fe.pending) \in Seq([n : Nat, typed : Nat])
  BY <1>1, Tails
<1>3. /\ f \in Client /\ f.pending = Tail(fe.pending) /\ f.conn = fe.conn /\ f.tried = fe.tried /\ f.typed = fe.typed
      /\ f.connected = fe.connected /\ f.gen = fe.gen /\ f.id = fe.id + 1
      /\ f.last = fe.last /\ f.shown = fe.shown
  BY <1>1, <1>2 DEF Client
<1>4. /\ fe' = Again(f) /\ fe.connected /\ SceneReady /\ fe.pc # "stopped"
      /\ UNCHANGED <<app, se, delivered, down, link, paint>>
      /\ up' = Sent(fe.conn, <<Key(Head(fe.pending).n, Head(fe.pending).typed)>>)
  BY DEF Dispatch, Dispatches, FeStep, InputStage
<1> HIDE DEF f
<1>5. /\ fe'.pending = Tail(fe.pending) /\ fe'.conn = fe.conn /\ fe'.tried = fe.tried /\ fe'.typed = fe.typed
      /\ fe'.connected = fe.connected /\ fe'.gen = fe.gen /\ fe'.id = fe.id + 1
      /\ fe'.last = fe.last /\ fe'.shown = fe.shown /\ fe'.pc = "controls"
  BY <1>3, <1>4, AgainFields
<1>6. fe'.todo = IF fe.conn = 0 THEN 0 ELSE Len(down[fe.conn].messages)
  BY <1>3, <1>4, AgainFields
<1> QED  BY <1>1, <1>2, <1>4, <1>5, <1>6

\* What it does when its connection has ended.
LEMMA DeadEffect ==
  ASSUME Types, Dead
  PROVE  /\ UNCHANGED <<app, se, delivered, down>> /\ fe.pc = "link" /\ fe.conn \in Conns
         /\ fe'.conn = 0 /\ fe'.tried = fe.tried /\ ~fe'.connected /\ fe'.gen = fe.gen /\ fe'.id = fe.id
         /\ fe'.typed = fe.typed /\ fe'.last = fe.last /\ fe'.shown = None /\ fe'.pending = <<>>
         /\ fe'.todo = fe.todo /\ fe'.pc \in {"input", "stopped"}
         /\ \/ paint' = paint
            \/ fe.last \in Scene /\ paint' = Submitted(paint, fe.last)
         /\ IF link[fe.conn] = "open" THEN link' = CutLink(link, fe.conn) /\ CutUp(fe.conn)
                                      ELSE UNCHANGED <<link, up>>
<1>1. fe.conn \in Conns /\ fe \in Client /\ (fe.last # None => fe.last \in Scene)
  <2>1. fe.conn # 0
    BY DEF Dead
  <2>2. fe \in Client
    BY DEF Types
  <2> QED  BY <2>1, <2>2, Numbers DEF Client, Opt
<1>2. fe' = [fe EXCEPT !.conn = 0, !.connected = FALSE, !.shown = None,
                      !.pending = Cleared(@), !.pc = IF fe.known THEN "input" ELSE "stopped"]
  BY DEF Dead
<1>3. /\ fe'.conn = 0 /\ fe'.tried = fe.tried /\ ~fe'.connected /\ fe'.gen = fe.gen /\ fe'.id = fe.id
      /\ fe'.typed = fe.typed /\ fe'.last = fe.last /\ fe'.shown = None /\ fe'.pending = <<>>
      /\ fe'.todo = fe.todo /\ fe'.pc \in {"input", "stopped"}
  BY <1>1, <1>2 DEF Cleared, Client
<1> QED  BY <1>1, <1>3 DEF Dead, FeStep

\* What it does with the frame slot.
LEMMA TakeEffect ==
  ASSUME Types, TakeFrame
  PROVE  /\ UNCHANGED <<app, se, delivered, up, link>> /\ fe.pc = "controls" /\ fe.todo = 0
         /\ fe'.conn = fe.conn /\ fe'.tried = fe.tried /\ fe'.connected = fe.connected /\ fe'.gen = fe.gen
         /\ fe'.id = fe.id /\ fe'.typed = fe.typed /\ fe'.shown = fe.shown /\ fe'.pending = fe.pending
         /\ fe'.todo = fe.todo /\ fe'.pc = "output"
         /\ \/ UNCHANGED <<down, paint>> /\ fe'.last = fe.last
            \/ /\ fe.conn \in Conns /\ down[fe.conn].frames \in Scene
               /\ down' = [down EXCEPT ![fe.conn].frames = None]
               /\ \/ paint' = paint /\ fe'.last = fe.last
                  \/ /\ fe'.last = down[fe.conn].frames
                     /\ paint' = Submitted(paint, down[fe.conn].frames)
<1> DEFINE scene == IF fe.conn = 0 THEN None ELSE down[fe.conn].frames
<1> DEFINE mine == scene # None /\ scene.gen = fe.gen
<1>1. /\ UNCHANGED <<app, se, delivered, up, link>> /\ fe.pc = "controls" /\ fe.todo = 0
      /\ fe' = [fe EXCEPT !.pc = "output", !.last = IF mine THEN scene ELSE @]
      /\ paint' = IF mine THEN Submitted(paint, scene) ELSE paint
      /\ down' = IF scene = None THEN down ELSE [down EXCEPT ![fe.conn].frames = None]
  BY DEF TakeFrame, FeStep
<1>2. scene # None => fe.conn \in Conns /\ scene = down[fe.conn].frames /\ down[fe.conn].frames \in Scene
  <2>1. fe.conn # 0 => fe.conn \in Conns
    BY Numbers
  <2> QED  BY <2>1 DEF Types, Channel, Opt
<1>3. fe \in Client
  BY DEF Types
<1> HIDE DEF scene
<1>4. /\ fe'.conn = fe.conn /\ fe'.tried = fe.tried /\ fe'.connected = fe.connected /\ fe'.gen = fe.gen
      /\ fe'.id = fe.id /\ fe'.typed = fe.typed /\ fe'.shown = fe.shown /\ fe'.pending = fe.pending
      /\ fe'.todo = fe.todo /\ fe'.pc = "output"
      /\ fe'.last = IF mine THEN scene ELSE fe.last
  BY <1>1, <1>3 DEF Client
<1> HIDE DEF mine
<1>5. mine => scene # None
  BY DEF mine
<1> QED  BY <1>1, <1>2, <1>4, <1>5

LEMMA ReconnectEffect ==
  ASSUME Types, Reconnect
  PROVE  /\ UNCHANGED <<app, se, delivered, down, paint>> /\ fe.pc = "link" /\ fe.conn = 0
         /\ fe.tried + 1 \in Conns /\ fe'.conn = fe.tried + 1 /\ fe'.tried = fe.tried + 1
         /\ fe'.connected = fe.connected /\ fe'.gen = fe.gen + 1
         /\ fe'.id = fe.id /\ fe'.typed = fe.typed /\ fe'.shown = fe.shown /\ fe'.pending = fe.pending
         /\ fe'.todo = fe.todo /\ fe'.pc = "input" /\ fe'.last = fe.last
         /\ link' = [link EXCEPT ![fe.tried + 1] = "open"]
         /\ up' = [up EXCEPT ![fe.tried + 1] = <<[type |-> "hello", gen |-> fe.gen + 1]>>]
<1>1. fe \in Client
  BY DEF Types
<1>2. fe.tried + 1 \in Conns
  <2>1. fe.tried \in 1 .. MaxConns /\ fe.tried < MaxConns /\ MaxConns \in Nat
    BY Numbers DEF Reconnect
  <2> QED  BY <2>1 DEF Conns
<1>3. /\ fe'.conn = fe.tried + 1 /\ fe'.tried = fe.tried + 1
      /\ fe'.connected = fe.connected /\ fe'.gen = fe.gen + 1
      /\ fe'.id = fe.id /\ fe'.typed = fe.typed /\ fe'.shown = fe.shown /\ fe'.pending = fe.pending
      /\ fe'.todo = fe.todo /\ fe'.pc = "input" /\ fe'.last = fe.last
  BY <1>1 DEF Reconnect, Client
<1> QED  BY <1>2, <1>3 DEF Reconnect, FeStep

\* The steps of a received message, but for a takeover, are the peer's.
LEMMA ReceiveEffect ==
  ASSUME Types, NEW c \in Conns, NEW m, m = Head(up[c]), Receive(c), ~Attach(c, m)
  PROVE  /\ c = se.peer /\ up[c] # <<>> /\ m \in Message /\ m.type # "hello"
         /\ up' = [up EXCEPT ![c] = Tail(@)] /\ UNCHANGED <<app, fe, paint>>
         /\ \/ /\ m.type = "eof" /\ se' = [se EXCEPT !.peer = 0] /\ se'.peer = 0
               /\ down' = Dropped(down, c) /\ link' = CutLink(link, c) /\ delivered' = delivered
            \/ /\ UNCHANGED <<down, link>> /\ se'.peer = se.peer
               /\ \/ ResizeInput(c, m) \/ KeyInput(c, m) \/ Presented(c, m) \/ SwitchInput(c, m)
<1>1. up[c] # <<>> /\ m \in Message /\ se \in Session
  <2>1. up[c] # <<>> /\ up[c] \in Seq(Message) /\ se \in Session
    BY DEF Receive, Types
  <2> QED  BY <2>1, Tails
<1>2. Eof(c, m) \/ ResizeInput(c, m) \/ KeyInput(c, m) \/ Presented(c, m) \/ SwitchInput(c, m)
  BY DEF Receive
<1>3. FromPeer(c) /\ m.type # "hello"
  BY <1>2 DEF Eof, ResizeInput, KeyInput, Presented, SwitchInput
<1>4. CASE Eof(c, m)
  BY <1>1, <1>3, <1>4 DEF Eof, FromPeer, Session
<1>5. CASE ResizeInput(c, m)
  BY <1>1, <1>3, <1>5 DEF ResizeInput, FromPeer, Session
<1>6. CASE KeyInput(c, m)
  BY SMTT(30), <1>1, <1>3, <1>6 DEF KeyInput, FromPeer, Session
<1>7. CASE Presented(c, m)
  <2>1. se'.peer = se.peer
    BY <1>1, <1>7 DEF Presented, Session
  <2> QED  BY <1>1, <1>3, <1>7, <2>1 DEF Presented, FromPeer
<1>8. CASE SwitchInput(c, m)
  BY <1>1, <1>3, <1>8 DEF SwitchInput, FromPeer, Session
<1> QED  BY <1>2, <1>4, <1>5, <1>6, <1>7, <1>8

\* A session step that only sends.
LEMMA SendEffect ==
  ASSUME Types, AskToggle \/ Paint \/ (\E c \in Conns : Write(c))
  PROVE  /\ UNCHANGED <<up, link, fe, paint, delivered>> /\ se.peer \in Conns
         /\ se'.peer = se.peer /\ se'.view = se.view /\ se'.last = se.last /\ se'.target = se.target
         /\ \A c \in Conns : c # se.peer => down'[c] = down[c]
         /\ down'[se.peer].messages = down[se.peer].messages
<1>1. se \in Session /\ down \in [Conns -> Channel]
  BY DEF Types
<1>2. CASE AskToggle
  <2>1. se.peer \in Conns
    BY <1>2, Numbers DEF AskToggle
  <2> QED  BY <1>1, <1>2, <2>1 DEF AskToggle, Channel
<1>3. CASE Paint
  <2>1. se.peer \in Conns
    BY <1>3, Numbers DEF Paint
  <2>2. /\ se'.peer = se.peer /\ se'.view = se.view /\ se'.last = se.last /\ se'.target = se.target
    BY <1>1, <1>3 DEF Paint, Session
  <2>3. down' = down \/ \E scene : down' = [down EXCEPT ![se.peer].slot = scene]
    BY <1>3 DEF Paint
  <2>4. \A c \in Conns : c # se.peer => down'[c] = down[c]
    BY <1>1, <2>1, <2>3
  <2>5. down'[se.peer].messages = down[se.peer].messages
    BY <1>1, <2>1, <2>3 DEF Channel
  <2> QED  BY <1>3, <2>1, <2>2, <2>4, <2>5 DEF Paint
<1>4. CASE \E c \in Conns : Write(c)
  <2>1. PICK c \in Conns : Write(c)
    BY <1>4
  <2>2. c = se.peer /\ UNCHANGED <<app, se, up, link, fe, paint, delivered>>
    BY <2>1 DEF Write
  <2>3. \/ down' = [down EXCEPT ![c].control = Tail(@), ![c].wire = Append(@, Head(down[c].control))]
        \/ down' = [down EXCEPT ![c].slot = None,
                                ![c].wire = Append(@, [type |-> "scene", scene |-> down[c].slot])]
    BY <2>1 DEF Write
  <2>4. \A d \in Conns : d # c => down'[d] = down[d]
    BY <1>1, <2>3
  <2>5. down'[c].messages = down[c].messages
    BY <1>1, <2>3 DEF Channel
  <2> QED  BY <2>2, <2>4, <2>5
<1> QED  BY <1>2, <1>3, <1>4

LEMMA LinksKept ==
  ASSUME Types, Types', Links, HelloFirst, Drains, Next
  PROVE  Links' /\ HelloFirst'
<1>0. fe.conn <= fe.tried /\ se.peer <= fe.tried /\ (fe.connected => fe.conn # 0)
        /\ fe.gen >= fe.gen /\ fe.gen + 1 >= fe.gen
        /\ fe.gen \in Nat
  BY Numbers DEF Links
<1>1. CASE Work \/ RenderTake \/ RenderPut
  <2>1. UNCHANGED <<se, up, down, link, fe>>
    BY <1>1 DEF Work, RenderTake, RenderPut
  <2> QED  BY <1>0, <2>1, LinksAsBefore
<1>2. CASE AskToggle \/ Paint \/ \E c \in Conns : Write(c)
  <2>1. se.peer \in Conns => se.peer <= fe.tried /\ (down'[se.peer] = down[se.peer] \/ ~Unheard(se.peer))
    <3>1. ASSUME se.peer \in Conns, Unheard(se.peer)  PROVE FALSE
      <4>1. 1 \in DOMAIN up[se.peer]
        BY <3>1 DEF Unheard, Types
      <4> QED  BY <3>1, <4>1 DEF Unheard, HelloFirst
    <3> QED  BY <1>0, <3>1
  <2>2. UNCHANGED <<up, link, fe>> /\ se'.peer = se.peer
          /\ \A c \in Conns : c # se.peer => down'[c] = down[c]
    BY <1>2, SendEffect
  <2> QED  BY <1>0, <2>1, <2>2, LinksAsBefore
<1>3. ASSUME NEW c \in Conns, Read(c)  PROVE Links' /\ HelloFirst'
  <2>1. UNCHANGED <<se, up, link, fe>> /\ c = fe.conn /\ down[c].wire # <<>>
    BY <1>3 DEF Read
  <2>2. ~Unheard(c)
    BY <2>1 DEF Unheard, NoChannels
  <2>3. \A d \in Conns : d # c => down'[d] = down[d]
    BY <1>3 DEF Read, Types
  <2> QED  BY <1>0, <2>1, <2>2, <2>3, LinksAsBefore
<1>4. ASSUME NEW c \in Conns, Lose(c)  PROVE Links' /\ HelloFirst'
  <2>1. UNCHANGED <<se, down, fe>> /\ link' = CutLink(link, c) /\ CutUp(c) /\ c = fe.conn
    BY <1>4 DEF Lose, Links
  <2> QED  BY <1>0, <2>1, LinksCut
<1>5. ASSUME NEW c \in Conns, Receive(c)  PROVE Links' /\ HelloFirst'
  <2>1. up[c] # <<>>
    BY <1>5 DEF Receive
  <2>2. CASE Attach(c, Head(up[c]))
    BY <2>1, <2>2, LinksAttach
  <2>3. CASE ~Attach(c, Head(up[c]))
    <3>1. /\ c = se.peer /\ up' = [up EXCEPT ![c] = Tail(@)] /\ UNCHANGED fe
          /\ \/ se'.peer = c /\ link' = link /\ down' = down
             \/ se'.peer = 0 /\ link' = CutLink(link, c) /\ down' = Dropped(down, c)
      BY <1>5, <2>3, ReceiveEffect
    <3> QED  BY <2>1, <3>1, LinksRead
  <2> QED  BY <2>2, <2>3
<1>6. CASE Handle
  <2> DEFINE d == <<[type |-> "presentation", gen |-> fe.gen + 1]>>
  <2> DEFINE h == <<ResizeTo(fe.gen)>>
  <2>1. h \in Seq(Message) /\ \A i \in DOMAIN h : h[i].type # "hello"
    <3>1. ResizeTo(fe.gen) \in Message /\ ResizeTo(fe.gen).type # "hello"
      BY <1>0, Sendable DEF ResizeTo
    <3> QED  BY <3>1
  <2>2. d \in Seq(Message) /\ \A i \in DOMAIN d : d[i].type # "hello"
    <3>1. [type |-> "presentation", gen |-> fe.gen + 1] \in Message
      BY Sendable
    <3> QED  BY <3>1
  <2>3. /\ link' = link /\ se' = se /\ fe.conn \in Conns /\ ~Unheard(fe.conn)
        /\ \A c \in Conns : down'[c] = down[c] \/ c = fe.conn
        /\ fe'.conn = fe.conn /\ fe'.tried = fe.tried /\ fe'.gen >= fe.gen
        /\ up' = Sent(fe.conn, h) \/ up' = Sent(fe.conn, d)
    <3>1. \A c \in Conns : down'[c] = down[c] \/ c = fe.conn
      BY <1>6, HandleEffect DEF Types
    <3> QED  BY <1>0, <1>6, <3>1, HandleEffect
  <2>4. fe.conn # 0
    BY <2>3 DEF Conns
  <2> HIDE DEF h, d
  <2> QED  BY <2>1, <2>2, <2>3, <2>4, LinksSend
<1>7. CASE TakeFrame
  <2>1. UNCHANGED <<se, up, link>> /\ fe'.conn = fe.conn /\ fe'.tried = fe.tried
          /\ fe'.connected = fe.connected /\ fe'.gen = fe.gen
    BY <1>7, TakeEffect
  <2>2. down' = down \/ (/\ fe.conn \in Conns /\ down[fe.conn].frames \in Scene
                         /\ down' = [down EXCEPT ![fe.conn].frames = None])
    BY <1>7, TakeEffect
  <2>3. down[fe.conn].frames \in Scene => ~Unheard(fe.conn)
    BY PresentationAssumption DEF Unheard, NoChannels
  <2>4. \A c \in Conns : down'[c] = down[c] \/ (c <= fe.tried /\ ~Unheard(c))
    BY <1>0, <2>2, <2>3 DEF Types
  <2> QED  BY <1>0, <2>1, <2>4, LinksAsBefore
<1>8. CASE Show
  <2>1. PICK acks \in Seq(Message) :
          /\ up' = IF fe.connected THEN Sent(fe.conn, acks) ELSE up
          /\ \A i \in DOMAIN acks : acks[i].type = "presented"
    BY <1>8, ShowEffect
  <2>2. /\ UNCHANGED <<se, down, link>> /\ fe'.conn = fe.conn /\ fe'.tried = fe.tried
        /\ fe'.connected = fe.connected /\ fe'.gen = fe.gen
        /\ \A i \in DOMAIN acks : acks[i].type # "hello"
    BY <1>8, <2>1, ShowEffect
  <2>3. CASE fe.connected
    <3>1. ~Unheard(fe.conn)
      BY <2>3 DEF Unheard
    <3> QED  BY <1>0, <2>1, <2>2, <2>3, <3>1, LinksSend
  <2>4. CASE ~fe.connected
    BY <1>0, <2>1, <2>2, <2>4, LinksAsBefore
  <2> QED  BY <2>3, <2>4
<1>9. CASE Dead
  <2>1. /\ UNCHANGED <<se, down>> /\ fe.conn \in Conns
        /\ fe'.conn = 0 /\ fe'.tried = fe.tried /\ ~fe'.connected /\ fe'.gen = fe.gen
        /\ IF link[fe.conn] = "open" THEN link' = CutLink(link, fe.conn) /\ CutUp(fe.conn)
                                     ELSE UNCHANGED <<link, up>>
    BY <1>9, DeadEffect
  <2>2. CASE link[fe.conn] = "open"
    BY <1>0, <2>1, <2>2, LinksCut
  <2>3. CASE link[fe.conn] # "open"
    BY <1>0, <2>1, <2>3, LinksAsBefore
  <2> QED  BY <2>2, <2>3
<1>10. CASE Reconnect
  BY <1>10, LinksReconnect
<1>11. CASE Dispatch
  <2> DEFINE k == <<Key(Head(fe.pending).n, Head(fe.pending).typed)>>
  <2>1. /\ UNCHANGED <<se, down, link>> /\ fe'.conn = fe.conn /\ fe'.tried = fe.tried
        /\ fe.connected /\ fe'.connected = fe.connected /\ fe'.gen = fe.gen
        /\ up' = Sent(fe.conn, k)
    BY <1>11, DispatchEffect
  <2>2. k \in Seq(Message) /\ \A i \in DOMAIN k : k[i].type # "hello"
    <3>1. fe.shown # None
      BY <1>11, DispatchEffect DEF SceneReady
    <3>2. Key(Head(fe.pending).n, Head(fe.pending).typed) \in Message
      BY <1>11, <3>1, DispatchEffect, Sendable
    <3>3. Key(Head(fe.pending).n, Head(fe.pending).typed).type # "hello"
      BY DEF Key
    <3> QED  BY <3>2, <3>3
  <2>3. ~Unheard(fe.conn)
    BY <2>1 DEF Unheard
  <2> HIDE DEF k
  <2> QED  BY <1>0, <2>1, <2>2, <2>3, LinksSend
<1>12. CASE TerminalEvent
  <2>1. UNCHANGED <<se, down>> /\ fe'.tried = fe.tried
          /\ (EventQuiet \/ EventDeferred \/ EventKey \/ EventResize \/ EventStop)
    BY <1>12, EventEffect
  <2>2. CASE /\ UNCHANGED <<up, link>> /\ fe'.conn = fe.conn /\ fe'.connected = fe.connected
             /\ fe'.gen >= fe.gen
    BY <1>0, <2>1, <2>2, LinksAsBefore
  <2>3. CASE EventQuiet \/ EventDeferred
    BY <1>0, <2>2, <2>3 DEF EventQuiet, EventDeferred, Same
  <2>4. CASE EventResize /\ ~fe.connected
    BY <1>0, <2>2, <2>4 DEF EventResize, Same
  <2>5. CASE EventKey \/ (EventResize /\ fe.connected)
    <3> DEFINE k == <<Key(fe.typed + 1, fe.conn)>>
    <3> DEFINE r == <<ResizeTo(fe.gen + 1)>>
    <3>1. /\ fe.connected /\ link' = link /\ fe'.conn = fe.conn /\ fe'.connected = fe.connected
          /\ fe'.gen >= fe.gen
          /\ (SceneReady /\ up' = Sent(fe.conn, k)) \/ up' = Sent(fe.conn, r)
      BY <1>0, <2>5 DEF EventKey, EventResize, Same
    <3>2. ~Unheard(fe.conn)
      BY <3>1 DEF Unheard
    <3>3. r \in Seq(Message) /\ \A i \in DOMAIN r : r[i].type # "hello"
      <4>1. ResizeTo(fe.gen + 1) \in Message
        BY <1>0, Sendable
      <4>2. ResizeTo(fe.gen + 1).type # "hello"
        BY DEF ResizeTo
      <4> QED  BY <4>1, <4>2
    <3>4. SceneReady => k \in Seq(Message) /\ \A i \in DOMAIN k : k[i].type # "hello"
      <4>1. SceneReady => Key(fe.typed + 1, fe.conn) \in Message
        BY Numbers, Sendable DEF SceneReady
      <4>2. Key(fe.typed + 1, fe.conn).type # "hello"
        BY DEF Key
      <4> QED  BY <4>1, <4>2
    <3> HIDE DEF k, r
    <3> QED  BY <1>0, <2>1, <3>1, <3>2, <3>3, <3>4, LinksSend
  <2>6. CASE EventStop
    <3>0. /\ fe'.conn = 0 /\ ~fe'.connected /\ fe.connected /\ fe'.gen = fe.gen
          /\ IF link[fe.conn] = "open" THEN link' = CutLink(link, fe.conn) /\ CutUp(fe.conn)
                                       ELSE UNCHANGED <<link, up>>
      BY <2>6 DEF EventStop
    <3>1. fe.conn \in Conns
      BY <1>0, <3>0, Numbers
    <3>2. CASE link[fe.conn] = "open"
      BY <1>0, <2>1, <3>0, <3>1, <3>2, LinksCut
    <3>3. CASE link[fe.conn] # "open"
      BY <1>0, <2>1, <3>0, <3>1, <3>3, LinksAsBefore
    <3> QED  BY <3>2, <3>3
  <2> QED  BY <2>1, <2>3, <2>4, <2>5, <2>6
<1> QED  BY <1>1, <1>2, <1>3, <1>4, <1>5, <1>6, <1>7, <1>8, <1>9, <1>10, <1>11, <1>12 DEF Next, Frontend

\* The frontend drains what has arrived and nothing else takes from it.
LEMMA DrainsKept ==
  ASSUME Types, Types', Links, Drains, Next
  PROVE  Drains'
<1> DEFINE Msgs(c) == Len(down[c].messages)
<1>0. /\ fe.todo \in Nat /\ \A c \in Conns : down[c].messages \in Seq(Control) /\ Len(down[c].messages) \in Nat
      /\ \A c \in Conns : Len(down'[c].messages) \in Nat
  <2>1. \A c \in Conns : down[c].messages \in Seq(Control) /\ down'[c].messages \in Seq(Control)
    BY DEF Types, Channel
  <2> QED  BY SMTT(30), <2>1, Numbers
\* Nothing is taken, nothing is drained.
<1>1. ASSUME fe'.conn = fe.conn, fe'.todo = fe.todo, fe'.pc = fe.pc \/ fe.todo = 0,
             \A c \in Conns : Len(down'[c].messages) >= Len(down[c].messages)
      PROVE  Drains'
  <2>1. fe.conn # 0 => fe.conn \in Conns
    BY Numbers
  <2> QED  BY <1>0, <1>1, <2>1 DEF Drains
\* A new round.
<1>2. ASSUME fe'.todo = (IF fe'.conn = 0 THEN 0 ELSE Len(down[fe'.conn].messages)),
             fe'.pc = "controls", down' = down
      PROVE  Drains'
  <2>1. fe'.conn # 0 => fe'.conn \in Conns
    BY Numbers DEF Types, Client
  <2> QED  BY <1>0, <1>2, <2>1 DEF Drains
<1>3. CASE Work \/ RenderTake \/ RenderPut
  <2>1. UNCHANGED <<down, fe>>
    BY <1>3 DEF Work, RenderTake, RenderPut
  <2> QED  BY <1>0, <1>1, <2>1
<1>4. CASE AskToggle \/ Paint \/ \E c \in Conns : Write(c)
  <2>1. fe' = fe /\ \A c \in Conns : down'[c].messages = down[c].messages
    BY <1>4, SendEffect
  <2> QED  BY <1>0, <1>1, <2>1
<1>5. ASSUME NEW c \in Conns, Read(c)  PROVE Drains'
  <2>1. fe' = fe /\ \A d \in Conns : d # c => down'[d] = down[d]
    BY SMTT(30), <1>5 DEF Read, Types
  <2>2. \/ down'[c].messages = down[c].messages
        \/ down'[c].messages = Append(down[c].messages, Head(down[c].wire))
    BY <1>5 DEF Read, Types, Channel
  <2>3. Len(Append(down[c].messages, Head(down[c].wire))) >= Len(down[c].messages)
    BY <1>0
  <2> QED  BY <1>0, <1>1, <2>1, <2>2, <2>3
<1>6. ASSUME NEW c \in Conns, Lose(c)  PROVE Drains'
  <2>1. UNCHANGED <<fe, down>>
    BY <1>6 DEF Lose
  <2> QED  BY <1>0, <1>1, <2>1
<1>7. ASSUME NEW c \in Conns, Receive(c)  PROVE Drains'
  <2>1. ASSUME NEW d \in Conns  PROVE \A b \in Conns : Dropped(down, d)[b].messages = down[b].messages
    BY Drops
  <2>2. CASE Attach(c, Head(up[c]))
    <3> DEFINE d == IF se.peer = 0 THEN down ELSE Dropped(down, se.peer)
    <3>1. d \in [Conns -> Channel] /\ \A b \in Conns : d[b].messages = down[b].messages
      <4>1. ASSUME se.peer # 0
            PROVE  /\ Dropped(down, se.peer) \in [Conns -> Channel]
                   /\ \A b \in Conns : Dropped(down, se.peer)[b].messages = down[b].messages
        <5>1. se.peer \in Conns
          BY <4>1, Numbers
        <5> QED  BY <5>1, Drops
      <4>2. down \in [Conns -> Channel]
        BY DEF Types
      <4> QED  BY <4>1, <4>2
    <3>2. fe' = fe /\ down' = [d EXCEPT ![c].control = <<[type |-> "hello"]>>]
      BY <2>2 DEF Attach
    <3> HIDE DEF d
    <3>3. \A b \in Conns : down'[b].messages = down[b].messages
      BY <3>1, <3>2 DEF Channel
    <3> QED  BY <1>0, <1>1, <3>2, <3>3
  <2>3. CASE ~Attach(c, Head(up[c]))
    <3>1. fe' = fe /\ (down' = down \/ down' = Dropped(down, c))
      BY <1>7, <2>3, ReceiveEffect
    <3> QED  BY <1>0, <1>1, <2>1, <3>1
  <2> QED  BY <2>2, <2>3
<1>8. CASE Handle
  <2>1. /\ fe.conn \in Conns /\ down[fe.conn].messages # <<>> /\ fe'.conn = fe.conn /\ fe'.pc = fe.pc
        /\ fe'.todo = fe.todo - 1 /\ fe.pc = "controls"
        /\ down' = [down EXCEPT ![fe.conn].messages = Tail(@)]
    BY <1>8, HandleEffect
  <2>2. down'[fe.conn].messages = Tail(down[fe.conn].messages)
    BY <2>1 DEF Types, Channel
  <2>3. Len(down'[fe.conn].messages) = Len(down[fe.conn].messages) - 1
    BY <1>0, <2>1, <2>2, Tails
  <2>4. fe.conn # 0 /\ fe.todo <= Len(down[fe.conn].messages)
    BY <2>1 DEF Conns, Drains
  <2> QED  BY <1>0, <2>1, <2>3, <2>4 DEF Drains
<1>9. CASE TakeFrame
  <2>1. /\ fe'.conn = fe.conn /\ fe'.todo = fe.todo /\ fe.todo = 0
        /\ (down' = down \/ (fe.conn \in Conns /\ down' = [down EXCEPT ![fe.conn].frames = None]))
    BY <1>9, TakeEffect
  <2>2. \A c \in Conns : down'[c].messages = down[c].messages
    <3>1. down \in [Conns -> Channel]
      BY DEF Types
    <3>2. CASE fe.conn \in Conns /\ down' = [down EXCEPT ![fe.conn].frames = None]
      BY <3>1, <3>2 DEF Channel
    <3> QED  BY <2>1, <3>2
  <2> QED  BY <1>0, <1>1, <2>1, <2>2
<1>10. CASE Show
  <2>2. down' = down /\ fe'.conn = fe.conn /\ fe'.todo = fe.todo /\ fe.pc = "output"
    BY <1>10, ShowEffect
  <2> QED  BY <1>0, <1>1, <2>2 DEF Drains
<1>11. CASE Dead
  <2>1. down' = down /\ fe'.conn = 0 /\ fe'.todo = fe.todo /\ fe.pc = "link"
    BY <1>11, DeadEffect
  <2> QED  BY <2>1 DEF Drains
<1>12. CASE Reconnect
  <2>1. down' = down /\ fe'.todo = fe.todo /\ fe.pc = "link" /\ fe'.conn \in Conns
    BY <1>12, ReconnectEffect
  <2>2. fe'.todo = 0 /\ fe'.conn # 0
    BY <2>1 DEF Drains, Conns
  <2> QED  BY <1>0, <2>1, <2>2 DEF Drains
<1>13. CASE Dispatch
  BY <1>2, <1>13, DispatchEffect
<1>14. CASE TerminalEvent
  <2>1. down' = down /\ fe.pc # "controls" /\ (NewRound \/ (fe'.conn = 0 /\ fe'.todo = fe.todo))
    <3>1. down' = down /\ fe.pc \in {"input", "link"}
            /\ (EventQuiet \/ EventDeferred \/ EventKey \/ EventResize \/ EventStop)
      BY <1>14, EventEffect
    <3> QED  BY <3>1 DEF EventQuiet, EventDeferred, EventKey, EventResize, EventStop
  <2>2. CASE NewRound
    BY <1>2, <2>1, <2>2 DEF NewRound
  <2>3. CASE fe'.conn = 0 /\ fe'.todo = fe.todo
    BY <2>1, <2>3 DEF Drains
  <2> QED  BY <2>1, <2>2, <2>3
<1> QED  BY <1>3, <1>4, <1>5, <1>6, <1>7, <1>8, <1>9, <1>10, <1>11, <1>12, <1>13, <1>14 DEF Next, Frontend

----------------------------------------------------------------------------
(* Every scene on its way is one the session has sent. *)

LEMMA SendEntries ==
  ASSUME Types, NEW c \in 0 .. MaxConns, NEW ms \in Seq(Message), up' = Sent(c, ms),
         NEW d \in Conns, NEW i \in DOMAIN up'[d]
  PROVE  (\E j \in DOMAIN up[d] : up'[d][i] = up[d][j]) \/ (\E j \in DOMAIN ms : up'[d][i] = ms[j])
<1> DEFINE q == up[d]
<1> DEFINE w == up'[d]
<1>1. q \in Seq(Message) /\ i \in DOMAIN w
  BY DEF Types
<1>2. w = q \/ w = q \o ms
  BY Sends
<1> HIDE DEF q
<1>3. (\E j \in DOMAIN q : w[i] = q[j]) \/ (\E j \in DOMAIN ms : w[i] = ms[j])
  <2> HIDE DEF w
  <2>1. CASE w = q
    BY <1>1, <2>1
  <2>2. CASE w = q \o ms
    BY <1>1, <2>2, Concats
  <2> QED  BY <1>2, <2>1, <2>2
<1> QED  BY <1>3 DEF q

\* An acknowledgement was there, or has just been made of a finished frame.
LEMMA AckEntries ==
  ASSUME Types, Links, Drains, Next,
         NEW c \in Conns, NEW i \in DOMAIN up'[c], up'[c][i].type = "presented"
  PROVE  \/ \E j \in DOMAIN up[c] : up'[c][i] = up[c][j]
         \/ se' = se /\ \E j \in DOMAIN paint.output : up'[c][i] = Shows(paint.output[j])
<1>0. up[c] \in Seq(Message) /\ fe.conn \in 0 .. MaxConns /\ fe.gen \in Nat /\ fe.gen + 1 \in Nat
        /\ fe.typed + 1 \in Nat /\ fe.conn \in Nat /\ (fe.connected => fe.conn \in Conns)
  BY SMTT(30), Numbers DEF Types, Links
<1>1. CASE up' = up
  BY <1>1
\* One message of another type is sent.
<1>2. ASSUME NEW m \in Message, m.type # "presented", up' = Sent(fe.conn, <<m>>)
      PROVE  \E j \in DOMAIN up[c] : up'[c][i] = up[c][j]
  <2>1. <<m>> \in Seq(Message) /\ \A j \in DOMAIN <<m>> : <<m>>[j] = m
    OBVIOUS
  <2>2. \/ \E j \in DOMAIN up[c] : up'[c][i] = up[c][j]
        \/ \E j \in DOMAIN <<m>> : up'[c][i] = <<m>>[j]
    BY <1>0, <1>2, <2>1, SendEntries
  <2> QED  BY <1>2, <2>1, <2>2
<1>3. ASSUME NEW d \in Conns, CutUp(d)
      PROVE  \E j \in DOMAIN up[c] : up'[c][i] = up[c][j]
  BY <1>3, CutsUp DEF CutOf
<1>4. ASSUME NEW d \in Conns, up[d] # <<>>, up' = [up EXCEPT ![d] = Tail(@)]
      PROVE  \E j \in DOMAIN up[c] : up'[c][i] = up[c][j]
  <2>1. up'[c] = up[c] \/ (up[c] # <<>> /\ up'[c] = Tail(up[c]))
    BY <1>4 DEF Types
  <2>2. up[c] # <<>> => \A k \in DOMAIN Tail(up[c]) : k + 1 \in DOMAIN up[c] /\ Tail(up[c])[k] = up[c][k + 1]
    BY SMTT(30), <1>0, Tails
  <2> QED  BY <2>1, <2>2
<1>5. CASE Work \/ RenderTake \/ RenderPut \/ AskToggle \/ Paint \/ (\E d \in Conns : Write(d) \/ Read(d))
  BY <1>1, <1>5 DEF Work, RenderTake, RenderPut, AskToggle, Paint, Write, Read
<1>6. ASSUME NEW d \in Conns, Lose(d)  PROVE \E j \in DOMAIN up[c] : up'[c][i] = up[c][j]
  BY <1>3, <1>6 DEF Lose
<1>7. ASSUME NEW d \in Conns, Receive(d)  PROVE \E j \in DOMAIN up[c] : up'[c][i] = up[c][j]
  <2>1. up[d] # <<>>
    BY <1>7 DEF Receive
  <2>2. CASE Attach(d, Head(up[d]))
    BY <1>4, <2>1, <2>2 DEF Attach
  <2>3. CASE ~Attach(d, Head(up[d]))
    BY <1>4, <1>7, <2>1, <2>3, ReceiveEffect
  <2> QED  BY <2>2, <2>3
<1>8. CASE Handle
  <2>1. \/ up' = Sent(fe.conn, <<ResizeTo(fe.gen)>>)
        \/ up' = Sent(fe.conn, <<[type |-> "presentation", gen |-> fe.gen + 1]>>)
    BY <1>8, HandleEffect
  <2>2. ResizeTo(fe.gen) \in Message /\ [type |-> "presentation", gen |-> fe.gen + 1] \in Message
    BY <1>0, Sendable
  <2>3. ResizeTo(fe.gen).type # "presented"
    BY DEF ResizeTo
  <2> QED  BY <1>2, <2>1, <2>2, <2>3
<1>9. CASE TakeFrame
  BY <1>1, <1>9, TakeEffect
<1>10. CASE Show
  <2>1. PICK acks \in Seq(Message) :
          /\ up' = IF fe.connected THEN Sent(fe.conn, acks) ELSE up
          /\ \A k \in DOMAIN acks : \E j \in DOMAIN paint.output : acks[k] = Shows(paint.output[j])
    BY <1>10, ShowEffect
  <2>2. se' = se
    BY <1>10, ShowEffect
  <2>3. CASE up' = Sent(fe.conn, acks)
    <3>1. \/ \E j \in DOMAIN up[c] : up'[c][i] = up[c][j]
          \/ \E j \in DOMAIN acks : up'[c][i] = acks[j]
      BY <1>0, <2>3, SendEntries
    <3> QED  BY <2>1, <2>2, <3>1
  <2> QED  BY <1>1, <2>1, <2>3
<1>11. CASE Dead
  BY <1>1, <1>3, <1>11, DeadEffect
<1>12. CASE Reconnect
  <2>1. up' = [up EXCEPT ![fe.tried + 1] = <<[type |-> "hello", gen |-> fe.gen + 1]>>]
          /\ fe.tried + 1 \in Conns
    BY <1>12, ReconnectEffect
  <2>2. c = fe.tried + 1 => up'[c][i].type = "hello"
    <3>1. ASSUME c = fe.tried + 1
          PROVE  up'[c] = <<[type |-> "hello", gen |-> fe.gen + 1]>>
      BY <2>1, <3>1 DEF Types
    <3> QED  BY <3>1
  <2>3. c # fe.tried + 1 => up'[c] = up[c]
    BY <2>1 DEF Types
  <2> QED  BY <2>2, <2>3
<1>13. CASE Dispatch
  <2>1. /\ up' = Sent(fe.conn, <<Key(Head(fe.pending).n, Head(fe.pending).typed)>>)
        /\ Head(fe.pending).n \in Nat /\ Head(fe.pending).typed \in Nat /\ SceneReady
    BY <1>13, DispatchEffect
  <2>2. Key(Head(fe.pending).n, Head(fe.pending).typed) \in Message
    BY <2>1, Sendable DEF SceneReady
  <2>3. Key(Head(fe.pending).n, Head(fe.pending).typed).type # "presented"
    BY DEF Key
  <2> QED  BY <1>2, <2>1, <2>2, <2>3
<1>14. CASE TerminalEvent
  <2>1. \/ up' = up
        \/ SceneReady /\ up' = Sent(fe.conn, <<Key(fe.typed + 1, fe.conn)>>)
        \/ up' = Sent(fe.conn, <<ResizeTo(fe.gen + 1)>>)
        \/ fe.conn \in Conns /\ CutUp(fe.conn)
    <3>1. EventQuiet \/ EventDeferred \/ EventKey \/ EventResize \/ EventStop
      BY <1>14, EventEffect
    <3> QED  BY <1>0, <3>1 DEF EventQuiet, EventDeferred, EventKey, EventResize, EventStop
  <2>2. SceneReady => Key(fe.typed + 1, fe.conn) \in Message
    BY <1>0, Sendable DEF SceneReady
  <2>3. ResizeTo(fe.gen + 1) \in Message
    BY <1>0, Sendable
  <2>4. Key(fe.typed + 1, fe.conn).type # "presented" /\ ResizeTo(fe.gen + 1).type # "presented"
    BY DEF Key, ResizeTo
  <2> QED  BY <1>1, <1>2, <1>3, <2>1, <2>2, <2>3, <2>4
<1> QED  BY <1>5, <1>6, <1>7, <1>8, <1>9, <1>10, <1>11, <1>12, <1>13, <1>14 DEF Next, Frontend

\* The session forgets no scene it has sent.
LEMMA HistoryKept ==
  ASSUME Types, Next
  PROVE  se.history \subseteq se'.history
<1>1. se \in Session
  BY DEF Types
<1>2. CASE Paint
  <2>1. \E scene, sent, due, b : se' = [se EXCEPT !.scene = scene, !.dirty = FALSE, !.attached = due,
                 !.budget = b, !.history = IF sent THEN @ \cup {scene} ELSE @]
    BY <1>2 DEF Paint
  <2> QED  BY <1>1, <2>1 DEF Session
<1>3. ASSUME NEW c \in Conns, Receive(c)  PROVE se'.history = se.history
  <2>1. CASE Attach(c, Head(up[c]))
    BY <1>1, <2>1 DEF Attach, Session
  <2>2. CASE ~Attach(c, Head(up[c]))
    <3> DEFINE m == Head(up[c])
    <3>1. Eof(c, m) \/ ResizeInput(c, m) \/ KeyInput(c, m) \/ Presented(c, m) \/ SwitchInput(c, m)
      BY <1>3, <2>2 DEF Receive
    <3> HIDE DEF m
    <3>2. CASE Eof(c, m)
      BY <1>1, <3>2 DEF Eof, Session
    <3>3. CASE ResizeInput(c, m)
      BY <1>1, <3>3 DEF ResizeInput, Session
    <3>4. CASE KeyInput(c, m)
      BY <1>1, <3>4 DEF KeyInput, Session
    <3>5. CASE Presented(c, m)
      BY <1>1, <3>5 DEF Presented, Session
    <3>6. CASE SwitchInput(c, m)
      BY <1>1, <3>6 DEF SwitchInput, Session
    <3> QED  BY <3>1, <3>2, <3>3, <3>4, <3>5, <3>6
  <2> QED  BY <2>1, <2>2
<1>4. ASSUME NEW c \in Conns, Write(c) \/ Read(c) \/ Lose(c)  PROVE se' = se
  BY <1>4 DEF Write, Read, Lose
<1>5. CASE Frontend
  BY <1>5 DEF Frontend, Handle, TakeFrame, Show, Dead, Reconnect, Dispatch, TerminalEvent, FeStep
<1>6. CASE Work \/ AskToggle \/ RenderTake \/ RenderPut
  BY <1>6 DEF Work, AskToggle, RenderTake, RenderPut
<1> QED  BY <1>2, <1>3, <1>4, <1>5, <1>6 DEF Next

\* What the renderer is given is all it has.
LEMMA SubmitsOurs ==
  ASSUME NEW p \in Renderer, NEW s \in Scene, NEW r, r = Submitted(p, s)
  PROVE  /\ r.input = s \/ r.input = p.input
         /\ r.busy = p.busy
         /\ \A i \in DOMAIN r.output : r.output[i] = s \/ \E j \in DOMAIN p.output : r.output[i] = p.output[j]
<1>1. CASE r = [p EXCEPT !.input = s]
  BY <1>1 DEF Renderer
<1>2. CASE r = [p EXCEPT !.output = <<s>>]
  <2>1. r.output = <<s>> /\ r.input = p.input /\ r.busy = p.busy
    BY <1>2 DEF Renderer
  <2>2. \A i \in DOMAIN <<s>> : <<s>>[i] = s
    OBVIOUS
  <2> QED  BY <2>1, <2>2
<1> QED  BY <1>1, <1>2 DEF Submitted

\* Channels hold what the session sent or what they held.
LEMMA ChannelOurs ==
  ASSUME Types, Types', Drains, Next, OnlyOurs, NEW c \in Conns
  PROVE  /\ Ours(down[c].slot)' /\ Ours(down[c].frames)'
         /\ \A i \in DOMAIN down'[c].wire : down'[c].wire[i].type = "scene" => Ours(down[c].wire[i].scene)'
<1> DEFINE Fine(d, h) == /\ (d.slot # None => d.slot \in h) /\ (d.frames # None => d.frames \in h)
                         /\ \A i \in DOMAIN d.wire : d.wire[i].type = "scene" =>
                              (d.wire[i].scene # None => d.wire[i].scene \in h)
<1>0. Fine(down[c], se.history) /\ se.history \subseteq se'.history /\ down[c] \in Channel
  BY HistoryKept DEF OnlyOurs, Ours, Types
<1>1. SUFFICES Fine(down'[c], se'.history)
  BY DEF Ours
<1>2. CASE down' = down
  BY <1>0, <1>2
<1>3. CASE AskToggle
  <2>1. down'[c].slot = down[c].slot /\ down'[c].frames = down[c].frames /\ down'[c].wire = down[c].wire
    BY <1>3 DEF AskToggle, Types, Channel
  <2> QED  BY <1>0, <2>1
<1>4. CASE Paint
  <2>1. se.peer \in Conns /\ Built \in Scene
    BY <1>4, Numbers DEF Paint, Built, NextScene, Types, Session, Scene
  <2>2. \/ down' = down
        \/ /\ down' = [down EXCEPT ![se.peer].slot = Built]
           /\ se'.history = se.history \cup {Built}
    BY <1>4 DEF Paint, Types, Session
  <2>3. CASE /\ down' = [down EXCEPT ![se.peer].slot = Built]
             /\ se'.history = se.history \cup {Built}
    <3>1. /\ down'[c].slot = Built \/ down'[c].slot = down[c].slot
          /\ down'[c].frames = down[c].frames /\ down'[c].wire = down[c].wire
      BY <2>1, <2>3 DEF Types, Channel
    <3> QED  BY <1>0, <2>3, <3>1
  <2> QED  BY <1>2, <2>2, <2>3
<1>5. ASSUME NEW d \in Conns, Receive(d)  PROVE Fine(down'[c], se'.history)
  <2>1. ASSUME NEW e \in Conns, down'[c].wire = Dropped(down, e)[c].wire,
               down'[c].frames = Dropped(down, e)[c].frames,
               down'[c].slot = Dropped(down, e)[c].slot
        PROVE  Fine(down'[c], se'.history)
    <3>1. down'[c].slot \in {None, down[c].slot} /\ down'[c].frames = down[c].frames /\ down'[c].wire = down[c].wire
      BY <2>1, Drops
    <3> QED  BY <1>0, <3>1
  <2>2. CASE Attach(d, Head(up[d]))
    <3> DEFINE b == IF se.peer = 0 THEN down ELSE Dropped(down, se.peer)
    <3>1. down' = [b EXCEPT ![d].control = <<[type |-> "hello"]>>] /\ b \in [Conns -> Channel]
      BY <2>2, Drops, Numbers DEF Attach, Types
    <3>2. b = down \/ (se.peer \in Conns /\ b = Dropped(down, se.peer))
      BY Numbers
    <3> HIDE DEF b
    <3>3. down'[c].slot = b[c].slot /\ down'[c].frames = b[c].frames /\ down'[c].wire = b[c].wire
      BY <3>1 DEF Channel
    <3> QED  BY <1>0, <2>1, <3>2, <3>3
  <2>3. CASE ~Attach(d, Head(up[d]))
    <3>1. down' = down \/ down' = Dropped(down, d)
      BY SMTT(30), <1>5, <2>3, ReceiveEffect
    <3> QED  BY <1>2, <2>1, <3>1
  <2> QED  BY <2>2, <2>3
<1>6. ASSUME NEW d \in Conns, Write(d)  PROVE Fine(down'[c], se'.history)
  <2> DEFINE x == Head(down[d].control)
  <2> DEFINE y == [type |-> "scene", scene |-> down[d].slot]
  <2>1. \/ /\ down[d].control # <<>>
           /\ down' = [down EXCEPT ![d].control = Tail(@), ![d].wire = Append(@, x)]
        \/ down[d].slot # None /\ down' = [down EXCEPT ![d].slot = None, ![d].wire = Append(@, y)]
    BY <1>6 DEF Write
  <2>2. down[d] \in Channel /\ down[d].wire \in Seq(Control \cup Carried)
    BY DEF Types, Channel
  <2>3. down[d].control # <<>> => x \in Control /\ x.type # "scene"
    <3>1. down[d].control \in Seq(Control)
      BY <2>2 DEF Channel
    <3>2. down[d].control # <<>> => x \in Control
      BY <3>1, Tails
    <3> QED  BY <3>2 DEF Control
  <2>4. down[d].slot # None => y \in Carried
    BY <2>2 DEF Channel, Carried, Opt
  <2>5. c # d => down'[c] = down[c]
    BY <2>1 DEF Types
  <2>6. CASE c = d /\ down[d].control # <<>> /\ down' = [down EXCEPT ![d].control = Tail(@), ![d].wire = Append(@, x)]
    <3>1. down'[c].slot = down[c].slot /\ down'[c].frames = down[c].frames /\ down'[c].wire = Append(down[c].wire, x)
      BY <2>6 DEF Types, Channel
    <3> HIDE DEF x
    <3>2. \A i \in DOMAIN Append(down[c].wire, x) :
            Append(down[c].wire, x)[i] = x \/ (i \in DOMAIN down[c].wire /\ Append(down[c].wire, x)[i] = down[c].wire[i])
      BY <2>2, <2>3, <2>6, Appends
    <3>3. x.type # "scene"
      BY <2>3, <2>6 DEF x
    <3> QED  BY <1>0, <3>1, <3>2, <3>3
  <2>7. CASE c = d /\ down[d].slot # None /\ down' = [down EXCEPT ![d].slot = None, ![d].wire = Append(@, y)]
    <3>1. down'[c].slot = None /\ down'[c].frames = down[c].frames /\ down'[c].wire = Append(down[c].wire, y)
      BY SMTT(30), <2>7 DEF Types, Channel
    <3>2. y.scene = down[c].slot
      BY <2>7
    <3> HIDE DEF y
    <3>3. \A i \in DOMAIN Append(down[c].wire, y) :
            Append(down[c].wire, y)[i] = y \/ (i \in DOMAIN down[c].wire /\ Append(down[c].wire, y)[i] = down[c].wire[i])
      BY <2>2, <2>4, <2>7, Appends
    <3> QED  BY <1>0, <3>1, <3>2, <3>3
  <2> QED  BY <1>0, <2>1, <2>5, <2>6, <2>7
<1>7. ASSUME NEW d \in Conns, Read(d)  PROVE Fine(down'[c], se'.history)
  <2> DEFINE m == Head(down[d].wire)
  <2>1. /\ down[d].wire # <<>> /\ down[d].wire \in Seq(Control \cup Carried)
        /\ down' = IF m.type = "scene"
                  THEN [down EXCEPT ![d].wire = Tail(@), ![d].frames = m.scene]
                  ELSE [down EXCEPT ![d].wire = Tail(@), ![d].messages = Append(@, m)]
    BY <1>7 DEF Read, Types, Channel
  <2>2. m = down[d].wire[1] /\ 1 \in DOMAIN down[d].wire
          /\ \A i \in DOMAIN Tail(down[d].wire) : /\ i + 1 \in DOMAIN down[d].wire
                                                 /\ Tail(down[d].wire)[i] = down[d].wire[i + 1]
    BY <2>1, Tails
  <2> HIDE DEF m
  <2>3. c # d => down'[c] = down[c]
    BY <2>1 DEF Types
  <2>4. CASE c = d
    <3>1. /\ down'[c].slot = down[c].slot /\ down'[c].wire = Tail(down[c].wire)
          /\ down'[c].frames = down[c].frames \/ (m.type = "scene" /\ down'[c].frames = m.scene)
      BY <2>1, <2>4 DEF Types, Channel
    <3> QED  BY <1>0, <2>2, <2>4, <3>1
  <2> QED  BY <1>0, <2>3, <2>4
<1>8. CASE Handle
  <2>1. fe.conn \in Conns /\ down' = [down EXCEPT ![fe.conn].messages = Tail(@)]
    BY <1>8, HandleEffect
  <2>2. down'[c].slot = down[c].slot /\ down'[c].frames = down[c].frames /\ down'[c].wire = down[c].wire
    BY <2>1 DEF Types, Channel
  <2> QED  BY <1>0, <2>2
<1>9. CASE TakeFrame
  <2>1. down' = down \/ (fe.conn \in Conns /\ down' = [down EXCEPT ![fe.conn].frames = None])
    BY <1>9, TakeEffect
  <2>2. down'[c].slot = down[c].slot /\ down'[c].frames \in {None, down[c].frames} /\ down'[c].wire = down[c].wire
    <3>1. CASE fe.conn \in Conns /\ down' = [down EXCEPT ![fe.conn].frames = None]
      <4>1. CASE c = fe.conn
        BY <3>1, <4>1 DEF Types, Channel
      <4>2. CASE c # fe.conn
        BY <3>1, <4>2 DEF Types
      <4> QED  BY <4>1, <4>2
    <3> QED  BY <2>1, <3>1
  <2> QED  BY <1>0, <2>2
<1>10. CASE Show \/ Dead \/ Reconnect \/ Dispatch \/ TerminalEvent
  BY <1>2, <1>10 DEF Show, Dead, Reconnect, Dispatch, TerminalEvent
<1>11. CASE Work \/ RenderTake \/ RenderPut \/ \E d \in Conns : Lose(d)
  BY <1>2, <1>11 DEF Work, RenderTake, RenderPut, Lose
<1> QED  BY <1>3, <1>4, <1>5, <1>6, <1>7, <1>8, <1>9, <1>10, <1>11 DEF Next, Frontend

\* The frontend and its renderer hold what they were given.
LEMMA FrontOurs ==
  ASSUME Types, Types', Drains, Next, OnlyOurs
  PROVE  /\ Ours(fe.last)' /\ Ours(paint.input)' /\ Ours(paint.busy)'
         /\ \A i \in DOMAIN paint'.output : Ours(paint.output[i])'
<1>0. /\ se.history \subseteq se'.history /\ fe \in Client /\ paint \in Renderer
      /\ se.history \subseteq Scene /\ None \notin Scene
  BY HistoryKept, PresentationAssumption DEF Types, Session
<1> DEFINE Held(f, p, h) ==
      /\ (f.last # None => f.last \in h) /\ (p.input # None => p.input \in h)
      /\ (p.busy # None => p.busy \in h)
      /\ \A i \in DOMAIN p.output : p.output[i] # None => p.output[i] \in h
<1>1. SUFFICES Held(fe', paint', se'.history)
  BY DEF Ours
<1>3. Held(fe, paint, se.history)
  BY DEF OnlyOurs, Ours
<1>4. ASSUME fe'.last = fe.last \/ fe'.last = None, paint' = paint \/ paint' = NoPaint
      PROVE  Held(fe', paint', se'.history)
  <2>1. \A i \in DOMAIN NoPaint.output : FALSE
    BY DEF NoPaint
  <2> QED  BY <1>0, <1>3, <1>4, <2>1 DEF NoPaint
<1>5. ASSUME NEW s \in Scene, s \in se.history, fe'.last \in {fe.last, s}, paint' = Submitted(paint, s)
      PROVE  Held(fe', paint', se'.history)
  <2>1. /\ paint'.input = s \/ paint'.input = paint.input
        /\ paint'.busy = paint.busy
        /\ \A i \in DOMAIN paint'.output :
             paint'.output[i] = s \/ \E j \in DOMAIN paint.output : paint'.output[i] = paint.output[j]
    BY <1>0, <1>5, SubmitsOurs
  <2> QED  BY <1>0, <1>3, <1>5, <2>1
<1>6. CASE Work \/ AskToggle \/ Paint \/ (\E c \in Conns : Receive(c) \/ Write(c) \/ Read(c) \/ Lose(c))
  <2>1. ASSUME NEW c \in Conns, Receive(c)  PROVE UNCHANGED <<fe, paint>>
    <3>1. CASE Attach(c, Head(up[c]))
      BY <3>1 DEF Attach
    <3>2. CASE ~Attach(c, Head(up[c]))
      BY SMTT(30), <2>1, <3>2, ReceiveEffect
    <3> QED  BY <3>1, <3>2
  <2>2. UNCHANGED <<fe, paint>>
    BY <1>6, <2>1 DEF Work, AskToggle, Paint, Write, Read, Lose
  <2> QED  BY <1>4, <2>2
<1>7. CASE RenderTake
  <2>1. fe' = fe /\ paint' = [paint EXCEPT !.input = None, !.busy = paint.input]
    BY <1>7 DEF RenderTake
  <2>2. paint'.input = None /\ paint'.busy = paint.input /\ paint'.output = paint.output
    BY <1>0, <2>1 DEF Renderer
  <2> QED  BY <1>0, <1>3, <2>1, <2>2
<1>8. CASE RenderPut
  <2>1. fe' = fe /\ paint.busy # None /\ paint' = [paint EXCEPT !.busy = None, !.output = Queued(@, paint.busy)]
    BY <1>8 DEF RenderPut
  <2>2. /\ paint'.input = paint.input /\ paint'.busy = None /\ paint'.output = Queued(paint.output, paint.busy)
        /\ paint.busy \in Scene /\ paint.output \in Seq(Scene)
    BY <1>0, <2>1 DEF Renderer, Opt
  <2>3. \A i \in DOMAIN paint'.output :
          paint'.output[i] = paint.busy \/ \E j \in DOMAIN paint.output : paint'.output[i] = paint.output[j]
    BY <2>2, Queues
  <2> QED  BY <1>0, <1>3, <2>1, <2>2, <2>3
<1>9. CASE Handle
  BY <1>4, <1>9, HandleEffect
<1>10. CASE TakeFrame
  <2>1. CASE paint' = paint /\ fe'.last = fe.last
    BY <1>4, <2>1
  <2>2. CASE /\ fe.conn \in Conns /\ down[fe.conn].frames \in Scene
             /\ fe'.last = down[fe.conn].frames /\ paint' = Submitted(paint, down[fe.conn].frames)
    <3>1. down[fe.conn].frames \in se.history
      BY <1>0, <2>2 DEF OnlyOurs, Ours
    <3> QED  BY <1>5, <2>2, <3>1
  <2> QED  BY <1>10, <2>1, <2>2, TakeEffect
<1>11. CASE Show
  <2>1. fe'.last = fe.last /\ paint' = [paint EXCEPT !.output = <<>>]
    BY <1>11, ShowEffect
  <2>2. paint'.input = paint.input /\ paint'.busy = paint.busy /\ paint'.output = <<>>
    BY <1>0, <2>1 DEF Renderer
  <2>3. \A i \in DOMAIN paint'.output : FALSE
    BY <2>2
  <2> QED  BY <1>0, <1>3, <2>1, <2>2, <2>3
<1>12. CASE Dead
  <2>1. fe'.last = fe.last /\ (paint' = paint \/ (fe.last \in Scene /\ paint' = Submitted(paint, fe.last)))
    BY <1>12, DeadEffect
  <2>2. fe.last \in Scene => fe.last \in se.history
    BY <1>0, <1>3
  <2> QED  BY <1>4, <1>5, <2>1, <2>2
<1>13. CASE Reconnect
  BY <1>4, <1>13, ReconnectEffect
<1>14. CASE Dispatch
  BY <1>4, <1>14, DispatchEffect
<1>15. CASE TerminalEvent
  <2>1. \/ (fe'.last = fe.last \/ fe'.last = None) /\ paint' = paint
        \/ fe'.last = fe.last /\ fe.last \in Scene /\ paint' = Submitted(paint, fe.last)
    <3>1. EventQuiet \/ EventDeferred \/ EventKey \/ EventResize \/ EventStop
      BY <1>15, EventEffect
    <3> QED  BY <3>1 DEF EventQuiet, EventDeferred, EventKey, EventResize, EventStop
  <2>2. fe.last \in Scene => fe.last \in se.history
    BY <1>0, <1>3
  <2> QED  BY <1>4, <1>5, <2>1, <2>2
<1> QED  BY <1>6, <1>7, <1>8, <1>9, <1>10, <1>11, <1>12, <1>13, <1>14, <1>15 DEF Next, Frontend

LEMMA OnlyOursKept ==
  ASSUME Types, Types', Links, Drains, Next, OnlyOurs
  PROVE  OnlyOurs'
<1>0. /\ se.history \subseteq se'.history /\ fe \in Client /\ paint \in Renderer
      /\ se.history \subseteq Scene /\ None \notin Scene
  BY HistoryKept, PresentationAssumption DEF Types, Session
<1>1. ASSUME NEW c \in Conns
      PROVE  /\ Ours(down[c].slot)' /\ Ours(down[c].frames)'
             /\ \A i \in DOMAIN down'[c].wire : down'[c].wire[i].type = "scene" => Ours(down[c].wire[i].scene)'
  BY ChannelOurs
<1>2. ASSUME NEW c \in Conns, NEW i \in DOMAIN up'[c], up'[c][i].type = "presented"
      PROVE  \E h \in se'.history : up'[c][i] = Shows(h)
  <2>1. CASE \E j \in DOMAIN up[c] : up'[c][i] = up[c][j]
    BY <1>0, <1>2, <2>1 DEF OnlyOurs
  <2>2. CASE \E j \in DOMAIN paint.output : up'[c][i] = Shows(paint.output[j])
    <3>1. PICK j \in DOMAIN paint.output : up'[c][i] = Shows(paint.output[j])
      BY <2>2
    <3>2. paint.output[j] \in Scene
      BY <1>0, <3>1 DEF Renderer
    <3> QED  BY <1>0, <3>1, <3>2 DEF OnlyOurs, Ours
  <2> QED  BY <1>2, <2>1, <2>2, AckEntries
<1> QED  BY <1>1, <1>2, FrontOurs DEF OnlyOurs

----------------------------------------------------------------------------
(* The queues keep their bounds. *)

LEMMA BoundsKept ==
  ASSUME Types, Types', Drains, Next, Bounds
  PROVE  Bounds'
<1> DEFINE WireOk == \A c \in Conns : Len(down[c].wire) <= WireCap
<1>0. /\ fe \in Client /\ paint \in Renderer /\ down \in [Conns -> Channel] /\ WireCap \in Nat /\ KeyCap \in Nat
      /\ WireOk /\ Len(fe.pending) <= KeyCap /\ Len(paint.output) <= 2
      /\ \A c \in Conns : down[c].wire \in Seq(Control \cup Carried) /\ down'[c].wire \in Seq(Control \cup Carried)
      /\ fe.pending \in Seq([n : Nat, typed : Nat]) /\ paint.output \in Seq(Scene)
  BY PresentationAssumption DEF Types, Bounds, Channel, Client, Renderer
<1>1. Len(<<>>) = 0 /\ Len(NoPaint.output) = 0
  BY DEF NoPaint
<1>2. ASSUME NEW s \in Scene  PROVE Len(Submitted(paint, s).output) <= 2
  <2>1. CASE Submitted(paint, s) = [paint EXCEPT !.input = s]
    BY <1>0, <2>1 DEF Renderer
  <2>2. CASE Submitted(paint, s) = [paint EXCEPT !.output = <<s>>]
    <3>1. Submitted(paint, s).output = <<s>> /\ Len(<<s>>) = 1
      BY <1>0, <2>2 DEF Renderer
    <3> QED  BY <3>1
  <2> QED  BY <2>1, <2>2 DEF Submitted
<1>3. Len(paint'.output) <= 2
  <2>1. CASE paint' = paint \/ paint' = NoPaint \/ \E s \in Scene : paint' = Submitted(paint, s)
    BY <1>0, <1>1, <1>2, <2>1
  <2>2. CASE RenderTake
    BY <1>0, <2>2 DEF RenderTake, Renderer
  <2>3. CASE RenderPut
    <3>1. paint'.output = Queued(paint.output, paint.busy) /\ paint.busy \in Scene
      BY <1>0, <2>3 DEF RenderPut, Renderer, Opt
    <3> QED  BY <1>0, <3>1, Queues
  <2>4. CASE Show
    <3>1. paint'.output = <<>>
      BY <1>0, <2>4, ShowEffect DEF Renderer
    <3> QED  BY <1>1, <3>1
  <2>5. CASE Handle
    BY <2>1, <2>5, HandleEffect
  <2>6. CASE TakeFrame
    BY <2>1, <2>6, TakeEffect
  <2>7. CASE Dead
    BY <2>1, <2>7, DeadEffect
  <2>8. CASE TerminalEvent
    <3>1. EventQuiet \/ EventDeferred \/ EventKey \/ EventResize \/ EventStop
      BY <2>8, EventEffect
    <3> QED  BY <2>1, <3>1 DEF EventQuiet, EventDeferred, EventKey, EventResize, EventStop
  <2>9. ASSUME NEW c \in Conns, Receive(c)  PROVE paint' = paint
    <3>1. CASE Attach(c, Head(up[c]))
      BY <3>1 DEF Attach
    <3>2. CASE ~Attach(c, Head(up[c]))
      BY SMTT(30), <2>9, <3>2, ReceiveEffect
    <3> QED  BY <3>1, <3>2
  <2>10. CASE Work \/ AskToggle \/ Paint \/ (\E c \in Conns : Write(c) \/ Read(c) \/ Lose(c)) \/ Reconnect \/ Dispatch
    BY <2>1, <2>10 DEF Work, AskToggle, Paint, Write, Read, Lose, Reconnect, Dispatch
  <2> QED  BY <2>1, <2>2, <2>3, <2>4, <2>5, <2>6, <2>7, <2>8, <2>9, <2>10 DEF Next, Frontend
<1>4. Len(fe'.pending) <= KeyCap
  <2>1. CASE fe'.pending \in {fe.pending, <<>>}
    BY <1>0, <1>1, <2>1
  <2>2. CASE Handle
    BY <2>1, <2>2, HandleEffect
  <2>3. CASE TakeFrame
    BY <2>1, <2>3, TakeEffect
  <2>4. CASE Show
    BY <2>1, <2>4, ShowEffect
  <2>5. CASE Dead
    BY <2>1, <2>5, DeadEffect
  <2>6. CASE Reconnect
    BY <2>1, <2>6, ReconnectEffect
  <2>7. CASE Dispatch
    <3>1. fe'.pending = Tail(fe.pending) /\ fe.pending # <<>>
      BY <2>7, DispatchEffect
    <3>2. Len(Tail(fe.pending)) = Len(fe.pending) - 1 /\ Len(fe.pending) \in Nat
      BY <1>0, <3>1, Tails
    <3> QED  BY <1>0, <3>1, <3>2
  <2>8. CASE TerminalEvent
    <3>1. EventQuiet \/ EventDeferred \/ EventKey \/ EventResize \/ EventStop
      BY <2>8, EventEffect
    <3>2. CASE EventDeferred
      <4> DEFINE k == [n |-> fe.typed + 1, typed |-> fe.conn]
      <4>1. k \in [n : Nat, typed : Nat]
        BY Numbers
      <4>2. fe'.pending = Append(fe.pending, k) /\ Len(fe.pending) < KeyCap
        BY <3>2 DEF EventDeferred
      <4> HIDE DEF k
      <4>3. Len(Append(fe.pending, k)) = Len(fe.pending) + 1 /\ Len(fe.pending) \in Nat
        BY <1>0, <4>1, Appends
      <4> QED  BY <1>0, <4>2, <4>3
    <3> QED  BY <2>1, <3>1, <3>2 DEF EventQuiet, EventKey, EventResize, EventStop
  <2>9. ASSUME NEW c \in Conns, Receive(c)  PROVE fe' = fe
    <3>1. CASE Attach(c, Head(up[c]))
      BY <3>1 DEF Attach
    <3>2. CASE ~Attach(c, Head(up[c]))
      BY SMTT(30), <2>9, <3>2, ReceiveEffect
    <3> QED  BY <3>1, <3>2
  <2>10. CASE Work \/ AskToggle \/ Paint \/ RenderTake \/ RenderPut \/ (\E c \in Conns : Write(c) \/ Read(c) \/ Lose(c))
    BY <2>1, <2>10 DEF Work, AskToggle, Paint, Write, Read, Lose, RenderTake, RenderPut
  <2> QED  BY <2>1, <2>2, <2>3, <2>4, <2>5, <2>6, <2>7, <2>8, <2>9, <2>10 DEF Next, Frontend
<1>5. ASSUME NEW c \in Conns  PROVE Len(down'[c].wire) <= WireCap
  <2>1. CASE down'[c].wire = down[c].wire
    BY <1>0, <2>1
  <2>2. ASSUME NEW d \in Conns, Write(d)  PROVE Len(down'[c].wire) <= WireCap
    <3>1. CASE c # d
      <4>1. down'[c] = down[c]
        BY <1>0, <2>2, <3>1 DEF Write
      <4> QED  BY <2>1, <4>1
    <3>2. CASE c = d
      <4>1. Len(down[c].wire) < WireCap /\ \E x : down'[c].wire = Append(down[c].wire, x)
        <5>1. \/ down' = [down EXCEPT ![c].control = Tail(@), ![c].wire = Append(@, Head(down[c].control))]
              \/ down' = [down EXCEPT ![c].slot = None,
                                ![c].wire = Append(@, [type |-> "scene", scene |-> down[c].slot])]
          BY <2>2, <3>2 DEF Write
        <5>2. \/ down'[c].wire = Append(down[c].wire, Head(down[c].control))
              \/ down'[c].wire = Append(down[c].wire, [type |-> "scene", scene |-> down[c].slot])
          BY <1>0, <5>1 DEF Channel
        <5> QED  BY <2>2, <3>2, <5>2 DEF Write
      <4>2. \A x : Len(Append(down[c].wire, x)) = Len(down[c].wire) + 1
        BY <1>0
      <4>3. Len(down[c].wire) \in Nat
        BY <1>0
      <4> QED  BY SMTT(30), <1>0, <4>1, <4>2, <4>3
    <3> QED  BY <3>1, <3>2
  <2>3. ASSUME NEW d \in Conns, Read(d)  PROVE Len(down'[c].wire) <= WireCap
    <3>1. CASE c # d
      <4>1. down'[c] = down[c]
        BY <1>0, <2>3, <3>1 DEF Read
      <4> QED  BY <2>1, <4>1
    <3>2. CASE c = d
      <4>1. down'[c].wire = Tail(down[c].wire) /\ down[c].wire # <<>>
        BY <1>0, <2>3, <3>2 DEF Read, Channel
      <4>2. Len(Tail(down[c].wire)) = Len(down[c].wire) - 1 /\ Len(down[c].wire) \in Nat
        BY <1>0, <4>1, Tails
      <4> QED  BY <1>0, <4>1, <4>2
    <3> QED  BY <3>1, <3>2
  <2>4. ASSUME NEW d \in Conns, Receive(d)  PROVE down'[c].wire = down[c].wire
    <3>1. CASE Attach(d, Head(up[d]))
      <4> DEFINE b == IF se.peer = 0 THEN down ELSE Dropped(down, se.peer)
      <4>1. down' = [b EXCEPT ![d].control = <<[type |-> "hello"]>>] /\ b \in [Conns -> Channel]
        BY <1>0, <3>1, Drops, Numbers DEF Attach
      <4>2. b[c].wire = down[c].wire
        BY Drops, Numbers
      <4> HIDE DEF b
      <4> QED  BY <4>1, <4>2 DEF Channel
    <3>2. CASE ~Attach(d, Head(up[d]))
      BY <2>4, <3>2, ReceiveEffect, Drops
    <3> QED  BY <3>1, <3>2
  <2>5. CASE AskToggle \/ Paint
    <3>1. \/ down' = down
          \/ \E x : down' = [down EXCEPT ![se.peer].control = x]
          \/ \E x : down' = [down EXCEPT ![se.peer].slot = x]
      BY <2>5 DEF AskToggle, Paint
    <3> QED  BY <1>0, <2>1, <3>1 DEF Channel
  <2>6. CASE Handle
    <3>1. down' = [down EXCEPT ![fe.conn].messages = Tail(@)]
      BY <2>6, HandleEffect
    <3> QED  BY <1>0, <2>1, <3>1 DEF Channel
  <2>7. CASE TakeFrame
    <3>1. down' = down \/ down' = [down EXCEPT ![fe.conn].frames = None]
      BY <2>7, TakeEffect
    <3> QED  BY <1>0, <2>1, <3>1 DEF Channel
  <2>8. CASE Show \/ Dead \/ Reconnect \/ Dispatch \/ TerminalEvent \/ Work \/ RenderTake \/ RenderPut \/ \E d \in Conns : Lose(d)
    BY <2>1, <2>8 DEF Show, Dead, Reconnect, Dispatch, TerminalEvent, Work, RenderTake, RenderPut, Lose
  <2> QED  BY <2>1, <2>2, <2>3, <2>4, <2>5, <2>6, <2>7, <2>8 DEF Next, Frontend
<1> QED  BY <1>3, <1>4, <1>5 DEF Bounds

----------------------------------------------------------------------------
(* The queue to the session: reading from it, cutting it short, adding to it. *)

Gens == {"resize", "presentation", "presented"}

\* Every message of these types names a geometry.
LEMMA GenOf ==
  ASSUME NEW u \in Seq(Message), NEW i \in DOMAIN u
  PROVE  /\ i \in Nat /\ i > 0 /\ i <= Len(u) /\ u[i] \in Message
         /\ u[i].type \in Gens \cup {"key"} => u[i].gen \in Nat
         /\ u[i].type \in Inputs => u[i].id \in Nat
         /\ u[i].type = "key" => u[i].n \in Nat
<1>1. i \in Nat /\ i > 0 /\ i <= Len(u) /\ u[i] \in Message
  OBVIOUS
<1> QED  BY <1>1, Carries DEF Gens

\* Reading the first message.
LEMMA ReachPop ==
  ASSUME NEW u \in Seq(Message), u # <<>>, NEW T \in SUBSET Gens, NEW low \in Nat, NEW high \in Nat,
         Rises(u, T, low, high),
         NEW low2, low2 = IF Head(u).type \in T THEN Head(u).gen ELSE low,
         NEW p \in Nat, p > 1, NEW g \in Nat, Reaches(u, T, low, p, g)
  PROVE  Reaches(Tail(u), T, low2, p - 1, g)
<1> DEFINE t == Tail(u)
<1>1. /\ Head(u) = u[1] /\ 1 \in DOMAIN u
      /\ \A i \in DOMAIN t : i \in Nat /\ i + 1 \in DOMAIN u /\ t[i] = u[i + 1]
      /\ \A i \in DOMAIN u : i # 1 => i - 1 \in DOMAIN t
  BY Tails
<1>2. \A i \in DOMAIN u : i \in Nat /\ i > 0 /\ (u[i].type \in T => u[i].gen \in Nat)
  BY GenOf
<1> HIDE DEF t
<1>3. /\ low <= g /\ \A i \in DOMAIN u : i < p /\ u[i].type \in T => u[i].gen <= g
      /\ low = g \/ \E i \in DOMAIN u : i < p /\ u[i].type \in T /\ u[i].gen = g
  BY DEF Reaches
<1>4. low2 <= g /\ low <= low2 /\ low2 \in Nat
  BY <1>1, <1>2, <1>3 DEF Rises
<1>5. \A i \in DOMAIN t : i < p - 1 /\ t[i].type \in T => t[i].gen <= g
  <2>1. \A i \in DOMAIN t : i < p - 1 => i + 1 < p
    BY <1>1
  <2> QED  BY <1>1, <1>3, <2>1
<1>6. low2 = g \/ \E i \in DOMAIN t : i < p - 1 /\ t[i].type \in T /\ t[i].gen = g
  <2>1. CASE low = g
    BY <1>4, <2>1
  <2>2. ASSUME NEW i \in DOMAIN u, i < p, u[i].type \in T, u[i].gen = g
        PROVE  low2 = g \/ \E j \in DOMAIN t : j < p - 1 /\ t[j].type \in T /\ t[j].gen = g
    <3>1. CASE i = 1
      BY <1>1, <2>2, <3>1
    <3>2. CASE i # 1
      <4>1. i - 1 \in DOMAIN t /\ i \in Nat
        BY <1>1, <1>2, <3>2
      <4>2. t[i - 1] = u[i] /\ i - 1 < p - 1
        <5>1. (i - 1) + 1 = i
          BY <4>1
        <5>2. t[i - 1] = u[(i - 1) + 1]
          BY <1>1, <4>1
        <5> QED  BY <2>2, <4>1, <5>1, <5>2
      <4> QED  BY <2>2, <4>1, <4>2
    <3> QED  BY <3>1, <3>2
  <2> QED  BY <1>3, <2>1, <2>2
<1> QED  BY <1>4, <1>5, <1>6 DEF Reaches, t

LEMMA FlowPop ==
  ASSUME NEW u \in Seq(Message), u # <<>>, NEW T \in SUBSET Gens, NEW low \in Nat, NEW high \in Nat,
         Rises(u, T, low, high), KeysReach(u, T, low),
         NEW low2, low2 = IF Head(u).type \in T THEN Head(u).gen ELSE low
  PROVE  /\ Rises(Tail(u), T, low2, high) /\ KeysReach(Tail(u), T, low2) /\ low2 \in Nat
         /\ Head(u).type \in T => low <= Head(u).gen
         /\ Head(u).type = "key" => Head(u).gen = low
         /\ Tail(u) \in Seq(Message)
         /\ \A g \in Nat : Reaches(u, T, low, Len(u) + 1, g) => Reaches(Tail(u), T, low2, Len(Tail(u)) + 1, g)
<1> DEFINE t == Tail(u)
<1>1. /\ Head(u) = u[1] /\ 1 \in DOMAIN u /\ t \in Seq(Message) /\ Len(t) = Len(u) - 1
      /\ Len(u) \in Nat /\ Len(u) > 0
      /\ \A i \in DOMAIN t : i \in Nat /\ i + 1 \in DOMAIN u /\ t[i] = u[i + 1]
  BY Tails
<1>2. \A i \in DOMAIN u : i \in Nat /\ i > 0 /\ (u[i].type \in T \cup {"key"} => u[i].gen \in Nat)
  BY GenOf
<1>3. low2 \in Nat
  BY <1>1, <1>2
<1>4. Rises(t, T, low2, high)
  <2> HIDE DEF t
  <2>1. low2 <= high
    BY <1>1 DEF Rises
  <2>2. ASSUME NEW i \in DOMAIN t, t[i].type \in T  PROVE low2 <= t[i].gen /\ t[i].gen <= high
    <3>1. i + 1 \in DOMAIN u /\ t[i] = u[i + 1] /\ 1 < i + 1 /\ i \in Nat
      <4>1. i \in Nat /\ i + 1 \in DOMAIN u /\ t[i] = u[i + 1] /\ i > 0
        BY <1>1, <2>2, GenOf
      <4> QED  BY <4>1
    <3> QED  BY <1>1, <2>2, <3>1 DEF Rises
  <2>3. ASSUME NEW i \in DOMAIN t, NEW j \in DOMAIN t, i < j, t[i].type \in T, t[j].type \in T
        PROVE  t[i].gen <= t[j].gen
    <3>1. i + 1 < j + 1
      BY <1>1, <2>3
    <3> QED  BY <1>1, <2>3, <3>1 DEF Rises
  <2> QED  BY <2>1, <2>2, <2>3 DEF Rises
<1>5. KeysReach(t, T, low2)
  <2>1. ASSUME NEW i \in DOMAIN t, t[i].type = "key"  PROVE Reaches(t, T, low2, i, t[i].gen)
    <3>1. i \in Nat /\ i + 1 \in DOMAIN u /\ t[i] = u[i + 1] /\ i > 0
      BY <1>1, <2>1, GenOf
    <3>2. Reaches(u, T, low, i + 1, u[i + 1].gen) /\ u[i + 1].gen \in Nat
      BY <1>2, <2>1, <3>1 DEF KeysReach
    <3>3. i + 1 \in Nat /\ i + 1 > 1 /\ (i + 1) - 1 = i
      BY <3>1
    <3>4. Reaches(t, T, low2, (i + 1) - 1, u[i + 1].gen)
      BY <3>2, <3>3, ReachPop
    <3> QED  BY <3>1, <3>3, <3>4
  <2> HIDE DEF t
  <2> QED  BY <2>1 DEF KeysReach
<1>6. Head(u).type \in T => low <= Head(u).gen
  BY <1>1 DEF Rises
<1>7. Head(u).type = "key" => Head(u).gen = low
  <2>1. ASSUME Head(u).type = "key"  PROVE Head(u).gen = low
    <3>1. Reaches(u, T, low, 1, u[1].gen)
      BY <1>1, <2>1 DEF KeysReach
    <3>2. \A i \in DOMAIN u : ~(i < 1)
      BY <1>2
    <3> QED  BY <1>1, <3>1, <3>2 DEF Reaches
  <2> QED  BY <2>1
<1>8. ASSUME NEW g \in Nat, Reaches(u, T, low, Len(u) + 1, g)
      PROVE  Reaches(t, T, low2, Len(t) + 1, g)
  <2>1. Len(u) + 1 \in Nat /\ Len(u) + 1 > 1 /\ (Len(u) + 1) - 1 = Len(t) + 1
    BY <1>1
  <2>2. Reaches(t, T, low2, (Len(u) + 1) - 1, g)
    BY <1>8, <2>1, ReachPop
  <2> QED  BY <2>1, <2>2
<1> QED  BY <1>1, <1>3, <1>4, <1>5, <1>6, <1>7, <1>8

\* The connection ends early.
LEMMA FlowCut ==
  ASSUME NEW u \in Seq(Message), NEW w \in Seq(Message), CutOf(w, u),
         NEW T \in SUBSET Gens, NEW low \in Nat, NEW high \in Nat,
         Rises(u, T, low, high), KeysReach(u, T, low)
  PROVE  Rises(w, T, low, high) /\ KeysReach(w, T, low)
<1>1. \A i \in DOMAIN w : w[i].type \in Gens \cup {"key"} => i \in DOMAIN u /\ w[i] = u[i]
  BY DEF CutOf, Gens
<1>2. Rises(w, T, low, high)
  BY <1>1 DEF Rises
<1>3. ASSUME NEW p \in DOMAIN w, w[p].type = "key"  PROVE Reaches(w, T, low, p, w[p].gen)
  <2>1. p \in DOMAIN u /\ w[p] = u[p] /\ Reaches(u, T, low, p, u[p].gen)
    BY <1>1, <1>3 DEF KeysReach
  <2>2. \A i \in DOMAIN w : i < p /\ w[i].type \in T => w[i].gen <= u[p].gen
    BY <1>1, <2>1 DEF Reaches
  <2>3. ASSUME NEW i \in DOMAIN u, i < p  PROVE i \in DOMAIN w /\ w[i] = u[i]
    <3>1. i \in 1 .. Len(u) /\ p \in 1 .. Len(w) /\ Len(w) \in Nat
      OBVIOUS
    <3>2. i \in DOMAIN w /\ i # Len(w)
      BY <2>3, <3>1
    <3> QED  BY <3>2 DEF CutOf
  <2> QED  BY <2>1, <2>2, <2>3 DEF Reaches
<1> QED  BY <1>2, <1>3 DEF KeysReach

LEMMA NumberPop ==
  ASSUME NEW u \in Seq(Message), u # <<>>, NEW low \in Nat, NEW high \in Nat, Numbered(u, low, high),
         NEW low2, low2 = IF Head(u).type \in Inputs THEN Head(u).id ELSE low
  PROVE  Numbered(Tail(u), low2, high) /\ low2 \in Nat /\ (Head(u).type \in Inputs => low < Head(u).id)
<1> DEFINE t == Tail(u)
<1>1. /\ Head(u) = u[1] /\ 1 \in DOMAIN u /\ t \in Seq(Message)
      /\ \A i \in DOMAIN t : i \in Nat /\ i + 1 \in DOMAIN u /\ t[i] = u[i + 1]
  BY Tails
<1>2. \A i \in DOMAIN u : u[i].type \in Inputs => u[i].id \in Nat
  BY GenOf
<1>3. low2 \in Nat /\ low2 <= high /\ (Head(u).type \in Inputs => low < Head(u).id)
  BY <1>1, <1>2 DEF Numbered
<1> HIDE DEF t
<1>4. ASSUME NEW i \in DOMAIN t, t[i].type \in Inputs  PROVE low2 < t[i].id /\ t[i].id <= high
  <2>1. i + 1 \in DOMAIN u /\ t[i] = u[i + 1] /\ 1 < i + 1
    <3>1. i \in Nat /\ i + 1 \in DOMAIN u /\ t[i] = u[i + 1] /\ i > 0
      BY <1>1, <1>4, GenOf
    <3> QED  BY <3>1
  <2>2. low < u[i + 1].id /\ u[i + 1].id <= high
    BY <1>4, <2>1 DEF Numbered
  <2>3. Head(u).type \in Inputs => Head(u).id < u[i + 1].id
    BY <1>1, <1>4, <2>1 DEF Numbered
  <2> QED  BY <2>1, <2>2, <2>3
<1>5. ASSUME NEW i \in DOMAIN t, NEW j \in DOMAIN t, i < j, t[i].type \in Inputs, t[j].type \in Inputs
      PROVE  t[i].id < t[j].id
  <2>1. i + 1 < j + 1
    BY <1>1, <1>5
  <2> QED  BY <1>1, <1>5, <2>1 DEF Numbered
<1>6. Numbered(t, low2, high)
  BY <1>3, <1>4, <1>5 DEF Numbered
<1> QED  BY <1>3, <1>6 DEF t

LEMMA OrderPop ==
  ASSUME NEW u \in Seq(Message), u # <<>>, NEW c, NEW given \in Seq(Given), NEW typed \in Nat,
         InOrder(u, c, given, typed), NEW x \in Given, Head(u).type = "key" => x.n = Head(u).n,
         NEW given2, given2 = IF Head(u).type = "key" THEN Append(given, x) ELSE given
  PROVE  /\ InOrder(Tail(u), c, given2, typed)
         /\ Head(u).type = "key" => /\ Head(u).typed = c
                                    /\ \A k \in DOMAIN given : given[k].n < Head(u).n
<1> DEFINE t == Tail(u)
<1>1. /\ Head(u) = u[1] /\ 1 \in DOMAIN u /\ t \in Seq(Message)
      /\ \A i \in DOMAIN t : i \in Nat /\ i + 1 \in DOMAIN u /\ t[i] = u[i + 1]
  BY Tails
<1>2. \A i \in DOMAIN u : u[i].type = "key" => u[i].n \in Nat
  BY GenOf
<1> HIDE DEF t
<1>3. \A k \in DOMAIN given2 : \/ k \in DOMAIN given /\ given2[k] = given[k]
                               \/ Head(u).type = "key" /\ given2[k] = x
  BY Appends
<1>4. Head(u).type = "key" => /\ Head(u).typed = c /\ Head(u).n <= typed
                              /\ \A k \in DOMAIN given : given[k].n < Head(u).n
  BY <1>1 DEF InOrder
<1>5. \A k \in DOMAIN given2 : given2[k].n <= typed
  BY <1>3, <1>4 DEF InOrder
<1>6. ASSUME NEW i \in DOMAIN t, t[i].type = "key"
      PROVE  t[i].typed = c /\ t[i].n <= typed /\ \A k \in DOMAIN given2 : given2[k].n < t[i].n
  <2>1. i + 1 \in DOMAIN u /\ t[i] = u[i + 1] /\ 1 < i + 1
    <3>1. i \in Nat /\ i + 1 \in DOMAIN u /\ t[i] = u[i + 1] /\ i > 0
      BY <1>1, <1>6, GenOf
    <3> QED  BY <3>1
  <2>2. u[i + 1].typed = c /\ u[i + 1].n <= typed /\ \A k \in DOMAIN given : given[k].n < u[i + 1].n
    BY <1>6, <2>1 DEF InOrder
  <2>3. Head(u).type = "key" => Head(u).n < u[i + 1].n
    BY <1>1, <1>6, <2>1 DEF InOrder
  <2> QED  BY <1>3, <2>1, <2>2, <2>3
<1>7. ASSUME NEW i \in DOMAIN t, NEW j \in DOMAIN t, i < j, t[i].type = "key", t[j].type = "key"
      PROVE  t[i].n < t[j].n
  <2>1. i + 1 < j + 1
    BY <1>1, <1>7
  <2> QED  BY <1>1, <1>7, <2>1 DEF InOrder
<1>8. InOrder(t, c, given2, typed)
  BY <1>5, <1>6, <1>7 DEF InOrder
<1> QED  BY <1>4, <1>8 DEF t

\* Adding messages that name the newest geometry.
LEMMA RisesSend ==
  ASSUME NEW u \in Seq(Message), NEW ms \in Seq(Message), NEW w, w = u \o ms,
         NEW T \in SUBSET Gens, NEW low \in Nat, NEW high \in Nat, NEW high2 \in Nat, high <= high2,
         Rises(u, T, low, high), \A i \in DOMAIN ms : ms[i].type \in T => ms[i].gen = high2
  PROVE  Rises(w, T, low, high2)
<1>1. /\ \A i \in DOMAIN w : \/ i \in DOMAIN u /\ w[i] = u[i]
                             \/ i > Len(u) /\ i - Len(u) \in DOMAIN ms /\ w[i] = ms[i - Len(u)]
      /\ \A i \in DOMAIN u : i <= Len(u) /\ i \in Nat
      /\ Len(u) \in Nat /\ DOMAIN w \subseteq Nat
  BY Concats
<1>2. \A i \in DOMAIN u : u[i].type \in T => u[i].gen \in Nat
  BY GenOf
<1>3. low <= high2
  BY DEF Rises
<1>4. ASSUME NEW i \in DOMAIN w, w[i].type \in T
      PROVE  low <= w[i].gen /\ w[i].gen <= high2 /\ w[i].gen \in Nat
  BY <1>1, <1>2, <1>3, <1>4 DEF Rises
<1>5. ASSUME NEW i \in DOMAIN w, NEW j \in DOMAIN w, i < j, w[i].type \in T, w[j].type \in T
      PROVE  w[i].gen <= w[j].gen
  <2>1. CASE j \in DOMAIN u /\ w[j] = u[j]
    <3>1. ~(i > Len(u))
      BY <1>1, <1>5, <2>1
    <3> QED  BY <1>1, <1>5, <2>1, <3>1 DEF Rises
  <2>2. CASE j - Len(u) \in DOMAIN ms /\ w[j] = ms[j - Len(u)]
    <3>1. w[j].gen = high2
      BY <1>5, <2>2
    <3> QED  BY <1>4, <1>5, <3>1
  <2> QED  BY <1>1, <2>1, <2>2
<1> QED  BY <1>3, <1>4, <1>5 DEF Rises

\* Where the session will be once it has read the longer queue.
LEMMA ReachSend ==
  ASSUME NEW u \in Seq(Message), NEW ms \in Seq(Message), NEW w, w = u \o ms,
         NEW T \in SUBSET Gens, NEW low \in Nat, NEW high \in Nat, NEW high2 \in Nat, high <= high2,
         Rises(u, T, low, high), \A i \in DOMAIN ms : ms[i].type \in T => ms[i].gen = high2
  PROVE  /\ (\E i \in DOMAIN ms : ms[i].type \in T) => Reaches(w, T, low, Len(w) + 1, high2)
         /\ \A g \in Nat : (\A i \in DOMAIN ms : ms[i].type \notin T) /\ Reaches(u, T, low, Len(u) + 1, g)
                              => Reaches(w, T, low, Len(w) + 1, g)
<1>1. /\ \A i \in DOMAIN w : \/ i \in DOMAIN u /\ w[i] = u[i]
                             \/ i > Len(u) /\ i - Len(u) \in DOMAIN ms /\ w[i] = ms[i - Len(u)]
      /\ \A i \in DOMAIN u : i \in DOMAIN w /\ w[i] = u[i] /\ i <= Len(u)
      /\ \A i \in DOMAIN ms : i + Len(u) \in DOMAIN w /\ w[i + Len(u)] = ms[i]
      /\ Len(u) \in Nat /\ w \in Seq(Message)
  BY Concats
<1>2. \A i \in DOMAIN w : i < Len(w) + 1
  BY <1>1
<1>3. \A i \in DOMAIN u : i < Len(u) + 1
  OBVIOUS
<1>4. Rises(w, T, low, high2)
  BY RisesSend
<1>5. ASSUME NEW i \in DOMAIN ms, ms[i].type \in T  PROVE Reaches(w, T, low, Len(w) + 1, high2)
  <2>1. i + Len(u) \in DOMAIN w /\ w[i + Len(u)].type \in T /\ w[i + Len(u)].gen = high2
    BY <1>1, <1>5
  <2> QED  BY <1>2, <1>4, <2>1 DEF Rises, Reaches
<1>6. ASSUME NEW g \in Nat, \A i \in DOMAIN ms : ms[i].type \notin T, Reaches(u, T, low, Len(u) + 1, g)
      PROVE  Reaches(w, T, low, Len(w) + 1, g)
  <2>1. \A i \in DOMAIN w : w[i].type \in T => i \in DOMAIN u /\ w[i] = u[i]
    BY <1>1, <1>6
  <2> QED  BY <1>1, <1>2, <1>3, <1>6, <2>1 DEF Reaches
<1> QED  BY <1>5, <1>6

\* Keys that are added name a geometry the queue before them reaches.
LEMMA KeysSend ==
  ASSUME NEW u \in Seq(Message), NEW ms \in Seq(Message), NEW w, w = u \o ms,
         NEW T \in SUBSET Gens, NEW low \in Nat, KeysReach(u, T, low),
         \A i \in DOMAIN ms : ms[i].type = "key" =>
           /\ \A j \in DOMAIN ms : ms[j].type \notin T
           /\ Reaches(u, T, low, Len(u) + 1, ms[i].gen)
  PROVE  KeysReach(w, T, low)
<1>1. /\ \A i \in DOMAIN w : \/ i \in DOMAIN u /\ w[i] = u[i]
                             \/ i > Len(u) /\ i - Len(u) \in DOMAIN ms /\ w[i] = ms[i - Len(u)]
      /\ \A i \in DOMAIN u : i \in DOMAIN w /\ w[i] = u[i] /\ i <= Len(u) /\ i \in Nat
      /\ Len(u) \in Nat /\ DOMAIN w \subseteq Nat
  BY Concats
<1>2. ASSUME NEW p \in DOMAIN w, w[p].type = "key"  PROVE Reaches(w, T, low, p, w[p].gen)
  <2>1. CASE p \in DOMAIN u /\ w[p] = u[p]
    <3>1. Reaches(u, T, low, p, u[p].gen)
      BY <1>2, <2>1 DEF KeysReach
    <3>2. \A i \in DOMAIN w : i < p => i \in DOMAIN u /\ w[i] = u[i]
      BY <1>1, <2>1
    <3> QED  BY <1>1, <2>1, <3>1, <3>2 DEF Reaches
  <2>2. CASE p > Len(u) /\ p - Len(u) \in DOMAIN ms /\ w[p] = ms[p - Len(u)]
    <3>1. Reaches(u, T, low, Len(u) + 1, w[p].gen) /\ \A j \in DOMAIN ms : ms[j].type \notin T
      BY <1>2, <2>2
    <3>2. \A i \in DOMAIN w : w[i].type \in T => i \in DOMAIN u /\ w[i] = u[i]
      BY <1>1, <3>1
    <3>3. \A i \in DOMAIN u : i < Len(u) + 1 /\ i < p
      BY <1>1, <2>2
    <3> QED  BY <1>1, <3>1, <3>2, <3>3 DEF Reaches
  <2> QED  BY <1>1, <2>1, <2>2
<1> QED  BY <1>2 DEF KeysReach

LEMMA NumberSend ==
  ASSUME NEW u \in Seq(Message), NEW ms \in Seq(Message), NEW w, w = u \o ms,
         NEW low \in Nat, NEW high \in Nat, NEW high2 \in Nat, high <= high2, Numbered(u, low, high),
         \A i \in DOMAIN ms : ms[i].type \in Inputs => high < ms[i].id /\ ms[i].id <= high2 /\ Len(ms) = 1
  PROVE  Numbered(w, low, high2)
<1>1. /\ \A i \in DOMAIN w : \/ i \in DOMAIN u /\ w[i] = u[i]
                             \/ i > Len(u) /\ i - Len(u) \in DOMAIN ms /\ w[i] = ms[i - Len(u)]
      /\ \A i \in DOMAIN u : i <= Len(u) /\ i \in Nat
      /\ Len(u) \in Nat /\ DOMAIN w \subseteq Nat
  BY Concats
<1>2. \A i \in DOMAIN u : u[i].type \in Inputs => u[i].id \in Nat
  BY GenOf
<1>3. \A i \in DOMAIN ms : ms[i].type \in Inputs => ms[i].id \in Nat
  BY GenOf
<1>4. ASSUME NEW i \in DOMAIN w, w[i].type \in Inputs  PROVE low < w[i].id /\ w[i].id <= high2
  BY <1>1, <1>2, <1>3, <1>4 DEF Numbered
<1>5. ASSUME NEW i \in DOMAIN w, NEW j \in DOMAIN w, i < j, w[i].type \in Inputs, w[j].type \in Inputs
      PROVE  w[i].id < w[j].id
  <2>1. CASE j \in DOMAIN u /\ w[j] = u[j]
    <3>1. ~(i > Len(u))
      BY <1>1, <1>5, <2>1
    <3> QED  BY <1>1, <1>5, <2>1, <3>1 DEF Numbered
  <2>2. CASE j > Len(u) /\ j - Len(u) \in DOMAIN ms /\ w[j] = ms[j - Len(u)]
    <3>1. high < w[j].id /\ w[j].id \in Nat /\ Len(ms) = 1
      BY <1>3, <1>5, <2>2
    <3>2. i \in DOMAIN u /\ w[i] = u[i]
      <4>1. j - Len(u) = 1
        BY <1>1, <2>2, <3>1
      <4>2. ASSUME i > Len(u), i - Len(u) \in DOMAIN ms  PROVE FALSE
        <5>1. i - Len(u) = 1
          BY <1>1, <3>1, <4>2
        <5> QED  BY <1>1, <1>5, <4>1, <5>1
      <4> QED  BY <1>1, <4>2
    <3>3. u[i].id <= high /\ u[i].id \in Nat
      BY <1>2, <1>5, <3>2 DEF Numbered
    <3> QED  BY SMTT(30), <3>1, <3>2, <3>3
  <2> QED  BY <1>1, <2>1, <2>2
<1>6. low <= high2
  BY DEF Numbered
<1> QED  BY <1>4, <1>5, <1>6 DEF Numbered

LEMMA OrderSend ==
  ASSUME NEW u \in Seq(Message), NEW ms \in Seq(Message), NEW w, w = u \o ms, NEW c,
         NEW given \in Seq(Given), NEW typed \in Nat, NEW typed2 \in Nat, typed <= typed2,
         InOrder(u, c, given, typed),
         \A i \in DOMAIN ms : ms[i].type = "key" =>
           /\ ms[i].typed = c /\ ms[i].n <= typed2 /\ Len(ms) = 1
           /\ \A k \in DOMAIN given : given[k].n < ms[i].n
           /\ \A k \in DOMAIN u : u[k].type = "key" => u[k].n < ms[i].n
  PROVE  InOrder(w, c, given, typed2)
<1>1. /\ \A i \in DOMAIN w : \/ i \in DOMAIN u /\ w[i] = u[i]
                             \/ i > Len(u) /\ i - Len(u) \in DOMAIN ms /\ w[i] = ms[i - Len(u)]
      /\ \A i \in DOMAIN u : i <= Len(u) /\ i \in Nat
      /\ Len(u) \in Nat /\ DOMAIN w \subseteq Nat
  BY Concats
<1>2. \A i \in DOMAIN u : u[i].type = "key" => u[i].n \in Nat
  BY GenOf
<1>3. \A k \in DOMAIN given : given[k].n <= typed2
  <2>1. \A k \in DOMAIN given : given[k].n \in Nat
    <3>1. \A k \in DOMAIN given : given[k] \in Given
      OBVIOUS
    <3> QED  BY <3>1 DEF Given
  <2> QED  BY <2>1 DEF InOrder
<1>4. ASSUME NEW i \in DOMAIN w, w[i].type = "key"
      PROVE  w[i].typed = c /\ w[i].n <= typed2 /\ \A k \in DOMAIN given : given[k].n < w[i].n
  BY <1>1, <1>2, <1>4 DEF InOrder
<1>5. ASSUME NEW i \in DOMAIN w, NEW j \in DOMAIN w, i < j, w[i].type = "key", w[j].type = "key"
      PROVE  w[i].n < w[j].n
  <2>1. CASE j \in DOMAIN u /\ w[j] = u[j]
    <3>1. ~(i > Len(u))
      BY <1>1, <1>5, <2>1
    <3> QED  BY <1>1, <1>5, <2>1, <3>1 DEF InOrder
  <2>2. CASE j > Len(u) /\ j - Len(u) \in DOMAIN ms /\ w[j] = ms[j - Len(u)]
    <3>1. Len(ms) = 1
      BY <1>5, <2>2
    <3>2. i \in DOMAIN u /\ w[i] = u[i]
      <4>1. j - Len(u) = 1
        BY <1>1, <2>2, <3>1
      <4>2. ASSUME i > Len(u), i - Len(u) \in DOMAIN ms  PROVE FALSE
        <5>1. i - Len(u) = 1
          BY <1>1, <3>1, <4>2
        <5> QED  BY <1>1, <1>5, <4>1, <5>1
      <4> QED  BY <1>1, <4>2
    <3> QED  BY <1>5, <2>2, <3>2
  <2> QED  BY <1>1, <2>1, <2>2
<1> QED  BY <1>3, <1>4, <1>5 DEF InOrder

\* What the session learns from a message m; x is the key it gives away.
Learns(m, x, last, view, seen, given, last2, view2, seen2, given2) ==
  /\ last2 = IF m.type \in Inputs THEN m.id ELSE last
  /\ view2 = IF m.type \in Views THEN m.gen ELSE view
  /\ seen2 = IF m.type \in Acks THEN m.gen ELSE seen
  /\ given2 = IF m.type = "key" THEN Append(given, x) ELSE given
  /\ m.type = "key" => x.n = m.n

\* All of this together: the session reads a message,
LEMMA StreamPop ==
  ASSUME NEW u \in Seq(Message), u # <<>>, NEW c, NEW last \in Nat, NEW view \in Nat, NEW seen \in Nat,
         NEW given \in Seq(Given), NEW id \in Nat, NEW gen \in Nat, NEW typed \in Nat,
         Stream(u, c, last, view, seen, given, id, gen, typed),
         NEW m, m = Head(u), NEW x \in Given, NEW last2, NEW view2, NEW seen2, NEW given2,
         Learns(m, x, last, view, seen, given, last2, view2, seen2, given2)
  PROVE  /\ Stream(Tail(u), c, last2, view2, seen2, given2, id, gen, typed)
         /\ \A g \in Nat : Reaches(u, Views, view, Len(u) + 1, g)
                             => Reaches(Tail(u), Views, view2, Len(Tail(u)) + 1, g)
         /\ \A g \in Nat : Reaches(u, Acks, seen, Len(u) + 1, g)
                             => Reaches(Tail(u), Acks, seen2, Len(Tail(u)) + 1, g)
<1>0. Views \in SUBSET Gens /\ Acks \in SUBSET Gens
  BY DEF Views, Acks, Gens
<1>1. Numbered(Tail(u), last2, id) /\ last2 \in Nat /\ (m.type \in Inputs => last < m.id)
  BY NumberPop DEF Stream, Learns
<1>2. /\ InOrder(Tail(u), c, given2, typed)
      /\ m.type = "key" => m.typed = c /\ \A k \in DOMAIN given : given[k].n < m.n
  BY OrderPop DEF Stream, Learns
<1>3. /\ Rises(Tail(u), Views, view2, gen) /\ KeysReach(Tail(u), Views, view2)
      /\ m.type \in Views => view <= m.gen
      /\ m.type = "key" => m.gen = view
      /\ \A g \in Nat : Reaches(u, Views, view, Len(u) + 1, g)
                          => Reaches(Tail(u), Views, view2, Len(Tail(u)) + 1, g)
  BY <1>0, FlowPop DEF Stream, Learns
<1>4. /\ Rises(Tail(u), Acks, seen2, gen) /\ KeysReach(Tail(u), Acks, seen2)
      /\ m.type = "key" => m.gen = seen
      /\ \A g \in Nat : Reaches(u, Acks, seen, Len(u) + 1, g)
                          => Reaches(Tail(u), Acks, seen2, Len(Tail(u)) + 1, g)
  BY <1>0, FlowPop DEF Stream, Learns
<1> QED  BY <1>1, <1>2, <1>3, <1>4 DEF Stream

\* and if it is a key, it names what the session already knows;
Honest(m, c, view, seen, given) ==
  /\ m.gen = view /\ m.gen = seen /\ m.typed = c
  /\ \A k \in DOMAIN given : given[k].n < m.n

LEMMA StreamKey ==
  ASSUME NEW u \in Seq(Message), u # <<>>, NEW c, NEW last \in Nat, NEW view \in Nat, NEW seen \in Nat,
         NEW given \in Seq(Given), NEW id \in Nat, NEW gen \in Nat, NEW typed \in Nat,
         Stream(u, c, last, view, seen, given, id, gen, typed),
         NEW m, m = Head(u), m.type = "key"
  PROVE  Honest(m, c, view, seen, given)
<1>1. m = u[1] /\ 1 \in DOMAIN u /\ \A i \in DOMAIN u : ~(i < 1)
  BY Tails
<1>2. Reaches(u, Views, view, 1, m.gen) /\ Reaches(u, Acks, seen, 1, m.gen)
  BY <1>1 DEF Stream, KeysReach
<1>3. m.gen = view /\ m.gen = seen
  BY <1>1, <1>2 DEF Reaches
<1> QED  BY <1>1, <1>3 DEF Stream, InOrder, Honest

\* the connection ends early,
LEMMA StreamCut ==
  ASSUME NEW u \in Seq(Message), NEW w \in Seq(Message), CutOf(w, u), NEW c,
         NEW last \in Nat, NEW view \in Nat, NEW seen \in Nat,
         NEW given \in Seq(Given), NEW id \in Nat, NEW gen \in Nat, NEW typed \in Nat,
         Stream(u, c, last, view, seen, given, id, gen, typed)
  PROVE  Stream(w, c, last, view, seen, given, id, gen, typed)
<1>0. Views \in SUBSET Gens /\ Acks \in SUBSET Gens
  BY DEF Views, Acks, Gens
<1>1. \A i \in DOMAIN w : w[i].type \in Inputs \cup {"key"} => i \in DOMAIN u /\ w[i] = u[i]
  BY DEF CutOf, Inputs
<1>2. Numbered(w, last, id)
  BY <1>1 DEF Numbered, Stream
<1>3. InOrder(w, c, given, typed)
  BY <1>1 DEF InOrder, Stream
<1>4. Rises(w, Views, view, gen) /\ KeysReach(w, Views, view) /\ Rises(w, Acks, seen, gen) /\ KeysReach(w, Acks, seen)
  BY <1>0, FlowCut DEF Stream
<1> QED  BY <1>2, <1>3, <1>4 DEF Stream

\* or another peer has nothing left but its end;
LEMMA StreamEnds ==
  ASSUME NEW u \in Seq(Message), NEW w \in Seq(Message), \A i \in DOMAIN w : w[i].type = "eof", NEW c, NEW d,
         NEW last \in Nat, NEW view \in Nat, NEW seen \in Nat, NEW view2 \in Nat,
         NEW given \in Seq(Given), NEW id \in Nat, NEW gen \in Nat, NEW typed \in Nat,
         Stream(u, c, last, view, seen, given, id, gen, typed), view2 <= gen
  PROVE  Stream(w, d, last, view2, seen, given, id, gen, typed)
<1>1. \A i \in DOMAIN w : w[i].type \notin Inputs \cup Views \cup Acks \cup {"key"}
  BY DEF Inputs, Views, Acks
<1>2. last <= id /\ seen <= gen /\ \A k \in DOMAIN given : given[k].n <= typed
  BY DEF Stream, Numbered, Rises, InOrder
<1> QED  BY <1>1, <1>2 DEF Stream, Numbered, Rises, InOrder, KeysReach

\* What may be sent next: the newest geometry, the next input, a key of a
\* geometry the queue reaches.
Follows(ms, u, c, view, seen, given, id, id2, gen2, typed2) ==
  /\ \A i \in DOMAIN ms : ms[i].type \in Gens => ms[i].gen = gen2
  /\ \A i \in DOMAIN ms : ms[i].type \in Inputs => id < ms[i].id /\ ms[i].id <= id2 /\ Len(ms) = 1
  /\ \A i \in DOMAIN ms : ms[i].type = "key" =>
       /\ Reaches(u, Views, view, Len(u) + 1, ms[i].gen) /\ Reaches(u, Acks, seen, Len(u) + 1, ms[i].gen)
       /\ ms[i].typed = c /\ ms[i].n <= typed2
       /\ \A k \in DOMAIN given : given[k].n < ms[i].n
       /\ \A k \in DOMAIN u : u[k].type = "key" => u[k].n < ms[i].n

\* the frontend sends.
LEMMA StreamSend ==
  ASSUME NEW u \in Seq(Message), NEW ms \in Seq(Message), NEW w, w = u \o ms, NEW c,
         NEW last \in Nat, NEW view \in Nat, NEW seen \in Nat,
         NEW given \in Seq(Given), NEW id \in Nat, NEW gen \in Nat, NEW typed \in Nat,
         NEW id2 \in Nat, NEW gen2 \in Nat, NEW typed2 \in Nat, id <= id2, gen <= gen2, typed <= typed2,
         Stream(u, c, last, view, seen, given, id, gen, typed),
         Follows(ms, u, c, view, seen, given, id, id2, gen2, typed2)
  PROVE  Stream(w, c, last, view, seen, given, id2, gen2, typed2)
<1>0. /\ Views \in SUBSET Gens /\ Acks \in SUBSET Gens /\ "key" \in Inputs
      /\ "key" \notin Views /\ "key" \notin Acks
  BY DEF Views, Acks, Gens, Inputs
<1>1. Numbered(w, last, id2)
  BY NumberSend DEF Stream, Follows
<1>2. InOrder(w, c, given, typed2)
  <2>1. InOrder(u, c, given, typed)
    BY DEF Stream
  <2>2. \A i \in DOMAIN ms : ms[i].type = "key" =>
           /\ ms[i].typed = c /\ ms[i].n <= typed2 /\ Len(ms) = 1
           /\ \A k \in DOMAIN given : given[k].n < ms[i].n
           /\ \A k \in DOMAIN u : u[k].type = "key" => u[k].n < ms[i].n
    BY <1>0 DEF Follows
  <2> QED  BY <2>1, <2>2, OrderSend
<1>3. ASSUME NEW i \in DOMAIN ms, ms[i].type = "key", NEW j \in DOMAIN ms  PROVE ms[j].type \notin Views \cup Acks
  <2>1. Len(ms) = 1
    BY <1>0, <1>3 DEF Follows
  <2>2. j = i
    BY <2>1
  <2> QED  BY <1>0, <1>3, <2>2
<1>4. Rises(w, Views, view, gen2) /\ Rises(w, Acks, seen, gen2)
  <2>1. Rises(u, Views, view, gen) /\ Rises(u, Acks, seen, gen)
          /\ \A i \in DOMAIN ms : ms[i].type \in Views \cup Acks => ms[i].gen = gen2
    BY <1>0 DEF Stream, Follows
  <2>2. Rises(w, Views, view, gen2)
    BY <1>0, <2>1, RisesSend
  <2>3. Rises(w, Acks, seen, gen2)
    BY <1>0, <2>1, RisesSend
  <2> QED  BY <2>2, <2>3
<1>5. KeysReach(w, Views, view)
  BY <1>0, <1>3, KeysSend DEF Stream, Follows
<1>6. KeysReach(w, Acks, seen)
  BY <1>0, <1>3, KeysSend DEF Stream, Follows
<1> QED  BY <1>1, <1>2, <1>4, <1>5, <1>6 DEF Stream

LEMMA StreamLater ==
  ASSUME NEW u \in Seq(Message), NEW c, NEW last \in Nat, NEW view \in Nat, NEW seen \in Nat,
         NEW given \in Seq(Given), NEW id \in Nat, NEW gen \in Nat, NEW typed \in Nat,
         NEW id2 \in Nat, NEW gen2 \in Nat, NEW typed2 \in Nat, id <= id2, gen <= gen2, typed <= typed2,
         Stream(u, c, last, view, seen, given, id, gen, typed)
  PROVE  Stream(u, c, last, view, seen, given, id2, gen2, typed2)
<1> DEFINE ms == <<>>
<1>1. u = u \o ms /\ ms \in Seq(Message) /\ DOMAIN ms = {}
  OBVIOUS
<1> HIDE DEF ms
<1>2. Follows(ms, u, c, view, seen, given, id, id2, gen2, typed2)
  BY <1>1 DEF Follows
<1> QED  BY <1>1, <1>2, StreamSend

\* The keys that wait, when the session reads, when the connection ends,
LEMMA WaitingPop ==
  ASSUME NEW q, NEW u \in Seq(Message), u # <<>>, NEW given \in Seq(Given), NEW typed \in Nat,
         Waiting(q, u, given, typed), NEW x \in Given, Head(u).type = "key" => x.n = Head(u).n,
         NEW given2, given2 = IF Head(u).type = "key" THEN Append(given, x) ELSE given
  PROVE  Waiting(q, Tail(u), given2, typed)
<1> DEFINE t == Tail(u)
<1>1. /\ Head(u) = u[1] /\ 1 \in DOMAIN u
      /\ \A i \in DOMAIN t : i + 1 \in DOMAIN u /\ t[i] = u[i + 1]
  BY Tails
<1>2. \A k \in DOMAIN given2 : \/ k \in DOMAIN given /\ given2[k] = given[k]
                               \/ Head(u).type = "key" /\ given2[k] = x
  BY Appends
<1> HIDE DEF t
<1>3. Waiting(q, t, given2, typed)
  BY <1>1, <1>2 DEF Waiting
<1> QED  BY <1>3 DEF t

LEMMA WaitingLess ==
  ASSUME NEW q, NEW u, NEW w, NEW given, NEW typed, Waiting(q, u, given, typed),
         \A i \in DOMAIN w : w[i].type = "key" => \E j \in DOMAIN u : w[i] = u[j]
  PROVE  Waiting(q, w, given, typed)
BY DEF Waiting

----------------------------------------------------------------------------
(* The steps, and what they do to the queue to the session. *)

LEMMA HeardTypes ==
  ASSUME Types
  PROVE  /\ Heard \in Seq(Message) /\ se.view \in Nat /\ se.last \in Nat /\ Seen \in Nat
         /\ fe.id \in Nat /\ fe.gen \in Nat /\ fe.typed \in Nat /\ delivered \in Seq(Given)
         /\ fe.pending \in Seq([n : Nat, typed : Nat])
<1>1. se \in Session /\ fe \in Client /\ up \in [Conns -> Seq(Message)] /\ delivered \in Seq(Given)
  BY DEF Types
<1>2. Heard \in Seq(Message)
  BY <1>1, Numbers DEF Heard
<1>3. Seen \in Nat
  <2>1. se.target # None => se.target \in Scene
    BY <1>1 DEF Session, Opt
  <2> QED  BY <2>1 DEF Seen, Scene
<1> QED  BY <1>1, <1>2, <1>3 DEF Session, Client

LEMMA HeardNext ==
  ASSUME Types'
  PROVE  Heard' \in Seq(Message) /\ fe'.id \in Nat /\ fe'.gen \in Nat /\ fe'.typed \in Nat
<1>1. se' \in Session /\ fe' \in Client /\ up' \in [Conns -> Seq(Message)]
  BY DEF Types
<1>2. se'.peer # 0 => se'.peer \in Conns
  BY <1>1, PresentationAssumption DEF Session, Conns
<1> QED  BY <1>1, <1>2 DEF Heard, Client

\* A step that sends nothing the session will hear.
LEMMA NothingSaid ==
  ASSUME Types, Types', Keys,
         se'.peer = se.peer, se'.view = se.view, se'.last = se.last, se'.target = se.target,
         delivered' = delivered, CutOf(Heard', Heard),
         fe'.id >= fe.id, fe'.gen >= fe.gen, fe'.typed >= fe.typed,
         Attached' => Attached /\ Heard' = Heard /\ fe'.gen = fe.gen /\ (Shown' => Shown),
         Waiting(fe'.pending, Heard', delivered, fe'.typed), Own'
  PROVE  Keys'
<1>1. /\ Heard \in Seq(Message) /\ se.view \in Nat /\ se.last \in Nat /\ Seen \in Nat
      /\ fe.id \in Nat /\ fe.gen \in Nat /\ fe.typed \in Nat /\ delivered \in Seq(Given)
  BY HeardTypes
<1>2. Heard' \in Seq(Message) /\ fe'.id \in Nat /\ fe'.gen \in Nat /\ fe'.typed \in Nat
  BY HeardNext
<1>3. Seen' = Seen
  BY DEF Seen
<1>4. Stream(Heard', se.peer, se.last, se.view, Seen, delivered, fe.id, fe.gen, fe.typed)
  BY <1>1, <1>2, StreamCut DEF Keys, Flow
<1>5. Flow'
  <2>2. fe.id <= fe'.id /\ fe.gen <= fe'.gen /\ fe.typed <= fe'.typed
    BY <1>1, <1>2
  <2>3. Stream(Heard', se.peer, se.last, se.view, Seen, delivered, fe'.id, fe'.gen, fe'.typed)
    BY <1>1, <1>2, <1>4, <2>2, StreamLater
  <2> QED  BY <1>3, <2>3 DEF Flow
<1>6. Current'
  BY <1>3 DEF Keys, Current, UpToNow
<1>7. KeysKept'
  BY DEF Keys, KeysKept, KeysInOrder, NotReplayed, SeenGeometry
<1> QED  BY <1>5, <1>6, <1>7 DEF Keys

\* What the frontend sends on a connection the session listens to.
LEMMA Spoken ==
  ASSUME Types, Types', Keys, NEW ms \in Seq(Message), up' = Sent(fe.conn, ms),
         fe.conn # 0 /\ link[fe.conn] = "open" => se.peer = fe.conn /\ up'[fe.conn] = up[fe.conn] \o ms,
         se' = se, delivered' = delivered, link' = link, fe'.conn = fe.conn, fe'.connected => fe.conn # 0,
         fe'.id >= fe.id, fe'.gen >= fe.gen, fe'.typed >= fe.typed,
         \A i \in DOMAIN ms : ms[i].type \in Gens => ms[i].gen = fe'.gen,
         \A i \in DOMAIN ms : ms[i].type \in Inputs => fe.id < ms[i].id /\ ms[i].id <= fe'.id /\ Len(ms) = 1,
         \A i \in DOMAIN ms : ms[i].type = "key" =>
           /\ fe.connected /\ Shown /\ ms[i].gen = fe.gen /\ ms[i].typed = fe.conn /\ ms[i].n <= fe'.typed
           /\ \A k \in DOMAIN delivered : delivered[k].n < ms[i].n
           /\ \A k \in DOMAIN Heard : Heard[k].type = "key" => Heard[k].n < ms[i].n
           /\ \A k \in DOMAIN fe'.pending : ms[i].n < fe'.pending[k].n,
         \/ \E i \in DOMAIN ms : ms[i].type \in Views
         \/ fe'.connected => /\ fe.connected /\ fe'.gen = fe.gen
                             /\ \A i \in DOMAIN ms : ms[i].type \notin Views,
         \/ \E i \in DOMAIN ms : ms[i].type \in Acks
         \/ Shown' /\ fe'.connected => /\ Shown /\ fe.connected /\ fe'.gen = fe.gen
                                       /\ \A i \in DOMAIN ms : ms[i].type \notin Acks,
         Waiting(fe'.pending, Heard, delivered, fe'.typed), Own'
  PROVE  Keys'
<1>1. /\ Heard \in Seq(Message) /\ se.view \in Nat /\ se.last \in Nat /\ Seen \in Nat
      /\ fe.id \in Nat /\ fe.gen \in Nat /\ fe.typed \in Nat /\ delivered \in Seq(Given)
      /\ fe'.id \in Nat /\ fe'.gen \in Nat /\ fe'.typed \in Nat
  BY HeardTypes, HeardNext
<1>4. fe.gen <= fe'.gen /\ fe.id <= fe'.id /\ fe.typed <= fe'.typed
  BY <1>1
<1>2. CASE ~(fe.conn # 0 /\ link[fe.conn] = "open")
  <2>1. up' = up
    BY <1>2 DEF Sent
  <2>2. Heard' = Heard
    BY <2>1 DEF Heard
  <2>3. ~Attached'
    BY <1>2 DEF Attached
  <2>4. CutOf(Heard, Heard)
    BY DEF CutOf
  <2> QED  BY <2>2, <2>3, <2>4, NothingSaid
<1>3. CASE fe.conn # 0 /\ link[fe.conn] = "open"
  <2>1. Heard' = Heard \o ms /\ se.peer = fe.conn
    BY <1>3 DEF Heard
  <2>2. Seen' = Seen
    BY DEF Seen
  <2>3. fe.connected => UpToNow(Heard, Views, se.view) /\ (Shown => UpToNow(Heard, Acks, Seen))
    BY <1>3 DEF Keys, Current, Attached
  <2>4. Flow'
    <3>1. Stream(Heard, se.peer, se.last, se.view, Seen, delivered, fe.id, fe.gen, fe.typed)
      BY DEF Keys, Flow
    <3>2. \A i \in DOMAIN ms : ms[i].type = "key" =>
             /\ Reaches(Heard, Views, se.view, Len(Heard) + 1, ms[i].gen)
             /\ Reaches(Heard, Acks, Seen, Len(Heard) + 1, ms[i].gen)
             /\ ms[i].typed = se.peer /\ ms[i].n <= fe'.typed
             /\ \A k \in DOMAIN delivered : delivered[k].n < ms[i].n
             /\ \A k \in DOMAIN Heard : Heard[k].type = "key" => Heard[k].n < ms[i].n
      BY <2>1, <2>3 DEF UpToNow
    <3> DEFINE w == Heard \o ms
    <3>3. w = Heard \o ms
      OBVIOUS
    <3> HIDE DEF w
    <3>4. Stream(w, se.peer, se.last, se.view, Seen, delivered, fe'.id, fe'.gen, fe'.typed)
      <4>1. Follows(ms, Heard, se.peer, se.view, Seen, delivered, fe.id, fe'.id, fe'.gen, fe'.typed)
        BY <3>2 DEF Follows
      <4> QED  BY <1>1, <1>4, <3>1, <3>3, <4>1, StreamSend
    <3>5. Heard' = w
      BY <2>1, <3>3
    <3> QED  BY <2>2, <3>4, <3>5 DEF Flow
  <2>5. Current'
    <3>0. /\ Views \in SUBSET Gens /\ Acks \in SUBSET Gens
          /\ Rises(Heard, Views, se.view, fe.gen) /\ Rises(Heard, Acks, Seen, fe.gen)
      BY DEF Views, Acks, Gens, Keys, Flow, Stream
    <3>6. \A i \in DOMAIN ms : ms[i].type \in Views \cup Acks => ms[i].gen = fe'.gen
      BY <3>0
    <3> DEFINE w == Heard \o ms
    <3>7. w = Heard \o ms
      OBVIOUS
    <3> HIDE DEF w
    <3>1. /\ (\E i \in DOMAIN ms : ms[i].type \in Views) => Reaches(w, Views, se.view, Len(w) + 1, fe'.gen)
          /\ (\A i \in DOMAIN ms : ms[i].type \notin Views) /\ Reaches(Heard, Views, se.view, Len(Heard) + 1, fe.gen)
                => Reaches(w, Views, se.view, Len(w) + 1, fe.gen)
      BY <1>1, <1>4, <3>0, <3>6, <3>7, ReachSend
    <3>2. /\ (\E i \in DOMAIN ms : ms[i].type \in Acks) => Reaches(w, Acks, Seen, Len(w) + 1, fe'.gen)
          /\ (\A i \in DOMAIN ms : ms[i].type \notin Acks) /\ Reaches(Heard, Acks, Seen, Len(Heard) + 1, fe.gen)
                => Reaches(w, Acks, Seen, Len(w) + 1, fe.gen)
      BY <1>1, <1>4, <3>0, <3>6, <3>7, ReachSend
    <3>3. fe'.connected => Reaches(w, Views, se.view, Len(w) + 1, fe'.gen)
      BY <2>3, <3>1 DEF UpToNow
    <3>4. fe'.connected /\ Shown' => Reaches(w, Acks, Seen, Len(w) + 1, fe'.gen)
      BY <2>3, <3>2 DEF UpToNow
    <3>5. Heard' = w
      BY <2>1, <3>7
    <3> QED  BY <2>2, <3>3, <3>4, <3>5 DEF Current, Attached, UpToNow
  <2>6. Waiting(fe'.pending, Heard', delivered, fe'.typed)
    <3>1. \A k \in DOMAIN Heard' : \/ k \in DOMAIN Heard /\ Heard'[k] = Heard[k]
                                   \/ \E i \in DOMAIN ms : Heard'[k] = ms[i]
      <4> DEFINE h == Heard
      <4> DEFINE w == Heard'
      <4>1. h \in Seq(Message) /\ w = h \o ms
        BY <1>1, <2>1
      <4> HIDE DEF h
      <4>2. \A k \in DOMAIN w : (k \in DOMAIN h /\ w[k] = h[k]) \/ \E i \in DOMAIN ms : w[k] = ms[i]
        <5> HIDE DEF w
        <5> QED  BY <4>1, Concats
      <4> QED  BY <4>2 DEF h
    <3> QED  BY <3>1 DEF Waiting
  <2>7. KeysKept'
    BY DEF Keys, KeysKept, KeysInOrder, NotReplayed, SeenGeometry
  <2> QED  BY <2>4, <2>5, <2>6, <2>7 DEF Keys
<1> QED  BY <1>2, <1>3

\* One more key has been given to the application.
LEMMA GivenKept ==
  ASSUME delivered \in Seq(Given), KeysKept, NEW x \in Given, delivered' = Append(delivered, x),
         \A k \in DOMAIN delivered : delivered[k].n < x.n,
         x.typed = x.conn, x.gen = x.view, x.seen = x.view
  PROVE  KeysKept'
<1>1. \A i \in DOMAIN delivered' : \/ i \in DOMAIN delivered /\ delivered'[i] = delivered[i]
                                   \/ i = Len(delivered) + 1 /\ delivered'[i] = x
  OBVIOUS
<1>2. Len(delivered) \in Nat /\ \A i \in DOMAIN delivered : i \in Nat /\ i <= Len(delivered)
  OBVIOUS
<1>3. ASSUME NEW i \in DOMAIN delivered', NEW j \in DOMAIN delivered', i < j
      PROVE  delivered'[i].n < delivered'[j].n
  <2>1. CASE j \in DOMAIN delivered /\ delivered'[j] = delivered[j]
    <3>1. i # Len(delivered) + 1
      BY <1>2, <1>3, <2>1
    <3> QED  BY <1>1, <1>3, <2>1, <3>1 DEF KeysKept, KeysInOrder
  <2>2. CASE j = Len(delivered) + 1 /\ delivered'[j] = x
    <3>1. i # Len(delivered) + 1
      BY <1>2, <1>3, <2>2
    <3> QED  BY <1>1, <1>3, <2>2, <3>1
  <2> QED  BY <1>1, <2>1, <2>2
<1>4. KeysInOrder'
  BY <1>3 DEF KeysInOrder
<1>5. NotReplayed' /\ SeenGeometry'
  BY <1>1 DEF KeysKept, NotReplayed, SeenGeometry
<1> QED  BY <1>4, <1>5 DEF KeysKept

\* What reading one message of the peer does to what the session knows.
LEMMA ReadEffect ==
  ASSUME Types, OnlyOurs, Keys, NEW c \in Conns, NEW m, m = Head(up[c]), m = Head(Heard), Heard \in Seq(Message),
         Heard # <<>>, c = se.peer, m \in Message,
         ResizeInput(c, m) \/ KeyInput(c, m) \/ Presented(c, m) \/ SwitchInput(c, m)
  PROVE  /\ se'.last = IF m.type \in Inputs THEN m.id ELSE se.last
         /\ se'.view = IF m.type \in Views THEN m.gen ELSE se.view
         /\ Seen' = IF m.type \in Acks THEN m.gen ELSE Seen
         /\ delivered' = IF m.type = "key"
                           THEN Append(delivered, [n |-> m.n, typed |-> m.typed, conn |-> c,
                                                   gen |-> m.gen, view |-> se.view, seen |-> Seen])
                           ELSE delivered
<1>0. /\ Heard \in Seq(Message) /\ se.view \in Nat /\ se.last \in Nat /\ Seen \in Nat
      /\ fe.id \in Nat /\ fe.gen \in Nat /\ fe.typed \in Nat /\ delivered \in Seq(Given)
  BY HeardTypes
<1>1. /\ m.type \in Inputs => m.id > se.last
      /\ m.type \in Views => se.view <= m.gen
  <2>1. Numbered(Heard, se.last, fe.id) /\ Rises(Heard, Views, se.view, fe.gen)
    BY DEF Keys, Flow, Stream
  <2>2. Head(Heard) = Heard[1] /\ 1 \in DOMAIN Heard
    BY <1>0, Tails
  <2>3. m.type \in Inputs => m.id \in Nat
    BY Carries
  <2> QED  BY <1>0, <2>1, <2>2, <2>3 DEF Numbered, Rises
<1>2. se \in Session
  BY DEF Types
<1>3. CASE ResizeInput(c, m)
  <2>1. m.type = "resize" /\ m.type \in Inputs /\ m.type \in Views /\ m.type \notin Acks /\ m.type # "key"
    BY <1>3 DEF ResizeInput, Inputs, Views, Acks
  <2>2. se' = [se EXCEPT !.last = m.id, !.view = m.gen, !.dirty = TRUE] /\ delivered' = delivered
    BY <1>1, <1>3, <2>1 DEF ResizeInput, Newer
  <2>3. se'.last = m.id /\ se'.view = m.gen /\ se'.target = se.target
    BY <1>2, <2>2 DEF Session
  <2> QED  BY <2>1, <2>2, <2>3 DEF Seen
<1>4. CASE KeyInput(c, m)
  <2>1. m.type = "key" /\ m.type \in Inputs /\ m.type \notin Views /\ m.type \notin Acks
    BY <1>4 DEF KeyInput, Inputs, Views, Acks
  <2>2. /\ se' = [se EXCEPT !.last = m.id, !.dirty = TRUE]
        /\ delivered' = Append(delivered, [n |-> m.n, typed |-> m.typed, conn |-> c,
                                           gen |-> m.gen, view |-> se.view, seen |-> Seen])
    BY <1>1, <1>4, <2>1 DEF KeyInput, Newer, Seen
  <2>3. se'.last = m.id /\ se'.view = se.view /\ se'.target = se.target
    BY <1>2, <2>2 DEF Session
  <2> QED  BY <2>1, <2>2, <2>3 DEF Seen
<1>5. CASE Presented(c, m)
  <2>1. m.type = "presented" /\ m.type \notin Inputs /\ m.type \notin Views /\ m.type \in Acks /\ m.type # "key"
    BY <1>5 DEF Presented, Inputs, Views, Acks
  <2> DEFINE same(s) == Shot(s) = [rev |-> m.rev, gen |-> m.gen]
  <2>2. PICK h \in se.history : m = Shows(h)
    <3>1. Head(up[c]) = up[c][1] /\ 1 \in DOMAIN up[c]
      <4>1. up[c] \in Seq(Message) /\ up[c] # <<>>
        BY SMTT(30), Numbers DEF Heard, Types
      <4> QED  BY <4>1, Tails
    <3> QED  BY <2>1, <3>1 DEF OnlyOurs
  <2>3. same(h)
    BY <2>2 DEF Shows, Shot
  <2>4. \E b : se' = [se EXCEPT !.budget = b, !.target = CHOOSE k \in se.history : same(k)]
    BY <1>5, <2>2, <2>3 DEF Presented
  <2> DEFINE k == CHOOSE k \in se.history : same(k)
  <2>5. k \in se.history /\ same(k)
    BY <2>2, <2>3
  <2> HIDE DEF k
  <2>6. k.gen = m.gen /\ k # None
    BY SMTT(30), <1>2, <2>5, PresentationAssumption DEF Session, Shot
  <2>7. se'.target = k /\ se'.last = se.last /\ se'.view = se.view /\ delivered' = delivered
    BY <1>2, <1>5, <2>4 DEF Session, Presented, k
  <2> QED  BY <2>1, <2>6, <2>7 DEF Seen
<1>6. CASE SwitchInput(c, m)
  <2>1. m.type = "presentation" /\ m.type \notin Inputs /\ m.type \in Views /\ m.type \notin Acks /\ m.type # "key"
    BY <1>6 DEF SwitchInput, Inputs, Views, Acks
  <2>2. se.view \in Nat /\ m.gen \in Nat /\ se.view <= m.gen
    BY <1>0, <1>1, <2>1, Carries
  <2>3. se'.view = m.gen /\ se'.last = se.last /\ se'.target = se.target /\ delivered' = delivered
    BY <1>2, <1>6, <2>2 DEF SwitchInput, Session
  <2> QED  BY <2>1, <2>3 DEF Seen
<1> QED  BY <1>3, <1>4, <1>5, <1>6

\* The session reads what its peer sent, its end included.
LEMMA KeysRead ==
  ASSUME Types, Types', Links, OnlyOurs, Keys, NEW c \in Conns, Receive(c), ~Attach(c, Head(up[c]))
  PROVE  Keys'
<1> DEFINE m == Head(up[c])
<1>1. /\ c = se.peer /\ up[c] # <<>> /\ m \in Message
      /\ up' = [up EXCEPT ![c] = Tail(@)] /\ UNCHANGED <<app, fe, paint>>
      /\ \/ /\ m.type = "eof" /\ se' = [se EXCEPT !.peer = 0] /\ se'.peer = 0
            /\ link' = CutLink(link, c) /\ delivered' = delivered
         \/ /\ UNCHANGED <<down, link>> /\ se'.peer = se.peer
            /\ \/ ResizeInput(c, m) \/ KeyInput(c, m) \/ Presented(c, m) \/ SwitchInput(c, m)
  BY ReceiveEffect
<1>2. /\ Heard \in Seq(Message) /\ se.view \in Nat /\ se.last \in Nat /\ Seen \in Nat
      /\ fe.id \in Nat /\ fe.gen \in Nat /\ fe.typed \in Nat /\ delivered \in Seq(Given)
      /\ fe'.id = fe.id /\ fe'.gen = fe.gen /\ fe'.typed = fe.typed /\ fe'.pending = fe.pending
  BY <1>1, HeardTypes
<1>3. Heard = up[c] /\ Heard # <<>> /\ m = Head(Heard) /\ se.peer # 0
  BY <1>1, Numbers DEF Heard, Conns
<1>4. Own'
  BY <1>1 DEF Keys, Own
<1>5. Stream(Heard, se.peer, se.last, se.view, Seen, delivered, fe.id, fe.gen, fe.typed)
        /\ Waiting(fe.pending, Heard, delivered, fe.typed)
  BY DEF Keys, Flow
<1> HIDE DEF m
<1>6. CASE /\ se' = [se EXCEPT !.peer = 0] /\ se'.peer = 0
           /\ link' = CutLink(link, c) /\ delivered' = delivered
  <2> DEFINE w == <<>>
  <2>1. Heard' = w /\ w \in Seq(Message) /\ DOMAIN w = {}
    BY <1>6 DEF Heard
  <2> HIDE DEF w
  <2>2. se'.view = se.view /\ se'.last = se.last /\ se'.target = se.target
    BY <1>6 DEF Types, Session
  <2>3. Seen' = Seen
    BY <2>2 DEF Seen
  <2>4. se.view <= fe.gen
    BY <1>5 DEF Stream, Rises
  <2>5. Stream(w, 0, se.last, se.view, Seen, delivered, fe.id, fe.gen, fe.typed)
    <3>1. \A i \in DOMAIN w : w[i].type = "eof"
      BY <2>1
    <3> QED  BY <1>2, <1>5, <2>1, <2>4, <3>1, StreamEnds
  <2>6. Flow'
    BY <1>1, <1>6, <2>1, <2>2, <2>3, <2>5 DEF Flow
  <2>7. ~Attached'
    <3>1. ASSUME fe.connected, link'[fe.conn] = "open"  PROVE FALSE
      <4>1. fe.conn \in Conns
        BY <3>1, Numbers DEF Links
      <4>2. fe.conn # c /\ link[fe.conn] = "open"
        BY <1>6, <3>1, <4>1 DEF CutLink, Types
      <4> QED  BY <1>1, <3>1, <4>1, <4>2 DEF Links, Unheard
    <3> QED  BY <1>1, <3>1 DEF Attached
  <2>8. Waiting(fe.pending, w, delivered, fe.typed)
    BY <1>5, <2>1, WaitingLess
  <2>9. KeysKept'
    BY <1>6 DEF Keys, KeysKept, KeysInOrder, NotReplayed, SeenGeometry
  <2> QED  BY <1>2, <1>4, <1>6, <2>1, <2>6, <2>7, <2>8, <2>9 DEF Keys, Current
<1>7. CASE /\ UNCHANGED <<down, link>> /\ se'.peer = se.peer
           /\ \/ ResizeInput(c, m) \/ KeyInput(c, m) \/ Presented(c, m) \/ SwitchInput(c, m)
  <2> DEFINE r == [n |-> m.n, typed |-> m.typed, conn |-> c, gen |-> m.gen, view |-> se.view, seen |-> Seen]
  <2>1. /\ se'.last = IF m.type \in Inputs THEN m.id ELSE se.last
        /\ se'.view = IF m.type \in Views THEN m.gen ELSE se.view
        /\ Seen' = IF m.type \in Acks THEN m.gen ELSE Seen
        /\ delivered' = IF m.type = "key" THEN Append(delivered, r) ELSE delivered
    BY <1>1, <1>2, <1>3, <1>7, ReadEffect DEF m
  <2>2. Heard' = Tail(Heard)
    BY <1>1, <1>3, <1>7 DEF Heard, Types
  <2>3. PICK x \in Given : m.type = "key" => x = r
    <3>1. m.type = "key" => m.n \in Nat /\ m.typed \in Nat /\ m.gen \in Nat
      BY <1>1, Carries
    <3>2. m.type = "key" => r \in Given
      BY <1>2, <3>1 DEF Given, Conns
    <3>3. [n |-> 0, typed |-> 0, conn |-> 0, gen |-> 0, view |-> 0, seen |-> 0] \in Given
      BY DEF Given
    <3> QED  BY <3>2, <3>3
  <2>4. m.type = "key" => /\ x.n = m.n /\ x.typed = m.typed /\ x.conn = c /\ x.gen = m.gen
                          /\ x.view = se.view /\ x.seen = Seen
    BY <2>3
  <2>5. delivered' = IF m.type = "key" THEN Append(delivered, x) ELSE delivered
    BY <2>1, <2>3
  <2> HIDE DEF r
  <2>6. /\ Stream(Tail(Heard), se.peer, se'.last, se'.view, Seen', delivered', fe.id, fe.gen, fe.typed)
        /\ m.type = "key" => /\ m.gen = se.view /\ m.gen = Seen /\ m.typed = se.peer
                             /\ \A k \in DOMAIN delivered : delivered[k].n < m.n
        /\ \A g \in Nat : Reaches(Heard, Views, se.view, Len(Heard) + 1, g)
                             => Reaches(Tail(Heard), Views, se'.view, Len(Tail(Heard)) + 1, g)
        /\ \A g \in Nat : Reaches(Heard, Acks, Seen, Len(Heard) + 1, g)
                             => Reaches(Tail(Heard), Acks, Seen', Len(Tail(Heard)) + 1, g)
    <3>1. Learns(m, x, se.last, se.view, Seen, delivered, se'.last, se'.view, Seen', delivered')
      BY <2>1, <2>4, <2>5 DEF Learns
    <3> DEFINE u == Heard
    <3> DEFINE s == Seen
    <3> DEFINE c0 == se.peer
    <3> DEFINE l1 == se.last
    <3> DEFINE v1 == se.view
    <3> DEFINE i1 == fe.id
    <3> DEFINE g1 == fe.gen
    <3> DEFINE t1 == fe.typed
    <3> DEFINE l2 == se'.last
    <3> DEFINE v2 == se'.view
    <3> DEFINE s2 == Seen'
    <3> DEFINE d2 == delivered'
    <3>2. /\ u \in Seq(Message) /\ u # <<>> /\ m = Head(u) /\ s \in Nat /\ x \in Given
          /\ l1 \in Nat /\ v1 \in Nat /\ i1 \in Nat /\ g1 \in Nat /\ t1 \in Nat /\ delivered \in Seq(Given)
          /\ Stream(u, c0, l1, v1, s, delivered, i1, g1, t1)
          /\ Learns(m, x, l1, v1, s, delivered, l2, v2, s2, d2)
      BY <1>2, <1>3, <1>5, <2>3, <3>1
    <3> HIDE DEF u, s, l2, v2, s2, d2, c0, l1, v1, i1, g1, t1
    <3>3. Stream(Tail(u), c0, l2, v2, s2, d2, i1, g1, t1)
      BY <3>2, StreamPop
    <3>4. ASSUME m.type = "key"
          PROVE  /\ m.gen = v1 /\ m.gen = s /\ m.typed = c0
                 /\ \A k \in DOMAIN delivered : delivered[k].n < m.n
      <4>1. Honest(m, c0, v1, s, delivered)
        BY <3>2, <3>4, StreamKey
      <4> QED  BY <4>1 DEF Honest
    <3>5. \A g \in Nat : Reaches(u, Views, v1, Len(u) + 1, g)
                         => Reaches(Tail(u), Views, v2, Len(Tail(u)) + 1, g)
      BY <3>2, StreamPop
    <3>6. \A g \in Nat : Reaches(u, Acks, s, Len(u) + 1, g)
                         => Reaches(Tail(u), Acks, s2, Len(Tail(u)) + 1, g)
      BY <3>2, StreamPop
    <3> QED  BY <3>3, <3>4, <3>5, <3>6 DEF u, s, l2, v2, s2, d2, c0, l1, v1, i1, g1, t1
  <2>7. Flow'
    BY <1>1, <1>2, <1>7, <2>2, <2>6 DEF Flow
  <2>8. Current'
    <3>1. Attached' => Attached
      BY <1>1, <1>7 DEF Attached
    <3>2. Shown' => Shown
      BY <1>1 DEF Shown
    <3> QED  BY <1>2, <2>2, <2>6, <3>1, <3>2 DEF Keys, Current, UpToNow
  <2>9. Waiting(fe.pending, Tail(Heard), delivered', fe.typed)
    BY <1>2, <1>3, <1>5, <2>3, <2>4, <2>5, WaitingPop
  <2>10. KeysKept'
    <3>1. CASE m.type = "key"
      BY <1>1, <1>2, <2>3, <2>4, <2>5, <2>6, <3>1, GivenKept DEF Keys
    <3>2. CASE m.type # "key"
      BY <2>5, <3>2 DEF Keys, KeysKept, KeysInOrder, NotReplayed, SeenGeometry
    <3> QED  BY <3>1, <3>2
  <2> QED  BY <1>2, <1>4, <2>2, <2>7, <2>8, <2>9, <2>10 DEF Keys
<1> QED  BY <1>1, <1>6, <1>7

\* Another connection takes the attachment over: it has nothing but its end to say yet.
LEMMA KeysAttach ==
  ASSUME Types, Types', Links, HelloFirst, Keys, NEW c \in Conns, up[c] # <<>>, Attach(c, Head(up[c]))
  PROVE  Keys'
<1>1. /\ up'[c] = Tail(up[c]) /\ up[c] \in Seq(Message) /\ Head(up[c]) = up[c][1] /\ 1 \in DOMAIN up[c]
  BY Tails DEF Attach, Types
<1>2. /\ up[c][1].type = "hello" /\ c # se.peer /\ UNCHANGED <<fe, delivered>>
      /\ se'.peer = c /\ se'.view = up[c][1].gen /\ se'.last = se.last /\ se'.target = se.target
  BY <1>1 DEF Attach, Types, Session
<1>3. up[c][1].gen \in Nat /\ up[c][1].gen <= fe.gen
  BY <1>1, <1>2, Carries DEF HelloFirst
<1>4. Heard' = Tail(up[c]) /\ Tail(up[c]) \in Seq(Message)
  BY <1>1, <1>2, Tails DEF Heard, Conns
<1>5. \A i \in DOMAIN Tail(up[c]) : Tail(up[c])[i].type = "eof"
  <2>1. \A i \in DOMAIN Tail(up[c]) : i \in Nat /\ i # 0 /\ i + 1 \in DOMAIN up[c] /\ Tail(up[c])[i] = up[c][i + 1]
    BY <1>1, Tails
  <2>2. ASSUME NEW i \in DOMAIN Tail(up[c])  PROVE i + 1 > 1
    BY <2>1
  <2> QED  BY <1>1, <1>2, <2>1, <2>2 DEF HelloFirst
<1>6. /\ Heard \in Seq(Message) /\ se.view \in Nat /\ se.last \in Nat /\ Seen \in Nat
      /\ fe.id \in Nat /\ fe.gen \in Nat /\ fe.typed \in Nat /\ delivered \in Seq(Given)
  BY HeardTypes
<1>7. Stream(Heard, se.peer, se.last, se.view, Seen, delivered, fe.id, fe.gen, fe.typed)
        /\ Waiting(fe.pending, Heard, delivered, fe.typed)
  BY DEF Keys, Flow
<1>8. Seen' = Seen
  BY <1>2 DEF Seen
<1> DEFINE w == Tail(up[c])
<1>9. Heard' = w /\ w \in Seq(Message) /\ \A i \in DOMAIN w : w[i].type = "eof"
  BY <1>4, <1>5
<1> HIDE DEF w
<1>10. Stream(w, c, se.last, se'.view, Seen, delivered, fe.id, fe.gen, fe.typed)
  BY <1>2, <1>3, <1>6, <1>7, <1>9, StreamEnds
<1>11. Flow'
  BY <1>2, <1>8, <1>9, <1>10 DEF Flow
<1>12. ~Attached'
  <2>1. ASSUME fe.connected, link'[fe.conn] = "open"  PROVE FALSE
    <3>1. fe.conn \in Conns
      BY <2>1, Numbers DEF Links
    <3>2. link' = IF se.peer = 0 THEN link ELSE CutLink(link, se.peer)
      BY DEF Attach
    <3>3. fe.conn # se.peer /\ link[fe.conn] = "open"
      BY SMTT(30), <2>1, <3>1, <3>2, Numbers DEF CutLink, Types, Conns
    <3> QED  BY <2>1, <3>1, <3>3 DEF Links, Unheard
  <2> QED  BY <1>2, <2>1 DEF Attached
<1>13. Waiting(fe.pending, w, delivered, fe.typed)
  BY <1>7, <1>9, WaitingLess
<1>14. KeysKept' /\ Own'
  BY <1>2 DEF Keys, KeysKept, KeysInOrder, NotReplayed, SeenGeometry, Own
<1> QED  BY <1>2, <1>9, <1>11, <1>12, <1>13, <1>14 DEF Keys, Current

\* Steps after which the frontend is where it was, but for what it shows or types.
LEMMA KeysAsBefore ==
  ASSUME Types, Types', Keys, UNCHANGED <<up, link, delivered>>,
         se'.peer = se.peer, se'.view = se.view, se'.last = se.last, se'.target = se.target,
         fe'.connected => fe.connected /\ fe'.conn = fe.conn, fe'.gen = fe.gen, fe'.id = fe.id,
         fe'.shown \in {fe.shown, None}, fe'.pc # "stopped" => fe.pc # "stopped",
         fe'.conn = fe.conn \/ fe'.pending = <<>> \/ fe'.pc = "stopped",
         \/ fe'.typed \in {fe.typed, fe.typed + 1} /\ fe'.pending \in {fe.pending, <<>>}
         \/ /\ fe'.typed = fe.typed + 1 /\ fe.conn # 0 /\ fe'.conn = fe.conn
            /\ fe'.pending = Append(fe.pending, [n |-> fe.typed + 1, typed |-> fe.conn])
  PROVE  Keys'
<1>1. /\ Heard \in Seq(Message) /\ fe.id \in Nat /\ fe.gen \in Nat /\ fe.typed \in Nat /\ delivered \in Seq(Given)
      /\ fe.pending \in Seq([n : Nat, typed : Nat]) /\ Len(fe.pending) \in Nat
  BY HeardTypes
<1>2. Heard' = Heard /\ CutOf(Heard, Heard)
  BY DEF Heard, CutOf
<1>3. (Attached' => Attached) /\ (Shown' => Shown)
  BY DEF Attached, Shown
<1>4. fe'.id >= fe.id /\ fe'.gen >= fe.gen /\ fe'.typed >= fe.typed
  BY <1>1
<1>5. /\ Waiting(fe.pending, Heard, delivered, fe.typed)
      /\ InOrder(Heard, se.peer, delivered, fe.typed)
      /\ fe.pc # "stopped" => \A i \in DOMAIN fe.pending : fe.conn # 0 /\ fe.pending[i].typed = fe.conn
  BY DEF Keys, Flow, Stream, Own
<1>6. CASE fe'.typed \in {fe.typed, fe.typed + 1} /\ fe'.pending \in {fe.pending, <<>>}
  <2>1. \A i \in DOMAIN fe'.pending : i \in DOMAIN fe.pending /\ fe'.pending[i] = fe.pending[i]
    BY <1>6
  <2>2. \A i \in DOMAIN fe.pending : fe.pending[i].n \in Nat
    <3>1. \A i \in DOMAIN fe.pending : fe.pending[i] \in [n : Nat, typed : Nat]
      BY <1>1, Entries
    <3> QED  BY <3>1
  <2>3. \A i \in DOMAIN fe'.pending : fe'.pending[i].n <= fe'.typed
    <3>1. ASSUME NEW i \in DOMAIN fe.pending  PROVE fe.pending[i].n <= fe'.typed
      <4>1. fe.pending[i].n <= fe.typed /\ fe.pending[i].n \in Nat
        BY <1>5, <2>2 DEF Waiting
      <4>2. \A a, b \in Nat : a <= b => a <= b + 1
        OBVIOUS
      <4>3. fe.pending[i].n <= fe.typed + 1
        BY <1>1, <4>1, <4>2
      <4> QED  BY <1>6, <4>1, <4>3
    <3> QED  BY <2>1, <3>1
  <2>4. Waiting(fe'.pending, Heard, delivered, fe'.typed)
    BY <1>5, <2>1, <2>3 DEF Waiting
  <2>5. Own'
    BY <1>5, <2>1 DEF Own
  <2> QED  BY <1>2, <1>3, <1>4, <2>4, <2>5, NothingSaid
<1>7. CASE /\ fe'.typed = fe.typed + 1 /\ fe.conn # 0 /\ fe'.conn = fe.conn
           /\ fe'.pending = Append(fe.pending, [n |-> fe.typed + 1, typed |-> fe.conn])
  <2> DEFINE e == [n |-> fe.typed + 1, typed |-> fe.conn]
  <2> DEFINE q == fe.pending
  <2> DEFINE r == fe'.pending
  <2>1. e \in [n : Nat, typed : Nat] /\ e.n = fe.typed + 1 /\ e.typed = fe.conn
    <3>1. fe.typed + 1 \in Nat
      BY <1>1
    <3>2. fe.conn \in Nat
      BY Numbers
    <3> QED  BY <3>1, <3>2
  <2>2. q \in Seq([n : Nat, typed : Nat]) /\ r = Append(q, e)
    BY <1>1, <1>7
  <2>3. \A i \in DOMAIN q : q[i].n \in Nat /\ q[i].n <= fe.typed
    <3>1. \A i \in DOMAIN q : q[i] \in [n : Nat, typed : Nat]
      BY <1>1, Entries
    <3> QED  BY <1>5, <3>1 DEF Waiting
  <2> HIDE DEF e, q
  <2>4. /\ \A i \in DOMAIN r : \/ i \in DOMAIN q /\ r[i] = q[i]
                               \/ i = Len(q) + 1 /\ r[i] = e
        /\ Len(q) \in Nat /\ \A i \in DOMAIN q : i \in Nat /\ i <= Len(q)
        /\ DOMAIN r \subseteq Nat
    <3> HIDE DEF r
    <3> QED  BY <2>1, <2>2
  <2> HIDE DEF r
  <2>5. /\ \A k \in DOMAIN delivered : delivered[k].n < e.n
        /\ \A k \in DOMAIN Heard : Heard[k].type = "key" => Heard[k].n < e.n
    <3>1. \A k \in DOMAIN delivered : delivered[k].n \in Nat /\ delivered[k].n <= fe.typed
      <4>1. \A k \in DOMAIN delivered : delivered[k] \in Given
        BY <1>1
      <4> QED  BY <1>5, <4>1 DEF Given, InOrder
    <3>2. \A k \in DOMAIN Heard : Heard[k].type = "key" => Heard[k].n \in Nat /\ Heard[k].n <= fe.typed
      <4>1. \A k \in DOMAIN Heard : Heard[k].type = "key" => Heard[k].n \in Nat
        BY <1>1, GenOf
      <4> QED  BY <1>5, <4>1 DEF InOrder
    <3> QED  BY SMTT(30), <1>1, <2>1, <3>1, <3>2
  <2>6. ASSUME NEW i \in DOMAIN r
        PROVE  /\ r[i].n <= fe.typed + 1
               /\ \A k \in DOMAIN delivered : delivered[k].n < r[i].n
               /\ \A k \in DOMAIN Heard : Heard[k].type = "key" => Heard[k].n < r[i].n
    <3>1. CASE i \in DOMAIN q /\ r[i] = q[i]
      <4>1. q[i].n <= fe.typed + 1
        <5>1. \A a, b \in Nat : a <= b => a <= b + 1
          OBVIOUS
        <5> QED  BY <1>1, <2>3, <3>1, <5>1
      <4> QED  BY <1>5, <3>1, <4>1 DEF Waiting, q
    <3>2. CASE r[i] = e
      BY <1>1, <2>1, <2>5, <3>2
    <3> QED  BY <2>4, <3>1, <3>2
  <2>7. ASSUME NEW i \in DOMAIN r, NEW j \in DOMAIN r, i < j  PROVE r[i].n < r[j].n
    <3>1. CASE j \in DOMAIN q /\ r[j] = q[j]
      <4>1. i # Len(q) + 1
        BY <2>4, <2>7, <3>1
      <4> QED  BY <1>5, <2>4, <2>7, <3>1, <4>1 DEF Waiting, q
    <3>2. CASE j = Len(q) + 1 /\ r[j] = e
      <4>1. i # Len(q) + 1
        BY <2>4, <2>7, <3>2
      <4> QED  BY SMTT(30), <1>1, <2>1, <2>3, <2>4, <3>2, <4>1
    <3> QED  BY <2>4, <3>1, <3>2
  <2>8. Waiting(r, Heard, delivered, fe.typed + 1)
    BY <2>6, <2>7 DEF Waiting
  <2>9. Own'
    <3>1. fe'.pc # "stopped" => \A i \in DOMAIN r : fe'.conn # 0 /\ r[i].typed = fe'.conn
      BY <1>5, <1>7, <2>1, <2>4 DEF q
    <3> QED  BY <3>1 DEF Own, r
  <2>10. Waiting(fe'.pending, Heard', delivered, fe'.typed)
    BY <1>2, <1>7, <2>8 DEF r
  <2> QED  BY <1>2, <1>3, <1>4, <2>9, <2>10, NothingSaid
<1> QED  BY <1>6, <1>7

\* A connection ends, for the frontend or under both sides.
LEMMA KeysCut ==
  ASSUME Types, Types', Links, Keys, NEW c \in Conns, c = fe.conn, link' = CutLink(link, c), CutUp(c),
         UNCHANGED <<se, delivered>>, fe'.conn \in {0, c}, fe'.connected => fe'.conn # 0, fe'.gen = fe.gen, fe'.id = fe.id,
         fe'.typed \in {fe.typed, fe.typed + 1}, fe'.pending \in {fe.pending, <<>>},
         fe'.pending = <<>> \/ fe'.pc = "stopped" \/ (fe'.conn = c /\ fe'.pc = fe.pc)
  PROVE  Keys'
<1>1. /\ Heard \in Seq(Message) /\ fe.id \in Nat /\ fe.gen \in Nat /\ fe.typed \in Nat /\ delivered \in Seq(Given)
      /\ fe.pending \in Seq([n : Nat, typed : Nat])
  BY HeardTypes
<1>2. CutOf(Heard', Heard)
  <2>1. \A d \in Conns : CutOf(up'[d], up[d])
    BY CutsUp
  <2>2. CutOf(<<>>, <<>>)
    BY DEF CutOf
  <2> QED  BY <2>1, <2>2, Numbers DEF Heard
<1>3. ~Attached'
  BY DEF Attached, CutLink, Types, Conns
<1>4. fe'.id >= fe.id /\ fe'.gen >= fe.gen /\ fe'.typed >= fe.typed
  BY <1>1
<1>5. Waiting(fe'.pending, Heard', delivered, fe'.typed)
  <2>1. \A k \in DOMAIN Heard' : Heard'[k].type = "key" => k \in DOMAIN Heard /\ Heard'[k] = Heard[k]
    BY <1>2 DEF CutOf
  <2>2. \A i \in DOMAIN fe'.pending : i \in DOMAIN fe.pending /\ fe'.pending[i] = fe.pending[i]
    OBVIOUS
  <2>3. Waiting(fe.pending, Heard, delivered, fe.typed)
    BY DEF Keys
  <2>4. ASSUME NEW i \in DOMAIN fe.pending  PROVE fe.pending[i].n <= fe'.typed
    <3>1. fe.pending[i] \in [n : Nat, typed : Nat]
      BY <1>1, Entries
    <3>2. fe.pending[i].n <= fe.typed /\ fe.pending[i].n \in Nat
      BY <2>3, <3>1 DEF Waiting
    <3>3. \A a, b \in Nat : a <= b => a <= b + 1
      OBVIOUS
    <3>4. fe.pending[i].n <= fe.typed + 1
      BY <1>1, <3>2, <3>3
    <3> QED  BY <3>2, <3>4
  <2> QED  BY <2>1, <2>2, <2>3, <2>4 DEF Waiting
<1>6. Own'
  BY DEF Keys, Own
<1> QED  BY <1>2, <1>3, <1>4, <1>5, <1>6, NothingSaid

\* The frontend dials again: nothing waits, and the session has yet to answer.
LEMMA KeysReconnect ==
  ASSUME Types, Types', Links, Keys, Reconnect
  PROVE  Keys'
<1>1. /\ UNCHANGED <<app, se, delivered, down, paint>> /\ fe.pc = "link" /\ fe.conn = 0
      /\ fe.tried + 1 \in Conns /\ fe'.connected = fe.connected /\ fe'.gen = fe.gen + 1
      /\ fe'.id = fe.id /\ fe'.typed = fe.typed /\ fe'.pending = fe.pending
      /\ up' = [up EXCEPT ![fe.tried + 1] = <<[type |-> "hello", gen |-> fe.gen + 1]>>]
  BY ReconnectEffect
<1>2. /\ fe.id \in Nat /\ fe.gen \in Nat /\ fe.typed \in Nat
  BY HeardTypes
<1>3. se.peer # fe.tried + 1
  BY Numbers DEF Links
<1>4. Heard' = Heard
  BY <1>1, <1>3, Numbers DEF Heard, Types
<1>5. CutOf(Heard, Heard) /\ ~Attached'
  BY <1>1 DEF CutOf, Attached, Links
<1>6. Own' /\ Waiting(fe'.pending, Heard, delivered, fe'.typed)
  BY <1>1 DEF Keys, Own
<1>7. fe'.id >= fe.id /\ fe'.gen >= fe.gen /\ fe'.typed >= fe.typed
  BY <1>1, <1>2
<1> QED  BY <1>1, <1>4, <1>5, <1>6, <1>7, NothingSaid

\* The frontend answers a control.
LEMMA KeysHandle ==
  ASSUME Types, Types', Links, HelloFirst, Drains, Keys, Handle
  PROVE  Keys'
<1>1. /\ UNCHANGED <<app, se, delivered, link>> /\ fe.pc = "controls"
      /\ fe.conn \in Conns /\ ~Unheard(fe.conn)
      /\ down' = [down EXCEPT ![fe.conn].messages = Tail(@)]
      /\ fe'.conn = fe.conn /\ fe'.tried = fe.tried /\ fe'.pending = fe.pending /\ fe'.typed = fe.typed
      /\ fe'.pc = fe.pc /\ fe'.shown = None
      /\ \/ /\ fe'.connected /\ fe'.gen = fe.gen /\ fe'.id = fe.id + 1
            /\ up' = Sent(fe.conn, <<ResizeTo(fe.gen)>>)
         \/ /\ fe'.connected = fe.connected /\ fe'.gen = fe.gen + 1 /\ fe'.id = fe.id
            /\ up' = Sent(fe.conn, <<[type |-> "presentation", gen |-> fe.gen + 1]>>)
  BY HandleEffect
<1>2. fe.id \in Nat /\ fe.gen \in Nat /\ fe.typed \in Nat /\ fe.conn # 0 /\ fe.gen + 1 \in Nat
  BY <1>1, HeardTypes DEF Conns
<1>3. PICK m \in Message : /\ up' = Sent(fe.conn, <<m>>) /\ m.type \in {"resize", "presentation"}
                           /\ m.gen = fe'.gen /\ (m.type = "resize" => m.id = fe'.id /\ fe'.id = fe.id + 1)
  <2>1. ResizeTo(fe.gen) \in Message /\ [type |-> "presentation", gen |-> fe.gen + 1] \in Message
    BY <1>2, Sendable
  <2>2. CASE fe'.gen = fe.gen /\ fe'.id = fe.id + 1 /\ up' = Sent(fe.conn, <<ResizeTo(fe.gen)>>)
    <3>1. /\ ResizeTo(fe.gen).type = "resize" /\ ResizeTo(fe.gen).gen = fe.gen
          /\ ResizeTo(fe.gen).id = fe.id + 1
      BY DEF ResizeTo
    <3> QED  BY <2>1, <2>2, <3>1
  <2>3. CASE fe'.gen = fe.gen + 1 /\ up' = Sent(fe.conn, <<[type |-> "presentation", gen |-> fe.gen + 1]>>)
    BY <2>1, <2>3
  <2> QED  BY <1>1, <2>2, <2>3
<1>4. fe'.id >= fe.id /\ fe'.gen >= fe.gen /\ fe'.typed >= fe.typed
  BY <1>1, <1>2
<1> DEFINE ms == <<m>>
<1>5. ms \in Seq(Message) /\ Len(ms) = 1 /\ DOMAIN ms = {1} /\ ms[1] = m
  BY <1>3
<1>6. up' = Sent(fe.conn, ms)
  BY <1>3
<1> HIDE DEF ms
<1>7. fe.conn # 0 /\ link[fe.conn] = "open" => se.peer = fe.conn /\ up'[fe.conn] = up[fe.conn] \o ms
  <2>1. \A i \in DOMAIN ms : ms[i].type # "hello"
    BY <1>3, <1>5
  <2>2. \A c \in Conns : down'[c] = down[c] \/ c = fe.conn
    BY <1>1 DEF Types
  <2> QED  BY <1>1, <1>2, <1>4, <1>5, <1>6, <2>1, <2>2, LinksSend
<1>8. /\ \A i \in DOMAIN ms : ms[i].type \in Gens => ms[i].gen = fe'.gen
      /\ \A i \in DOMAIN ms : ms[i].type \in Inputs => fe.id < ms[i].id /\ ms[i].id <= fe'.id /\ Len(ms) = 1
      /\ \A i \in DOMAIN ms : ms[i].type # "key"
      /\ \E i \in DOMAIN ms : ms[i].type \in Views
  BY <1>2, <1>3, <1>5 DEF Inputs, Views
<1>9. ~(Shown' /\ fe'.connected)
  BY <1>1 DEF Shown
<1>10. Waiting(fe'.pending, Heard, delivered, fe'.typed) /\ Own'
  BY <1>1 DEF Keys, Own
<1> QED  BY <1>1, <1>2, <1>4, <1>5, <1>6, <1>7, <1>8, <1>9, <1>10, Spoken

\* It acknowledges the finished frames.
LEMMA KeysShow ==
  ASSUME Types, Types', Links, HelloFirst, Keys, Show
  PROVE  Keys'
<1>1. /\ UNCHANGED <<app, se, delivered, down, link>> /\ fe.pc = "output" /\ fe'.pc = "link"
      /\ fe'.conn = fe.conn /\ fe'.tried = fe.tried /\ fe'.pending = fe.pending /\ fe'.typed = fe.typed
      /\ fe'.connected = fe.connected /\ fe'.gen = fe.gen /\ fe'.id = fe.id
  BY ShowEffect
<1>2. PICK ms \in Seq(Message) :
        /\ up' = IF fe.connected THEN Sent(fe.conn, ms) ELSE up
        /\ \A i \in DOMAIN ms : ms[i].type = "presented" /\ ms[i].gen = fe.gen
        /\ fe'.shown = fe.shown \/ ms # <<>>
  BY ShowEffect
<1>3. fe.id \in Nat /\ fe.gen \in Nat /\ fe.typed \in Nat
  BY HeardTypes
<1>4. fe'.id >= fe.id /\ fe'.gen >= fe.gen /\ fe'.typed >= fe.typed
  BY <1>1, <1>3
<1>5. Waiting(fe'.pending, Heard, delivered, fe'.typed) /\ Own'
  BY <1>1 DEF Keys, Own
<1>6. CASE ~fe.connected
  <2>1. Heard' = Heard /\ CutOf(Heard, Heard) /\ ~Attached'
    BY <1>1, <1>2, <1>6 DEF Heard, CutOf, Attached
  <2> QED  BY <1>1, <1>4, <1>5, <2>1, NothingSaid
<1>7. CASE fe.connected
  <2>1. fe.conn \in Conns /\ fe.conn # 0 /\ ~Unheard(fe.conn)
    BY <1>7, Numbers DEF Links, Unheard
  <2>2. up' = Sent(fe.conn, ms)
    BY <1>2, <1>7
  <2>3. fe.conn # 0 /\ link[fe.conn] = "open" => se.peer = fe.conn /\ up'[fe.conn] = up[fe.conn] \o ms
    <3>1. \A i \in DOMAIN ms : ms[i].type # "hello"
      BY <1>2
    <3> QED  BY <1>1, <1>2, <1>4, <1>7, <2>1, <2>2, <3>1, LinksSend
  <2>4. /\ \A i \in DOMAIN ms : ms[i].type \in Gens => ms[i].gen = fe'.gen
        /\ \A i \in DOMAIN ms : ms[i].type \notin Inputs /\ ms[i].type # "key" /\ ms[i].type \notin Views
        /\ \A i \in DOMAIN ms : ms[i].type \in Acks
    BY <1>1, <1>2 DEF Inputs, Views, Acks
  <2>5. \/ \E i \in DOMAIN ms : ms[i].type \in Acks
        \/ Shown' /\ fe'.connected => Shown /\ \A i \in DOMAIN ms : ms[i].type \notin Acks
    <3>1. CASE ms = <<>>
      <4>1. fe'.shown = fe.shown /\ DOMAIN ms = {}
        BY <1>2, <3>1
      <4> QED  BY <1>1, <4>1 DEF Shown
    <3>2. CASE ms # <<>>
      <4>1. 1 \in DOMAIN ms
        BY SMTT(30), <1>2, <3>2, Tails
      <4> QED  BY <2>4, <4>1
    <3> QED  BY <3>1, <3>2
  <2> QED  BY <1>1, <1>2, <1>4, <1>5, <1>7, <2>1, <2>2, <2>3, <2>4, <2>5, Spoken
<1> QED  BY <1>6, <1>7

\* It sends a key that waited.
LEMMA KeysDispatch ==
  ASSUME Types, Types', Links, HelloFirst, Keys, Dispatch
  PROVE  Keys'
<1>1. /\ UNCHANGED <<app, se, delivered, down, link, paint>> /\ fe.pc # "stopped"
      /\ fe.connected /\ SceneReady /\ fe.pending # <<>> /\ fe'.pending = Tail(fe.pending)
      /\ fe'.conn = fe.conn /\ fe'.tried = fe.tried /\ fe'.typed = fe.typed
      /\ fe'.connected = fe.connected /\ fe'.gen = fe.gen /\ fe'.id = fe.id + 1
      /\ fe'.shown = fe.shown
      /\ up' = Sent(fe.conn, <<Key(Head(fe.pending).n, Head(fe.pending).typed)>>)
      /\ Head(fe.pending).n \in Nat /\ Head(fe.pending).typed \in Nat
  BY DispatchEffect
<1>2. /\ fe.id \in Nat /\ fe.gen \in Nat /\ fe.typed \in Nat
      /\ fe.pending \in Seq([n : Nat, typed : Nat])
  BY HeardTypes
<1>3. fe.conn \in Conns /\ fe.conn # 0 /\ ~Unheard(fe.conn)
  BY <1>1, Numbers DEF Links, Unheard
<1> DEFINE h == Head(fe.pending)
<1> DEFINE q == fe.pending
<1> DEFINE m == Key(h.n, h.typed)
<1> DEFINE ms == <<m>>
<1>4. m \in Message /\ m.type = "key" /\ m.n = h.n /\ m.typed = h.typed /\ m.gen = fe.gen /\ m.id = fe.id + 1
  BY <1>1, Sendable DEF Key, SceneReady
<1>5. /\ h = q[1] /\ 1 \in DOMAIN q
      /\ \A i \in DOMAIN Tail(q) : i \in Nat /\ i > 0 /\ i + 1 \in DOMAIN q /\ Tail(q)[i] = q[i + 1]
  <2>1. q \in Seq([n : Nat, typed : Nat]) /\ q # <<>> /\ h = Head(q)
    BY <1>1, <1>2
  <2> HIDE DEF q, h
  <2>2. \A i \in DOMAIN Tail(q) : i \in Nat /\ i > 0
    <3>1. Tail(q) \in Seq([n : Nat, typed : Nat])
      BY <2>1, Tails
    <3> QED  BY <3>1
  <2> QED  BY <2>1, <2>2, Tails
<1>6. /\ Waiting(q, Heard, delivered, fe.typed)
      /\ \A i \in DOMAIN q : fe.conn # 0 /\ q[i].typed = fe.conn
  BY <1>1 DEF Keys, Own
<1>7. up' = Sent(fe.conn, ms) /\ fe'.pending = Tail(q)
  BY <1>1
<1> HIDE DEF m, h, q
<1>8. /\ ms \in Seq(Message) /\ Len(ms) = 1 /\ DOMAIN ms = {1} /\ ms[1] = m
  BY SMTT(30), <1>4
<1> HIDE DEF ms
<1>9. fe.conn # 0 /\ link[fe.conn] = "open" => se.peer = fe.conn /\ up'[fe.conn] = up[fe.conn] \o ms
  <2>1. \A i \in DOMAIN ms : ms[i].type # "hello"
    BY <1>4, <1>8
  <2>2. fe'.gen >= fe.gen
    BY <1>1, <1>2
  <2> QED  BY <1>1, <1>3, <1>7, <1>8, <2>1, <2>2, LinksSend
<1>10. m.typed = fe.conn /\ m.n <= fe.typed
         /\ (\A k \in DOMAIN delivered : delivered[k].n < m.n)
         /\ (\A k \in DOMAIN Heard : Heard[k].type = "key" => Heard[k].n < m.n)
  BY <1>4, <1>5, <1>6 DEF Waiting
<1>11. \A k \in DOMAIN Tail(q) : m.n < Tail(q)[k].n
  <2>1. ASSUME NEW k \in DOMAIN Tail(q)  PROVE k + 1 \in DOMAIN q /\ Tail(q)[k] = q[k + 1] /\ 1 < k + 1
    BY <1>5
  <2> QED  BY <1>4, <1>5, <1>6, <2>1 DEF Waiting
<1>12. Waiting(Tail(q), Heard, delivered, fe.typed)
  <2>1. ASSUME NEW i \in DOMAIN Tail(q), NEW j \in DOMAIN Tail(q), i < j  PROVE i + 1 < j + 1
    BY <1>5, <2>1
  <2> QED  BY <1>5, <1>6, <2>1 DEF Waiting
<1>13. Own'
  <2>1. \A i \in DOMAIN Tail(q) : Tail(q)[i].typed = fe.conn
    BY <1>5, <1>6
  <2> QED  BY <1>1, <1>3, <1>7, <2>1 DEF Own
<1>14. /\ \A i \in DOMAIN ms : ms[i].type \in Gens => ms[i].gen = fe'.gen
       /\ \A i \in DOMAIN ms : ms[i].type \in Inputs => fe.id < ms[i].id /\ ms[i].id <= fe'.id /\ Len(ms) = 1
       /\ \A i \in DOMAIN ms : ms[i].type \notin Views /\ ms[i].type \notin Acks
  BY <1>1, <1>2, <1>4, <1>8 DEF Views, Acks
<1>15. \A i \in DOMAIN ms : ms[i].type = "key" =>
           /\ fe.connected /\ Shown /\ ms[i].gen = fe.gen /\ ms[i].typed = fe.conn /\ ms[i].n <= fe'.typed
           /\ \A k \in DOMAIN delivered : delivered[k].n < ms[i].n
           /\ \A k \in DOMAIN Heard : Heard[k].type = "key" => Heard[k].n < ms[i].n
           /\ \A k \in DOMAIN fe'.pending : ms[i].n < fe'.pending[k].n
  BY <1>1, <1>4, <1>7, <1>8, <1>10, <1>11 DEF Shown, SceneReady
<1>16. fe'.id >= fe.id /\ fe'.gen >= fe.gen /\ fe'.typed >= fe.typed
  BY <1>1, <1>2
<1>17. Shown' => Shown
  BY <1>1 DEF Shown
<1>18. Waiting(fe'.pending, Heard, delivered, fe'.typed)
  BY <1>1, <1>7, <1>12
<1> QED  BY <1>1, <1>3, <1>7, <1>8, <1>9, <1>13, <1>14, <1>15, <1>16, <1>17, <1>18, Spoken

\* It answers the terminal.
LEMMA KeysEvent ==
  ASSUME Types, Types', Links, HelloFirst, Keys, TerminalEvent
  PROVE  Keys'
<1>1. /\ UNCHANGED <<app, se, delivered, down>> /\ fe.pc # "stopped" /\ fe'.tried = fe.tried
      /\ EventQuiet \/ EventDeferred \/ EventKey \/ EventResize \/ EventStop
  BY EventEffect
<1>2. /\ fe.id \in Nat /\ fe.gen \in Nat /\ fe.typed \in Nat /\ delivered \in Seq(Given) /\ Heard \in Seq(Message)
      /\ fe.id + 1 \in Nat /\ fe.gen + 1 \in Nat /\ fe.typed + 1 \in Nat
  BY SMTT(30), HeardTypes
<1>3. fe.connected => fe.conn \in Conns /\ fe.conn # 0 /\ fe.conn \in Nat /\ ~Unheard(fe.conn)
  BY Numbers DEF Links, Unheard
<1>4. CASE EventQuiet
  BY <1>1, <1>4, KeysAsBefore DEF EventQuiet, Same
<1>5. CASE EventDeferred
  BY <1>1, <1>3, <1>5, KeysAsBefore DEF EventDeferred, Same
<1>6. CASE EventKey
  <2> DEFINE m == Key(fe.typed + 1, fe.conn)
  <2> DEFINE ms == <<m>>
  <2>1. m \in Message /\ m.type = "key" /\ m.n = fe.typed + 1 /\ m.typed = fe.conn /\ m.gen = fe.gen /\ m.id = fe.id + 1
    BY <1>2, <1>3, <1>6, Sendable DEF Key, SceneReady, EventKey
  <2>2. /\ UNCHANGED link /\ fe.connected /\ SceneReady /\ fe.pending = <<>> /\ fe'.pending = <<>>
        /\ fe'.conn = fe.conn /\ fe'.connected = fe.connected
        /\ fe'.gen = fe.gen /\ fe'.id = fe.id + 1 /\ fe'.shown = fe.shown /\ fe'.typed = fe.typed + 1
        /\ up' = Sent(fe.conn, ms)
    BY <1>6 DEF EventKey, Same
  <2> HIDE DEF m
  <2>3. ms \in Seq(Message) /\ Len(ms) = 1 /\ DOMAIN ms = {1} /\ ms[1] = m
    BY <2>1
  <2> HIDE DEF ms
  <2>4. fe.conn # 0 /\ link[fe.conn] = "open" => se.peer = fe.conn /\ up'[fe.conn] = up[fe.conn] \o ms
    <3>1. \A i \in DOMAIN ms : ms[i].type # "hello"
      BY <2>1, <2>3
    <3>2. fe'.gen >= fe.gen
      BY <1>2, <2>2
    <3> QED  BY <1>1, <1>3, <2>2, <2>3, <3>1, <3>2, LinksSend
  <2>5. /\ \A k \in DOMAIN delivered : delivered[k].n < m.n
        /\ \A k \in DOMAIN Heard : Heard[k].type = "key" => Heard[k].n < m.n
    <3>0. InOrder(Heard, se.peer, delivered, fe.typed)
      BY DEF Keys, Flow, Stream
    <3>1. \A k \in DOMAIN delivered : delivered[k].n \in Nat /\ delivered[k].n <= fe.typed
      <4>1. \A k \in DOMAIN delivered : delivered[k] \in Given
        BY <1>2, Entries
      <4> QED  BY <3>0, <4>1 DEF Given, InOrder
    <3>2. \A k \in DOMAIN Heard : Heard[k].type = "key" => Heard[k].n \in Nat /\ Heard[k].n <= fe.typed
      <4>1. \A k \in DOMAIN Heard : Heard[k].type = "key" => Heard[k].n \in Nat
        BY <1>2, GenOf
      <4> QED  BY <3>0, <4>1 DEF InOrder
    <3> QED  BY <1>2, <2>1, <3>1, <3>2
  <2>6. /\ \A i \in DOMAIN ms : ms[i].type \in Gens => ms[i].gen = fe'.gen
        /\ \A i \in DOMAIN ms : ms[i].type \in Inputs => fe.id < ms[i].id /\ ms[i].id <= fe'.id /\ Len(ms) = 1
        /\ \A i \in DOMAIN ms : ms[i].type \notin Views /\ ms[i].type \notin Acks
    BY <1>2, <2>1, <2>2, <2>3 DEF Views, Acks
  <2>7. m.n <= fe'.typed /\ DOMAIN fe'.pending = {}
    BY <1>2, <2>1, <2>2
  <2>8. \A i \in DOMAIN ms : ms[i].type = "key" =>
           /\ fe.connected /\ Shown /\ ms[i].gen = fe.gen /\ ms[i].typed = fe.conn /\ ms[i].n <= fe'.typed
           /\ \A k \in DOMAIN delivered : delivered[k].n < ms[i].n
           /\ \A k \in DOMAIN Heard : Heard[k].type = "key" => Heard[k].n < ms[i].n
           /\ \A k \in DOMAIN fe'.pending : ms[i].n < fe'.pending[k].n
    BY <2>1, <2>2, <2>3, <2>5, <2>7 DEF Shown, SceneReady
  <2>9. fe'.id >= fe.id /\ fe'.gen >= fe.gen /\ fe'.typed >= fe.typed
    BY SMTT(30), <1>2, <2>2
  <2>10. Shown' => Shown
    BY <2>2 DEF Shown
  <2>11. Waiting(fe'.pending, Heard, delivered, fe'.typed) /\ Own'
    BY <2>7 DEF Waiting, Own
  <2> QED  BY <1>1, <1>3, <2>2, <2>3, <2>4, <2>6, <2>8, <2>9, <2>10, <2>11, Spoken
<1>7. CASE EventResize
  <2>1. /\ UNCHANGED link /\ fe'.pending = fe.pending /\ fe'.shown = None
        /\ fe'.conn = fe.conn /\ fe'.connected = fe.connected
        /\ fe'.gen = fe.gen + 1 /\ fe'.typed = fe.typed
        /\ \/ fe.connected /\ fe'.id = fe.id + 1 /\ up' = Sent(fe.conn, <<ResizeTo(fe.gen + 1)>>)
           \/ ~fe.connected /\ fe'.id = fe.id /\ up' = up
    BY <1>7 DEF EventResize, Same
  <2>2. fe'.id >= fe.id /\ fe'.gen >= fe.gen /\ fe'.typed >= fe.typed
    BY <1>2, <2>1
  <2>3. Waiting(fe'.pending, Heard, delivered, fe'.typed) /\ Own'
    BY <1>1, <2>1 DEF Keys, Own
  <2>4. CASE ~fe.connected
    <3>1. Heard' = Heard /\ CutOf(Heard, Heard) /\ ~Attached'
      BY <1>1, <2>1, <2>4 DEF Heard, CutOf, Attached
    <3> QED  BY <1>1, <2>1, <2>2, <2>3, <3>1, NothingSaid
  <2>5. CASE fe.connected
    <3> DEFINE m == ResizeTo(fe.gen + 1)
    <3> DEFINE ms == <<m>>
    <3>1. m \in Message /\ m.type = "resize" /\ m.gen = fe.gen + 1 /\ m.id = fe.id + 1
      BY <1>2, Sendable DEF ResizeTo
    <3>2. up' = Sent(fe.conn, ms) /\ fe'.id = fe.id + 1
      BY <2>1, <2>5
    <3> HIDE DEF m
    <3>3. ms \in Seq(Message) /\ Len(ms) = 1 /\ DOMAIN ms = {1} /\ ms[1] = m
      BY <3>1
    <3> HIDE DEF ms
    <3>4. fe.conn # 0 /\ link[fe.conn] = "open" => se.peer = fe.conn /\ up'[fe.conn] = up[fe.conn] \o ms
      <4>1. \A i \in DOMAIN ms : ms[i].type # "hello"
        BY <3>1, <3>3
      <4> QED  BY <1>1, <1>3, <2>1, <2>2, <2>5, <3>2, <3>3, <4>1, LinksSend
    <3>5. /\ \A i \in DOMAIN ms : ms[i].type \in Gens => ms[i].gen = fe'.gen
          /\ \A i \in DOMAIN ms : ms[i].type \in Inputs => fe.id < ms[i].id /\ ms[i].id <= fe'.id /\ Len(ms) = 1
          /\ \A i \in DOMAIN ms : ms[i].type # "key"
          /\ \E i \in DOMAIN ms : ms[i].type \in Views
      BY <1>2, <2>1, <3>1, <3>2, <3>3 DEF Views
    <3>6. ~(Shown' /\ fe'.connected)
      BY <2>1 DEF Shown
    <3> QED  BY <1>1, <1>3, <2>1, <2>2, <2>3, <2>5, <3>2, <3>3, <3>4, <3>5, <3>6, Spoken
  <2> QED  BY <2>4, <2>5
<1>8. CASE EventStop
  <2>1. /\ fe'.conn = 0 /\ ~fe'.connected /\ fe.connected /\ fe'.pc = "stopped"
        /\ fe'.gen = fe.gen /\ fe'.id = fe.id /\ fe'.shown = fe.shown
        /\ fe'.typed = fe.typed + 1 /\ fe'.pending = fe.pending
        /\ IF link[fe.conn] = "open" THEN link' = CutLink(link, fe.conn) /\ CutUp(fe.conn)
                                     ELSE UNCHANGED <<link, up>>
    BY <1>8 DEF EventStop
  <2>2. CASE link[fe.conn] = "open"
    BY <1>1, <1>3, <2>1, <2>2, KeysCut
  <2>3. CASE link[fe.conn] # "open"
    BY <1>1, <2>1, <2>3, KeysAsBefore
  <2> QED  BY <2>2, <2>3
<1> QED  BY <1>1, <1>4, <1>5, <1>6, <1>7, <1>8

LEMMA KeysKeptStep ==
  ASSUME Types, Types', Links, HelloFirst, Drains, OnlyOurs, Keys, Next
  PROVE  Keys'
<1>1. CASE Work \/ RenderTake \/ RenderPut \/ \E c \in Conns : Read(c)
  <2>1. UNCHANGED <<se, up, link, fe, delivered>>
    BY <1>1 DEF Work, RenderTake, RenderPut, Read
  <2> QED  BY <2>1, KeysAsBefore
<1>2. CASE AskToggle \/ Paint \/ \E c \in Conns : Write(c)
  <2>1. /\ UNCHANGED <<up, link, fe, delivered>>
        /\ se'.peer = se.peer /\ se'.view = se.view /\ se'.last = se.last /\ se'.target = se.target
    BY <1>2, SendEffect
  <2> QED  BY <2>1, KeysAsBefore
<1>3. ASSUME NEW c \in Conns, Receive(c)  PROVE Keys'
  <2>1. up[c] # <<>>
    BY <1>3 DEF Receive
  <2>2. CASE Attach(c, Head(up[c]))
    BY <2>1, <2>2, KeysAttach
  <2>3. CASE ~Attach(c, Head(up[c]))
    BY <1>3, <2>3, KeysRead
  <2> QED  BY <2>2, <2>3
<1>4. ASSUME NEW c \in Conns, Lose(c)  PROVE Keys'
  <2>1. link' = CutLink(link, c) /\ CutUp(c) /\ UNCHANGED <<se, delivered, fe>> /\ link[c] = "open"
    BY <1>4 DEF Lose
  <2>2. c = fe.conn /\ (fe'.connected => fe'.conn # 0)
    BY <2>1 DEF Links
  <2> QED  BY <2>1, <2>2, KeysCut
<1>5. CASE TakeFrame
  <2>1. /\ UNCHANGED <<se, delivered, up, link>> /\ fe.pc = "controls"
        /\ fe'.conn = fe.conn /\ fe'.connected = fe.connected /\ fe'.gen = fe.gen /\ fe'.id = fe.id
        /\ fe'.typed = fe.typed /\ fe'.shown = fe.shown /\ fe'.pending = fe.pending
    BY <1>5, TakeEffect
  <2> QED  BY <2>1, KeysAsBefore
<1>6. CASE Dead
  <2>1. /\ UNCHANGED <<se, delivered>> /\ fe.pc = "link" /\ fe.conn \in Conns
        /\ fe'.conn = 0 /\ ~fe'.connected /\ fe'.gen = fe.gen /\ fe'.id = fe.id
        /\ fe'.typed = fe.typed /\ fe'.shown = None /\ fe'.pending = <<>>
        /\ IF link[fe.conn] = "open" THEN link' = CutLink(link, fe.conn) /\ CutUp(fe.conn)
                                     ELSE UNCHANGED <<link, up>>
    BY <1>6, DeadEffect
  <2>2. CASE link[fe.conn] = "open"
    BY <2>1, <2>2, KeysCut
  <2>3. CASE link[fe.conn] # "open"
    BY <2>1, <2>3, KeysAsBefore
  <2> QED  BY <2>2, <2>3
<1> QED  BY <1>1, <1>2, <1>3, <1>4, <1>5, <1>6, KeysHandle, KeysShow, KeysReconnect, KeysDispatch, KeysEvent
         DEF Next, Frontend

----------------------------------------------------------------------------
(* The invariant, and what follows from it. *)

LEMMA TypesKept ==
  ASSUME Types, Links, Drains, Next
  PROVE  Types'
BY SessionTypes, ThreadTypes, FrontTypes DEF Next

LEMMA KeyInvInit == Init => KeyInv
<1> SUFFICES ASSUME Init  PROVE KeyInv
  OBVIOUS
<1> USE PresentationAssumption
<1>1. PICK gen \in {0, 1} :
        se = [peer |-> 0, view |-> gen, scene |-> [rev |-> 1, gen |-> gen, content |-> 1],
              attached |-> TRUE, dirty |-> FALSE, budget |-> None, last |-> 0, target |-> None,
              history |-> {[rev |-> 1, gen |-> gen, content |-> 1]}]
  BY DEF Init
<1>2. /\ app = [content |-> 1, toggles |-> 0] /\ delivered = <<>> /\ paint = NoPaint
      /\ up = [c \in Conns |-> IF c = 1 THEN <<[type |-> "hello", gen |-> 1]>> ELSE <<>>]
      /\ down = [c \in Conns |-> NoChannels]
      /\ link = [c \in Conns |-> IF c = 1 THEN "open" ELSE "new"]
      /\ fe = [conn |-> 1, tried |-> 1, connected |-> FALSE, known |-> FALSE, gen |-> 1, hello |-> 1,
               last |-> None, shown |-> None, pixels |-> Pixels, pending |-> <<>>, id |-> 0,
               typed |-> 0, resizes |-> 0, hovers |-> 0, pc |-> "controls", todo |-> 0]
  BY DEF Init
<1>3. /\ fe.conn = 1 /\ fe.tried = 1 /\ ~fe.connected /\ fe.gen = 1 /\ fe.last = None /\ fe.shown = None
      /\ fe.pending = <<>> /\ fe.id = 0 /\ fe.typed = 0 /\ fe.pc = "controls" /\ fe.todo = 0
  BY <1>2
<1>4. /\ se.peer = 0 /\ se.view \in {0, 1} /\ se.last = 0 /\ se.target = None
  BY <1>1
<1>5. 1 \in Conns /\ Conns \subseteq Nat
  BY DEF Conns
<1>6. Types
  <2>1. None \in Opt(Scene) /\ None \in Opt(Shots)
    BY DEF Opt
  <2>2. app \in [content : 1 .. MaxContent, toggles : 0 .. MaxToggles]
    <3>1. 1 \in 1 .. MaxContent /\ 0 \in 0 .. MaxToggles
      OBVIOUS
    <3> QED  BY <1>2, <3>1
  <2>3. se \in Session
    <3>1. 0 \in 0 .. MaxConns /\ gen \in Nat /\ [rev |-> 1, gen |-> gen, content |-> 1] \in Scene
      BY <1>1 DEF Scene
    <3> QED  BY <1>1, <2>1, <3>1 DEF Session
  <2>4. fe \in Client
    <3>1. 1 \in 0 .. MaxConns /\ <<>> \in Seq([n : Nat, typed : Nat])
      OBVIOUS
    <3> QED  BY <1>2, <1>5, <2>1, <3>1 DEF Client
  <2>5. paint \in Renderer
    <3>1. <<>> \in Seq(Scene)
      OBVIOUS
    <3> QED  BY <1>2, <2>1, <3>1 DEF NoPaint, Renderer
  <2>6. up \in [Conns -> Seq(Message)]
    <3>1. [type |-> "hello", gen |-> 1] \in Message
      BY DEF Message
    <3>2. <<[type |-> "hello", gen |-> 1]>> \in Seq(Message) /\ <<>> \in Seq(Message)
      BY <3>1
    <3> QED  BY <1>2, <3>2
  <2>7. down \in [Conns -> Channel]
    <3>1. <<>> \in Seq(Control) /\ <<>> \in Seq(Control \cup Carried)
      OBVIOUS
    <3> QED  BY <1>2, <2>1, <3>1 DEF NoChannels, Channel
  <2>8. link \in [Conns -> {"new", "open", "cut"}] /\ delivered \in Seq(Given)
    BY <1>2
  <2> QED  BY <2>2, <2>3, <2>4, <2>5, <2>6, <2>7, <2>8 DEF Types
<1>7. /\ \A c \in Conns : down[c] = NoChannels
      /\ \A c \in Conns : c # 1 => up[c] = <<>> /\ link[c] # "open"
      /\ up[1] = <<[type |-> "hello", gen |-> 1]>>
  BY <1>2, <1>5
<1>8. Len(up[1]) = 1 /\ DOMAIN up[1] = {1} /\ up[1][1] = [type |-> "hello", gen |-> 1]
  BY <1>7
<1>9. Bounds
  BY <1>2, <1>3, <1>7 DEF Bounds, NoChannels, NoPaint
<1>10. Links
  <2>1. fe.conn <= fe.tried /\ se.peer <= fe.tried /\ (fe.connected => fe.conn # 0)
    BY <1>3, <1>4
  <2>2. ASSUME NEW c \in Conns, c > fe.tried  PROVE up[c] = <<>> /\ down[c] = NoChannels
    <3>1. c # 1
      BY <1>3, <1>5, <2>2
    <3> QED  BY <1>7, <3>1
  <2>3. ASSUME NEW c \in Conns, link[c] = "open"  PROVE c = fe.conn /\ Unheard(c)
    <3>1. c = 1
      BY <1>7, <2>3
    <3>2. up[1][1].type = "hello" /\ down[1] = NoChannels
      BY <1>5, <1>7, <1>8
    <3>3. Unheard(1)
      BY <1>3, <1>8, <3>2 DEF Unheard
    <3> QED  BY <1>3, <3>1, <3>3
  <2> QED  BY <2>1, <2>2, <2>3 DEF Links
<1>11. HelloFirst
  <2>1. ASSUME NEW c \in Conns, NEW i \in DOMAIN up[c]
        PROVE  c = 1 /\ i = 1 /\ up[c][i].gen <= fe.gen
    BY <1>3, <1>7, <1>8
  <2> QED  BY <1>4, <1>8, <2>1 DEF HelloFirst
<1>12. Drains
  BY <1>3, <1>5, <1>7 DEF Drains, NoChannels
<1>13. OnlyOurs
  <2>1. ASSUME NEW c \in Conns, NEW i \in DOMAIN up[c]  PROVE up[c][i].type # "presented"
    BY <1>7, <1>8
  <2> QED  BY <1>2, <1>3, <1>7, <2>1 DEF OnlyOurs, Ours, NoChannels, NoPaint
<1>14. Keys
  <2>1. Heard = <<>> /\ Seen = 0
    BY <1>4 DEF Heard, Seen
  <2>2. Flow
    <3>1. Numbered(<<>>, 0, 0) /\ InOrder(<<>>, 0, <<>>, 0) /\ Rises(<<>>, Views, se.view, 1)
            /\ KeysReach(<<>>, Views, se.view) /\ Rises(<<>>, Acks, 0, 1) /\ KeysReach(<<>>, Acks, 0)
      BY <1>4 DEF Numbered, InOrder, Rises, KeysReach
    <3> QED  BY <1>2, <1>3, <1>4, <2>1, <3>1 DEF Flow, Stream
  <2>3. Current /\ Own
    BY <1>3 DEF Current, Attached, Own
  <2>4. KeysKept /\ Waiting(fe.pending, Heard, delivered, fe.typed)
    BY <1>2, <1>3 DEF KeysKept, KeysInOrder, NotReplayed, SeenGeometry, Waiting
  <2> QED  BY <2>2, <2>3, <2>4 DEF Keys
<1> QED  BY <1>6, <1>9, <1>10, <1>11, <1>12, <1>13, <1>14 DEF KeyInv

LEMMA KeyInvNext == KeyInv /\ [Next]_vars => KeyInv'
<1> SUFFICES ASSUME KeyInv, [Next]_vars  PROVE KeyInv'
  OBVIOUS
<1>0. Types /\ Bounds /\ Links /\ HelloFirst /\ Drains /\ OnlyOurs /\ Keys
  BY DEF KeyInv
<1>1. CASE Next
  <2>1. Types'
    BY <1>0, <1>1, TypesKept
  <2>2. Links' /\ HelloFirst'
    BY <1>0, <1>1, <2>1, LinksKept
  <2>3. Drains'
    BY <1>0, <1>1, <2>1, DrainsKept
  <2>4. OnlyOurs'
    BY <1>0, <1>1, <2>1, OnlyOursKept
  <2>5. Bounds'
    BY <1>0, <1>1, <2>1, BoundsKept
  <2>6. Keys'
    BY <1>0, <1>1, <2>1, KeysKeptStep
  <2> QED  BY <2>1, <2>2, <2>3, <2>4, <2>5, <2>6 DEF KeyInv
<1>2. CASE UNCHANGED vars
  <2>1. UNCHANGED <<app, se, up, down, link, fe, paint, delivered>>
    BY <1>2 DEF vars
  <2>2. Types' /\ Bounds'
    BY <1>0, <2>1 DEF Types, Bounds
  <2>3. Links' /\ HelloFirst' /\ Drains'
    BY <1>0, <2>1 DEF Links, Unheard, HelloFirst, Drains
  <2>4. OnlyOurs'
    BY <1>0, <2>1 DEF OnlyOurs, Ours
  <2>5. Keys'
    <3>1. Heard' = Heard /\ Seen' = Seen /\ Attached' = Attached /\ Shown' = Shown
      BY <2>1 DEF Heard, Seen, Attached, Shown
    <3>2. Flow' /\ Current' /\ Own'
      BY <1>0, <2>1, <3>1 DEF Keys, Flow, Current, UpToNow, Own
    <3>3. KeysKept'
      BY <1>0, <2>1 DEF Keys, KeysKept, KeysInOrder, NotReplayed, SeenGeometry
    <3> QED  BY <1>0, <2>1, <3>1, <3>2, <3>3 DEF Keys
  <2> QED  BY <2>2, <2>3, <2>4, <2>5 DEF KeyInv
<1> QED  BY <1>1, <1>2

LEMMA KeyInvTypeOK ==
  ASSUME KeyInv
  PROVE  TypeOK
<1>1. Types /\ Bounds
  BY DEF KeyInv
<1>2. /\ app \in [content : 1 .. MaxContent, toggles : 0 .. MaxToggles]
      /\ se.peer \in 0 .. MaxConns /\ se.view \in Nat /\ se.scene \in Scene
      /\ se.budget \in Opt([rev : Nat, gen : Nat]) /\ se.target \in Opt(Scene)
      /\ se.history \subseteq Scene /\ se.last \in Nat
  BY <1>1 DEF Types, Session, Shots
<1>3. \A c \in Conns : /\ link[c] \in {"new", "open", "cut"}
                       /\ Len(down[c].wire) <= WireCap
                       /\ down[c].slot \in Opt(Scene) /\ down[c].frames \in Opt(Scene)
  BY <1>1 DEF Types, Bounds, Channel
<1>4. /\ fe.conn \in 0 .. MaxConns /\ fe.last \in Opt(Scene) /\ fe.shown \in Opt(Scene)
      /\ fe.pc \in {"controls", "output", "link", "input", "stopped"}
      /\ Len(fe.pending) <= KeyCap
  BY <1>1 DEF Types, Bounds, Client
<1>5. /\ paint.input \in Opt(Scene) /\ paint.busy \in Opt(Scene)
      /\ Scenes(paint.output) /\ Len(paint.output) <= 2
  <2>1. \A i \in DOMAIN paint.output : paint.output[i] \in Scene
    BY <1>1 DEF Types, Renderer
  <2> QED  BY <1>1, <2>1 DEF Types, Bounds, Renderer, Scenes
<1> QED  BY <1>2, <1>3, <1>4, <1>5 DEF TypeOK

LEMMA KeyInvAlways == Spec => []KeyInv
BY KeyInvInit, KeyInvNext, PTL DEF Spec

\* However many connections, resizes, switches and keys there are, the wire holds
\* at most what the socket buffers, at most KeyCap keys wait and at most two
\* finished frames do (PendingKeyboard, RendererWorker), and the frontend's
\* connection is one that was dialled.
THEOREM TypeAlwaysOK == Spec => []TypeOK
<1>1. KeyInv => TypeOK
  BY KeyInvTypeOK
<1> QED  BY <1>1, KeyInvAlways, PTL

\* Whatever the resizes, switches, losses and takeovers between, each key the
\* application gets was typed after all those it got before, into the attachment
\* it comes from, and in the geometry the session knows by then to be the
\* frontend's and to have been on its terminal.
THEOREM KeysAlwaysKept == Spec => []KeysKept
<1>1. KeyInv => KeysKept
  BY DEF KeyInv, Keys
<1> QED  BY <1>1, KeyInvAlways, PTL
=============================================================================
