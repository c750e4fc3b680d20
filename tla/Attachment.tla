----------------------------- MODULE Attachment -----------------------------
(***************************************************************************)
(* Who is attached to a session, and what the session owes it: the loop of *)
(* serve_with_policy in session.rs with its candidates, the controls of    *)
(* one peer, the effects of the application, and opening links on the      *)
(* attaching computer (frontend_actions.rs on both sides).                 *)
(*                                                                         *)
(* A turn of the loop looks at the candidates, takes as many messages of   *)
(* the peer as there is room for replies, handles them, then sends what    *)
(* the application wants done.  A connection is a socket with its reader   *)
(* and writer threads; it may be a frontend's or a probe's.  Scenes,       *)
(* frames and media of the peer are the subject of other modules; here     *)
(* their controls only take room (Fill).                                   *)
(***************************************************************************)
EXTENDS Naturals, Sequences, SequencesExt, FiniteSets

CONSTANTS Windows,        \* frontends, each with a client name of its own
          Probe,          \* the owner of a connection that says nothing, or nonsense
          Exclusivity,    \* serve_exclusive or serve: whether a second frontend is turned away
          Candidates,     \* 4
          Room,           \* capacity of the control channel (64)
          LinkLimit,      \* LIMIT of requests and of openers (8)
          MaxSockets, MaxLinks,
          MaxEvents       \* inputs, other controls, probes, broken connections and departures

AttachmentAssumption ==
  /\ Exclusivity \subseteq BOOLEAN /\ Candidates \in Nat \ {0} /\ Room \in Nat \ {0}
  /\ LinkLimit \in Nat \ {0} /\ MaxSockets \in Nat /\ MaxLinks \in Nat
  /\ MaxEvents \in Nat /\ Probe \notin Windows

VARIABLES sockets,  \* sequence of connections, oldest first
          loop,     \* the session's loop
          links,    \* Requests of the application and its queued effects
          windows,  \* each frontend's connection and its openers
          opened,   \* history: the connections on which a link was opened, by link
          seen      \* history: a reply found no room; events

attVars == <<sockets, loop, links, windows, opened, seen>>

Socket == 1 .. Len(sockets)
Calm == seen.events < MaxEvents
Count == seen' = [seen EXCEPT !.events = @ + 1]

Peer == IF loop.peer = 0 THEN [hello |-> FALSE, out |-> <<>>, broken |-> FALSE]
        ELSE sockets[loop.peer]
Fresh(w) == [by |-> w, stage |-> "candidate", hello |-> FALSE, in |-> <<>>, out |-> <<>>,
             broken |-> FALSE]
\* The turn's messages are handled and its effects sent, as far as there is room.
TurnOver == /\ loop.batch = <<>> /\ links.queued = <<>>
            /\ loop.effects # <<>> => Peer.broken \/ Len(Peer.out) >= Room
Waiting == {c \in Socket : sockets[c].stage = "candidate"}

\* The writer has failed: nothing more can be posted, and the reader ends.
Post(ss, c, m) == IF ss[c].broken \/ Len(ss[c].out) >= Room THEN ss
                  ELSE [ss EXCEPT ![c].out = Append(@, m)]
Refused(c) == sockets[c].broken \/ Len(sockets[c].out) >= Room
\* Dropping a peer shuts its socket down.
Shut(ss, c) == IF c = 0 THEN ss ELSE [ss EXCEPT ![c].stage = "gone"]

----------------------------------------------------------------------------
(* Requests of the application (frontend_actions::Requests). *)

SetAvailable(l, yes) == IF yes THEN [l EXCEPT !.available = TRUE]
                        ELSE [l EXCEPT !.available = FALSE, !.pending = {}, !.queued = <<>>]
\* open_url, in response to an input of the user.
OpenUrl(l) == IF ~l.available \/ Cardinality(l.pending) >= LinkLimit THEN l
              ELSE [l EXCEPT !.next = @ + 1, !.pending = @ \cup {l.next + 1},
                             !.queued = Append(@, l.next + 1), !.asked = Append(@, loop.peer)]
\* Requests::receive: unknown and repeated replies are ignored.
ReceiveReply(l, m) ==
  IF m.id \notin l.pending THEN l
  ELSE SetAvailable([l EXCEPT !.pending = @ \ {m.id}], ~m.unsupported)

----------------------------------------------------------------------------
(* The session's loop: candidates. *)

\* accept: one more than there is a place for is dropped at once.
Connect(w) ==
  /\ Len(sockets) < MaxSockets
  /\ LET s == [Fresh(w) EXCEPT !.in = IF w = Probe THEN <<>> ELSE <<[type |-> "hello", by |-> w]>>,
                               !.stage = IF Cardinality(Waiting) < Candidates THEN @ ELSE "gone"]
     IN  sockets' = Append(sockets, s)

\* The effects for the peer before are forgotten.
\* (mutant) the new peer gets them
WelcomeKeeping(c) == [loop EXCEPT !.peer = c, !.batch = SubSeq(sockets[c].in, 1, 1)]
Welcome(c) == [loop EXCEPT !.peer = c, !.batch = SubSeq(sockets[c].in, 1, 1), !.effects = <<>>]

Speaks(c) == sockets[c].in # <<>> /\ Head(sockets[c].in).type = "hello"

\* A complete handshake in an exclusive session that has a peer is answered with an error.
TurnedAway == loop.exclusive /\ loop.peer # 0

\* The application hears that a peer that was attached is gone.  Several candidates may
\* speak in one turn: the last one stays.
Promote(c) ==
  /\ TurnOver \/ (loop.batch # <<>> /\ ~Peer.hello)
  /\ c \in Waiting /\ Speaks(c)
  /\ IF TurnedAway
     THEN /\ sockets' = [sockets EXCEPT ![c].stage = "gone", ![c].out = <<[type |-> "error"]>>]
          /\ UNCHANGED <<loop, links>>
     ELSE /\ sockets' = Shut([sockets EXCEPT ![c].stage = "peer", ![c].in = SubSeq(@, 2, Len(@))], loop.peer)
          /\ loop' = Welcome(c)
          /\ links' = IF Peer.hello THEN SetAvailable(links, FALSE) ELSE links
  /\ UNCHANGED <<windows, opened, seen>>

\* Nonsense, an end, or five seconds of silence.
Discard(c) == /\ TurnOver /\ c \in Waiting /\ ~Speaks(c)
              /\ sockets' = Shut(sockets, c)
              /\ UNCHANGED <<loop, links, windows, opened, seen>>

----------------------------------------------------------------------------
(* The session's loop: messages of the peer. *)

\* Peer::incoming: each message may need one reply.
\* (mutant) the room is not looked at
TakesAny == 2
Takes == Room - Len(Peer.out)
Take == /\ loop.peer # 0 /\ TurnOver /\ Peer.in # <<>>
        /\ LET n == IF Len(Peer.in) < Takes THEN Len(Peer.in) ELSE Takes IN
             /\ n > 0
             /\ loop' = [loop EXCEPT !.batch = SubSeq(Peer.in, 1, n)]
             /\ sockets' = [sockets EXCEPT ![loop.peer].in = SubSeq(@, n + 1, Len(@))]
        /\ UNCHANGED <<links, windows, opened, seen>>

\* The peer goes, and the rest of the turn's messages with it.  At the end of this
\* turn what the application wants done is discarded.
Drop(told) ==
  /\ loop' = [loop EXCEPT !.peer = 0, !.batch = <<>>, !.effects = <<>>]
  /\ sockets' = Shut(sockets, loop.peer)
  /\ links' = [(IF told THEN SetAvailable(links, FALSE) ELSE links) EXCEPT !.queued = <<>>]

Handle ==
  /\ loop.batch # <<>>
  /\ LET m == Head(loop.batch)
         c == loop.peer
         next == [loop EXCEPT !.batch = Tail(@)]
     IN
     \/ /\ m.type = "hello" /\ loop' = next
        /\ sockets' = Post([sockets EXCEPT ![c].hello = TRUE], c, [type |-> "hello"])
        /\ links' = SetAvailable(links, TRUE)
        /\ UNCHANGED seen
     \/ /\ m.type = "input"
        /\ seen' = [seen EXCEPT !.reply = @ \/ (Refused(c) /\ ~Peer.broken)]
        /\ IF ~Peer.hello \/ Refused(c) THEN Drop(FALSE)
           ELSE /\ loop' = next /\ sockets' = Post(sockets, c, [type |-> "ack"])
                /\ links' = IF m.link THEN OpenUrl(links) ELSE links
     \/ /\ m.type = "detach" /\ Drop(TRUE) /\ UNCHANGED seen
     \/ /\ m.type = "eof" /\ Drop(Peer.hello) /\ UNCHANGED seen
     \/ /\ m.type = "result" /\ loop' = next
        /\ links' = IF Peer.hello THEN ReceiveReply(links, m) ELSE links
        /\ UNCHANGED <<sockets, seen>>
  /\ UNCHANGED <<windows, opened>>

----------------------------------------------------------------------------
(* The session's loop: what the application wants done. *)

\* It waits for room.
Effects ==
  /\ loop.batch = <<>> /\ loop.peer # 0
  /\ \/ /\ links.queued # <<>>
        /\ links' = [links EXCEPT !.queued = <<>>]
        /\ loop' = [loop EXCEPT !.effects = @ \o links.queued] /\ UNCHANGED sockets
     \/ /\ links.queued = <<>> /\ loop.effects # <<>> /\ ~Refused(loop.peer)
        /\ sockets' = Post(sockets, loop.peer, [type |-> "open", id |-> Head(loop.effects)])
        /\ loop' = [loop EXCEPT !.effects = Tail(@)] /\ UNCHANGED links
  /\ UNCHANGED <<windows, opened, seen>>

\* Other controls: a scene's pictures, closes of canvases.
Fill == /\ loop.peer # 0 /\ TurnOver /\ ~Refused(loop.peer) /\ Calm /\ Count
        /\ sockets' = Post(sockets, loop.peer, [type |-> "other"])
        /\ UNCHANGED <<loop, links, windows, opened>>

----------------------------------------------------------------------------
(* Frontends. *)

Mine(w) == windows[w].conn
Send(w, m) == IF Mine(w) = 0 \/ sockets[Mine(w)].broken THEN sockets
              ELSE [sockets EXCEPT ![Mine(w)].in = Append(@, m)]

Open(w) == /\ Mine(w) = 0 /\ windows[w].alive /\ Connect(w)
           /\ windows' = [windows EXCEPT ![w].conn = Len(sockets) + 1]
           /\ UNCHANGED <<loop, links, opened, seen>>
Poke == Connect(Probe) /\ Calm /\ Count /\ UNCHANGED <<loop, links, windows, opened>>

\* Inputs of the user: the session may be asked to open a link.
Type(w) == /\ windows[w].connected /\ Calm /\ Count
           /\ \E link \in BOOLEAN :
                /\ link => links.next < MaxLinks
                /\ sockets' = Send(w, [type |-> "input", link |-> link])
           /\ UNCHANGED <<loop, links, windows, opened>>
Leave(w) == /\ windows[w].connected /\ Calm /\ Count
            /\ sockets' = Send(w, [type |-> "detach"])
            /\ windows' = [windows EXCEPT ![w].alive = FALSE, ![w].connected = FALSE, ![w].conn = 0]
            /\ UNCHANGED <<loop, links, opened>>

\* Frontend::receive: a number not above the last is ignored; too many openers is busy.
Unread(w, m) == m.id > windows[w].last
Receive(w) ==
  /\ Mine(w) # 0 /\ sockets[Mine(w)].out # <<>>
  /\ LET c == Mine(w)
         m == Head(sockets[c].out)
         read == [sockets EXCEPT ![c].out = Tail(@)]
         busy == Cardinality(windows[w].openers) >= LinkLimit
     IN
     \/ /\ m.type = "hello" /\ sockets' = read /\ UNCHANGED opened
        /\ windows' = [windows EXCEPT ![w].connected = TRUE, ![w].run = @ + 1, ![w].last = 0]
     \/ /\ m.type = "error" /\ sockets' = read /\ UNCHANGED opened
        /\ windows' = [windows EXCEPT ![w].alive = FALSE, ![w].conn = 0, ![w].connected = FALSE]
     \/ /\ m.type \in {"ack", "other"} /\ sockets' = read /\ UNCHANGED <<windows, opened>>
     \/ /\ m.type = "open"
        /\ IF ~windows[w].connected \/ ~Unread(w, m)
           THEN sockets' = read /\ UNCHANGED <<windows, opened>>
           ELSE IF busy
           THEN /\ sockets' = [read EXCEPT ![c].in =
                                 Append(@, [type |-> "result", id |-> m.id, unsupported |-> FALSE])]
                /\ windows' = [windows EXCEPT ![w].last = m.id] /\ UNCHANGED opened
           ELSE /\ windows' = [windows EXCEPT ![w].last = m.id, ![w].openers =
                                 @ \cup {[id |-> m.id, run |-> windows[w].run]}]
                /\ opened' = [opened EXCEPT ![m.id] = Append(@, c)]
                /\ sockets' = read
  /\ UNCHANGED <<loop, links, seen>>

\* Frontend::poll: an opener has ended or two seconds have passed; the answer of an
\* earlier attachment is kept back.
Reap(w) == /\ \E o \in windows[w].openers :
                /\ windows' = [windows EXCEPT ![w].openers = @ \ {o}]
                /\ sockets' = IF o.run = windows[w].run /\ windows[w].connected
                              THEN Send(w, [type |-> "result", id |-> o.id, unsupported |-> FALSE])
                              ELSE sockets
           /\ UNCHANGED <<loop, links, opened, seen>>

\* A connection breaks: what the peer had sent is read, then its end.
Break(c) == /\ ~sockets[c].broken /\ sockets[c].stage # "gone" /\ sockets[c].by # Probe
            /\ Calm /\ Count
            /\ sockets' = [sockets EXCEPT ![c].broken = TRUE,
                                          ![c].in = Append(@, [type |-> "eof"])]
            /\ UNCHANGED <<loop, links, windows, opened>>

\* The frontend notices: ten seconds without an answer, or the end of its relay.
Notice(w) == /\ Mine(w) # 0
             /\ sockets[Mine(w)].broken \/ (sockets[Mine(w)].stage = "gone" /\ sockets[Mine(w)].out = <<>>)
             /\ windows' = [windows EXCEPT ![w].conn = 0, ![w].connected = FALSE, ![w].last = 0,
                                           ![w].run = @ + 1]
             /\ UNCHANGED <<sockets, loop, links, opened, seen>>

----------------------------------------------------------------------------
AttInit ==
  /\ sockets = <<>>
  /\ \E p \in Exclusivity : loop = [peer |-> 0, batch |-> <<>>, effects |-> <<>>, exclusive |-> p]
  /\ links = [available |-> FALSE, next |-> 0, pending |-> {}, queued |-> <<>>, asked |-> <<>>]
  /\ windows = [w \in Windows |-> [alive |-> TRUE, conn |-> 0, connected |-> FALSE, last |-> 0,
                                  run |-> 1, openers |-> {}]]
  /\ opened = [n \in 1 .. MaxLinks |-> <<>>]
  /\ seen = [reply |-> FALSE, events |-> 0]

AttNext ==
  \/ \E c \in Socket : Promote(c) \/ Discard(c) \/ Break(c)
  \/ Take \/ Handle \/ Effects \/ Fill \/ Poke
  \/ \E w \in Windows : Open(w) \/ Type(w) \/ Leave(w) \/ Receive(w) \/ Reap(w) \/ Notice(w)

----------------------------------------------------------------------------
(* Properties. *)

\* "Never replay a request after reconnection": a link is opened once, on the
\* connection it was asked for on, whatever was queued in the session, in its
\* controls or in the application when the connection was lost or taken over.
NoReplay == \A n \in 1 .. MaxLinks :
              /\ Len(opened[n]) <= 1
              /\ \A k \in 1 .. Len(opened[n]) : n <= links.next /\ opened[n][k] = links.asked[n]

\* A reply finds room as long as its connection lives: a burst of inputs never costs
\* the frontend its attachment.
RepliesFit == ~seen.reply

\* An effect and a reply belong to one connection, once.
EffectsKept == NoReplay /\ RepliesFit
=============================================================================
