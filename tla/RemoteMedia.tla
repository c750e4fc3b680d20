---------------------------- MODULE RemoteMedia ----------------------------
(***************************************************************************)
(* A movie of the host played by the frontend of another machine           *)
(* (media_runtime.rs, original.rs): the worker that encodes a preview      *)
(* against the credit of the receiver, or reads the blocks of the original *)
(* that the receiver asks for; the media channel of a connection and its   *)
(* writer (session.rs); the frontend's receiver.                           *)
(*                                                                         *)
(* A seek, another track or another quality restarts the movie under the   *)
(* next generation while messages of the last one are still on their way.  *)
(* A chunk or a block is a number; the wire is in order.                   *)
(***************************************************************************)
EXTENDS Naturals, Sequences, FiniteSets

CONSTANTS Blocks,      \* length of the movie
          Window,      \* chunks of WINDOW bytes, and room of the receiver's queue (8)
          InFlight,    \* blocks asked for and not yet come (8)
          MediaRoom,   \* the connection's media channel, and the worker's queue (8)
          WireRoom, OutRoom,   \* messages on the way to the frontend and back
          Switches,    \* whether the user changes between preview and original
          MaxRestarts, MaxFailures

RemoteMediaAssumption ==
  /\ {Blocks, Window, InFlight} \subseteq Nat \ {0} /\ MediaRoom \in Nat \ {0, 1}
  /\ InFlight <= MediaRoom /\ {WireRoom, OutRoom} \subseteq Nat \ {0}
  /\ Switches \in BOOLEAN /\ {MaxRestarts, MaxFailures} \subseteq Nat

VARIABLES host,    \* Host: generation, mode, worker, its credit, queue and requests
          media,   \* Peer.media, and whether a message found it full
          toFront, \* Peer.control, and the messages on the wire
          front,   \* Frontend.active and pending_control; whether an error ended it
          toHost   \* messages of the frontend on their way to the host

remoteVars == <<host, media, toFront, front, toHost>>

Message(kind, g, n) == [kind |-> kind, gen |-> g, n |-> n]
Elems(s) == {s[i] : i \in DOMAIN s}
Failures == host.failures < MaxFailures

----------------------------------------------------------------------------
(* Host. *)

\* restart: the old worker is cancelled; a preview is opened by an effect, an original by
\* its worker.
Restarted(g, m, failures) ==
  [gen |-> g, mode |-> m, control |-> (IF m = "proxy" THEN <<Message("open", g, 0)>> ELSE <<>>)
                                      \o <<Message("control", g, 0)>>,
   worker |-> "start", next |-> 1, credit |-> 0, queue |-> <<>>, reads |-> <<>>,
   over |-> FALSE, failures |-> failures]
Restart(m) == /\ host.gen <= MaxRestarts /\ (Switches \/ m = host.mode)
              /\ host' = Restarted(host.gen + 1, m, host.failures)
              /\ UNCHANGED <<media, toFront, front, toHost>>

Queued(m) == Len(host.queue) < MediaRoom /\ host' = [host EXCEPT !.queue = Append(@, m)]

\* Writer.send: a chunk waits for credit, then for room.
Encode == /\ host.mode = "proxy" /\ host.worker = "start"
          /\ host.credit > 0 /\ host.next <= Blocks /\ Len(host.queue) < MediaRoom
          /\ host' = [host EXCEPT !.credit = @ - 1, !.next = @ + 1,
                                  !.queue = Append(@, Message("chunk", host.gen, host.next))]
EncodeEnd == /\ host.mode = "proxy" /\ host.worker = "start" /\ host.next > Blocks
             /\ Len(host.queue) < MediaRoom
             /\ host' = [host EXCEPT !.worker = "ended",
                                     !.queue = Append(@, Message("eof", host.gen, 0))]
\* The original's worker says what it opened, then answers requests.
OpenOriginal == /\ host.mode = "original" /\ host.worker = "start" /\ Len(host.queue) < MediaRoom
                /\ host' = [host EXCEPT !.worker = "serves",
                                        !.queue = Append(@, Message("original", host.gen, 0))]
Serve == /\ host.worker = "serves" /\ host.reads # <<>> /\ Len(host.queue) < MediaRoom
         /\ host' = [host EXCEPT !.reads = Tail(@),
                                 !.queue = Append(@, Message("range", host.gen, Head(host.reads)))]
Fail == /\ Failures /\ host.worker \in {"start", "serves"} /\ Len(host.queue) < MediaRoom
        /\ host.worker = "serves" => host.reads # <<>>
        /\ host' = [host EXCEPT !.worker = "ended", !.failures = @ + 1,
                                !.queue = Append(@, Message("error", host.gen, 0))]
        /\ UNCHANGED <<media, toFront, front, toHost>>
Worker == /\ Encode \/ EncodeEnd \/ OpenOriginal \/ Serve
          /\ UNCHANGED <<media, toFront, front, toHost>>

\* The session takes the effects, and moves what the worker has queued to the media
\* channel while that has room for two; an original's burst is as long as its queue.
Effects == /\ host.control # <<>>
           /\ host' = [host EXCEPT !.control = <<>>]
           /\ toFront' = [toFront EXCEPT !.control = @ \o host.control]
           /\ UNCHANGED <<media, front, toHost>>

Burst == IF host.mode = "original" THEN MediaRoom ELSE 2
Drain ==
  /\ host.queue # <<>> /\ Len(media.queue) + 2 <= MediaRoom
  /\ LET n == IF Len(host.queue) < Burst THEN Len(host.queue) ELSE Burst
         all == media.queue \o SubSeq(host.queue, 1, n) IN
     /\ host' = [host EXCEPT !.queue = SubSeq(@, n + 1, Len(@))]
     /\ media' = [queue |-> SubSeq(all, 1, IF Len(all) < MediaRoom THEN Len(all) ELSE MediaRoom),
                  lost |-> media.lost \/ Len(all) > MediaRoom]
  /\ UNCHANGED <<toFront, front, toHost>>

\* The writer sends controls before media.
Write == /\ Len(toFront.wire) < WireRoom
         /\ IF toFront.control # <<>>
            THEN /\ toFront' = [control |-> Tail(toFront.control),
                                wire |-> Append(toFront.wire, Head(toFront.control))]
                 /\ UNCHANGED media
            ELSE /\ media.queue # <<>>
                 /\ toFront' = [toFront EXCEPT !.wire = Append(@, Head(media.queue))]
                 /\ media' = [media EXCEPT !.queue = Tail(@)]
         /\ UNCHANGED <<host, front, toHost>>

\* receive: what is not of this generation is old.
\* (mutant) it counts
CurrentAny(m) == TRUE
Current(m) == m.gen = host.gen
HostReceive ==
  /\ toHost # <<>> /\ toHost' = Tail(toHost)
  /\ LET m == Head(toHost) IN
     host' = IF ~Current(m) THEN host
             ELSE IF m.kind = "read"
             THEN IF host.mode = "original" /\ Len(host.reads) < InFlight
                  THEN [host EXCEPT !.reads = Append(@, m.n)] ELSE host
             ELSE IF m.kind = "credit"
             THEN [host EXCEPT !.credit = IF @ + m.n < Window THEN @ + m.n ELSE Window]
             ELSE [host EXCEPT !.over = TRUE]
  /\ UNCHANGED <<media, toFront, front>>

----------------------------------------------------------------------------
(* Frontend. *)

Room == Len(toHost) < OutRoom
Opened(m) == [gen |-> m.gen, original |-> m.kind = "original", got |-> <<>>, input |-> 0,
              asked |-> {}, credit |-> 0, eof |-> FALSE, pending |-> front.pending,
              starved |-> FALSE, dead |-> FALSE]
NoMovie == [Opened(Message("", 0, 0)) EXCEPT !.pending = front.pending]

FrontOpen(m) ==
  /\ m.kind \in {"open", "original"}
  /\ front' = [Opened(m) EXCEPT !.starved = m.kind = "open" /\ ~Room]
  /\ toHost' = IF m.kind = "open" /\ Room THEN Append(toHost, Message("credit", m.gen, Window))
               ELSE toHost
FrontChunk(m) ==
  /\ m.kind = "chunk"
  /\ front' = IF m.gen # front.gen THEN front
              ELSE IF front.input = Window THEN [front EXCEPT !.dead = TRUE]
              ELSE [front EXCEPT !.input = @ + 1, !.got = Append(@, m.n)]
  /\ UNCHANGED toHost
FrontRange(m) ==
  /\ m.kind = "range"
  /\ front' = IF m.gen # front.gen THEN front
              ELSE IF m.n \notin front.asked THEN [front EXCEPT !.dead = TRUE]
              ELSE [front EXCEPT !.asked = @ \ {m.n}, !.got = Append(@, m.n)]
  /\ UNCHANGED toHost
FrontEof(m) ==
  /\ m.kind = "eof"
  /\ front' = [front EXCEPT !.eof = @ \/ m.gen = front.gen]
  /\ UNCHANGED toHost
FrontControl(m) ==
  /\ m.kind = "control" /\ front' = [front EXCEPT !.pending = m.gen] /\ UNCHANGED toHost
\* Without a movie, the failure of the one that was announced counts.
FrontError(m) ==
  /\ m.kind = "error"
  /\ IF m.gen = (IF front.gen = 0 THEN front.pending ELSE front.gen)
     THEN /\ front' = NoMovie
          /\ toHost' = IF Room THEN Append(toHost, Message("over", m.gen, 0)) ELSE toHost
     ELSE UNCHANGED <<front, toHost>>

FrontReceive ==
  /\ toFront.wire # <<>> /\ ~front.dead
  /\ toFront' = [toFront EXCEPT !.wire = Tail(@)]
  /\ LET m == Head(toFront.wire) IN
     FrontOpen(m) \/ FrontChunk(m) \/ FrontRange(m) \/ FrontEof(m) \/ FrontControl(m) \/ FrontError(m)
  /\ UNCHANGED <<host, media>>

\* The decoder takes a chunk; the next tick gives its credit back.
\* (mutant) the credit is kept
ConsumeKeeping == /\ front.input > 0 /\ ~front.dead
                  /\ front' = [front EXCEPT !.input = @ - 1]
                  /\ UNCHANGED <<host, media, toFront, toHost>>
Consume == /\ front.input > 0 /\ ~front.dead
           /\ front' = [front EXCEPT !.input = @ - 1, !.credit = @ + 1]
           /\ UNCHANGED <<host, media, toFront, toHost>>
GiveCredit == /\ front.credit > 0 /\ Room /\ ~front.dead
              /\ toHost' = Append(toHost, Message("credit", front.gen, front.credit))
              /\ front' = [front EXCEPT !.credit = 0]
              /\ UNCHANGED <<host, media, toFront>>

\* Source.request, in the order of the blocks ahead of the reader.
Missing == (1 .. Blocks) \ (Elems(front.got) \cup front.asked)
\* (mutant) one more
MayAskMore == Cardinality(front.asked) <= InFlight
MayAsk == Cardinality(front.asked) < InFlight
AskBlock == /\ front.original /\ ~front.dead /\ Missing # {} /\ MayAsk /\ Room
            /\ \E n \in Missing :
                 /\ \A k \in Missing : n <= k
                 /\ front' = [front EXCEPT !.asked = @ \cup {n}]
                 /\ toHost' = Append(toHost, Message("read", front.gen, n))
            /\ UNCHANGED <<host, media, toFront>>
----------------------------------------------------------------------------
RemoteInit ==
  /\ \E m \in {"proxy", "original"} : host = Restarted(1, m, 0)
  /\ media = [queue |-> <<>>, lost |-> FALSE]
  /\ toFront = [control |-> <<>>, wire |-> <<>>]
  /\ front = [gen |-> 0, original |-> FALSE, got |-> <<>>, input |-> 0, asked |-> {}, credit |-> 0,
              eof |-> FALSE, pending |-> 0, starved |-> FALSE, dead |-> FALSE]
  /\ toHost = <<>>

RemoteNext == (\E m \in {"proxy", "original"} : Restart(m)) \/ Worker \/ Fail \/ Effects \/ Drain \/ Write
              \/ HostReceive \/ FrontReceive \/ Consume \/ GiveCredit \/ AskBlock

----------------------------------------------------------------------------
(* Properties. *)

\* "Media receiver exceeded its credit window" and "Unrequested original media range"
\* end the frontend: no series of restarts leads to them.
WindowHeld == ~front.dead

\* A message that finds the media channel full is dropped without a word; a block that is
\* dropped stays asked for.  The burst and the window leave no room for that.
NoneDropped == ~media.lost

\* What the decoder gets is the movie from its start, without a gap or another
\* generation's chunk.
InMovieOrder == ~front.original => \A i \in DOMAIN front.got : front.got[i] = i

\* When the seeks are over, all of the last movie arrives.  (Excepted: a failure; and a
\* first credit that found the frontend's queue full, which is not sent again.)
Complete == front.gen = host.gen /\ Elems(front.got) = 1 .. Blocks
Arrived == Complete \/ host.failures > 0 \/ front.starved
MovieArrives == []<>Arrived
=============================================================================
