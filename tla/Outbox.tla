------------------------------- MODULE Outbox -------------------------------
(***************************************************************************)
(* The frontend's ordered input queue (terminal_graphics/input_queue.rs)   *)
(* and the thread of a Connection that writes it to the transport          *)
(* (terminal_graphics/client.rs, Connection::streams).                     *)
(*                                                                         *)
(* The UI thread pushes messages; a push of a pointer or drag position may *)
(* take the place of the queued position it supersedes.  The writer drains *)
(* a bounded batch of media messages and a bounded batch of queued         *)
(* messages, and sleeps in a select over the media channel and the         *)
(* one-token wake channel when it finds nothing pending.  Every operation  *)
(* of the queue runs under one mutex and is one step here; the writer      *)
(* takes one step per lock, channel or transport call.                     *)
(*                                                                         *)
(* A message keeps only what the queue tells apart: its class ("motion"    *)
(* for a coalescible position, "reply" for the bookkeeping messages,       *)
(* "control" for everything else), for a motion the record of family,      *)
(* generation and key, and for a drag hover the MIME offer it carries.     *)
(* The field n numbers the accepted pushes; input ids grow with it.        *)
(***************************************************************************)
EXTENDS Naturals, Sequences, SequencesExt

CONSTANTS Limit,       \* LIMIT, the capacity of the queue
          PopBatch,    \* queued messages written per turn of the writer
          MediaBatch,  \* media messages written per turn of the writer
          MediaCap,    \* capacity of the media channel
          Motions,     \* the positions: records of fam, gen and key
          Hovers,      \* the motions of a drag hover, which carry an offer
          Offers,      \* MIME offers
          None,        \* no motion, no offer
          MaxPush,     \* bound on accepted pushes
          MaxMedia     \* bound on media messages

ASSUME OutboxAssumption ==
  /\ Limit \in Nat \ {0} /\ PopBatch \in Nat /\ MediaBatch \in Nat
  /\ MediaCap \in Nat /\ MaxPush \in Nat /\ MaxMedia \in Nat
  /\ Hovers \subseteq Motions
  /\ None \notin Motions /\ None \notin Offers

VARIABLES queue,    \* State.messages
          closed,   \* State.closed
          wake,     \* the token of the bounded(1) wake channel
          media,    \* messages in the bounded media channel
          disconnected, \* every sender of the media channel is gone
          pc,       \* where the writer thread is
          left,     \* what remains of the writer's batch
          hand,     \* the queued message the writer is writing, if any
          ui,       \* the frontend that owns the Connection
          accepted, \* history: the messages push accepted, as they were given
          sent,     \* history: the queued messages the transport took
          mediaSent \* history: media messages put on the channel so far

vars == <<queue, closed, wake, media, disconnected, pc, left, hand, ui,
          accepted, sent, mediaSent>>
writerVars == <<pc, left, hand, sent>>
mediaVars == <<media, disconnected, mediaSent>>

Classes == {"motion", "reply", "control"}
Message == [class : Classes, motion : Motions \cup {None},
            offer : Offers \cup {None}, n : Nat]

Init ==
  /\ queue = <<>> /\ closed = FALSE /\ wake = FALSE
  /\ media = 0 /\ disconnected = FALSE
  /\ pc = "top" /\ left = 0 /\ hand = <<>> /\ ui = "running"
  /\ accepted = <<>> /\ sent = <<>> /\ mediaSent = 0

-----------------------------------------------------------------------------
(* Coalescing *)

Supersedes(old, new) ==
  old.class = "motion" /\ new.class = "motion" /\ old.motion = new.motion

\* (mutant) Every queued message lets a newer position past.
PassesAll(old, new) == new.class = "motion"

\* A position may move past replies and past the positions of the other
\* families of its generation, and past nothing else.
Passes(old, new) ==
  /\ new.class = "motion"
  /\ \/ old.class = "reply"
     \/ /\ old.class = "motion"
        /\ old.motion.gen = new.motion.gen /\ old.motion.fam # new.motion.fam

Replaced(m) ==
  {i \in DOMAIN queue : /\ Supersedes(queue[i], m)
                        /\ \A j \in i + 1 .. Len(queue) : Passes(queue[j], m)}

\* (mutant) The offer goes with the hover that carried it.
InheritNothing(m, old) == m

\* A hover without an offer inherits the one it supersedes.
Inherit(m, old) == [m EXCEPT !.offer = IF m.offer = None THEN old.offer ELSE m.offer]

\* (mutant) The newest position takes the old one's place in the queue.
ReplaceInPlace(m) ==
  \E i \in Replaced(m) : queue' = [queue EXCEPT ![i] = Inherit(m, queue[i])]

Replace(m) ==
  \E i \in Replaced(m) :
    queue' = Append(RemoveAt(queue, i), Inherit(m, queue[i]))

\* (mutant) The bound is checked one message late.
EnqueuePastLimit(m) ==
  Replaced(m) = {} /\ Len(queue) <= Limit /\ queue' = Append(queue, m)

Enqueue(m) ==
  /\ Replaced(m) = {}
  /\ Len(queue) < Limit
  /\ queue' = Append(queue, m)

\* The messages the UI thread can push next.
NextN == Len(accepted) + 1
Pushable ==
  [class : {"motion"}, motion : Motions \ Hovers, offer : {None}, n : {NextN}]
  \cup [class : {"motion"}, motion : Hovers, offer : Offers \cup {None}, n : {NextN}]
  \cup [class : {"reply", "control"}, motion : {None}, offer : {None}, n : {NextN}]

-----------------------------------------------------------------------------
(* The UI thread *)

\* (mutant) push leaves the writer asleep.
PushQuietly(m) ==
  /\ ui = "running" /\ ~closed
  /\ Len(accepted) < MaxPush
  /\ Replace(m) \/ Enqueue(m)
  /\ accepted' = Append(accepted, m)
  /\ UNCHANGED <<wake, closed, ui, mediaVars, writerVars>>

Push(m) ==
  /\ ui = "running" /\ ~closed
  /\ Len(accepted) < MaxPush
  /\ Replace(m) \/ Enqueue(m)
  /\ wake' = TRUE
  /\ accepted' = Append(accepted, m)
  /\ UNCHANGED <<closed, ui, mediaVars, writerVars>>

\* push fails, and the error ends run_impl.
PushRefused(m) ==
  /\ ui = "running"
  /\ closed \/ (Replaced(m) = {} /\ Len(queue) >= Limit)
  /\ ui' = "failed"
  /\ UNCHANGED <<queue, closed, wake, accepted, mediaVars, writerVars>>

\* (mutant) close leaves the writer asleep.
CloseQuietly ==
  closed' = TRUE /\ queue' = <<>> /\ wake' = wake

CloseQueue ==
  /\ closed' = TRUE /\ queue' = <<>> /\ wake' = TRUE

\* Dropping the Connection: the frontend failed, ended or reconnects.
DropConnection ==
  /\ ui \in {"running", "failed"}
  /\ CloseQueue
  /\ ui' = "dropped"
  /\ UNCHANGED <<accepted, mediaVars, writerVars>>

MediaSend ==
  /\ ~disconnected /\ pc # "exited"
  /\ media < MediaCap /\ mediaSent < MaxMedia
  /\ media' = media + 1 /\ mediaSent' = mediaSent + 1
  /\ UNCHANGED <<queue, closed, wake, disconnected, ui, accepted, writerVars>>

\* The last sender of the media channel goes after the Connection does.
Disconnect ==
  /\ ui = "dropped" /\ ~disconnected
  /\ disconnected' = TRUE
  /\ UNCHANGED <<queue, closed, wake, media, mediaSent, ui, accepted, writerVars>>

-----------------------------------------------------------------------------
(* The writer thread *)

Goto(label) == pc' = label

\* The two closed() checks of the loop.
TopClosed ==
  /\ pc \in {"top", "check"} /\ closed
  /\ Goto("closing")
  /\ UNCHANGED <<queue, closed, wake, left, hand, sent, ui, accepted, mediaVars>>

TopOpen ==
  /\ pc = "top" /\ ~closed
  /\ Goto("media") /\ left' = MediaBatch
  /\ UNCHANGED <<queue, closed, wake, hand, sent, ui, accepted, mediaVars>>

TakeMedia ==
  /\ pc = "media" /\ left > 0 /\ media > 0
  /\ media' = media - 1 /\ left' = left - 1
  /\ Goto("writeMedia")
  /\ UNCHANGED <<queue, closed, wake, hand, sent, ui, accepted, disconnected, mediaSent>>

MediaDone ==
  /\ pc = "media" /\ (left = 0 \/ media = 0)
  /\ Goto("pop") /\ left' = PopBatch
  /\ UNCHANGED <<queue, closed, wake, hand, sent, ui, accepted, mediaVars>>

Pop ==
  /\ pc = "pop" /\ left > 0 /\ queue # <<>>
  /\ hand' = <<Head(queue)>> /\ queue' = Tail(queue)
  /\ left' = left - 1
  /\ Goto("write")
  /\ UNCHANGED <<closed, wake, sent, ui, accepted, mediaVars>>

PopDone ==
  /\ pc = "pop" /\ (left = 0 \/ queue = <<>>)
  /\ Goto("check")
  /\ UNCHANGED <<queue, closed, wake, left, hand, sent, ui, accepted, mediaVars>>

CheckOpen ==
  /\ pc = "check" /\ ~closed
  /\ Goto("pending")
  /\ UNCHANGED <<queue, closed, wake, left, hand, sent, ui, accepted, mediaVars>>

\* (mutant) The writer sleeps after a full batch without looking at the queue.
PendingIgnored ==
  /\ pc = "pending"
  /\ Goto("select")
  /\ UNCHANGED <<queue, closed, wake, left, hand, sent, ui, accepted, mediaVars>>

Pending ==
  /\ pc = "pending"
  /\ Goto(IF queue # <<>> THEN "top" ELSE "select")
  /\ UNCHANGED <<queue, closed, wake, left, hand, sent, ui, accepted, mediaVars>>

SelectMedia ==
  /\ pc = "select" /\ media > 0
  /\ media' = media - 1
  /\ Goto("writeSelected")
  /\ UNCHANGED <<queue, closed, wake, left, hand, sent, ui, accepted, disconnected, mediaSent>>

SelectWake ==
  /\ pc = "select" /\ wake
  /\ wake' = FALSE
  /\ Goto("top")
  /\ UNCHANGED <<queue, closed, left, hand, sent, ui, accepted, mediaVars>>

SelectDisconnected ==
  /\ pc = "select" /\ media = 0 /\ disconnected
  /\ Goto("closing")
  /\ UNCHANGED <<queue, closed, wake, left, hand, sent, ui, accepted, mediaVars>>

\* The transport takes what is being written ...
Written ==
  /\ \/ pc = "writeMedia" /\ Goto("media")
     \/ pc = "writeSelected" /\ Goto("top")
     \/ pc = "write" /\ Goto("pop")
  /\ sent' = sent \o hand /\ hand' = <<>>
  /\ UNCHANGED <<queue, closed, wake, left, ui, accepted, mediaVars>>

\* ... or fails, which ends the loop.
WriteFails ==
  /\ pc \in {"writeMedia", "writeSelected", "write"}
  /\ Goto("closing")
  /\ UNCHANGED <<queue, closed, wake, left, hand, sent, ui, accepted, mediaVars>>

WriterCloses ==
  /\ pc = "closing"
  /\ CloseQueue
  /\ Goto("exited")
  /\ UNCHANGED <<left, hand, sent, ui, accepted, mediaVars>>

-----------------------------------------------------------------------------
UI ==
  \/ \E m \in Pushable : Push(m) \/ PushRefused(m)
  \/ DropConnection \/ MediaSend \/ Disconnect

Writer ==
  \/ TopClosed \/ TopOpen \/ TakeMedia \/ MediaDone \/ Pop \/ PopDone
  \/ CheckOpen \/ Pending \/ SelectMedia \/ SelectWake \/ SelectDisconnected
  \/ Written \/ WriteFails \/ WriterCloses

Next == UI \/ Writer

Spec == Init /\ [][Next]_vars

\* The writer is a thread of its own; a write to the transport returns, if
\* only with the error that killing the child process or the socket causes.
FairSpec == Spec /\ WF_vars(Writer)

-----------------------------------------------------------------------------
(* Properties *)

Labels == {"top", "media", "writeMedia", "pop", "write", "check", "pending",
           "select", "writeSelected", "closing", "exited"}

\* Type invariant; it holds the queue to LIMIT and the media channel to its
\* capacity, and says that the writer holds a message only while writing it.
TypeOK ==
  /\ queue \in Seq(Message) /\ Len(queue) <= Limit
  /\ accepted \in Seq(Message) /\ sent \in Seq(Message)
  /\ hand \in Seq(Message) /\ Len(hand) <= 1
  /\ closed \in BOOLEAN /\ wake \in BOOLEAN /\ disconnected \in BOOLEAN
  /\ media \in 0 .. MediaCap /\ mediaSent \in Nat
  /\ pc \in Labels /\ left \in Nat
  /\ ui \in {"running", "failed", "dropped"}
  /\ hand # <<>> => pc \in {"write", "closing", "exited"}

\* Everything on its way, in the order in which the session will read it.
Stream == sent \o hand \o queue

Increasing(s) == \A i, j \in DOMAIN s : i < j => s[i].n < s[j].n

\* "Input IDs still increase" (input_queue.rs, push): whatever coalescing
\* removes and appends, the session reads accepted pushes in push order.
InOrder == Increasing(Stream)

Survives(i) == \E j \in DOMAIN Stream : Stream[j].n = i

\* The only accepted message that an open queue loses is a position, and then
\* a newer one of the same family, generation and key is on its way, with no
\* press, drop or other control accepted between them, no position of another
\* generation, and none of the same family with another key.
OnlySupersededLost ==
  ~closed =>
    \A i \in DOMAIN accepted :
      \/ Survives(i)
      \/ \E j \in i + 1 .. Len(accepted) :
           /\ Survives(j)
           /\ accepted[i].class = "motion" /\ accepted[i].motion = accepted[j].motion
           /\ \A k \in i + 1 .. j - 1 :
                /\ accepted[k].class # "control"
                /\ accepted[k].class = "motion" =>
                     /\ accepted[k].motion.gen = accepted[i].motion.gen
                     /\ accepted[k].motion.fam = accepted[i].motion.fam
                          => accepted[k].motion = accepted[i].motion

\* Coalescing a hover keeps the MIME offer: what is on its way carries the
\* newest offer given since the previous survivor of the same motion.
OfferKept ==
  \A p \in DOMAIN Stream :
    LET d == Stream[p]
        same == {i \in 1 .. d.n : Supersedes(accepted[i], d)}
        earlier == {i \in same : i < d.n /\ Survives(i)}
        offered == {i \in same : /\ \A e \in earlier : i > e
                                 /\ accepted[i].offer # None}
    IN  (~closed /\ d.class = "motion") =>
          IF offered = {} THEN d.offer = None
          ELSE \A i \in offered : (\A o \in offered : o <= i) => d.offer = accepted[i].offer

\* What the frontend has accepted reaches the session, but for positions that newer
\* ones have made stale, and with the newest offer ("coalesce", input_queue.rs).
NothingElseLost == OnlySupersededLost /\ OfferKept

\* A writer asleep in its select with work queued, or with the queue closed,
\* has a wake-up waiting.
NoLostWakeup ==
  pc = "select" /\ (queue # <<>> \/ closed) => wake

Queued(n) == \E i \in DOMAIN queue : queue[i].n = n

\* Nothing stays in the queue for ever: it is written, superseded or closed.
Drains == \A n \in 1 .. MaxPush : Queued(n) ~> ~Queued(n)

\* Closing the queue ends the writer thread, wherever it was.
CloseEndsWriter == closed ~> pc = "exited"
=============================================================================
