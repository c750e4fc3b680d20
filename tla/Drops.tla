------------------------------- MODULE Drops -------------------------------
(***************************************************************************)
(* Files dropped on a frontend whose session runs on another host          *)
(* (drop_bridge.rs, and its calls in client.rs; drop_receive.rs reads the  *)
(* replies on the host).  The terminal tells of a drop and hands over its  *)
(* list of paths; the bridge keeps a list of local paths for itself and a  *)
(* worker serves exactly those entries to the host, one request at a time. *)
(* A Move ends with the host's completion: the worker checks everything it *)
(* sent and removes the sources, each after one more look at its identity. *)
(*                                                                         *)
(* Requests and replies carry no identity of their drop.  What keeps two   *)
(* drops apart is the epoch of the bridge, which a new drop, a             *)
(* cancellation, an error and a lost connection advance.                   *)
(*                                                                         *)
(* Entries are the numbers of Entries in the order the host asks for them; *)
(* those of Nested become known when their directory is read.  The         *)
(* content of an entry is sent as one message, with its end mark.  The     *)
(* terminal, the user and the application on the host are the environment. *)
(***************************************************************************)
EXTENDS Naturals, Sequences, FiniteSets

CONSTANTS None, Roots, Nested,   \* entries of a drop: given, and found in a directory
          Dir,                   \* the root that is a directory holding Nested
          RequestCap, ReplyCap,  \* capacities of the channels to and from a worker (8)
          MayMove,               \* the drops whose source permits a Move
          MaxDrops,
          MaxTroubles            \* files changed, connections lost, drops given up, drags of
                                 \* the application's own and drops of another machine's files

DropsAssumption ==
  /\ Roots \subseteq Nat \ {0} /\ Nested \subseteq Nat \ {0} /\ Roots \cap Nested = {}
  /\ RequestCap \in Nat \ {0} /\ ReplyCap \in Nat \ {0}
  /\ MaxDrops \in Nat /\ MaxTroubles \in Nat
  /\ MayMove \subseteq Nat

VARIABLES terminal,  \* the terminal: drag, the drops so far, what it still has to say
          bridge,    \* Bridge, and whether its frontend lives and is connected
          workers,   \* the worker of each drop
          replies,   \* the channel of workers' output
          toHost, toBridge,   \* the connection
          host,      \* the application's receiver
          disk       \* entries replaced, modified in place and removed; late is a history:
                     \* those whose change came after the worker's last look for it

dropVars == <<terminal, bridge, workers, replies, toHost, toBridge, host, disk>>

Drop == 1 .. MaxDrops
Entries == Roots \cup Nested
First(S) == CHOOSE e \in S : \A f \in S : e <= f

\* The worker of drop d takes no further requests once it is over.
Worker(d) == workers[d]
With(d, w) == workers' = [workers EXCEPT ![d] = w]

Say(m) == [terminal EXCEPT !.tty = Append(@, m)]
Reply(d, kind, e) == [kind |-> kind, drop |-> d, entry |-> e]

----------------------------------------------------------------------------
(* The terminal and its user. *)

Dropped(before, from) ==
  [terminal EXCEPT !.tty = @ \o before \o <<[kind |-> "drop", drop |-> Len(terminal.drops) + 1]>>,
                   !.drops = Append(@, from), !.drag = "none"]

Calm == disk.troubles < MaxTroubles
Altered(d, e) == <<d, e>> \in disk.replaced \cup disk.modified
Troubled == [disk EXCEPT !.troubles = @ + 1]

\* The application's own drag starts with a press; one press, so that an offer always
\* answers the press that is held.
Press == /\ terminal.drag = "none" /\ ~terminal.pressed /\ Calm /\ disk' = Troubled
         /\ terminal' = [Say([kind |-> "press"]) EXCEPT !.drag = "pressed", !.pressed = TRUE]
         /\ UNCHANGED <<bridge, workers, replies, toHost, toBridge, host>>

\* What is dragged in from elsewhere and dropped: files of this machine, or of another.
DropIn == /\ terminal.drag = "none" /\ Len(terminal.drops) < MaxDrops
          /\ \E from \in {"local", "remote"} :
               /\ IF from = "remote" THEN Calm /\ disk' = Troubled ELSE disk' = disk
               /\ terminal' = Dropped(<<[kind |-> "enter"]>>, from)
          /\ UNCHANGED <<bridge, workers, replies, toHost, toBridge, host>>

\* The end of the application's own drag: somewhere else, or here, where the terminal
\* may report the end before the drop or after it.
DropOwn == /\ terminal.drag \in {"pressed", "own"}
           /\ LET ended == IF terminal.drag = "own" THEN <<[kind |-> "ended"]>> ELSE <<>> IN
              \/ terminal' = [terminal EXCEPT !.tty = @ \o ended, !.drag = "none"]
              \/ /\ terminal.drag = "own" /\ Len(terminal.drops) < MaxDrops
                 /\ \/ terminal' = Dropped(ended, "own")
                    \/ terminal' = [Dropped(<<>>, "own") EXCEPT !.tty = @ \o ended]
           /\ UNCHANGED <<bridge, workers, replies, toHost, toBridge, host, disk>>

\* The worker looks for every change when it checks the manifest, and for another file in
\* the entry's place once more before it removes that entry.
Late(d, e, how) == \/ how = "modified" /\ workers[d].pc \in {"unlink", "unlinkat"}
                   \/ workers[d].pc = "unlinkat" /\ workers[d].entry = e

\* An entry of the drop is modified in place or replaced by another file.
Alter == /\ Calm
         /\ \E d \in Drop, e \in Entries, how \in {"replaced", "modified"} :
              /\ d <= Len(terminal.drops) /\ <<d, e>> \notin disk.removed /\ ~Altered(d, e)
              /\ disk' = [Troubled EXCEPT ![how] = @ \cup {<<d, e>>},
                                         !.late = IF Late(d, e, how) THEN @ \cup {<<d, e>>} ELSE @]
         /\ UNCHANGED <<terminal, bridge, workers, replies, toHost, toBridge, host>>

----------------------------------------------------------------------------
(* The bridge. *)

\* A transfer that is given up is cancelled, unless the host has completed it.
Cancelled == IF bridge.transfer = None \/ bridge.finishing THEN workers
             ELSE [workers EXCEPT ![bridge.transfer].cancelled = TRUE]
Closed(ws) == IF bridge.transfer = None THEN ws ELSE [ws EXCEPT ![bridge.transfer].open = FALSE]

\* Bridge.reset.
Reset == [bridge EXCEPT !.transfer = None, !.finishing = FALSE, !.pending = None, !.epoch = @ + 1]
Abandon == Closed(Cancelled)

ToHost(m) == toHost' = IF bridge.connected THEN Append(toHost, m) ELSE toHost

\* The application's own drag is over: keep its provenance until a drop or a new drag.
\* (mutant) the end of the drag ends the provenance
EndForgets == [bridge EXCEPT !.offered = FALSE]
End == [bridge EXCEPT !.finished = TRUE]

\* Bridge.terminal, and the frontend's forwarding of what it leaves.  A drop that
\* is told before the frontend shows a frame of its geometry is not forwarded.
ReadTty ==
  /\ bridge.alive /\ terminal.tty # <<>>
  /\ terminal' = [terminal EXCEPT !.tty = Tail(@)]
  /\ LET m == Head(terminal.tty) IN
     \/ /\ m.kind = "press" /\ ToHost([kind |-> "press"]) /\ UNCHANGED <<bridge, workers>>
     \/ /\ m.kind = "enter" /\ UNCHANGED <<toHost, workers>>
        /\ bridge' = IF bridge.finished THEN [bridge EXCEPT !.offered = FALSE, !.finished = FALSE]
                     ELSE bridge
     \/ /\ m.kind = "ended" /\ bridge' = End /\ UNCHANGED <<toHost, workers>>
     \/ /\ m.kind = "drop"
        /\ bridge' = [Reset EXCEPT !.pending = [drop |-> m.drop, own |-> bridge.offered],
                                   !.offered = FALSE, !.finished = FALSE]
        /\ workers' = Abandon
        /\ ToHost([kind |-> "drop", drop |-> m.drop]) \/ UNCHANGED toHost
     \/ /\ m.kind = "paths" /\ bridge.pending = None
        /\ ToHost(Reply(m.drop, "paths", 0)) /\ UNCHANGED <<bridge, workers>>
     \/ /\ m.kind = "paths" /\ bridge.pending # None
        /\ LET p == bridge.pending
               start == [epoch |-> bridge.epoch, open |-> TRUE, cancelled |-> FALSE,
                         queue |-> <<>>, entry |-> 0, served |-> {}, known |-> Roots,
                         pc |-> "paths"]
           IN  IF terminal.drops[m.drop] = "remote" \/ p.own
               THEN /\ bridge' = [bridge EXCEPT !.pending = None]
                    /\ With(m.drop, [start EXCEPT !.pc = "relay"])
               ELSE /\ bridge' = [bridge EXCEPT !.pending = None, !.transfer = m.drop]
                    /\ With(m.drop, start)
        /\ UNCHANGED toHost
  /\ UNCHANGED <<replies, toBridge, host, disk>>

\* The request goes to the worker; one that is full or over ends the frontend's loop.
Ask(m) ==
  LET w == Worker(bridge.transfer) IN
  IF w.pc = "over" \/ Len(w.queue) >= RequestCap
  THEN /\ bridge' = [bridge EXCEPT !.alive = FALSE]
       /\ workers' = Abandon
  ELSE /\ bridge' = [bridge EXCEPT !.finishing = @ \/ m.kind = "end"]
       /\ With(bridge.transfer, [w EXCEPT !.queue = Append(@, m)])

\* Without a transfer the request goes to the terminal, which answers one for paths.
AskTerminal(m) ==
  /\ terminal' = IF m.kind = "list" /\ terminal.drops # <<>>
                 THEN Say([kind |-> "paths", drop |-> Len(terminal.drops)])
                 ELSE IF m.kind = "offer" /\ terminal.drag = "pressed"
                 THEN [Say([kind |-> "enter"]) EXCEPT !.drag = "own"] ELSE terminal
  /\ UNCHANGED workers

\* Bridge.request on a message of the host.
Request ==
  /\ bridge.alive /\ toBridge # <<>>
  /\ toBridge' = Tail(toBridge)
  /\ LET m == Head(toBridge) IN
     \/ /\ m.kind = "offer"
        /\ bridge' = [bridge EXCEPT !.offered = TRUE, !.finished = FALSE]
        /\ AskTerminal(m)
     \/ /\ m.kind # "offer" /\ bridge.transfer = None
        /\ bridge' = IF m.kind = "end" THEN [bridge EXCEPT !.pending = None] ELSE bridge
        /\ AskTerminal(m)
     \/ /\ m.kind = "end" /\ m.op = "cancel" /\ bridge.transfer # None
        /\ bridge' = Reset /\ workers' = Abandon /\ UNCHANGED terminal
     \/ /\ bridge.transfer # None
        /\ m.kind \in {"list", "get"} \/ (m.kind = "end" /\ m.op # "cancel")
        /\ Ask(m) /\ UNCHANGED terminal
  /\ UNCHANGED <<replies, toHost, host, disk>>

\* The frontend passes a worker's output on: only that of the current epoch, and
\* every completion.
\* (mutant) it passes on everything
CurrentAlways(r) == TRUE
Current(r) == r.epoch = bridge.epoch

Forward ==
  /\ bridge.alive /\ bridge.connected /\ replies # <<>>
  /\ replies' = Tail(replies)
  /\ LET r == Head(replies)
         told == Current(r) \/ r.kind = "done"
         failed == r.kind = "failed" /\ Current(r)
     IN  /\ toHost' = IF told THEN Append(toHost, Reply(r.drop, r.kind, r.entry)) ELSE toHost
         /\ bridge' = IF failed THEN Reset ELSE bridge
         /\ workers' = IF failed THEN Abandon ELSE workers
  /\ UNCHANGED <<terminal, toBridge, host, disk>>

\* The connection is lost, and comes back with a new attachment.
Lose == /\ bridge.alive /\ bridge.connected /\ Calm
        /\ bridge' = [Reset EXCEPT !.connected = FALSE] /\ workers' = Abandon
        /\ toHost' = <<>> /\ toBridge' = <<>>
        /\ host' = [host EXCEPT !.step = "idle"]
        /\ disk' = Troubled
        /\ UNCHANGED <<terminal, replies>>
Reconnect == /\ bridge.alive /\ ~bridge.connected
             /\ bridge' = [bridge EXCEPT !.connected = TRUE]
             /\ UNCHANGED <<terminal, workers, replies, toHost, toBridge, host, disk>>

----------------------------------------------------------------------------
(* A worker. *)

\* emit: a cancelled transfer says nothing more; otherwise wait for room.
Emit(d, kind, e, next) ==
  LET w == Worker(d) IN
  \/ w.cancelled /\ With(d, [w EXCEPT !.pc = "over"]) /\ UNCHANGED replies
  \/ /\ ~w.cancelled /\ Len(replies) < ReplyCap
     /\ replies' = Append(replies, [epoch |-> w.epoch, kind |-> kind, drop |-> d, entry |-> e])
     /\ With(d, next)

At(d, pc) == [workers[d] EXCEPT !.pc = pc]
Changed(d, e) == Altered(d, e) \/ <<d, e>> \in disk.removed

\* Files.capture may fail: a path is gone, special, or named twice.
Capture(d) == /\ workers[d].pc = "capture"
              /\ \E pc \in {"serve", "fail"} : With(d, At(d, pc))
              /\ UNCHANGED <<replies, disk>>

\* Files.read: a known entry, not served before and still the one captured, is sent
\* and checked again before its end mark.  A directory makes its entries known.
Readable(d, e) == /\ e \in workers[d].known \ workers[d].served /\ ~Changed(d, e)
Read(d, m) ==
  LET taken == [workers[d] EXCEPT !.queue = Tail(@)] IN
  IF m.kind = "get" /\ Readable(d, m.entry)
  THEN With(d, [taken EXCEPT !.entry = m.entry, !.pc = "read"])
  ELSE With(d, [taken EXCEPT !.pc = "fail"])
Finish(d) ==
  /\ workers[d].pc = "read"
  /\ IF Changed(d, workers[d].entry) THEN With(d, At(d, "fail")) /\ UNCHANGED replies
     ELSE Emit(d, "data", workers[d].entry,
               [At(d, "serve") EXCEPT !.served = @ \cup {workers[d].entry},
                                      !.known = IF workers[d].entry = Dir THEN @ \cup Nested ELSE @])
  /\ UNCHANGED disk

\* remove_sources: everything that was captured is served and unchanged ...
\* (mutant) entries that were not asked for do not matter
SentServed(d) == \A e \in workers[d].served : ~Changed(d, e)
Sent(d) == \A e \in workers[d].known : e \in workers[d].served /\ ~Changed(d, e)
Complete(d, op) ==
  LET w == [workers[d] EXCEPT !.queue = Tail(@)] IN
  With(d, [w EXCEPT !.pc = IF op = "copy" THEN "done"
                        ELSE IF d \in MayMove /\ Sent(d) THEN "unlink" ELSE "refuse"])

\* ... and each is looked at once more when its turn comes, the last one first.  Now only
\* another file in its place is noticed.
\* (mutant) the second look is left out
LooksAway(d, e) == TRUE
Same(d, e) == <<d, e>> \notin disk.replaced
Unlink(d) ==
  /\ workers[d].pc = "unlink"
  /\ LET left == {e \in workers[d].known : <<d, e>> \notin disk.removed}
         e == CHOOSE x \in left : \A y \in left : y <= x
     IN  With(d, IF left = {} THEN At(d, "done")
                 ELSE IF ~Same(d, e) THEN At(d, "refuse")
                 ELSE [At(d, "unlinkat") EXCEPT !.entry = e])
  /\ UNCHANGED <<replies, disk>>

\* What is removed is what has the name now.  The call fails for a directory that has gained
\* an entry, or if a directory and a file have changed places.
Unlinkat(d) ==
  /\ workers[d].pc = "unlinkat"
  /\ LET e == workers[d].entry IN
     \/ /\ disk' = [disk EXCEPT !.removed = @ \cup {<<d, e>>}]
        /\ With(d, At(d, "unlink"))
     \/ Altered(d, e) /\ With(d, At(d, "refuse")) /\ UNCHANGED disk
  /\ UNCHANGED replies

\* The loop over requests: the sender's end closes it once the queue is empty.
Serve(d) ==
  /\ workers[d].pc = "serve"
  /\ LET w == Worker(d) IN
     \/ w.queue = <<>> /\ ~w.open /\ With(d, At(d, "over"))
     \/ w.queue # <<>> /\ w.cancelled /\ With(d, At(d, "over"))
     \/ /\ w.queue # <<>> /\ ~w.cancelled
        /\ IF Head(w.queue).kind = "end" THEN Complete(d, Head(w.queue).op) ELSE Read(d, Head(w.queue))
  /\ UNCHANGED <<replies, disk>>

Says(d) ==
  /\ \/ workers[d].pc = "paths" /\ Emit(d, "paths", 0, At(d, "capture"))
     \/ workers[d].pc = "relay" /\ Emit(d, "paths", 0, At(d, "over"))
     \/ workers[d].pc = "fail" /\ Emit(d, "failed", 0, At(d, "over"))
     \/ workers[d].pc = "done" /\ Emit(d, "done", 1, At(d, "over"))
     \/ workers[d].pc = "refuse" /\ Emit(d, "done", 0, At(d, "over"))
  /\ UNCHANGED disk

Run(d) == /\ Says(d) \/ Capture(d) \/ Serve(d) \/ Finish(d) \/ Unlink(d) \/ Unlinkat(d)
          /\ UNCHANGED <<terminal, bridge, toHost, toBridge, host>>

----------------------------------------------------------------------------
(* The application on the host. *)

Answer(m) == toBridge' = IF bridge.connected THEN Append(toBridge, m) ELSE toBridge

\* Incoming.receive: only the entry that was asked for is taken.  The last one, or
\* one after which the user skips the rest, ends the drop as a copy or as a move.
Take(m) ==
  LET took == host.took \cup {<<host.drop, m.drop, m.entry>>}
      left == {e \in Entries : \A t \in took : t[1] # host.drop \/ t[3] # e}
  IN
  \/ /\ host.step # "reading" \/ m.entry # host.entry
     /\ host' = [host EXCEPT !.step = "idle"] /\ Answer([kind |-> "end", op |-> "cancel"])
  \/ /\ host.step = "reading" /\ m.entry = host.entry /\ left # {}
     /\ host' = [host EXCEPT !.took = took, !.entry = First(left)]
     /\ Answer([kind |-> "get", entry |-> First(left)])
  \/ /\ host.step = "reading" /\ m.entry = host.entry
     /\ \E op \in {"copy", "move"} :
          /\ host' = [host EXCEPT !.took = took, !.step = "idle",
                                  !.moved = IF op = "move" THEN @ \cup {host.drop} ELSE @]
          /\ Answer([kind |-> "end", op |-> op])

HostReads ==
  /\ toHost # <<>> /\ toHost' = Tail(toHost)
  /\ LET m == Head(toHost) IN
     \/ /\ m.kind = "press" /\ Answer([kind |-> "offer"]) /\ UNCHANGED host
     \/ /\ m.kind = "drop"
        /\ host' = [host EXCEPT !.step = "listing"]
        /\ Answer([kind |-> "list"])
     \/ /\ m.kind = "paths"
        /\ IF host.step = "listing"
           THEN /\ host' = [host EXCEPT !.drop = m.drop, !.step = "reading", !.entry = First(Entries)]
                /\ Answer([kind |-> "get", entry |-> First(Entries)])
           ELSE UNCHANGED <<host, toBridge>>
     \/ m.kind = "data" /\ Take(m)
     \/ /\ m.kind \in {"failed", "done"}
        /\ host' = [host EXCEPT !.step = "idle"] /\ UNCHANGED toBridge
  /\ UNCHANGED <<terminal, bridge, workers, replies, disk>>

GiveUp == /\ host.step \in {"listing", "reading"} /\ bridge.connected /\ Calm
          /\ host' = [host EXCEPT !.step = "idle"]
          /\ Answer([kind |-> "end", op |-> "cancel"])
          /\ UNCHANGED <<terminal, bridge, workers, replies, toHost, disk>>
----------------------------------------------------------------------------
NoWorker == [epoch |-> 0, open |-> FALSE, cancelled |-> FALSE, queue |-> <<>>, entry |-> 0,
             served |-> {}, known |-> {}, pc |-> "off"]

DropInit ==
  /\ terminal = [drag |-> "none", drops |-> <<>>, tty |-> <<>>, pressed |-> FALSE]
  /\ bridge = [alive |-> TRUE, connected |-> TRUE, epoch |-> 0, offered |-> FALSE,
               finished |-> FALSE, pending |-> None, transfer |-> None, finishing |-> FALSE]
  /\ workers = [d \in Drop |-> NoWorker]
  /\ replies = <<>> /\ toHost = <<>> /\ toBridge = <<>>
  /\ host = [drop |-> 0, step |-> "idle", entry |-> 0, took |-> {}, moved |-> {}]
  /\ disk = [replaced |-> {}, modified |-> {}, removed |-> {}, late |-> {}, troubles |-> 0]

DropNext ==
  \/ Press \/ DropIn \/ DropOwn \/ Alter
  \/ ReadTty \/ Request \/ Forward \/ Lose \/ Reconnect
  \/ \E d \in Drop : Run(d)
  \/ HostReads \/ GiveUp

----------------------------------------------------------------------------
(* Properties. *)

\* A source is removed only if the host has taken all it was sent of that very
\* drop, completed it as a move, and the source permitted one ("Copy,
\* cancellation, skipped entries, replaced/modified sources, and incomplete
\* transfers cannot authorize source removal").  A change that was there when the
\* manifest was checked keeps its source, and another file in its place does
\* until the worker's last look at it.
MoveSafe ==
  \A x \in disk.removed :
    /\ \A e \in Entries : <<x[1], x[1], e>> \in host.took
    /\ x[1] \in host.moved /\ x[1] \in MayMove
    /\ Altered(x[1], x[2]) => x \in disk.late

\* The same as the sentence says it, without the exception.  A source that is modified
\* while others are removed, or replaced between the worker's last two calls, breaks it
\* (README.md, section 3).
MoveUnaltered == \A x \in disk.removed : ~Altered(x[1], x[2])

\* What the host takes in one drop is of that drop, whatever was under way when a
\* new drop, a cancellation or a lost connection came.
NotMixed == \A t \in host.took : t[1] = t[2]

\* A drop of what the application itself has dragged is never served from here,
\* whenever the terminal reports the end of the drag.
OwnStays == \A d \in Drop : workers[d].known # {} /\ workers[d].pc # "relay"
                              /\ d <= Len(terminal.drops) /\ terminal.drops[d] = "own"
                            => workers[d].pc = "over" /\ workers[d].served = {}

\* "Local drop request queue is full": that is what ends a frontend whose worker
\* does not take a request.
FullMeansFull ==
  ~bridge.alive => Len(workers[bridge.transfer].queue) >= RequestCap
=============================================================================
