------------------------------ MODULE Exports ------------------------------
(***************************************************************************)
(* A file of the host is delivered into a directory of the frontend        *)
(* (exports.rs, and its calls in client.rs): Sender on the host, Receiver  *)
(* in the frontend, with at most Window chunks that are not acknowledged.  *)
(* The file appears under its name once it is complete; until then it is   *)
(* a temporary file of the receiver.                                       *)
(*                                                                         *)
(* A file is its number of chunks.  The application on the host runs one   *)
(* export at a time, with a fresh number, and forgets it when it has its   *)
(* result, when it has cancelled it or when the frontend is gone.          *)
(***************************************************************************)
EXTENDS Naturals, Sequences, FiniteSets

CONSTANTS Sizes,       \* chunks of a file
          Window,      \* WINDOW (4)
          MaxExports,
          MaxFailures  \* failing disks of either side, cancellations and lost connections

ExportsAssumption == Sizes \subseteq Nat /\ Window \in Nat \ {0}
                     /\ MaxExports \in Nat /\ MaxFailures \in Nat

VARIABLES sender,     \* Sender; id 0: none
          chunks,     \* messages to the frontend
          answers,    \* messages to the host
          partial,    \* Receiver.pending; id 0: none
          directory,  \* the exports whose file has its name
          exports     \* exports so far, failures, whether a frontend is connected

exportVars == <<sender, chunks, answers, partial, directory, exports>>

NoSender == [id |-> 0, size |-> 0, sent |-> 0, acked |-> 0, offered |-> FALSE, ready |-> FALSE,
             credit |-> 0, finished |-> FALSE, result |-> "none",
             since |-> 0]  \* history: failures before this export
NoPartial == [id |-> 0, size |-> 0, received |-> 0]
Failing == exports.failures < MaxFailures
Failed == [exports EXCEPT !.failures = @ + 1]

----------------------------------------------------------------------------
(* Sender. *)

Open == /\ sender.id = 0 /\ exports.connected /\ exports.count < MaxExports
        /\ \E n \in Sizes :
             sender' = [NoSender EXCEPT !.id = exports.count + 1, !.size = n,
                                   !.since = exports.failures]
        /\ exports' = [exports EXCEPT !.count = @ + 1]
        /\ UNCHANGED <<chunks, answers, partial, directory>>

\* next_message.
Says(kind) == chunks' = Append(chunks, [kind |-> kind, id |-> sender.id, at |-> sender.sent,
                                        size |-> sender.size])
Going == sender.offered /\ sender.ready /\ ~sender.finished
AllSent == Going /\ sender.sent = sender.size
Reads == Going /\ ~AllSent /\ sender.credit > 0
\* A file that cannot be read is an error without a message or a result: the application,
\* which is told, cancels the export.
ReadFails == /\ Reads /\ Failing /\ exports' = Failed
             /\ Says("cancel") /\ sender' = NoSender
NextMessage ==
  /\ sender.id # 0 /\ exports.connected
  /\ \/ /\ \/ ~sender.offered /\ Says("offer") /\ sender' = [sender EXCEPT !.offered = TRUE]
           \/ AllSent /\ sender.acked = sender.size /\ Says("finish")
              /\ sender' = [sender EXCEPT !.finished = TRUE]
           \/ Reads /\ Says("chunk")
              /\ sender' = [sender EXCEPT !.sent = @ + 1, !.credit = @ - 1]
        /\ exports' = exports
     \/ ReadFails
  /\ UNCHANGED <<answers, partial, directory>>

Cancel == /\ sender.id # 0 /\ exports.connected /\ Failing /\ exports' = Failed
          /\ Says("cancel") /\ sender' = NoSender
          /\ UNCHANGED <<answers, partial, directory>>

\* Sender::receive; answers to another export are ignored.
\* (mutant) an acknowledgement does not give credit back
AckSpent(m) == [sender EXCEPT !.acked = m.at]
AckCredits(m) == [sender EXCEPT !.acked = m.at, !.credit = IF @ < Window THEN @ + 1 ELSE Window]
HostAnswer ==
  /\ answers # <<>> /\ answers' = Tail(answers)
  /\ LET m == Head(answers) IN
     sender' = IF m.id # sender.id THEN sender
               ELSE IF m.kind = "ready" /\ ~sender.ready
               THEN [sender EXCEPT !.ready = TRUE, !.credit = Window]
               ELSE IF m.kind = "ack" /\ m.at > sender.acked /\ m.at <= sender.sent
               THEN AckCredits(m)
               ELSE IF m.kind \in {"ok", "error"}
               THEN [sender EXCEPT !.ready = FALSE, !.finished = TRUE,
                                   !.result = IF m.kind = "ok" /\ sender.finished THEN "ok" ELSE "error"]
               ELSE sender
  /\ UNCHANGED <<chunks, partial, directory, exports>>

TakeResult == /\ sender.result # "none" /\ sender' = NoSender
              /\ UNCHANGED <<chunks, answers, partial, directory, exports>>

----------------------------------------------------------------------------
(* Receiver. *)

\* apply: what is not in order is an error, and any error ends what is under way.
Accepts(m) ==
  CASE m.kind = "offer" -> partial.id = 0
    [] m.kind = "chunk" -> m.id = partial.id /\ m.at = partial.received /\ m.at < partial.size
    [] m.kind = "finish" -> m.id = partial.id /\ partial.received = partial.size
    [] OTHER -> FALSE
Answers(m, kind, at) == answers' = Append(answers, [kind |-> kind, id |-> m.id, at |-> at])
ClientReceive ==
  /\ exports.connected /\ chunks # <<>> /\ chunks' = Tail(chunks)
  /\ LET m == Head(chunks) IN
     \/ /\ Accepts(m) /\ exports' = exports
        /\ \/ /\ m.kind = "offer" /\ partial' = [id |-> m.id, size |-> m.size, received |-> 0]
              /\ Answers(m, "ready", 0) /\ UNCHANGED directory
           \/ /\ m.kind = "chunk" /\ partial' = [partial EXCEPT !.received = @ + 1]
              /\ Answers(m, "ack", partial.received + 1) /\ UNCHANGED directory
           \/ /\ m.kind = "finish" /\ partial' = NoPartial /\ Answers(m, "ok", 0)
              /\ directory' = directory \cup {m.id}
     \/ /\ IF Accepts(m) THEN Failing /\ exports' = Failed ELSE exports' = exports
        /\ partial' = NoPartial /\ Answers(m, "error", 0) /\ UNCHANGED directory
  /\ UNCHANGED sender

\* The connection is lost: the frontend's temporary file goes with it, and the
\* application is told.
\* (mutant) the receiver keeps it
LostKeeping == partial
Lost == NoPartial
Break == /\ exports.connected /\ Failing
         /\ exports' = [Failed EXCEPT !.connected = FALSE]
         /\ chunks' = <<>> /\ answers' = <<>> /\ partial' = Lost /\ sender' = NoSender
         /\ UNCHANGED directory
Rejoin == /\ ~exports.connected /\ exports' = [exports EXCEPT !.connected = TRUE]
          /\ UNCHANGED <<sender, chunks, answers, partial, directory>>
----------------------------------------------------------------------------
ExportInit ==
  /\ sender = NoSender /\ chunks = <<>> /\ answers = <<>> /\ partial = NoPartial
  /\ directory = {}
  /\ exports = [count |-> 0, failures |-> 0, connected |-> TRUE]

ExportNext == Open \/ NextMessage \/ Cancel \/ HostAnswer \/ TakeResult
              \/ ClientReceive \/ Break \/ Rejoin

----------------------------------------------------------------------------
(* Properties. *)

\* An export succeeds unless something happens to it: whatever was under way when the
\* one before was cancelled, failed or lost its connection does not reach it.
Undisturbed == sender.result = "error" => exports.failures > sender.since

\* And every export comes to an end.
Idle == sender.id = 0
ExportSettles == []<>Idle
=============================================================================
