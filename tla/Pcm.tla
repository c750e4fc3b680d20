--------------------------------- MODULE Pcm ---------------------------------
(***************************************************************************)
(* A song of the host played on the presentation machine (audio_v2.rs,     *)
(* pcm_cache.rs): the receiver's thread (client.rs), which takes blocks    *)
(* and sends credits and events; the thread that spools blocks to the disk *)
(* cache; the thread that feeds the device's ring; the device's callback.  *)
(* They share channels and atomics; a song that replaces another one joins *)
(* both workers first.                                                     *)
(*                                                                         *)
(* Blocks are numbers, End ends a song.  The ring is counted in blocks.    *)
(***************************************************************************)
EXTENDS Naturals, Sequences

CONSTANTS SongBlocks,
          PcmWindow,    \* WINDOW_BLOCKS (8): the credits of a song, and room for its blocks
          RingBlocks,   \* what the ring holds
          PcmRoom,      \* messages on their way to the frontend, and back
          MaxSongs, MaxAudioFailures

PcmAssumption ==
  /\ {SongBlocks, PcmWindow, RingBlocks, PcmRoom, MaxSongs} \subseteq Nat \ {0}
  /\ MaxAudioFailures \in Nat

VARIABLES singer,   \* the host: epoch, credits, blocks sent, what it was told
          pcmWire,  \* messages on their way to the receiver, in order
          song,     \* Active, with its workers and the device
          pcmBack   \* messages on their way to the host

pcmVars == <<singer, pcmWire, song, pcmBack>>

End == 0
Msg(kind, e, n) == [kind |-> kind, epoch |-> e, n |-> n]
Smaller(a, b) == IF a < b THEN a ELSE b

Silent == [epoch |-> 0, cacheMode |-> FALSE, paused |-> FALSE, stop |-> FALSE, blocks |-> <<>>,
           spool |-> "ended", stored |-> <<>>, finished |-> FALSE, play |-> "ended", ring |-> <<>>,
           played |-> <<>>, credits |-> 0, events |-> <<>>, pending |-> 0, event |-> "none",
           dead |-> FALSE]
Opening(e) == [Silent EXCEPT !.epoch = e, !.spool = "runs", !.play = "opens"]

----------------------------------------------------------------------------
(* The host: a credit for each block and for the end. *)

Tell(m) == Len(pcmWire) < PcmRoom /\ pcmWire' = Append(pcmWire, m)

\* With an audio cache, the cache is asked for right behind the song.
HostOpens == /\ singer.epoch < MaxSongs /\ Len(pcmWire) + 1 < PcmRoom
             /\ \E cached \in BOOLEAN :
                  pcmWire' = pcmWire \o <<Msg("open", singer.epoch + 1, 0)>>
                             \o (IF cached THEN <<Msg("cache", singer.epoch + 1, 0)>> ELSE <<>>)
             /\ singer' = [epoch |-> singer.epoch + 1, credit |-> 0, sent |-> 0, ended |-> FALSE,
                           heard |-> "nothing", failures |-> singer.failures]
HostSends == /\ singer.credit > 0 /\ singer.sent < SongBlocks
             /\ Tell(Msg("chunk", singer.epoch, singer.sent + 1))
             /\ singer' = [singer EXCEPT !.sent = @ + 1, !.credit = @ - 1]
HostEnds == /\ singer.credit > 0 /\ singer.sent = SongBlocks /\ ~singer.ended
            /\ Tell(Msg("end", singer.epoch, 0))
            /\ singer' = [singer EXCEPT !.ended = TRUE, !.credit = @ - 1]
HostCloses == /\ singer.epoch > 0 /\ Tell(Msg("close", singer.epoch, 0)) /\ UNCHANGED singer
HostPauses == /\ singer.epoch > 0 /\ pcmWire = <<>>  \* a user's keys leave room for a song
              /\ \E p \in {0, 1} : Tell(Msg("pause", singer.epoch, p))
              /\ UNCHANGED singer

HostHears ==
  /\ pcmBack # <<>> /\ pcmBack' = Tail(pcmBack)
  /\ LET m == Head(pcmBack) IN
     singer' = IF m.epoch # singer.epoch THEN singer
               ELSE IF m.kind = "credit" THEN [singer EXCEPT !.credit = @ + m.n]
               ELSE [singer EXCEPT !.heard = m.kind]
  /\ UNCHANGED <<pcmWire, song>>

Sender == (HostSends \/ HostEnds) /\ UNCHANGED <<song, pcmBack>>
Host == (HostOpens \/ HostCloses \/ HostPauses) /\ UNCHANGED <<song, pcmBack>>

----------------------------------------------------------------------------
(* The receiver: receive, then tick. *)

Block(n) ==
  IF Len(song.blocks) < PcmWindow /\ song.spool = "runs"
  THEN [song EXCEPT !.blocks = Append(@, n)] ELSE [song EXCEPT !.dead = TRUE]

Receive ==
  /\ pcmWire # <<>> /\ ~song.dead
  /\ pcmWire' = Tail(pcmWire)
  /\ LET m == Head(pcmWire) IN
     song' = IF m.kind = "open" THEN Opening(m.epoch)
             ELSE IF m.epoch # song.epoch THEN song
             ELSE CASE m.kind = "cache" -> [song EXCEPT !.cacheMode = TRUE]
                    [] m.kind = "pause" -> [song EXCEPT !.paused = (m.n = 1)]
                    [] m.kind = "chunk" -> IF song.stop THEN song ELSE Block(m.n)
                    [] m.kind = "end" -> Block(End)
                    [] m.kind = "close" -> Silent
  /\ UNCHANGED <<singer, pcmBack>>

\* Ready starts the credits.
TickEvent == IF song.event = "none" /\ song.events # <<>> THEN Head(song.events) ELSE song.event
Tick ==
  /\ song.epoch > 0 /\ ~song.dead
  /\ LET taken == song.event = "none" /\ song.events # <<>>
         told == TickEvent # "none" /\ Len(pcmBack) < PcmRoom
         back == IF told THEN Append(pcmBack, Msg(TickEvent, song.epoch, 0)) ELSE pcmBack
         owed == (IF taken /\ TickEvent = "ready" THEN PcmWindow ELSE song.pending)
                 + (IF song.stop THEN 0 ELSE song.credits)
         paid == ~song.stop /\ owed > 0 /\ Len(back) < PcmRoom IN
     /\ pcmBack' = IF paid THEN Append(back, Msg("credit", song.epoch, Smaller(owed, PcmWindow)))
                   ELSE back
     /\ song' = [song EXCEPT !.event = IF told THEN "none" ELSE TickEvent,
                             !.events = IF taken THEN Tail(@) ELSE @,
                             !.pending = IF paid THEN 0 ELSE owed,
                             !.credits = IF song.stop THEN @ ELSE 0]
  /\ UNCHANGED <<singer, pcmWire>>

----------------------------------------------------------------------------
(* The workers. *)

\* A credit goes back when the block is stored, or when the ring has taken it.
\* (mutant) of both; or only when it is stored
CreditedTwice(s, stored) == [s EXCEPT !.credits = Smaller(@ + 1, PcmWindow)]
CreditedStored(s, stored) ==
  [s EXCEPT !.credits = IF stored /\ s.cacheMode THEN Smaller(@ + 1, PcmWindow) ELSE @]
Credited(s, stored) ==
  [s EXCEPT !.credits = IF stored = s.cacheMode THEN Smaller(@ + 1, PcmWindow) ELSE @]

Spool ==
  /\ song.spool = "runs"
  /\ song' = IF song.stop THEN [song EXCEPT !.spool = "ended", !.blocks = <<>>]
             ELSE IF song.blocks = <<>> THEN song
             ELSE IF Head(song.blocks) = End
             THEN [song EXCEPT !.spool = "ended", !.finished = TRUE, !.blocks = <<>>]
             ELSE Credited([song EXCEPT !.blocks = Tail(@),
                                        !.stored = Append(@, Head(song.blocks))], TRUE)
  /\ song' # song

\* Events of the workers: blocking, except for errors.
\* (mutant) there is room for one
RoomForOne == 1
EventRoom == 2
Announce(s, e) == [s EXCEPT !.events = IF Len(@) < EventRoom THEN Append(@, e) ELSE @]

Ready == /\ song.play = "opens" /\ Len(song.events) < EventRoom
         /\ song' = Announce([song EXCEPT !.play = "plays"], "ready")
\* (mutant) a finished cache is at its end
AtEndEarly == song.finished
AtEnd == song.stored = <<>> /\ song.finished
PlayBlock == /\ song.play = "plays" /\ ~song.stop /\ ~AtEnd /\ song.stored # <<>>
             /\ Len(song.ring) < RingBlocks
             /\ song' = Credited([song EXCEPT !.stored = Tail(@),
                                              !.ring = Append(@, Head(song.stored))], FALSE)
PlayEnds == /\ song.play = "plays" /\ ~song.stop /\ AtEnd /\ song.ring = <<>>
            /\ Len(song.events) < EventRoom
            /\ song' = Announce([song EXCEPT !.play = "ended"], "finished")
PlayStops == /\ song.play \in {"opens", "plays"} /\ song.stop
             /\ song' = [song EXCEPT !.play = "ended"]
Play == Ready \/ PlayBlock \/ PlayEnds \/ PlayStops

Callback == /\ song.ring # <<>> /\ ~song.paused /\ song.play # "ended"
            /\ song' = [song EXCEPT !.ring = Tail(@), !.played = Append(@, Head(song.ring))]

\* A device that fails or is lost, a disk that is full.  The cache's thread drops its
\* channel first, then reports.
Failing == song.epoch > 0 /\ singer.failures < MaxAudioFailures
PlayFails == /\ Failing /\ song.play \in {"opens", "plays"} /\ ~song.stop
             /\ song' = Announce([song EXCEPT !.play = "ended", !.stop = TRUE], "error")
SpoolFails == /\ Failing /\ song.spool = "runs" /\ song.blocks # <<>> /\ ~song.stop
              /\ song' = [song EXCEPT !.spool = "failing", !.blocks = <<>>]
SpoolReports == /\ song.spool = "failing"
                /\ song' = Announce([song EXCEPT !.spool = "ended", !.stop = TRUE], "error")

Works == /\ ~song.dead /\ (Spool \/ Play \/ Callback \/ SpoolReports)
         /\ UNCHANGED <<singer, pcmWire, pcmBack>>
Failure == /\ ~song.dead /\ (PlayFails \/ SpoolFails)
           /\ singer' = [singer EXCEPT !.failures = @ + 1]
           /\ UNCHANGED <<pcmWire, pcmBack>>
----------------------------------------------------------------------------
PcmInit ==
  /\ singer = [epoch |-> 0, credit |-> 0, sent |-> 0, ended |-> FALSE, heard |-> "nothing",
               failures |-> 0]
  /\ pcmWire = <<>> /\ song = Silent /\ pcmBack = <<>>

PcmNext == Host \/ Sender \/ HostHears \/ Receive \/ Tick \/ Works \/ Failure

----------------------------------------------------------------------------
(* Properties. *)

\* "Invalid blocks, exhausted budgets and disk errors report local audio failure": the
\* receiver does not end for it.
FailureContained == ~song.dead

\* Without a failure nothing ends the receiver: of whatever songs and caches, the host's
\* credits never lead to a block for which there is no room.
WindowKept == song.dead => singer.failures > 0

\* "They do not ... silently lose audio": a song that is reported as finished was played
\* in full, in order.
PlayedInFull ==
  /\ \A i \in DOMAIN song.played : song.played[i] = i
  /\ ("finished" \in {song.events[i] : i \in DOMAIN song.events} \/ song.event = "finished")
        => Len(song.played) = SongBlocks

\* Audio that has stopped by itself has told the host so, or is going to.
FailureTold ==
  song.stop => \/ song.event = "error" \/ \E i \in DOMAIN song.events : song.events[i] = "error"
               \/ \E i \in DOMAIN pcmBack : pcmBack[i] = Msg("error", song.epoch, 0)
               \/ singer.heard = "error" \/ singer.epoch > song.epoch

\* A song that goes on without a failure, a pause or another one is heard to its end.
Sung == singer.epoch > 0 => \/ singer.heard = "finished" \/ singer.failures > 0 \/ song.paused
                            \/ song.epoch # singer.epoch
SongEnds == []<>Sung
=============================================================================
