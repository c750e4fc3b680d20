------------------------------ MODULE Playback ------------------------------
(***************************************************************************)
(* Playing a movie on the presentation machine (media/playback.rs): the    *)
(* decoder threads, the ring to the audio device, its callback, and the    *)
(* thread that shows each frame when the sound has come to it.             *)
(*                                                                         *)
(* Time is counted in frames: frame k is due k ticks into the movie, and   *)
(* the device plays one sample per tick.  A file is read by two demuxers,  *)
(* one for the frames and one for the sound; a stream by one demuxer that  *)
(* finds frames and sound in the order of its packets.  The scheduler's    *)
(* poll is shorter than a tick: a tick comes when it has nothing to do.    *)
(***************************************************************************)
EXTENDS Naturals, Sequences, FiniteSets

CONSTANTS Frames, Samples,  \* length of the movie
          AudioLead, VideoLead,  \* how far a stream's packets run ahead of the other kind
          RingCap,     \* half a second of samples
          Prebuffer,   \* a tenth of a second
          Lookahead,   \* frames decoded ahead of the scheduler in a stream (32); a file: 1
          StallAfter,  \* 250 ms
          MaxTroubles  \* pauses and a failing device

PlaybackAssumption ==
  /\ Frames \in Nat \ {0} /\ Samples \in Nat /\ AudioLead \in Nat /\ VideoLead \in Nat
  /\ RingCap \in Nat \ {0} /\ Prebuffer \in 0 .. RingCap
  /\ Lookahead \in Nat \ {0} /\ StallAfter \in Nat /\ MaxTroubles \in Nat
  /\ AudioLead <= RingCap  \* a stream's sound alone never fills the ring before a frame

VARIABLES demux,   \* the packets each demuxer has still to read
          fast,    \* whether the decoders keep up with the movie
          frames,  \* the queue of decoded frames: how many were sent and taken, closed
          sound,   \* the ring, the device's callback and what Controls says of it
          shows,   \* the scheduler: the frame it waits with and its two clocks
          slot,    \* newest scheduled frame for the user interface, and what it shows
          player   \* the user: paused (and when, for a property), cancelled, a count of troubles

playVars == <<demux, fast, frames, sound, shows, slot, player>>

NoFrame == Frames
Count(s, x) == Cardinality({k \in DOMAIN s : s[k] = x})
Streams == {s \in [1 .. Frames + Samples -> {"video", "audio"}] :
              /\ Count(s, "video") = Frames
              /\ \A k \in DOMAIN s :
                   LET v == Count(SubSeq(s, 1, k), "video")
                       a == Count(SubSeq(s, 1, k), "audio")
                   IN  a <= v + AudioLead /\ v <= a + VideoLead}
Sources == {<<[k \in 1 .. Frames |-> "video"], [k \in 1 .. Samples |-> "audio"]>>}
           \cup {<<s>> : s \in Streams}
Shared == Len(demux) = 1

----------------------------------------------------------------------------
(* The decoders. *)

\* A decoded frame waits for room.
\* (mutant) a stream has no more room than a file
RoomOfOne == 1
Room == IF Shared THEN Lookahead ELSE 1
DecodeVideo(d) ==
  /\ demux[d] # <<>> /\ Head(demux[d]) = "video"
  /\ IF ~sound.videoReady
     THEN sound' = [sound EXCEPT !.videoReady = TRUE] /\ UNCHANGED <<demux, frames>>
     ELSE /\ frames.sent - frames.taken < Room
          /\ frames' = [frames EXCEPT !.sent = @ + 1]
          /\ demux' = [demux EXCEPT ![d] = Tail(@)] /\ UNCHANGED sound

\* The first sound makes the device's clock the one that counts; samples wait for room
\* in the ring.
DecodeAudio(d) ==
  /\ demux[d] # <<>> /\ Head(demux[d]) = "audio"
  /\ IF ~sound.active THEN sound' = [sound EXCEPT !.active = TRUE] /\ UNCHANGED demux
     ELSE /\ sound.ring < RingCap
          /\ sound' = [sound EXCEPT !.ring = @ + 1]
          /\ demux' = [demux EXCEPT ![d] = Tail(@)]
  /\ UNCHANGED frames

End(d) == /\ demux[d] = <<>>
          /\ \/ /\ d = 1 /\ ~frames.closed
                /\ frames' = [frames EXCEPT !.closed = TRUE] /\ UNCHANGED sound
             \/ /\ d = Len(demux) /\ (d = 1 => frames.closed) /\ ~sound.eof
                /\ sound' = [sound EXCEPT !.eof = TRUE] /\ UNCHANGED frames
          /\ UNCHANGED demux

Decode(d) == DecodeVideo(d) \/ DecodeAudio(d) \/ End(d)
Decoder == /\ ~player.cancelled /\ \E d \in DOMAIN demux : Decode(d)
           /\ UNCHANGED <<fast, shows, slot, player>>

\* Nothing a decoder could do now.
Behind(d) == IF demux[d] = <<>> THEN (d = 1 /\ ~frames.closed) \/ (d = Len(demux) /\ ~sound.eof)
             ELSE IF Head(demux[d]) = "video" THEN ~sound.videoReady \/ frames.sent - frames.taken < Room
             ELSE ~sound.active \/ sound.ring < RingCap

----------------------------------------------------------------------------
(* The scheduler. *)

Waiting == shows.frame # NoFrame
Held == player.paused /\ ~shows.initial   \* a paused seek still shows its first frame

\* Sound that stands still for longer than StallAfter is taken to go on.
\* (mutant) it is not
EffectiveStuck == sound.samples
Effective == sound.samples + (IF shows.age > StallAfter THEN shows.age ELSE 0)
Clock == IF sound.active THEN Effective ELSE shows.elapsed
Due == Waiting /\ ~Held /\ Clock >= shows.frame

\* The poll of the device's progress.
Polled(s, samples) == IF samples = s.last THEN s ELSE [s EXCEPT !.last = samples, !.age = 0]

Take == /\ ~player.cancelled /\ ~Waiting /\ frames.taken < frames.sent
        /\ frames' = [frames EXCEPT !.taken = @ + 1]
        /\ shows' = Polled([shows EXCEPT !.frame = frames.taken], sound.samples)
        /\ UNCHANGED <<demux, fast, sound, slot, player>>

\* The slot holds one frame: the older one gives way.
\* (mutant) the newer one does
PutKeepingOld(f) == IF slot.next = NoFrame THEN [slot EXCEPT !.next = f] ELSE slot
Put(f) == [slot EXCEPT !.next = f]
Show == /\ ~player.cancelled /\ Due
        /\ slot' = Put(shows.frame)
        /\ shows' = [shows EXCEPT !.frame = NoFrame, !.initial = FALSE, !.newest = shows.frame]
        /\ UNCHANGED <<demux, fast, frames, sound, player>>

Finish == /\ ~shows.finished
          /\ player.cancelled \/ (~Waiting /\ frames.closed /\ frames.taken = frames.sent)
          /\ shows' = [shows EXCEPT !.finished = TRUE, !.frame = NoFrame]
          /\ UNCHANGED <<demux, fast, frames, sound, slot, player>>

----------------------------------------------------------------------------
(* A tick: the device's callback, and the time that the scheduler sees pass. *)

Running == ~player.paused /\ sound.videoReady /\ sound.active /\ ~sound.failed
\* A callback primes itself when the ring holds the reserve, or all there is.
Primed == sound.primed \/ sound.ring >= Prebuffer \/ sound.eof
Callback ==
  IF sound.failed THEN sound
  ELSE IF Running /\ Primed /\ sound.ring > 0
  THEN [sound EXCEPT !.ring = @ - 1, !.samples = @ + 1, !.primed = TRUE]
  ELSE IF Running /\ Primed
  THEN [sound EXCEPT !.primed = FALSE,
                     !.underrun = @ \/ ~sound.eof]
  ELSE [sound EXCEPT !.primed = Primed]

Least(a, b) == IF a < b THEN a ELSE b
Tick ==
  /\ ~player.cancelled /\ ~shows.finished /\ ~Due
  /\ (Waiting \/ (frames.taken = frames.sent /\ ~frames.closed))
  /\ fast => (\A d \in DOMAIN demux : ~Behind(d))
  /\ sound' = Callback
  /\ shows' = IF Waiting /\ Held THEN [shows EXCEPT !.age = 0]
              ELSE Polled([shows EXCEPT !.age = Least(@ + 1, Frames + StallAfter),
                                        !.elapsed = IF Waiting THEN Least(@ + 1, Frames) ELSE @],
                          sound'.samples)
  /\ UNCHANGED <<demux, fast, frames, slot, player>>

----------------------------------------------------------------------------
(* The user and the machine. *)

Troubled == player.troubles < MaxTroubles
Pause == /\ ~player.cancelled
         /\ player.paused \/ Troubled
         /\ player' = [player EXCEPT !.paused = ~@,
                                     !.troubles = IF player.paused THEN @ ELSE @ + 1]
         /\ UNCHANGED <<demux, fast, frames, sound, shows, slot>>
Stop == /\ ~player.cancelled /\ player' = [player EXCEPT !.cancelled = TRUE]
        /\ UNCHANGED <<demux, fast, frames, sound, shows, slot>>
DeviceFails == /\ Troubled /\ ~sound.failed
               /\ sound' = [sound EXCEPT !.failed = TRUE]
               /\ player' = [player EXCEPT !.troubles = @ + 1]
               /\ UNCHANGED <<demux, fast, frames, shows, slot>>
Present == /\ slot.next # NoFrame /\ slot' = [next |-> NoFrame, screen |-> slot.next]
           /\ UNCHANGED <<demux, fast, frames, sound, shows, player>>
----------------------------------------------------------------------------
PlayInit ==
  /\ demux \in Sources /\ fast \in BOOLEAN
  /\ frames = [sent |-> 0, taken |-> 0, closed |-> FALSE]
  /\ sound = [ring |-> 0, samples |-> 0, primed |-> FALSE, active |-> FALSE, eof |-> FALSE,
              videoReady |-> FALSE, failed |-> FALSE, underrun |-> FALSE]
  /\ shows = [frame |-> NoFrame, initial |-> TRUE, last |-> 0, age |-> 0, elapsed |-> 0,
              newest |-> NoFrame, finished |-> FALSE]
  /\ slot = [next |-> NoFrame, screen |-> NoFrame]
  /\ player = [paused |-> FALSE, cancelled |-> FALSE, troubles |-> 0]

PlayNext == Decoder \/ Take \/ Show \/ Finish \/ Tick \/ Pause \/ Stop \/ DeviceFails \/ Present

----------------------------------------------------------------------------
(* Properties. *)

\* "Bounded video lookahead allows the shared demuxer to refill audio": sound and video
\* of a stream that is decoded in time play without a gap in the sound, although the
\* demuxer of both waits whenever the frames wait for the sound.
NoGap == fast => ~sound.underrun

\* Dropping frames never drops the last one that came due.
NewestShown == shows.newest = NoFrame \/ slot.next = shows.newest
               \/ (slot.next = NoFrame /\ slot.screen = shows.newest)

\* A movie that is not stopped or left paused is played to its end, with sound that ends
\* early or late, in whatever order the packets of a stream come, and with a device that
\* fails.  (A stream whose device fails is excepted: its only demuxer waits for room in
\* the ring for good.)
Played == player.paused \/ player.cancelled \/ shows.finished \/ (Shared /\ sound.failed)
PlaysToEnd == []<>Played
=============================================================================
