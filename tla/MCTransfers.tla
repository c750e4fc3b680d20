---------------------------- MODULE MCTransfers ----------------------------
(* What a session and its frontend transfer, and what is played: dropped files (D),      *)
(* exported files (E), movies of a local file or stream (Y) with the clock they are      *)
(* paced by (K), movies and songs of another machine (R, S), packets of a live canvas    *)
(* (V), and what the terminal is sent of all that is shown (G).  They share no state:    *)
(* part picks the one that moves, the others stay in their initial states.               *)
EXTENDS Naturals

CONSTANTS Parts,
          None, Roots, Nested, Dir, RequestCap, ReplyCap, MayMove, MaxDrops, MaxDropTroubles,
          Sizes, ExportWindow, MaxExports, MaxExportFailures,
          Frames, Samples, AudioLead, VideoLead, RingCap, Prebuffer, Lookahead, StallAfter,
          MaxTroubles,
          Readers, MaxPeriods,
          Blocks, Window, InFlight, MediaRoom, WireRoom, OutRoom, Switches, MaxRestarts,
          MaxFailures,
          SongBlocks, PcmWindow, RingBlocks, PcmRoom, MaxSongs, MaxAudioFailures,
          FrameWindow, VideoWireRoom, MaxVideos, MaxBroken,
          Texts, Heavy, WireCap, FileCap, MaxScenes, MaxFrames, MaxResizes, MaxToggles, MaxKeys,
          MaxEvents, MaxLosses

VARIABLES part,
          terminal, bridge, workers, replies, dropsToHost, toBridge, receiver, disk,
          sender, chunks, answers, partial, directory, exports,
          demux, fast, frames, sound, shows, slot, player,
          sequence, fields, writing, readers,
          host, media, toFront, front, toHost,
          singer, pcmWire, song, pcmBack,
          kiosk, videoWire, video, decoder, videoBack,
          tty, wire, regions, movie, layer, paint, fe, done

dVars == <<terminal, bridge, workers, replies, dropsToHost, toBridge, receiver, disk>>
eVars == <<sender, chunks, answers, partial, directory, exports>>
yVars == <<demux, fast, frames, sound, shows, slot, player>>
kVars == <<sequence, fields, writing, readers>>
rVars == <<host, media, toFront, front, toHost>>
sVars == <<singer, pcmWire, song, pcmBack>>
vVars == <<kiosk, videoWire, video, decoder, videoBack>>
gVars == <<tty, wire, regions, movie, layer, paint, fe, done>>

\* All that does not move with a part.
dRest == <<part, eVars, yVars, kVars, rVars, sVars, vVars, gVars>>
eRest == <<part, dVars, yVars, kVars, rVars, sVars, vVars, gVars>>
yRest == <<part, dVars, eVars, kVars, rVars, sVars, vVars, gVars>>
kRest == <<part, dVars, eVars, yVars, rVars, sVars, vVars, gVars>>
rRest == <<part, dVars, eVars, yVars, kVars, sVars, vVars, gVars>>
sRest == <<part, dVars, eVars, yVars, kVars, rVars, vVars, gVars>>
vRest == <<part, dVars, eVars, yVars, kVars, rVars, sVars, gVars>>
gRest == <<part, dVars, eVars, yVars, kVars, rVars, sVars, vVars>>

D == INSTANCE Drops WITH toHost <- dropsToHost, host <- receiver, MaxTroubles <- MaxDropTroubles
E == INSTANCE Exports WITH Window <- ExportWindow, MaxFailures <- MaxExportFailures
Y == INSTANCE Playback
K == INSTANCE AudioClock
R == INSTANCE RemoteMedia
S == INSTANCE Pcm
V == INSTANCE CanvasVideo
G == INSTANCE Screen

ASSUME TransfersAssumption ==
  /\ D!DropsAssumption /\ E!ExportsAssumption /\ Y!PlaybackAssumption /\ K!AudioClockAssumption
  /\ R!RemoteMediaAssumption /\ S!PcmAssumption /\ V!CanvasVideoAssumption
  /\ G!ScreenAssumption

Start ==
  /\ part \in Parts
  /\ D!DropInit /\ E!ExportInit /\ Y!PlayInit /\ K!ClockInit /\ R!RemoteInit
  /\ S!PcmInit /\ V!VideoInit /\ G!ScreenInit
  /\ part = "playback" \/ (~Y!Shared /\ fast)
  /\ part = "remote" \/ host.mode = "proxy"

Turn ==
  \/ part = "drops" /\ D!DropNext /\ UNCHANGED dRest
  \/ part = "exports" /\ E!ExportNext /\ UNCHANGED eRest
  \/ part = "playback" /\ Y!PlayNext /\ UNCHANGED yRest
  \/ part = "clock" /\ K!ClockNext /\ UNCHANGED kRest
  \/ part = "remote" /\ R!RemoteNext /\ UNCHANGED rRest
  \/ part = "pcm" /\ S!PcmNext /\ UNCHANGED sRest
  \/ part = "video" /\ V!VideoNext /\ UNCHANGED vRest
  \/ part = "screen" /\ G!ScreenNext /\ UNCHANGED gRest

allVars == <<part, dVars, eVars, yVars, kVars, rVars, sVars, vVars, gVars>>

Transfers == Start /\ [][Turn]_allVars

(* Threads that have work do it, messages arrive, audio devices call.  A failure is never *)
(* due, and neither is what a user or the application does.  Each is a thread, a turn of  *)
(* a loop or a message by itself; since part never changes, those of different parts can  *)
(* share a condition.                                                                     *)
Due1 ==
  \/ part = "exports" /\ E!NextMessage /\ UNCHANGED eRest
  \/ part = "playback" /\ Y!Decoder /\ UNCHANGED yRest
  \/ part = "remote" /\ R!Worker /\ UNCHANGED rRest
  \/ part = "pcm" /\ S!Sender /\ UNCHANGED sRest
  \/ part = "video" /\ V!Decode /\ UNCHANGED vRest
  \/ part = "screen" /\ G!Obey /\ UNCHANGED gRest
Due2 ==
  \/ part = "exports" /\ E!HostAnswer /\ UNCHANGED eRest
  \/ part = "playback" /\ Y!Take /\ UNCHANGED yRest
  \/ part = "remote" /\ R!Effects /\ UNCHANGED rRest
  \/ part = "pcm" /\ S!HostHears /\ UNCHANGED sRest
  \/ part = "video" /\ V!Join /\ UNCHANGED vRest
  \/ part = "screen" /\ G!Draw /\ UNCHANGED gRest
Due3 ==
  \/ part = "exports" /\ E!TakeResult /\ UNCHANGED eRest
  \/ part = "playback" /\ Y!Show /\ UNCHANGED yRest
  \/ part = "remote" /\ R!Drain /\ UNCHANGED rRest
  \/ part = "pcm" /\ S!Receive /\ UNCHANGED sRest
  \/ part = "screen" /\ G!Age /\ UNCHANGED gRest
Due4 ==
  \/ part = "exports" /\ E!ClientReceive /\ UNCHANGED eRest
  \/ part = "playback" /\ Y!Finish /\ UNCHANGED yRest
  \/ part = "remote" /\ R!Write /\ UNCHANGED rRest
  \/ part = "pcm" /\ S!Tick /\ UNCHANGED sRest
  \/ part = "screen" /\ G!Loop /\ UNCHANGED gRest
Due5 ==
  \/ part = "playback" /\ Y!Tick /\ UNCHANGED yRest
  \/ part = "remote" /\ R!HostReceive /\ UNCHANGED rRest
  \/ part = "pcm" /\ S!Spool /\ S!Works /\ UNCHANGED sRest
Due6 ==
  \/ part = "playback" /\ Y!Present /\ UNCHANGED yRest
  \/ part = "remote" /\ R!FrontReceive /\ UNCHANGED rRest
  \/ part = "pcm" /\ S!Play /\ S!Works /\ UNCHANGED sRest
Due7 ==
  \/ part = "remote" /\ R!Consume /\ UNCHANGED rRest
  \/ part = "pcm" /\ S!Callback /\ S!Works /\ UNCHANGED sRest
Due8 ==
  \/ part = "remote" /\ R!GiveCredit /\ UNCHANGED rRest
  \/ part = "pcm" /\ S!SpoolReports /\ S!Works /\ UNCHANGED sRest
Due9 ==
  \/ part = "remote" /\ R!AskBlock /\ UNCHANGED rRest
Fair ==
  /\ WF_allVars(Due1) /\ WF_allVars(Due2) /\ WF_allVars(Due3) /\ WF_allVars(Due4)
  /\ WF_allVars(Due5) /\ WF_allVars(Due6) /\ WF_allVars(Due7) /\ WF_allVars(Due8)
  /\ WF_allVars(Due9)

Progress == Transfers /\ Fair

(* The properties of the instances under names of this module. *)
\* A drop is served and removed as it was, another machine's drop is left alone, and an
\* export ends by its own messages.
FilesSafe == /\ part = "drops" => D!MoveSafe /\ D!NotMixed /\ D!OwnStays
             /\ part = "exports" => E!Undisturbed
\* No receiver is sent more than it has said it takes, and no message finds a queue full; a
\* canvas that takes its window back meanwhile is excepted (CreditHonoured is refuted).
CreditsKept == /\ part = "remote" => R!WindowHeld /\ R!NoneDropped
               /\ part = "pcm" => S!WindowKept
               /\ part = "video" => V!CreditFits
\* A local movie is shown without a gap, its newest frame is the one that is shown, and the
\* time it is paced by is that of one period of the device.
InTime == /\ part = "playback" => Y!NoGap /\ Y!NewestShown
          /\ part = "clock" => K!OnePeriod
\* No image is forgotten on the terminal, what is shown is replaced in one step, and a canvas
\* is seen through a hole in the scene.
ScreenKept == part = "screen" => G!NoneForgotten /\ G!ReplacedAtOnce /\ G!HoleFollowsLayer
\* What is played is the movie or the song, in order and to its end, or its failure is told.
MediaIntact == /\ part = "remote" => R!InMovieOrder
               /\ part = "pcm" => S!PlayedInFull /\ S!FailureTold

\* Whatever is begun ends: an export with a result, a movie and a song with their last frame
\* and sample, of another machine too, and a decoder's thread when its video is dropped.
WorkEnds == []<>(/\ part = "exports" => E!Idle
                 /\ part = "playback" => Y!Played
                 /\ part = "remote" => R!Arrived
                 /\ part = "pcm" => S!Sung
                 /\ part = "video" => V!Joined)
Repaired == part = "screen" => G!Repaired
FailureContained == S!FailureContained
=============================================================================
