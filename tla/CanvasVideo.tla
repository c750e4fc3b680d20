---------------------------- MODULE CanvasVideo ----------------------------
(***************************************************************************)
(* Compressed live canvases (canvas_video.rs): the frontend grants a       *)
(* credit for each packet, its decoder thread takes packets and publishes  *)
(* frames over two bounded channels, and the frontend joins the thread     *)
(* when the video is closed, replaced or reset.                            *)
(*                                                                         *)
(* The application of the host is external: it sends a packet for a        *)
(* credit, sets the window and opens and closes videos as it likes.        *)
(***************************************************************************)
EXTENDS Naturals, Sequences

CONSTANTS FrameWindow,     \* 2: the largest window, and room of the decoder's input
          VideoWireRoom,   \* messages on their way to the frontend, and back
          MaxVideos, MaxBroken

CanvasVideoAssumption ==
  {FrameWindow, VideoWireRoom} \subseteq Nat \ {0} /\ {MaxVideos, MaxBroken} \subseteq Nat

VARIABLES kiosk,      \* the application: generation and credits
          videoWire,  \* messages to the frontend
          video,      \* Active, or the one that is being dropped; shrunk is a history: its
                      \* window became smaller than the credit that was out
          decoder,    \* its thread and both channels
          videoBack   \* messages to the host

videoVars == <<kiosk, videoWire, video, decoder, videoBack>>

Video(kind, g) == [kind |-> kind, gen |-> g]
NoVideo == [gen |-> 0, outstanding |-> 0, permitted |-> 0, window |-> FrameWindow,
            pipelined |-> FALSE, shrunk |-> FALSE, failed |-> FALSE, dropping |-> FALSE,
            next |-> 0]
NoDecoder == [step |-> "ended", input |-> 0, output |-> <<>>, open |-> TRUE, broken |-> 0]

----------------------------------------------------------------------------
(* The application. *)

Kiosk(m, k) == Len(videoWire) < VideoWireRoom /\ videoWire' = Append(videoWire, m) /\ kiosk' = k
OpenVideo == /\ kiosk.gen < MaxVideos
             /\ Kiosk(Video("open", kiosk.gen + 1),
                      [gen |-> kiosk.gen + 1, credit |-> 0])
NewWindow(n) == [kind |-> "window", gen |-> kiosk.gen, frames |-> n]
SetWindow == kiosk.gen > 0 /\ \E n \in 1 .. FrameWindow : Kiosk(NewWindow(n), kiosk)
SendPacket == /\ kiosk.credit > 0
              /\ Kiosk(Video("packet", kiosk.gen), [kiosk EXCEPT !.credit = @ - 1])
CloseVideo == /\ kiosk.gen > 0 /\ Kiosk(Video("close", kiosk.gen), [kiosk EXCEPT !.credit = 0])
TakeCredit == /\ videoBack # <<>> /\ videoBack' = Tail(videoBack)
              /\ kiosk' = IF Head(videoBack) = Video("credit", kiosk.gen)
                          THEN [kiosk EXCEPT !.credit = @ + 1] ELSE kiosk
              /\ UNCHANGED videoWire
Application == /\ \/ (OpenVideo \/ SetWindow \/ SendPacket \/ CloseVideo) /\ UNCHANGED videoBack
                  \/ TakeCredit
               /\ UNCHANGED <<video, decoder>>

----------------------------------------------------------------------------
(* The frontend's loop.  Dropping a video disconnects both channels, then joins. *)

Free == ~video.dropping /\ ~video.failed
\* (mutant) the thread is joined first
DroppedLate(g) == /\ video' = [video EXCEPT !.dropping = TRUE, !.next = g] /\ UNCHANGED decoder
Dropped(g) == /\ video' = [video EXCEPT !.dropping = TRUE, !.next = g]
              /\ decoder' = [decoder EXCEPT !.open = FALSE, !.output = <<>>]
Join == /\ video.dropping /\ decoder.step = "ended"
        /\ video' = [NoVideo EXCEPT !.gen = video.next]
        /\ decoder' = [NoDecoder EXCEPT !.step = IF video.next = 0 THEN "ended" ELSE "starts",
                                        !.broken = decoder.broken]
        /\ UNCHANGED <<kiosk, videoWire, videoBack>>

\* A window applies at once, to packets that were credited under a larger one too.
Adopted(n) == [video EXCEPT !.window = n, !.pipelined = TRUE,
                            !.shrunk = @ \/ n < video.outstanding + video.permitted]

Allowed == video.permitted > 0 /\ video.outstanding < video.window
TakePacket == IF ~Allowed \/ decoder.step = "ended" \/ decoder.input = FrameWindow
              THEN video' = [video EXCEPT !.failed = TRUE] /\ UNCHANGED decoder
              ELSE /\ video' = [video EXCEPT !.outstanding = @ + 1, !.permitted = @ - 1]
                   /\ decoder' = [decoder EXCEPT !.input = @ + 1]

Receive ==
  /\ videoWire # <<>> /\ Free
  /\ videoWire' = Tail(videoWire)
  /\ LET m == Head(videoWire)
         mine == m.gen = video.gen IN
     \/ m.kind = "open" /\ Dropped(m.gen)
     \/ m.kind = "close" /\ mine /\ Dropped(0)
     \/ m.kind = "window" /\ mine /\ video' = Adopted(m.frames) /\ UNCHANGED decoder
     \/ m.kind = "packet" /\ mine /\ TakePacket
     \/ m.kind # "open" /\ ~mine /\ UNCHANGED <<video, decoder>>
  /\ UNCHANGED <<kiosk, videoBack>>

\* tick: one frame is taken, then credits go out while both sides have room.  A failure
\* that is told closes the video.
\* (mutant) frames in the decoder's hands do not count
OwedMore(v) == v.window - v.permitted
Owed(v) == IF v.outstanding + v.permitted >= v.window THEN 0
           ELSE IF v.pipelined THEN v.window - v.outstanding - v.permitted
           ELSE IF v.permitted = 0 THEN 1 ELSE 0
Tick ==
  /\ video.gen > 0 /\ Free
  /\ LET taken == decoder.output # <<>>
         error == taken /\ Head(decoder.output) = "error"
         room == VideoWireRoom - Len(videoBack)
         shown == [video EXCEPT !.outstanding = IF taken /\ ~error THEN @ - 1 ELSE @]
         n == IF Owed(shown) < room THEN Owed(shown) ELSE room IN
     IF error
     THEN room > 0 /\ Dropped(0) /\ videoBack' = Append(videoBack, Video("error", video.gen))
     ELSE /\ taken \/ n > 0
          /\ video' = [shown EXCEPT !.permitted = @ + n]
          /\ decoder' = [decoder EXCEPT !.output = <<>>]
          /\ videoBack' = videoBack \o [i \in 1 .. n |-> Video("credit", video.gen)]
  /\ UNCHANGED <<kiosk, videoWire>>

----------------------------------------------------------------------------
(* The decoder's thread: it may fail before the first packet.  Packets that were sent are *)
(* decoded even after a disconnect; a frame waits for room; an error finds room or is     *)
(* lost.                                                                                  *)

Starts == decoder.step = "starts" /\ decoder' = [decoder EXCEPT !.step = "waits"]
Take == /\ decoder.step = "waits" /\ decoder.input > 0
        /\ decoder' = [decoder EXCEPT !.step = "has", !.input = @ - 1]
Publish == /\ decoder.step = "has"
           /\ IF decoder.open
              THEN decoder.output = <<>>
                   /\ decoder' = [decoder EXCEPT !.step = "waits", !.output = <<"frame">>]
              ELSE decoder' = [decoder EXCEPT !.step = "ended"]
Ends == /\ decoder.step = "waits" /\ decoder.input = 0 /\ ~decoder.open
        /\ decoder' = [decoder EXCEPT !.step = "ended"]
Breaks == /\ decoder.step \in {"starts", "has"} /\ decoder.broken < MaxBroken
          /\ decoder' = [decoder EXCEPT !.step = "ended", !.broken = @ + 1, !.input = 0,
                                        !.output = IF decoder.open /\ @ = <<>> THEN <<"error">> ELSE @]
Decode == (Starts \/ Take \/ Publish \/ Ends) /\ UNCHANGED <<kiosk, videoWire, video, videoBack>>
Break == Breaks /\ UNCHANGED <<kiosk, videoWire, video, videoBack>>
----------------------------------------------------------------------------
VideoInit ==
  /\ kiosk = [gen |-> 0, credit |-> 0]
  /\ videoWire = <<>> /\ video = NoVideo /\ decoder = NoDecoder /\ videoBack = <<>>

VideoNext == Application \/ Join \/ Receive \/ Tick \/ Decode \/ Break

----------------------------------------------------------------------------
(* Properties. *)

\* "Live video exceeded its frame credit" and "Live video decoder unavailable" end the
\* frontend: an application that sends for its credits only meets them behind a decoder
\* that broke, unless it has made its window smaller than the credit that was out.
CreditFits == video.failed => decoder.broken > 0 \/ video.shrunk

\* The same without the exception.  A window of one, adopted with one packet in the decoder
\* and the credit for another on its way, breaks it (README.md, section 3).
CreditHonoured == video.failed => decoder.broken > 0

\* "Disconnect both directions before joining": the frontend never waits for a decoder
\* that waits for the frontend.
Joined == ~video.dropping
AlwaysJoined == []<>Joined
=============================================================================
