# starkit: formal model

starkit is a Rust library for graphical terminal applications. A *session* process runs the
application and keeps its state; a *frontend* process owns the terminal, draws the session's scenes
and sends input back. The two speak a framed message protocol over a Unix socket or an SSH pipe, and
a frontend can be lost and replaced while the session lives on. Around that core the library has a
widget runtime, media playback, panes, themes and a self-updater.

This directory models the parts where several actors meet: processes, threads, callbacks, queues that
drop what does not fit, connections that end. Every definition is translated from the source; the line
ranges are in `PROJECT.json` under `map`. Source paths below are relative to `src/src/`; `tg/` is
`terminal_graphics/`.

## 1. The system

| component | state | operations | hard behaviour | what makes it correct |
| --- | --- | --- | --- | --- |
| Input queue, `tg/input_queue.rs` | deque of at most 64 messages, closed flag, one wake token | push with coalescing of positions, pop, close | UI thread and writer thread under one mutex, a one-token wake channel, a full queue | order kept, only superseded positions lost, no lost wake-up |
| Connection, `tg/client.rs` | media channel, control and frame channels, reader and writer threads | spawn, send, drop | writer asleep in a select; newest-only frame slot; death of either side | close ends the threads |
| Frontend loop, `tg/client.rs` | geometry and its generation, last scene, keys waiting for a frame, pointer state, connection | handshake, scene, resize, switch of presentation, key, pointer, focus, reconnection | input judged by a picture that is still being drawn; reconnection in the middle of everything | keys in order, input only for what is visible, nothing replayed |
| Session loop, `tg/session.rs` | peer, candidates, viewport, pending scene, presentation budget, effects, transports | attach, take over, input, acknowledgement, scene, detach, shutdown | takeover races, slow peers, full control channel | never waits for what cannot come; detach is told to the application |
| Admission, `tg/protocol.rs` | presented scene, pressed generation, last input id | admit, cancel_release, presented | stale input against a newer scene | a release is never lost, a stale press never acts |
| Live frames, `tg/live_canvas.rs` | box of newest updates, per-stream slot with pending, flight and lease | submit, flush, acknowledge, close | descriptors refused by a full channel, leases outliving the stream | budget, generation order, leases that settle |
| Pixel stream, `tg/pixel_stream.rs` | encoder thread, box, bounded channels, base pictures | submit, encode patch or frame, publish, acknowledge, drop | patch against a picture the frontend no longer shows, publish blocked while the transport is dropped | patches fit, streams settle, the thread ends |
| Layers, `tg/canvas_frontend.rs` | at most 8 layers, of both transports | receive, close | close lost, ninth layer | one transport alone does not meet the bound |
| Renderers, `tg/renderer.rs`, `tg/cells.rs` | newest input, picture in work, output | submit, render, take | newest-only queues in a row | the terminal never goes back |
| Embedded input, `tg/embedded_input.rs` | Router: active canvas, keys and buttons held | event, route, focus, release | canvas removed while held | application and Router agree on what is held |
| UI runtime and host, `ui/runtime.rs`, `ui/application.rs` | retained frame, capture, attachment count | update, pointer, cancel, scene, input, detached | view changes between press and release | a release activates what was pressed |
| Updater, `update.rs` | cache files, executable, backup, flock | check, stage, activate, rollback, set_policy, background_once | several processes, killed between two renames | paired files, safe activation |
| Playback, `media/playback.rs`, `media/playback/clock.rs` | packets, queue of frames, schedule, device clock, newest frame | open, play, pause, stop, callback | decoder waits for room that only playing makes, real-time callback, readers of a clock that is being written | every frame is shown in time, the end is reached, a reader sees one period |
| Remote media, `tg/media_runtime.rs`, `tg/media.rs`, `tg/original.rs` | generations, windows, requests, credits | start, seek, quality, feed, stop | messages of an older generation, a change that overtakes another on a second channel | no stale block, all of the movie arrives |
| Songs, `tg/audio_v2.rs`, `tg/pcm_cache.rs`, `pcm*.rs` | window of blocks, cache file, ring, device | start, block, end, failure, stop | cache and device fail on threads of their own | the song in order and to its end, or its failure is told |
| Live video, `tg/canvas_video.rs` | packets in flight, decoder thread, credits | open, packet, decode, drop | decoder breaks while packets wait | credits are given back, the thread is joined |
| Drops, `tg/drop_bridge.rs`, `tg/drop_receive.rs` | requests, entries, workers, the host's tree | offer, read, cancel, finish, remove | a worker's late answer, another drop while one is served, a source replaced meanwhile | only what was received, of the drop it belongs to, is removed |
| Exports, `tg/exports.rs` | sender with credits, partial file | start, chunk, acknowledge, finish, cancel | cancel against the last message, a disk that fails | the file is complete or gone, each export ends once |
| Connections of a session, `tg/session.rs`, `tg/frontend_actions.rs` | candidates, peer, viewport, effects, openers | hello, take over, refuse, effect, reply, expire | exclusive sessions, slow candidates, effects sent and never answered | effects and replies stay with their connection |
| Assets, `tg/assets.rs` | what session and frontend hold of pictures | send, insert, forget | two counts that are kept apart | a picture in the scene is held |
| Terminal images, `tg/native.rs`, `tg/placement.rs`, `tg/video_presenter.rs` | image numbers, uploads, placements, what the frontend believes is shown | place, swap, delete, read a reply | a terminal that loses an image, numbers reused while shown, a scene and a movie that change at once | no image forgotten on the terminal, a picture replaced in one step |
| Painter, `tg/renderer.rs`, `tg/native.rs` | decoded skins, rasters of surfaces, the frame of an animation | paint, repeat, poll | pictures that come after the scene that shows them | the artwork it was given is what it paints |
| Dock, panes, focus, `dock.rs`, `panes.rs`, `diagnostics.rs` | sizes, hidden panels, drag, tree of panes, focus and modal scopes | solve, drag, cancel, hide, show, degrade, focus, open, close | areas that are too small, a resize in the middle of a drag | frames tile, a cancelled drag leaves nothing, focus is on something that is there |
| Text, lists, commands, dialogs, chrome: `input.rs`, `wrap.rs`, `vlist.rs`, `chrome/`, `ui/command.rs`, `keymap.rs`, `help.rs`, `theme/picker.rs` | cursor and scroll, anchor and bar, registry, selection | keys, clicks, wheel, drags, changes of the content | drawing and hit testing computed apart, content that changes under an anchor, boundaries of small areas | a click means what is drawn, a reader keeps the place, a key has one meaning |

`PROJECT.json` lists every component with its sources and its status.

How they meet: the user's events go Frontend loop -> Router -> input queue -> writer -> transport ->
session reader -> Session loop -> Admission -> Host -> Runtime. Scenes go Host -> Session loop ->
newest-only frame slot -> transport -> frontend reader -> newest-only slot -> Frontend loop -> renderer
-> terminal, and `Presented` goes back along the input path. Live frames go producer -> box -> transport
-> control channel (bounded; refusals are ignored) -> layers, and acknowledgements go back.

## 2. Modules

| module | models | state and actions |
| --- | --- | --- |
| `Outbox` | input queue and writer thread | `queue`, `closed`, `wake` are `State`; the writer has a program counter with a step per lock, channel and transport call |
| `LiveCanvas` | producers' box, lease transport, frontend layers | `slots` is `Transport.streams`, `control` the bounded channel, `layers` the frontend's; one action per submission, flush, acknowledgement, receipt, attachment; `beside` the layers of lossless streams |
| `PixelStream` | lossless transport with its encoder thread | `box`, `acks`, `output` are the three channels; the encoder goes through its loop: acknowledgements, updates, encoding; `leased` the layers of leased streams |
| `MCCanvases` | `LiveCanvas` and `PixelStream`, which a session drives in one attachment, each stream by one of them | `part` picks the transport that is followed in full. What it shares with the other is the table of layers and the room of the channels: `beside` and `leased` are the other's layers, which come and go as they like |
| `Presentation` | a picture's way to the terminal and a key's way back, with reconnection | records `se`, `fe`, `paint` for the loops, `up` and `down` for the channels of each connection |
| `Gestures` | a press and its release through Router, Admission, Host and Runtime | records `ui`, `ctl`, `se`, `fe`; scenes and inputs in flight; `fe.course` is a history of the gesture the user makes, which went astray when the Router took a part of it or another button forgot its press |
| `Update` | the self-updater in several processes | every file of the cache is a variable, every rename or removal an action; `lock` is the flock |
| `Attachment` | a session's accept loop with its candidates, the peer, links that the frontend opens | `sockets` are the connections, `loop` the session's turn, `links` what the application asked to open, `windows` the frontends |
| `Assets` | the pictures of scenes | `sent` is the session's set, `kept` the frontend's, `wires` the messages between them, `painted` what the last scene shows |
| `Drops` | bridge, workers, the terminal, the host's receiver | `bridge` and `workers` of the frontend, `replies`, `dropsToHost` and `toBridge` the queues, `disk` the source files; a last look at a source and its removal are two steps, as are the changes between them |
| `Exports` | sender in the session, receiver in the frontend | `chunks` and `answers` the two directions, `partial` and `directory` what is on disk; reading a chunk may fail |
| `Playback` | a local movie | `demux` the packets, `frames` the queue, `sound` ring and device, `slot` the newest frame, `player` the schedule |
| `AudioClock` | the seqlock between the device's callback and readers of the time | `sequence` and `fields` are the atomics, a step per load or store |
| `RemoteMedia` | original and encoded movies of the session in a frontend | `host` the worker, `media` its channel, `front` the frontend's store, `toFront`, `toHost` the transport |
| `Pcm` | a song of the session in the frontend | `singer` sends within the window, `song` is cache thread, player thread and ring |
| `CanvasVideo` | compressed live canvases in the frontend | `kiosk` the session, which sets its window, `decoder` the thread, which may fail before the first packet |
| `Dock`, `Panes`, `Focus` | solver, drag and hiding; rows of responsive panes; focus and modal scopes | their frames are recomputed by the code on every change, here by the same operators |
| `MCServices` | `Update`, `Attachment`, `Assets`, `Dock`, `Panes`, `Focus` | `part` picks the one that moves |
| `Screen` | `KittyPresenter`, `VideoPresenter`, the layer of a canvas and the loop that drives them | `loop` the frontend's beliefs, the terminal's images and placements, what is written and not yet read |
| `MCTransfers` | `Drops`, `Exports`, `Playback`, `AudioClock`, `RemoteMedia`, `Pcm`, `CanvasVideo`, `Screen` | the same, with the fairness of their threads |
| `Editor` | a text field and the wrapping it moves through | `field` is `TextInput`; clusters, rows and caret are computed as the code computes them and compared with definitions |
| `ScrollBar`, `Scrolling` | the arithmetic of a bar; a list of items of different heights under it | `list` the anchor, `drawn` and `held` the bar as drawn and as grabbed |
| `Runtime` | controls of an application in its `Host` | `rt` the Runtime, `app` what the application asked for and was told, `view` what it shows |
| `Commands` | the registry with scopes, key spellings and tables of bindings | one action per registration, view, enabling and key |
| `Dialogs`, `Chrome` | guide and theme picker; headers, frames, settings, questions | what is drawn and what a click means, as two definitions |
| `Painter` | the worker's painter and what it keeps between paintings | `painter` the skins and rasters, `worker` its loop, `fed` the frontend that feeds it and forgets its skins with each session |
| `MCInterface` | `Editor`, `Scrolling`, `Runtime`, `Commands`, `Dialogs`, `Chrome`, `Painter` | the same; they share no state |
| `OutboxProofs`, `PixelStreamProofs`, `CanvasesProofs` (for `LiveCanvas` and the composition), `PresentationProofs`, `GesturesProofs`, `ServicesProofs` (for `Update`, `Assets` and `Attachment`), `TransfersProofs` (for `Playback`, `AudioClock`, `CanvasVideo` and `Pcm` as `MCTransfers` composes them), `RemoteMediaProofs` (for `RemoteMedia`, and what the three receivers have in common) | theorems | |
| `MCOutbox`, `MCPresentation`, `MCGestures` | instances | constants only |

Operators marked `(mutant)` are wrong variants of the definition after them; no specification uses
them. They show that a property depends on the code it is about.

Data is abstract: a message is the fields its reader tells apart, a picture a model value with
dimensions, a scene a revision, a generation and a content number, an executable its version. What
each module leaves out is in its header.

## 3. Runs

Passing runs check every property over the whole state space of the instance.

| run | properties | shows |
| --- | --- | --- |
| `outbox` | TypeOK InOrder NothingElseLost NoLostWakeup Drains CloseEndsWriter | Coalescing keeps order and offers; the writer is never asleep on work; what is queued leaves the queue; closing ends the writer |
| `canvases` | TypeOK RetiredStaysClosed InGenerationOrder LeasesHeld PixelsInSync | Both transports, each beside the other, with channels that fill, one identity too few and reattachment |
| `canvas_progress` | LayersFit FramesSettle StopEndsEncoder | With room on the channels every stream comes to rest, and dropping a transport ends its thread |
| `presentation_input` | TypeOK KeysKept WaitsForSomething NeverBackwards ResizeSettles | Any three disturbances of resize, switch, content, keys, hover and reconnection (which counts two) |
| `gestures` | TypeOK GesturesMatch GestureEnds | Four events of two buttons, the keys or the focus against any change below or around them |
| `services` | PendingPaired OncePerWindow EffectsKept SkinsStay FramesKept InstallsSafely | Two updating processes with a stop or a failure between any two file operations; connections that are taken over, refused and lost while links are open; scenes with more pictures than are kept; docks, panes and focus in areas that are too small |
| `transfers` | FilesSafe CreditsKept InTime MediaIntact ScreenKept | Drops that are cancelled, replaced and disconnected; exports that fail; a movie and its clock; remote movies and songs over several generations; images on a terminal |
| `transfers_progress` | WorkEnds Repaired | What is begun ends, when threads work and messages arrive; a terminal that loses an image is repaired |
| `interface` | TextRight ListsRight ControlsRight DialogsRight StepsRight | Text, lists, controls, commands, dialogs and chrome against definitions of what they mean; the painter's caches |

Runs that TLC refutes, each a disagreement between the code and what the repository says of it
(`findings` in `PROJECT.json` quotes the lines):

| run | property | what happens |
| --- | --- | --- |
| `presentation_hello` | HandshakeEnablesInput | The reader can put the first scene in its slot before the loop handles `Hello`, which drops it; no other scene comes until something changes |
| `update_off` | OffMeansOff | `activate` does not read the policy; a worker that read it before it was turned off, or a process killed before `clear_pending`, leaves an update that the next start installs |
| `artwork_lost` | ArtworkStays | A surface painted before its late skin has a raster without it under the same surface; moving an animation paints the scene again without the bytes and takes that raster |

The modules also define properties that TLC refutes and no run checks; their comments say which
instance shows it.

| property | what happens |
| --- | --- |
| `LiveCanvas.FlightAccounted` | A full control channel refuses a descriptor after its frame was leased: the stream stays in flight and nobody acknowledges it |
| `PixelStream.RetiredStaysRetired`, with four updates | Opening a stream makes the encoder forget closed generations; a late frame of one shows again, and `active()` stays true after it |
| `Gestures.DetachReleases` | When an Ack cannot be sent the peer goes without `controller.detached()`: a press stays captured |
| `Gestures.GestureAlwaysEnds` | "Always balance a captured release" (`tg/protocol.rs:657`) fails for a gesture that went astray, until a resize, a switch, a lost focus or a reattachment. Either a press on a plain control is released over an interactive canvas, so that the Router takes the release and the capture stays; or another button goes down and up in between, and its release makes `Admission`, which keeps one press, forget the left button's (`tg/protocol.rs:658`) |
| `LiveCanvas.TableSuffices` | "Eight stream identities ... per transport" (`README.md:157` of the repository): with leased and lossless streams in one attachment (`tg/session.rs:612`) they share the frontend's table of eight, and the ninth layer ends the frontend (`tg/canvas_frontend.rs:68`, `106`, `153`) |
| `FramesSettle`, with `AckCap = 1` | A stream's acknowledgement finds the encoder's channel full behind another's and is dropped (`tg/pixel_stream.rs:347`): the stream stays in flight and its next frame is never sent |
| `CanvasVideo.CreditHonoured` | A `Window` of one arrives with one packet in the decoder and the credit for another on its way or used: the next packet, sent for a credit, "exceeded its frame credit" and ends the frontend (`tg/canvas_video.rs:134`, `157`) |
| `Drops.MoveUnaltered` | "replaced/modified sources ... cannot authorize source removal" (`docs/terminal-graphics.md:176`): after the manifest was checked each removal looks at device and inode only, and looks and removes in two calls (`tg/drop_bridge.rs:666`). A source that is modified in place meanwhile, or replaced between the two calls, is removed |
| `Painter.NoneRefused` | `assets.rs:139` in `tg/` makes the session anticipate what the painter keeps, but a new session clears the frontend's skins (`tg/client.rs:1149`) and not the painter's, so that three skins in two sessions where two fit make the painter refuse (`native_surface/skin/assets.rs:70`) and its worker end (`tg/renderer.rs:254`) |
| `Assets.SceneComplete` | The frontend holds eight previews; a scene with eight others makes the session count eight, which is not too many, so it sends them; the frontend clears all of its own on the ninth it inserts, and the first ones of the new scene are gone until the session forgets at a later one |
| `RemoteMedia.MovieArrives`, with `Switches = TRUE` | `OriginalOpen` travels on the media channel and `Open` on the control channel: after two changes of quality the older movie can replace the newer |
| `Pcm.FailureContained` | A song's cache fails to write: its thread drops the channel of blocks before it reports (`tg/audio_v2.rs:190`), and the next block, for which the host has a credit, ends the frontend; `docs/terminal-graphics.md:210` contains the failure to the stream |
| `Panes.KeepUnclipped` | Two panes that may be hidden share a wrapped line: hiding one alone relieves nothing, so neither is hidden and the pane to be kept is clipped |
| `Screen.MovieSeen` | A movie's first frame that comes after its scene was drawn stays under an opaque pane until something draws the scene again |
| `Editor.UpAndDownMoveARow`, `Editor.CaretIsReal` | At the end of a row that a long word was cut at, the caret's offset is also the start of the next row, and a step up or down stays (`input.rs:447`); a wide character that the scroll of a single line cuts puts the caret off what is drawn (`input.rs:7`) |
| `Scrolling.ReaderStays` without its guards | Items that are trimmed beyond the anchor leave it past the end, and the next item that arrives moves the reader |
| `Runtime.SelectionShown`, with `Vetoes = TRUE` (`SelectionRevealed` of `MCInterface`) | A selection that the application changes and changes back before the list is drawn is not revealed (`docs/application-ui.md:109`) |
| `Runtime.VisibleUsable` | While the application asks for a control that is hidden, a press on a visible one can lose its capture within the same event (`docs/application-ui.md:84`) |
| `Runtime.AppInStep`, with `Interrupts = TRUE` | Esc on a modal, or the wheel, in the middle of a gesture: the capture goes and the application is not told, so it believes in a press or a motion that has ended (`docs/application-ui.md:121`) |
| `Commands.OneMeaning`, with the spelling shift+backtab | That spelling is not normalised, so it does not conflict with backtab, and a terminal's key matches both (`ui/command.rs:81`) |
| `Commands.RegistryAgrees` | The registry does not normalise a key as a table of bindings does: it finds nothing for shift+tab of a terminal that sends it so (`keymap.rs:246`) |
| `Painter.LastFrameShown` | The worker sleeps for an hour once the animation has ended by the clock; if it ends between a painting and that look, its last frame is not painted (`tg/renderer.rs:208`, `tg/native.rs:423`) |

Smaller things met while modelling, without a property of their own: a request for focus that a direct
user of `Runtime` makes during a modal is forgotten when it closes (`ui/runtime.rs:200`); a click below
the guide's last row selects the last match, and in a box narrower than eight columns rows answer clicks
though nothing is drawn; a category that is called "All commands" is counted twice (`help.rs:335`);
inside `padding_scope(true)` the picker's cells answer one row off (`theme/picker.rs:124`) and padded
settings draw over their heading; a question narrower than its footer answers clicks on its blank
border; pasting keeps the column that Up and Down aim for (`input.rs:64`).

### Bounds

Every bound is a constant of the module and named in the `.cfg`.

- `outbox`: a queue of two and three pushes, four positions of two families and two generations, an
  offer, one media message. A position, what may supersede it and a boundary between the two is the
  smallest case in which coalescing can go wrong, and a third push meets the full queue. Batches of one
  make the writer return to its select as often as it can.
- `canvases`: two streams, two generations, four updates. One slot for two streams shows the identity
  bound; a control channel of two meets descriptors, closes and one other message, so all three are
  refused in turn; the budget is one frame (leases) or two pictures (pixels). Two attachments of the
  lease transport replace `Transport` once. The other transport has one layer of the shared table, for
  which there are one (leases) or two (pixels) of their own. Three pictures of two sizes tell patch, repetition and
  complete frame apart.
- `canvas_progress`: the same two streams, three updates. The channels have room for every message,
  since the code drops what does not fit and then promises nothing: see `FlightAccounted` above. Only the
  encoder's output has room for one, because there the code waits. The lossless frontend has room for one
  layer, so that a closed stream has to give its layer back before another needs it; leased streams may
  take it (`MaxLeased = 1`), and the claim is then about them. Leased frames settle without lossless
  layers beside them (`MaxOther = 0`): with them the table may end the frontend, and nothing settles.
- `presentation_input`: two connections, one resize, one switch, two contents, two keys against a
  `PendingKeyboard` of one, one hover, at most three of them together. Each race found in this code
  needs two causes; a third shows that none needs the other to stay away.
- `gestures`: two buttons, of which only the left one reaches the Runtime. Four events are two presses
  and two releases in any order, or one gesture and what comes before and after it; one change of rows,
  layout, canvas or menu, resize, switch or broken connection falls at any point between them, with all
  that follows from it. The theorems need none of these bounds.
- `services`: for `Update` nothing is bounded but the versions. Three are needed to tell forward from
  back when the latest release is withdrawn, two processes for every race on the lock. Three
  connections, two windows and a probe are the fewest with a peer, a candidate that takes over and one
  that is refused; the session's four candidates are two here and its 64 effects are `Room` and
  `LinkLimit`, so that both bounds are met. Four previews of which two are kept are as many as two scenes
  without a common picture need. The dock has two levels, one fixed and one flexible panel in each, in
  an area that fits, one with slack and one that is too small; rows of three panes of five kinds are
  checked in every small area. `SYMMETRY` makes the processes alike,
  which every action and property treats so; the run's one action property, `InstallsSafely`, speaks of
  single steps.
- `transfers`: two drops are the fewest that can be mixed; three exports meet a cancel, a failure and a
  broken connection against windows of two; five frames and two samples make the picture outlive its
  sound; the clock's writer goes through four periods while a reader reads once; three generations of a
  movie and two qualities make a message two generations old; two songs make one late for the other. The terminal has two texts, one of which is too large for the
  image that does without a file, two scenes, two frames, a resize, a switch and a key; a wire of two and
  a file queue of one fill at once, and four events let any of them follow the others.
- `transfers_progress`: fewer frames, blocks and restarts, since each is one more round of the same loop.
  One quality: see `MovieArrives` above. The terminal loses one image and has one scene, one frame and
  one resize, since a repair is the same whatever was lost.
- `interface`: a field of at most three characters of four kinds in rows of two and three columns is the
  smallest in which a wide character, a joiner and a wrapped space meet; a list of at most three items
  of no or three rows under a view of two and three, trimmed once; four turns of the Runtime, with a
  modal, a view that changes and a gesture; two commands in every tree of two scopes; guide and picker
  in three windows, chrome in sixty-three, from nothing to more than enough; two scenes and three skins
  in two sessions for a painter with room for two rasters and two skins.

### Fairness

- `Outbox`: weak fairness of the writer thread, which the operating system schedules; nothing is
  asked of the UI thread.
- `LiveCanvas`, `PixelStream`: weak fairness of the session's turn (drain, flush, acknowledge), of the
  encoder's loop and of the frontend's receipt: each is a loop that looks at all of its inputs in
  every turn and does not wait on the others. Producers are never obliged to submit.
- `Presentation`: weak fairness of the loops and of each thread that moves a message on. Nothing is
  asked of the user, of the application or of a connection that may break, so every liveness property
  ends in "or the attachment ends".
- `MCTransfers`: weak fairness of every thread that has work and of the messages between them; the code
  has a thread or a turn of a loop for each, none of which waits for another but through the queues in
  the model. A failure is never due, and neither is what a user or the application does. The device is
  asked to call back, as long as it works.

`LeasesHeld` and `FramesSettle` are about an attachment that stays; a detached transport has lost its
frontend and needs to settle nothing. `GesturesMatch` has two premises for the canvas: no switch of
presentation, which releases nothing in the Router, and an attachment count of one, which
`DetachReleases` above shows to go wrong. Both are listed under `hazards`.

## 4. Proofs

tlapm checks the theorems for every value of the constants, from the modules' named assumptions only:
capacities are natural numbers, queues that a writer waits on hold at least one message, `None`,
`Nobody`, `Probe` are no value of their kind, and the pictures of scenes are a finite set. Those
assumptions are evaluated by TLC in the runs. Modules that a run composes with others (`Assets`,
`Attachment`) have `AssetInit`, `AssetNext` and so on; their theorems are stated over these, and the
composition gives them each their steps and stutters.

| module | theorem | property | argument |
| --- | --- | --- | --- |
| `OutboxProofs` | TypeCorrect | TypeOK | the queue never exceeds LIMIT, whatever a push removes first |
| | WakeupKept | NoLostWakeup | `WakeInv`: besides the sleeping writer it covers the writer that is still looking: a close it has not seen leaves a token |
| | StreamOrdered | InOrder | `OrderInv`: push numbers increase along what was sent, what the writer holds and the queue, and are below the next; removing a position from the middle keeps that, by lemmas on sequences |
| | OnlyStaleLost | NothingElseLost | `LossInv`: every accepted message is sent, held, queued or has a later one of its kind that is one of these and supersedes it, with no boundary between the two |
| `CanvasesProofs` | TypeCorrect | TypeOK | |
| | RetiredClosed, GenerationsOrdered | RetiredStaysClosed, InGenerationOrder | `GenInv`: along layer, channel and slot a stream's generations never decrease and pass a close only upwards, so that the bound on identities and refusals of the channel do no harm |
| | LeasesAlwaysHeld | LeasesHeld | `LeaseInv`: the frames of a stream on the channel are in the order of their numbers, above every one answered, and its slot awaits the one that is queued; the transport knows every leased layer the frontend has, closes that were refused included, so without lossless layers beside them there is one free. Bytes are counted one by one, as a finite set, so that sums are cardinalities |
| | LosslessInSync | PixelsInSync | of the composition `MCCanvases`, whose lossless part uses the names of `PixelStream` with a prefix: each action of it is the pixel stream's, so that the theorem above applies through the instance |
| `PixelStreamProofs` | PixelsAlwaysInSync | PixelsInSync (of the pixel stream alone) | `PixelInv`: with the encoder's output and the control channel taken as one queue, the frame in flight is the last of its stream there; its acknowledgement exists only once the frontend handled it, and then the queue holds nothing of the stream and the layer is the base of the next patch |
| `PresentationProofs` | TypeAlwaysOK | TypeOK | two invariants of the wiring are needed: who is connected to whom (`Links`) and that a `Hello` is first and alone in its queue (`HelloFirst`) |
| | KeysAlwaysKept | KeysKept | `KeyInv`: in what the session has not yet read of its peer, inputs are numbered upwards, geometries only rise, from what the session knows to what the frontend has, and whatever geometry a key names, the queue before it makes the session know it and know that it was shown (a `Presented` of a scene in its history); keys that wait come after all of these and belong to this attachment |
| `GesturesProofs` | TypeAlwaysOK | TypeOK | `Wires`: a geometry is known to the session and to the Runtime no earlier than to the frontend, and nothing on its way names a later one |
| | GesturesAlwaysMatch | GesturesMatch | `Captured`: every change of rows, scrolling or geometry ends the capture, so it is always of the rows there are. `CanvasInv`: behind any message that makes the application hold something for its canvas there is a release of the Router, unless the Router still has the canvas; and the focus that a resize gives back is given to a Router that has let go |
| | GesturesAlwaysEnd | GestureEnds | `CaptureInv`: a press in the frontend's geometry, captured or on its way, belongs to a gesture that the user still makes or that went astray, or its cancellation or end is behind it on the wire; of an older geometry nothing is claimed. For any set of buttons. What "astray" means is said by the history `fe.course`, which a resize, a switch, a lost focus and a reattachment clear |
| `ServicesProofs` | TypeCorrect, PendingAlwaysPaired, ActivationsSafe | TypeOK, PendingPaired, InstallsSafely | `IInv`: one process at a time is in a step under the lock, and what it read or wrote there still holds at each of its steps |
| | AskedOnce | OncePerWindow | `Window`: before a check is recorded nobody asks, after it at most one process, once |
| | SkinsAlwaysStay | SkinsStay | `AssetInv`: a skin the session counts as sent is with the frontend or in the controls on their way; scenes that have left show only such skins; those there fill the scene. What one painting sends is listed in some order, which the finite set of pictures makes possible |
| | EffectsAlwaysKept | EffectsKept | `AttInv`: a link goes from the application's queue through the loop and the controls of the one connection it was asked on to the opener, in rising order behind those asked before; a candidate has been told nothing; the inputs of a turn that are not yet handled find room for their replies |
| `TransfersProofs` | PlayedInTime | InTime | `PlayInv`: of a stream a beginning has been read, whose frames have been sent and whose samples are in the ring or played; a decoder that could not go on while the ring is dry would be more than the lookahead ahead of the sound. `ClockInv`: as long as the count is the one a reader began with, all it has read is of one period |
| | CanvasCreditFits | `CreditFits`, a part of CreditsKept | `VideoInv`: unless the window became smaller than the credit that was out (`shrunk`; `CreditHonoured` above is what happens then), what is permitted covers the packets of the open video that are on the wire and the credits that the application holds or that are on their way to it; nothing of a video is there before the frontend opens it; what is outstanding is in the decoder |
| `RemoteMediaProofs` | RemoteMovieKept | `WindowHeld`, `NoneDropped` and `InMovieOrder` | `Held`: a generation that the frontend has not opened has nothing but its opening on the wire, its last message is the host's own, and the channel holds a burst at most. `Rules`: what is on the wire, in the channel and in the host's queue is, in this order, the beginning of what the frontend still waits for; a chunk anywhere has been paid with a credit, and credits on their way, held and owed never exceed the window; requests are answered once |
| | CreditsAlwaysKept | CreditsKept | `Held` and `VideoInv` above, and for songs `SongInv` (of `TransfersProofs`): what is on the wire is, in order, the beginning of what the frontend still waits for, and nothing above what is allowed (`Allowed`: the window, once the song is open, and the blocks that have left it) has been sent; what was sent, the credit at hand, the credits on their way back and those still owed never exceed it |
| | MediaAlwaysIntact | MediaIntact | `Rules` above, and `SongInv`: the blocks played, those in the ring, those in the cache and those on the wire follow each other in the order of the song without a gap, so that a song that has drained was played to its end; a song that stops says its error last, and after that nothing |

None of the invariants is inductive alone: `NoLostWakeup` speaks of the sleeping writer and needs the
step before it, `RetiredStaysClosed` of the layer and needs the messages still on the channel,
`InstallsSafely` of one step and needs the ones that prepared it, `KeysKept` of keys that have arrived
and needs everything that is in flight with them, `GestureEnds` of an empty wire and needs what is on it
before. TLC checked each strengthening on the instances
before it was proved. A sum over a queue would need induction; `TransfersProofs` instead looks at a queue
as the sums it runs through (`Pays`) or the sets it leaves (`Leads`), as functions of the position.

`PlayedInTime` has two hypotheses that the code does not check. `AudioLead <= RingCap` (`PlaybackAssumption`,
which the runs of `transfers` assume as well): the sound that a stream has before a frame fits the ring,
so that the decoder gets to the frame. And: in a stream, the frames are ahead of the
sound by no more than the lookahead, the frame that is waited with and the next one. It is needed: with
one frame more in the stream (`VideoLead = 5`, `Frames = 6`) TLC finds the gap.

Only model-checked, and why:

- `WaitsForSomething` and `NeverBackwards` of `Presentation`: their invariant would have to follow every
  scene through both slots, the wire and the renderer at once; `KeyInv` does not.
- `LayersFit`: it holds because the frontend keeps up, under the room of its own run only.
- `FramesKept`: the frames of docks and panes are folds over a row, and what a fold computes for every
  row is induction over data, which this prover cannot do. The same holds for `TextRight`, `ListsRight`
  and most of `DialogsRight`, whose modules are recursive besides.
- `FilesSafe`, `ScreenKept`: each needs an invariant that follows every message through all queues,
  and none has been proved.
- All liveness, and `ENABLED`, which are out of the prover's reach.

## 5. Not modelled

- `Presentation` leaves out Acks and their failures, pings, assets, effects, the capacity of the
  control channel, failed spawns and the backpressure of `accepts_input`. A connection that breaks
  before `Hello` is left out.
- `Gestures` leaves out drags, moves and input identities. A press after a wheel event is judged by the
  scene before the wheel.
- `LiveCanvas` reduces the file system to whether a leased file exists, and pixels to nothing. Of the
  other transport it and `PixelStream` know its layers only; each stream has one transport for good,
  although `lossless_canvas` may answer differently later; acknowledgements of leased frames, which the
  session also gives to the encoder (`tg/session.rs:606`), find no slot there and are left out.
- `Update` makes download and verification one step, keeps no status text, and has one installation per
  cache. It assumes that a check takes less than six hours. Two known weaknesses of `rollback` are
  listed as hazards: an old process that activates over a newer executable, and a kill between the two
  renames of `replace`, both leave a backup equal to the target.
- `Attachment` leaves out drag effects (Osc72), the limit of 64 client names, relay and shutdown. 64
  unacknowledged effects stop the session's effects, which a frontend without terminal extensions never
  acknowledges (`tg/client.rs:1211`, `tg/session.rs:738`); a frontend that reconnects to an exclusive
  session while its own broken connection is still the peer is turned away (`tg/session.rs:414`).
- `Assets` leaves out bytes and validation; `Exports` names and sizes of files, which are one way to
  fail; `Drops` the depth of directories, the removal of empty ones, and the order of a queue of eight
  that turns requests away (`tg/drop_bridge.rs:131`).
- `Playback` leaves out decoding, hardware fallback and tracks; `RemoteMedia` adaptation of the quality,
  limits of bytes and the older audio protocol; `CanvasVideo` an error that finds the output full
  (`tg/canvas_video.rs:113`).
- `Screen` leaves out pixels per cell, tiles within the two images of a scene, inline transfers and a
  broken connection. Image numbers of the real owners start apart and count up: `KittyPresenter` from
  0x534b0000, `VideoPresenter` from 0x53560000, which is 720,896 uploads later, canvases from
  0x6c000000; here an owner never takes a number that another one uses.
- `Editor` leaves out runs of styles and the cache of layouts, `Scrolling` several bars, `Runtime` text
  fields and where controls are placed, `Commands` names of keys, `Dialogs` and `Chrome` colours and
  texts, `Painter` pixels.
- `Dock` has two levels and no focus of its own, `Panes` no nested groups and no resize capture.
- Drawing, text layout, fonts, terminal and GPU probing, operating system calls: input and output
  without state that two actors share.
- Everything else marked `not_modelled` in `PROJECT.json`: see the plan.

## 6. Plan

The order follows the weight of the behaviour. All of it is done but what 12 names last.

1. `Outbox`, with proofs. 2. `LiveCanvas`, with proofs. 3. `PixelStream`, with proofs.
4. `Presentation`, with proofs. 5. `Gestures`, with
proofs. 6. `Update`, with proofs. 7. `Attachment` and `Assets`,
with proofs. 8. `Drops` and `Exports`. 9. `Playback`, `AudioClock` and `Pcm`. 10. `RemoteMedia` and
`CanvasVideo`. 11. `Screen`. 12. `Dock`, `Panes`, `Focus`; `Editor`, `Scrolling`, `Runtime`, `Commands`,
`Dialogs`, `Chrome`, `Painter`; still open are the single-slot worker, mouse decoding and the cell
presentation of movies.

Open theorems: the safety of `Exports`, `Drops` and `Screen`.
