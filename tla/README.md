# ThunderLink in TLA+

This directory models the protocol and concurrency core of ThunderLink, which
streams one machine's screen to another over a Thunderbolt network link. An
*initiator* captures, encodes and sends; a *target* receives, decodes and
presents, and sends keyboard and pointer input back. All paths below are
relative to the repository's root; `crates/` is the Rust workspace.

`PROJECT.json` lists the components, the TLC runs, the faulty variants each
property was tried against, the source lines of every definition, the hazards of
the code and the theorems.

## The system

| Component | State | Operations | Talks to |
|---|---|---|---|
| Video sender, `tl-net/src/video.rs` `VideoTx` | `frame_seq`, retransmit ring with byte budget, IDR latch | `send_unit`, `handle_feedback`, `take_idr_request` | encode loop and feedback worker share it under a mutex; datagrams to the receiver |
| Video receiver, `VideoRx` | buffers by `frame_seq`, `max_seq`, drop window, pending feedback | `poll` (datagram, maintenance), `take_feedback` | one thread; feedback datagrams to the sender |
| Frame pump, `tl-video/src/lib.rs` | latest-wins channel (slot, generation, closed flag), encode loop, receive loop | `send`, `close`, `recv_timeout`, `is_closed`, `run_initiator`, `run_target` | frame source thread or capture callback; encoder; stop flag |
| Session, `tl-session`, `thunderlink-engine/src/{imp,imp_linux,ctrl}.rs` | handshake position of each side, stop flag, end reason, workers | accept, Hello, Caps, Config, Start, acks; heartbeat, Stop, silence; teardown | control channel; every worker through the stop flag |
| Control channel, `tl-net/src/control.rs` | one TCP stream | connect, accept, send, recv with timeout | |
| Desktop app, `apps/desktop` | one session slot, role threads, slot cleaner | start target, start initiator, stop | engine roles, cancel token |
| Audio playback, `tl-audio`, `tl-macos-audio/src/{ring,output}.rs`, engine `audio.rs` | sender sequence, jitter buffer, output ring | send, push, pop with concealment, write, device callback | UDP; the sink thread and the device's thread share the ring without a lock |
| Audio tap, `tl-macos-audio/src/system_tap.rs` | tap, aggregate device, IO callback and the state it works on | build step by step, IO cycle, bounded teardown | Core Audio's IO thread; the feeder; a teardown thread that may outlive it |
| Input, `tl-macos-input`, `tl-net/src/input_chan.rs`, `tl-linux-input` | held keys and buttons on both sides, batch sequence | tap, send, filter, inject, release all | a second use of the latest-wins channel; UDP |
| Bitrate ladder, engine `ladder.rs` | rung, streaks | report | feedback worker, encode closure |
| Encoders, `tl-macos-capture/src/encode.rs`, `tl-linux-capture/src/{encode,ffmpeg}.rs` | forced key frame, rate, output of a frame; child process and its reader thread | encode, request_idr, set_bitrate | frame pump, ladder, IDR latch |
| Wayland capture, `tl-linux-capture/src/portal.rs` | portal handshake, PipeWire thread, frame slot, death notice | new, next_frame, drop; the stream's callbacks | D-Bus portal and the user behind it; grab thread |
| Decode and present, `tl-macos-render`, end of engine `run_target` | parameter sets, decoder session, newest frame, render context and its references | decode, submit, start/stop render, show, hide, close | receive loop, display-link callback, main thread |
| Discovery, display, key maps, CLI, test sources | see `PROJECT.json` | | |

What is hard here, and what each component owes:

* **Video channel.** Datagrams and feedback are lost, duplicated, reordered and
  retransmitted; `frame_seq` wraps. It owes: latest wins, whole units only, each
  unit at most once and in order; no drop that goes uncounted or is counted twice;
  a ring that evicts oldest first and only when it must; recovery of the newest
  frame by NACKs; a buffer that drains.
* **Frame pump.** Source, receiver and stop flag interleave around a lock that
  `close` does not take. It owes: a frame at most once and newest first, closure
  only when drained, and an end of both threads whichever stops first.
* **Session.** Two blocking sides, one connection at a time, acks that do not say
  what they answer, failures and cancellation at every step, a cable that may be
  pulled. It owes: no video before the target is ready, an end of every
  handshake, both sides ending together, workers that exit, a true end reason.
* **App.** Commands, role threads and a cleaner share a slot whose lock none of
  them holds from look to store; roles may block for ever. It owes: no session
  overwritten or dropped, Stop always in reach, a slot that is freed.
* **Input.** A tap, a channel that keeps one event, datagrams and an injector that
  tracks what it holds down. It owes: the user's order, the last event taking
  effect, nothing left held.
* **Audio.** A ring without a lock whose producer moves the consumer's counter; a
  buffer that must tell late from early across a wrap. It owes: samples in order
  and once, nothing stranded in buffer or ring, a count for everything lost.
* **Capture front ends.** External services that answer early, late, or never, and
  call back on threads of their own. They owe: no missed answer, no callback on
  freed memory, a drop that ends, nothing left in the system.
* **Encode.** Three flags and two numbers handed from thread to thread. It owes:
  no request for a key frame lost, the ladder's last word applied, a patient ladder.
* **Decode and present.** A callback that gets a raw pointer to a counted object,
  and a session that three threads and the user may end. It owes: no use of freed
  memory, the newest frame on the screen, an end for all once one has ended.

## Modules

| Module | Models | Composes |
|---|---|---|
| `VideoPackets` | `frame_seq` space, fragment cap | |
| `VideoRx` | the receiver, fed any datagrams at all | |
| `VideoTx` | the sender and its two threads | |
| `VideoLink` | sender, receiver and two UDP paths, with ghost state | `VideoTx`, `VideoRx` |
| `FrameDelivery` | what the channel promises (`SPEC.md` section 5) | abstract specification |
| `VideoLinkProofs` | theorems about `VideoRx` alone and about `VideoLink` | |
| `FramePump` | channel, frame source, encode loop, stop flag | |
| `FramePumpProofs` | theorems about `FramePump` | |
| `ControlChannel` | TCP connections: inboxes, EOF, reset, timeouts | |
| `TargetRole`, `InitiatorRole` | the two role functions, from accept or connect to return | `ControlChannel` |
| `Session` | both roles, stray peers, the cable | `TargetRole`, `InitiatorRole` |
| `InputPath` | event tap, sender thread, datagrams, injectors of both platforms | the channel of `FramePump`, as one step |
| `EngineProofs` | theorems about `Session` and about `InputPath` | |
| `AppSession` | the desktop app's slot, commands, role threads, cleaner | |
| `AppSessionProofs` | theorems about `AppSession` | |
| `JitterBuffer` | the receiver's jitter buffer | |
| `AudioRing` | the sample ring, load by load and store by store | |
| `AudioPath` | feeder, network, sink thread, device callback | `JitterBuffer`, `AudioRing` |
| `AudioProofs` | theorems about `AudioPath` | |
| `PortalCapture` | portal handshake, PipeWire thread, capturer | |
| `SystemTap` | the Core Audio tap from construction to teardown | |
| `CaptureFrontEnd` | an initiator's front end on either platform | `PortalCapture`, `SystemTap` |
| `CaptureFrontEndProofs` | theorems about `PortalCapture` and `SystemTap` | |
| `BitrateLadder` | the ladder's policy | |
| `EncodeLoop` | feedback worker, encode loop, encoders | `BitrateLadder` |
| `EncodeLoopProofs` | theorems about `EncodeLoop` and `BitrateLadder` | |
| `FfmpegEncoder` | the HEVC child process and the cutting of its output | |
| `Decoder` | codec detection, parameter sets, session | |
| `DecodedStream` | what the decoder is given: resets, lost and cut key frames | `Decoder` |
| `Presenter` | window, latest-wins slot, display-link callback, context | |
| `Presentation` | the end of `run_target`, on the command line and in the app | `DecodedStream`, `Presenter` |
| `MCPresentation` | two configurations of the encoder for TLC | `Presentation` |
| `PresentationProofs` | theorems about `Presentation` and the stream it decodes | |

### Video channel

`VideoTx` has a program counter for the encode loop, which holds the mutex while
it sends all units of a frame and releases it while encoding; `LockHeld` is that
mutex. One step is one `send_to`, so the receiver runs between the fragments of a
unit, and the feedback worker (`HandleFeedback`) between frames. `ring`,
`ring_order` and `ring_used` are the three fields of the retransmit ring; the
eviction loop is `Evictions`, the least number of oldest datagrams that makes
room. `VideoRx` is single-threaded, so each handler is a step:
`FragmentOfBuffered`, `FirstOfNewer` and `IgnoredDatagram` are the branches of
`handle_datagram`, `Maintenance` is the timer pass. Of a payload the receiver sees the
length, which the cap on the bytes of a frame counts: a fragment that takes the buffered
frame over it takes the frame out, uncounted (`Oversized`). Datagrams of 1400 bytes, as
configured, make no unit that large, but the model does not rely on it: units may meet
the cap or exceed it, and those that do not never vanish. Payload is a ghost: each
fragment carries the number of its unit, which is what makes "whole" and "in
order" statable. Time is abstract: any timer may be found expired by any pass,
and any number of earlier drops may still lie in the IDR window. Fragment ranges
of a NACK are a set, and the numbers of the periodic report are left out.

`VideoLink` adds the network as two sets of messages. With `Duplicates` a datagram
stays until it is `Window` units old; otherwise it is delivered once, and `Lose`
takes at most `LossBudget` messages. The assumption behind `Window` is the code's
own: a datagram does not stay in flight for 2^31 frames.

### Frame pump

`Send`, `Close` and the steps of `recv_timeout` follow the lock: `LookForFrame`,
`LookForClosure`, `LookAtDeadline` and the wait are separate steps because the
closed flag is stored without the slot's lock (`SlotLocked` says who holds it). A
*paced* source tests the stop flag and its frame limit itself and closes the
channel (pattern generators, X11 grab); a *callback* source (ScreenCaptureKit,
PipeWire) sends until the capturer is dropped. `Encode` is the encode closure with
its test of `--frames`.

### Session

`TargetRole` and `InitiatorRole` have one action for each message awaited, with
the code's reply, its refusals, and the `?` paths, which drop session and
listener but raise no flag. After the handshake the control workers run on their
own: heartbeats and echoes, Stop, EOF, silence, and the exit that raises the stop
flag and drops the connection. `t_stop` and `i_stop` are both stop flag and cancel
token, as in the code, and may be raised by the embedder at any time.
`ControlChannel` models TCP as it closes: an end closed with unread input, or
written to after it closed, may reset the connection and so discard what the peer
has not read, and a send to a closed peer may fail or go unnoticed. `prompt`
chooses whether the 5 s timeouts may fire without a cause: in half of the
behaviours they may not, so that the handshake is also shown to need no timeout.

### Input

`MovePointer`, `ChangeButton`, `TurnWheel`, `ChangeKey` and `ChangeModifier` are the
user's doing together with the tap's handler for it; what the handler emits goes
into the channel one event at a time (`emitting`, `EmitNext`), so the sender
thread may or may not run in between. `platform` and `reliable` are chosen at the
start: on an unreliable link datagrams are lost and overtaken, the system may
disable the tap, and a release may fail. Events are numbered by what the user did.
A failure to send or to post an event is a loss. The batches' sequence numbers are
never read by the code and are left out. The injection thread may end at any time.
That of Linux then drops its injector, which calls `release_all` (any part of it may
fail), and destroys the `uinput` device, upon which the kernel releases the rest
(`InjectorEnds`, `DropReleases`, `DestroyDevice`); that of macOS has no `Drop`, and
what it holds stays down. `replaced` is a ghost: the latest-wins channel has dropped an
event.

### App

Each locking of `AppState::session` is a step. Commands run one at a time on the
main thread (`cmd` says how far a start command has come); a role thread is
`role[s]` and, being the engine's blocking call, may return at any time or never:
in particular a target in `accept()` does not notice its token. `RoleLeaves` is the
thread's last step, which cancels the session *in the slot*. The events for the
window are left out, and so is whether it offers Start or Stop: both may come at
any time.

### Audio

`AudioRing` has one step for each atomic load and store of `push` and `pop` and for
each copied sample, since the counters are shared without a lock and a full ring
makes the producer advance the consumer's `head`. Values written are the sample
numbers, so that order is visible; the subtraction that may go below zero wraps, as
in a release build. Memory is sequentially consistent in the model: the relaxed and
acquire/release orderings of `ring.rs` are stronger here than in the code.
`OverlapBound` says how many pushes may begin while one pop runs (one: a pop takes
microseconds, a push comes every 10 ms). `JitterBuffer` numbers packets by sending,
but the code's decisions use the wrapped number only. `AudioPath` joins the two
with the feeder's numbering, the network and the sink's tick; `FaultBound` is the
number of repeated datagrams and undecodable frames.

### Capture front ends

`PortalCapture` is the capturer's thread through the three portal requests, the
grab and `drop`, next to the PipeWire thread from its start-up through its
callbacks to its end. The frame slot, the negotiated size and the death notice are
under one mutex, so each critical section is a step. The portal may answer at once,
later, with a refusal, or never. `SystemTap` keeps what exists (`objects`) apart
from what the code knows of (`handles`): every call into Core Audio may fail, and
the teardown worker may be given up after three seconds and go on alone. The IO
callback enters at any moment while the HAL has it registered and runs. A build is
for one platform; `CaptureFrontEnd` chooses it, so one run checks both.

### Encode

`EncodeLoop` follows a request for a key frame through the latch of `VideoTx`, the
loop's `force_idr` and the encoder's own flag, and a rate from the ladder through
`bitrate_target` and the closure's `last_bitrate`. The five kinds of report are what
`ladder.rs` makes of its numbers. `FfmpegEncoder` has NAL units as records of a
frame and a type, and cuts them as `extract_next_unit` does.

### Decode and present

`Presenter` takes the display-link callback apart where another thread can come in
between: entry with the raw pointer, the clone, the test of `stopping`, the taking
of the frame, drawing, leaving. `refs` counts the context's references. Whether
`CVDisplayLinkStop` waits for a callback under way is not documented and is chosen
at the start (`drains`). `Presentation` adds the role's thread on both paths, the
closures the app runs on its main thread, and the workers.

`Decoder` is given units with any selection of parameter sets, of any content, and does
with them what `decode` does: only a unit with one of each kind configures, and any other
is decoded with the session there is. `DecodedStream` says which units those are: the
encoder may start afresh with other sets, and sends a key frame whole or cut into units
with some of the sets each, as the HEVC encoder of Linux does. A lost unit is one that is
never handed over, so a stream may open, or go on after a reset, with any of them. Ghosts
(`told`, `heard`) say of which configurations a unit with all of the sets arrived.

## Runs

| Run | Shows | Bounds and why they suffice |
|---|---|---|
| `video_wrap` | `SerialOrderIsSendOrder`, `WholeUnits`, and that the channel implements `FrameDelivery` (`DeliveryInOrder`) | 4 sequence numbers and 5 units, so `frame_seq` wraps and is reused; datagrams arrive late, repeatedly, or never |
| `video_link` | `BufferSound` (one buffered frame at most, the newest, coherent with its drop window), `RingSound` (accounting and eviction order of the ring), `NothingVanishes` (only a unit over the byte cap goes uncounted), `CountedOnce` | two units of one to three fragments, of which two just meet the byte cap and three exceed it; a ring that holds less than a unit, so eviction runs in mid-unit; a failing send; one feedback message under way |
| `video_recovery` | `NewestIsShown`, `BufferDrains` | two losses against one NACK and one re-NACK: as many as the rounds can repair |
| `frame_pump` | `ClosureIsFinal`, `NewestOnce`, `PendingIsTaken`, `PumpStops` | up to four frames, with and without a limit of two, both kinds of source |
| `session` | `HandshakeInStep` (with it: no video but to a target that acked Start), `ReasonIsTrue`, `HandshakeEnds`, `SessionsEndTogether`, `WorkersExit` | one initiator that connects once, one stray peer, two failed accepts instead of 16, one heartbeat under way |
| `input` | `NothingStuck` (all keys and buttons held there are held by the user, once everything on the way has arrived), `InUsersOrder`, `LastWordArrives` | four things done by the user: enough to enter, press, leave and type; one key, modifier, button and place |
| `app` | `StopReachesEveryRole`, `SlotKeepsItsSession`, `SlotFreed` | three sessions: one stopped and lingering, one in the slot, one being started |
| `audio` | `FifoUnlessRaced`, `NothingStranded`, `PlaysForward`, `BufferedIsPlayed` | four packets numbered across the wrap, so that a gap is concealed and then skipped; a ring of two samples, full after two frames; one repetition or undecodable frame; one push begun during a pop |
| `front_end` | `QuitFindsTheLoop`, `NoAnswerMissed`, `StateOutlivesCallbacks`, `NothingLeftBehind`, `DropsEnd` | two sizes and three frames, so that a renegotiation differs and a frame is overtaken in the slot; a cycle of three frames, which the converter takes one by one, at once or in part |
| `render` | `FreedMemoryUntouched`, `LatestIsDrawn`, `EndsTogether`, `DecodedByOwnSets` | two frames, on both paths; two configurations of two parameter sets that differ in both, so that any mixture shows, and one change from one to the other; units with all, some or none of the sets |
| `encode` | `IdrRequestKept`, `RateReached`, `LadderIsPatient` | a base of 4, whose band is 1 to 6 and has rounding at both edges; a step up after two clean reports instead of six; one refused change of rate; both encoders |
| `ffmpeg` (violation) | `CompleteUnits` fails: a VPS and the SPS after it are cut apart | three frames |

The initiator under study connects once, as `run_initiator` does. A second
initiator is a stray: it says Hello, Config and Start in any order, so it may take
the session. Every property was tried against a faulty variant of a definition,
which breaks it; the variants stand before the definitions they replace, marked
as such, and nothing uses them.

Some properties hold only with an exception that they state, and that a reader
should know of. `QuitFindsTheLoop` excepts a stream whose set-up failed after
`Started` was sent; `StateOutlivesCallbacks` excepts a HAL that refuses to destroy
the callback; `FreedMemoryUntouched` asks that `CVDisplayLinkStop` waits;
`LatestIsDrawn` excepts a frame drawn while there was no drawable;
`FifoUnlessRaced` excepts a steal that overlaps a pop; `NothingStuck` excepts a link that
loses datagrams and an event that the latest-wins channel replaced; `DecodedByOwnSets`
excepts pictures decoded before a unit with all of the new sets has arrived, which the
decoder cannot tell from those of the old configuration. `LatestIsDrawn` and
`DecodedByOwnSets` apart, the exceptions are findings.
`NothingStranded` and `PlaysForward` are about the sink's accounting and the
jitter buffer, and hold without it.

### Fairness

* Video: the receive loop, the timers and the feedback worker are loops that run
  until the session ends, and a datagram in flight arrives or is lost, so each is
  weakly fair; the encode loop only while it holds the lock. Nothing obliges the
  encoder to produce another frame.
* Pump: source and encode loop are threads that go on; a deadline passes. The stop
  flag need never be raised.
* Session: every blocking read returns by a message, EOF or timeout; the workers
  test the stop flag between any two messages, so their exit is weakly fair of its
  own. Raising the flag after a role has failed is fair because the app always
  cancels when a role thread ends (`apps/desktop/src-tauri/src/lib.rs:288-292`) and
  because the command line's process exits. The user, the source, other peers and
  local failures owe nothing.
* Input: tap, sender and injector are loops with timeouts of a few milliseconds.
  The user owes nothing, and either side may end at any time.
* Audio: the sink thread ticks, and its write and the device's callback, once begun,
  go on. The network and the feeder owe nothing.
* Capture front ends: the capturer's thread runs, the PipeWire thread starts up and
  winds down, the tap's feeder gets through its `drop`. The portal, the user,
  PipeWire, the HAL and the teardown worker, which waits for the HAL, owe nothing.
* Encode: frames keep coming from a paced source, the loop goes on, and the encoder
  answers or fails within five seconds. Reports and requests need never come.
* Present: the role's thread, the embedder's main thread and the workers go on, and
  the display link calls back while it runs. Frames need never come.
* App: the cleaner is a loop, a start command runs to its end (discovery gives up
  after 10 s), and a thread whose role has returned leaves. No role need return.

## Proofs

Every safety invariant and every action property that a passing run checks is also a
theorem, proved for every value of the constants that meets the modules' named
assumptions, and so is the refinement of `FrameDelivery`. A component's theorems rest
on one inductive invariant, a conjunction of named parts; TLC checked each of these
invariants on the bounds of the run before it was proved.

* `VideoLinkProofs`, the receiver alone: `RxInv` = `RxTypeOK`, `OnlyNewestBuffered` and
  `BufferCoherent` is inductive for a receiver fed *any* datagrams. The three need one
  another: that at most one frame is buffered makes the drop counts of one step 0 or
  1, which keeps the IDR window below its threshold; that a buffered frame is
  incomplete and typed makes its NACK well formed. From it follow `RxTypeCorrect`,
  `LatestWins`, `DropPolicyCoherent`, `BufferSoundness` (the run's `BufferSound`),
  and the action property `NoSilentLoss`: whatever the datagrams, the byte cap is the
  one way out of the buffer that leaves no trace, and no newer frame takes it.
* `VideoLinkProofs`, the channel: `LinkInv` follows one idea along the whole path:
  nothing that can still arrive is more than `Window` units behind the sender. Of what
  is in flight that is the network's bound. The retransmit ring puts old datagrams in
  flight again, so for it the bound has to be derived: its bytes are counted exactly
  and within budget (`RingBudget`), and a datagram in it is no more units old than
  there are datagrams after it (`RingSpread`), whatever sends fail. As numbers less
  than `SeqSpace` units apart differ (`UnitsNumbered`), a ring key is never reused
  while it is held (`RingContents`), the wrapping comparison is the order of sending
  (`SerialOrderHolds`), and a buffered frame gets fragments of its own unit alone
  (`RxFollows`, hence `UnitsAreWhole` and `DropsCountedOnce`). `RingSoundness` is the
  sender's part. `LinkImplementsDelivery` is the refinement, step by step: beginning a
  unit is `Produce`, completing the newest frame is `Show`, all else stutters. `ReceiverSoundInLink`
  carries the buffer's soundness over, as every step of the channel is one of `RxNext` or
  leaves the receiver alone. `NoSilentLossInLink` says more than the receiver can
  promise by itself: what is counted of a buffered frame are bytes of the one unit it
  belongs to, none of them twice (`RxBytes`), so the cap is met by no unit that keeps to
  it as a whole (`OversizedUnit`).
* `FramePumpProofs`: `PumpInv` ties the receiver's `seen` and the pending frame to
  the generation counter, and what `recv_timeout` is about to return to the closed
  flag it has read. `PumpTypeCorrect`, `ClosureMeansDrained` and
  `LatestWinsChannel` follow.
* `EngineProofs`, the session: an ack names neither its question nor its sender.
  `SessionInv` says why none is mistaken: at each step of the handshake only the
  expected answer can be in the initiator's inbox (`OneAnswer`), because the target's
  position bounds the initiator's and what lies on the way between them (`InStep`).
  The two need each other. `SocketsOpen` says which role can have closed what, and
  `WordsKept` that a Stop under way was said; `RolesAgree` and `ReasonsAreTrue`
  follow, for any number of stray peers and of failed accepts.
* `EngineProofs`, the input path: `InputInv` has every stage, from the waiting move to the
  injector, hold events no older than those further on (`FlowInOrder`, on a link that
  keeps order); the waiting move is flushed before anything is emitted
  (`FlushedFirst`), which is the place where the order could be lost. What the injector
  would release is held, and all of it when no call fails (`TracksWhatIsHeld`).
  `UsersOrderKept` follows, for any keys and however long the user goes on.
  `NothingStuck` speaks of a moment when nothing is on the way; what is inductive is
  `StuckInv`, that what *will* be held once everything on the way has arrived
  (`WillBeHeld`: the newest event on the way that touches the key presses it, or it is
  held and none does) is held by the user, as long as nothing was lost. The injector may
  take an event, or a user press or let go of one, without changing that.
  `NothingStaysStuck` follows.
* `AppSessionProofs`: `SlotInv` says of each thread that has let go of the lock
  what it may still rely on: the slot a command found empty is empty (only
  commands fill it, one at a time), and the token the cleaner saw fired has stayed
  fired (so no command can have found the slot empty meanwhile). `StopReachesAll`
  and `SlotSafe` follow.
* `AudioProofs`, the ring: until a steal overlaps a pop, all positions either thread
  touches lie within `Capacity` of one another, and such positions have different
  slots (`RingOrdered`); so each of the single loads and stores leaves the others'
  samples alone. `RingIsFifo` follows. Its hypothesis is needed: TLC has the
  race undo a steal, which is a finding.
* `AudioProofs`, the jitter buffer: `JitterInv` keeps every number the receiver computes
  with inside half of the sequence space, where the wrapping comparison is that of
  packet numbers; what is buffered is at or ahead of the packet due (`Playing`), and
  everything since the first packet due is accounted for once. `NothingForgotten` and
  `PlaysInOrder` follow.
* `CaptureFrontEndProofs`, the tap: `TapInv` adds two facts to the type invariant.
  `BuiltInOrder`: what exists is known, and the callback is registered on a state that
  exists. `TakenDownInOrder`: what the teardown worker is past is gone unless the HAL
  refused. `TapTypeCorrect`, `CallbackMemory` and `AllTakenDown` follow, for any
  step that fails.
* `CaptureFrontEndProofs`, the portal: `PortalInv` says what the PipeWire thread has told
  the capturer at each of its steps (`ThreadSaid`), and that a thread that has said
  `Started` leaves its loop only by a failed set-up or when told to quit, which is the
  capturer's last act (`LoopIsThere`). `PortalTypeCorrect` and
  `DanglesOnlyAfterFailedSetup` follow: the second says that the failed set-up is the only
  way to a dangling pointer, not that there is none (one is among the findings).
* `PresentationProofs`: `MemoryInv` has the position of the role's thread tell the
  state of the display link, counts the context's references as those of the link
  plus that of the callback, and has no callback outlast a stop that waits.
  `ContextMemory` follows. `StreamInv` says that the session is the configuration the
  decoder compares with, came from a unit with a set of each kind, and is the stream's own
  as soon as such a unit of the stream was delivered; `OwnSetsDecode` follows, for any
  parameter sets, losses and cuts.
* `EncodeLoopProofs`: `RequestInv` adds to `IdrRequestKept` that the loop's local
  `force_idr` is set only on the way to the closure, so that `take_idr_request`
  overwrites no request. `RequestKept` follows. `LadderInv` reads the three streak
  counters as what the last reports were, and has the steps of the ladder stay in
  their order and in the band, rounding included; `LadderPatience` follows, for any
  negotiated rate and streak length.

A theorem holds under the assumptions of its modules, which a reader should weigh:

* `LinkConstants`: the network holds nothing back for `Window` units, `Window` is less
  than half of the sequence space, and the retransmit ring holds no more than `Window` of
  the smallest datagrams. At 2^32 numbers and a ring of 16 MB that is far from tight.
* `PathConstants`: a session sends less than half of the number space in audio packets.
  That is the assumption the comments of the code make; what happens beyond it is one
  of the findings. A frame fits the ring (960 samples into 2^15).
* `ChannelConstants`, `RxConstants`, `JitterConstants`, `EncodeConstants`, `AppConstants`,
  `DecoderConstants`, `StreamConstants`, `InputConstants`, `NothingIsNoEvent`: the values
  that stand for "none" are not values, no key is a button, there is some kind of
  parameter set, the encoder's configurations have one of each kind, and the modifier
  keys are finitely many.
* The bounds on what a run enumerates (units, sessions, things the user does, failed
  sends) are constants the theorems leave open, except `FailBudget`, which says only
  whether a send may fail.

The type invariants are not among the runs' properties; TLC checked them while the
proofs were written, and the theorems now stand for them.

Model-checked only: the liveness properties, as the prover does not handle fairness,
leads-to or `ENABLED`. They are `NewestIsShown`, `BufferDrains`, `PendingIsTaken`,
`PumpStops`, `HandshakeEnds`, `SessionsEndTogether`, `WorkersExit`, `SlotFreed`,
`LastWordArrives`, `BufferedIsPlayed`, `NoAnswerMissed`, `DropsEnd`, `LatestIsDrawn`,
`EndsTogether` and `RateReached`. The prover does not do induction over data either;
`Min`, `Bytes` and the folds are treated through lemmas that need only their definitions
(`LeastElement`, the lemmas on `Bytes`), and no theorem is about a recursive operator.

## Disagreements found

Listed under `findings` with the quoted text. `ffmpeg` is a run that finds a
counterexample to what a comment says; the other disagreements are visible in the code
and in the module that models it.

* Video: the NACK of a superseded frame asks for a retransmission that is then ignored.
* Pump: the last frame of a closing source can be lost; `--frames N` encodes N + 1
  frames from a screen source.
* Session: a peer that hangs up in mid-handshake ends the target; a target that fails
  after its workers were started leaves them running.
* App: a role thread that ends cancels the session in the slot, its own or not.
* Input: a click replaces the move flushed for it; a Mac is left with keys held.
* Audio: `pop` undoes a concurrent steal; the jitter buffer's order flips after 2^31
  packets; a Linux initiator refuses the feeder it has.
* Capture: a failed set-up leaves a pointer to a destroyed loop; the consent dialog
  without a timeout meets a handshake with one; a still desktop counts as a stalled
  stream; the Linux encoders refuse frames of the size the capturers deliver; the
  tap's state is freed even if its callback was not destroyed.
* Encode: an HEVC unit from ffmpeg is cut after its VPS; `set_bitrate` gives
  VideoToolbox kilobits for bits; a streak does not start over after a step; an outage
  counts as a clean report.
* Present: a callback that has not yet made its reference is safe only if stopping the
  display link waits for it.

## Not modelled, and the plan

Not modelled and not planned: codec, pixel and bitstream code, system bindings
(ScreenCaptureKit, X11, Opus, the virtual display), key tables, argument parsing, mDNS,
the window's own views, the test sources beyond their pacing, and the framing bytes of
control messages. They are pure functions, constants, or single calls into a system;
what they hand to the rest is an input of the modules above. Two hazards have no
property for that reason; their notes are in `PROJECT.json`. The audio ring's memory
orderings would need a weak-memory model.

What remains to be proved are the safety cores of the liveness properties: that a
state in which such a property waits is not stuck, and that what it counts only
goes down (for instance, that a buffered frame's rounds of NACKs are bounded).
`Presentation` and `EncodeLoop` have invariants for the variables their properties
depend on, and no type theorem for all of them.
