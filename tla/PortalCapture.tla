---------------------------- MODULE PortalCapture ----------------------------
(***************************************************************************)
(* Wayland screen capture on a Linux initiator                              *)
(* (tl-linux-capture/src/portal.rs): PortalCapturer::new asks the desktop   *)
(* portal for a screen cast, three requests over D-Bus whose answers arrive *)
(* as signals, and starts a thread that runs the PipeWire main loop; the    *)
(* grab thread of imp_linux.rs then takes frames, and the capturer's drop   *)
(* quits the loop and joins its thread.                                     *)
(*                                                                          *)
(* The two threads share the frame slot, the negotiated size and the reason *)
(* the stream died, all under one mutex: a critical section is one step.    *)
(* The portal, the user behind it and PipeWire are external: they answer,   *)
(* fail or keep silent as they like.                                        *)
(***************************************************************************)
EXTENDS Naturals

CONSTANTS
  None,
  Sizes,       \* frame sizes PipeWire may negotiate
  Zero,        \* the size of an unknown hint, 0 x 0
  FrameBound   \* bound: frames published

ASSUME PortalConstants ==
  /\ None \notin Sizes \cup {Zero} \cup {"started", "failed", "granted", "denied"}
  /\ None \notin Nat
  /\ Zero \notin Sizes
  /\ FrameBound \in Nat

VARIABLES
  pc,          \* the capturer's thread: "create", "select", "start", "open",
               \* "spawn", "negotiate", "check", "test", "grab", "quit",
               \* "join", "gone"
  step,        \* in a request: "subscribe", "call", "await"
  subscribed,  \* to the Response signal of this request
  asked,       \* the portal has the request and will answer by signal
  answered,    \* history: it has answered it
  signal,      \* the answer at the subscriber, or None: "granted", "denied"
  th,          \* the PipeWire thread: "none", "building", "connecting",
               \* "setting_up", "looping", "leaving", "dying", "ended"
  startup,     \* message to spawn_pipewire, or None: "started", "failed"
  loop_alive,  \* the pw_main_loop object exists
  quit,        \* pw_main_loop_quit is queued in it
  dangling,    \* history: quit was called on a loop already destroyed
  setup_failed,\* history: the thread gave up after it had sent Started
  user_size,   \* StreamUser: size and format, as negotiated last
  format,      \* None, "supported", "unsupported"
  dims,        \* State: the first size negotiated, or None
  gen, latest, \* the frame slot: frames published, pending frame (None or gen)
  dead,        \* State: a terminal error is recorded
  seen,        \* PortalCapturer: generation taken last
  stop         \* the session's stop flag

requestVars == <<step, subscribed, asked, answered, signal>>
threadVars == <<th, startup, loop_alive, quit, dangling, setup_failed>>
stateVars == <<dims, gen, latest, dead>>
streamVars == <<user_size, format>>
vars == <<pc, requestVars, threadVars, streamVars, stateVars, seen, stop>>

CallFirst == "call"   \* faulty variant
FirstStep == "subscribe"
InRequest == pc \in {"create", "select", "start"}

Init ==
  /\ pc = "create"
  /\ step = FirstStep /\ subscribed = FALSE /\ asked = FALSE
  /\ answered = FALSE /\ signal = None
  /\ th = "none" /\ startup = None /\ loop_alive = FALSE /\ quit = FALSE
  /\ dangling = FALSE /\ setup_failed = FALSE
  /\ user_size = Zero /\ format = None
  /\ dims = None /\ gen = 0 /\ latest = None /\ dead = FALSE
  /\ seen = 0
  /\ stop = FALSE

-----------------------------------------------------------------------------
(* open_portal_session.  A request subscribes to its Response signal, makes *)
(* the call and waits for the signal, without a timeout.                    *)
NextRequest(request) ==
  CASE request = "create" -> "select"
    [] request = "select" -> "start"
    [] request = "start"  -> "open"

Proceed ==
  /\ pc' = NextRequest(pc)
  /\ step' = FirstStep /\ subscribed' = FALSE /\ asked' = FALSE
  /\ answered' = FALSE /\ signal' = None
  /\ UNCHANGED <<threadVars, format, stateVars, seen, stop>>

Subscribe ==
  /\ InRequest /\ step = "subscribe"
  /\ subscribed' = TRUE
  /\ step' = IF asked THEN "await" ELSE "call"
  /\ UNCHANGED <<pc, asked, answered, signal, threadVars, streamVars, stateVars, seen, stop>>

Call ==
  /\ InRequest /\ step = "call"
  /\ asked' = TRUE
  /\ step' = IF subscribed THEN "await" ELSE "subscribe"
  /\ UNCHANGED <<pc, subscribed, answered, signal, threadVars, streamVars, stateVars, seen, stop>>

(* CreateSession alone may be answered in its reply.                        *)
ReplyHasSession ==
  /\ pc = "create" /\ step = "call"
  /\ Proceed
  /\ UNCHANGED user_size

(* The portal, or the user at its dialog.                                   *)
PortalAnswers ==
  /\ asked /\ ~answered
  /\ answered' = TRUE
  /\ \E answer \in {"granted", "denied"} : signal' = IF subscribed THEN answer ELSE None
  /\ UNCHANGED <<pc, step, subscribed, asked, threadVars, streamVars, stateVars, seen, stop>>

(* The answer to Start names the stream and may tell its size, the hint.    *)
Hints == Sizes \cup {Zero}

TakeAnswer ==
  /\ InRequest /\ step = "await"
  /\ signal = "granted"
  /\ user_size' \in IF pc = "start" THEN Hints ELSE {user_size}
  /\ Proceed

TakeDenial ==
  /\ InRequest /\ step = "await"
  /\ signal = "denied"
  /\ pc' = "gone"
  /\ UNCHANGED <<requestVars, threadVars, streamVars, stateVars, seen, stop>>

(* The bus or the portal fails, or its answer makes no sense.               *)
DBusFails ==
  /\ InRequest \/ pc = "open"
  /\ pc' = "gone"
  /\ UNCHANGED <<requestVars, threadVars, streamVars, stateVars, seen, stop>>

OpenPipewireRemote ==
  /\ pc = "open"
  /\ pc' = "spawn"
  /\ th' = "building"
  /\ UNCHANGED <<requestVars, startup, loop_alive, quit, dangling, setup_failed, streamVars, stateVars, seen, stop>>

-----------------------------------------------------------------------------
(* spawn_pipewire: wait ten seconds for the thread's first word.            *)
SpawnSucceeds ==
  /\ pc = "spawn" /\ startup = "started"
  /\ pc' = "negotiate"
  /\ UNCHANGED <<requestVars, threadVars, streamVars, stateVars, seen, stop>>

SpawnFails ==
  /\ pc = "spawn" /\ startup = "failed" /\ th = "ended"
  /\ pc' = "gone"
  /\ UNCHANGED <<requestVars, threadVars, streamVars, stateVars, seen, stop>>

(* Too late: the thread is left to itself.                                  *)
SpawnTimesOut ==
  /\ pc = "spawn" /\ startup = None
  /\ dead' = TRUE
  /\ pc' = "gone"
  /\ UNCHANGED <<requestVars, threadVars, streamVars, dims, gen, latest, seen, stop>>

(* new: wait for a size, a death or ten seconds, then look for the size.    *)
NegotiationOver ==
  /\ pc = "negotiate"
  /\ pc' = "check"
  /\ UNCHANGED <<requestVars, threadVars, streamVars, stateVars, seen, stop>>

CheckSize ==
  /\ pc = "check"
  /\ pc' = IF dims # None THEN "test" ELSE "quit"
  /\ UNCHANGED <<requestVars, threadVars, streamVars, stateVars, seen, stop>>

-----------------------------------------------------------------------------
(* The grab thread: test the stop flag and the frame limit, ...             *)
GrabTests ==
  /\ pc = "test"
  /\ \/ stop /\ pc' = "quit"
     \/ ~stop /\ pc' \in {"grab", "quit"}
  /\ UNCHANGED <<requestVars, threadVars, streamVars, stateVars, seen, stop>>

(* ... and call next_frame: a newer frame, ...                              *)
HasNewer == gen # seen /\ latest # None

TakeFrame ==
  /\ pc = "grab"
  /\ HasNewer
  /\ seen' = gen /\ latest' = None
  /\ pc' = "test"
  /\ UNCHANGED <<requestVars, threadVars, streamVars, dims, gen, dead, stop>>

(* ... or the stream's death, or three seconds without a frame.             *)
ReportsDeath == dead /\ ~HasNewer

FindDead ==
  /\ pc = "grab"
  /\ ReportsDeath
  /\ pc' = "quit"
  /\ UNCHANGED <<requestVars, threadVars, streamVars, stateVars, seen, stop>>

FrameTimeout ==
  /\ pc = "grab"
  /\ ~HasNewer /\ ~dead
  /\ pc' = "quit"
  /\ UNCHANGED <<requestVars, threadVars, streamVars, stateVars, seen, stop>>

(* teardown, from new or from the capturer's drop: quit the loop, ...       *)
OnlyWhileRunning == loop_alive /\ th = "looping"   \* faulty variant
QuitQueued == loop_alive

Quit ==
  /\ pc = "quit"
  /\ quit' = QuitQueued
  /\ dangling' = (dangling \/ ~loop_alive)
  /\ pc' = "join"
  /\ UNCHANGED <<requestVars, th, startup, loop_alive, setup_failed, streamVars, stateVars, seen, stop>>

(* ... join the thread.                                                     *)
Join ==
  /\ pc = "join" /\ th = "ended"
  /\ pc' = "gone"
  /\ UNCHANGED <<requestVars, threadVars, streamVars, stateVars, seen, stop>>

RaiseStop ==
  /\ ~stop
  /\ stop' = TRUE
  /\ UNCHANGED <<pc, requestVars, threadVars, streamVars, stateVars, seen>>

-----------------------------------------------------------------------------
(* pw_thread_main.  Main loop, context and core: a failure is told to       *)
(* spawn_pipewire.                                                          *)
CreateLoop ==
  /\ th = "building"
  /\ loop_alive' = TRUE
  /\ th' = "connecting"
  /\ UNCHANGED <<pc, requestVars, startup, quit, dangling, setup_failed, streamVars, stateVars, seen, stop>>

StartFails ==
  /\ th \in {"building", "connecting"}
  /\ startup' = "failed"
  /\ th' = "leaving"
  /\ UNCHANGED <<pc, requestVars, loop_alive, quit, dangling, setup_failed, streamVars, stateVars, seen, stop>>

Started ==
  /\ th = "connecting"
  /\ startup' = "started"
  /\ th' = "setting_up"
  /\ UNCHANGED <<pc, requestVars, loop_alive, quit, dangling, setup_failed, streamVars, stateVars, seen, stop>>

(* Stream, listener, formats and connection: a failure is only recorded.    *)
SetUpFails ==
  /\ th = "setting_up"
  /\ dead' = TRUE
  /\ setup_failed' = TRUE
  /\ th' = "leaving"
  /\ UNCHANGED <<pc, requestVars, startup, loop_alive, quit, dangling, streamVars, dims, gen, latest, seen, stop>>

RunLoop ==
  /\ th = "setting_up"
  /\ th' = "looping"
  /\ UNCHANGED <<pc, requestVars, startup, loop_alive, quit, dangling, setup_failed, streamVars, stateVars, seen, stop>>

(* run returns once a quit is taken from the loop's queue.                  *)
LoopQuits ==
  /\ th = "looping" /\ quit
  /\ th' = "leaving"
  /\ UNCHANGED <<pc, requestVars, startup, loop_alive, quit, dangling, setup_failed, streamVars, stateVars, seen, stop>>

(* The function's locals, the loop among them, are dropped, ...             *)
DestroyLoop ==
  /\ th = "leaving"
  /\ loop_alive' = FALSE /\ quit' = FALSE
  /\ th' = "dying"
  /\ UNCHANGED <<pc, requestVars, startup, dangling, setup_failed, streamVars, stateVars, seen, stop>>

(* ... and the death is recorded.                                           *)
ThreadEnds ==
  /\ th = "dying"
  /\ dead' = TRUE
  /\ th' = "ended"
  /\ UNCHANGED <<pc, requestVars, startup, loop_alive, quit, dangling, setup_failed, streamVars, dims, gen, latest, seen, stop>>

-----------------------------------------------------------------------------
(* The listener's callbacks, on the loop.  state_changed: an error ...      *)
LoopEndsToo == "leaving"   \* faulty variant
KeepsLooping == "looping"

StreamError ==
  /\ th = "looping"
  /\ dead' = TRUE
  /\ th' = KeepsLooping
  /\ UNCHANGED <<pc, requestVars, startup, loop_alive, quit, dangling, setup_failed, streamVars, dims, gen, latest, seen, stop>>

(* ... param_changed: a raw video format; a size of zero is not taken over, *)
(* and only the first is announced.                                         *)
ParamChanged ==
  /\ th = "looping"
  /\ \E size \in Sizes \cup {Zero} : user_size' = IF size # Zero THEN size ELSE user_size
  /\ format' \in {"supported", "unsupported"}
  /\ dims' = IF dims = None THEN user_size' ELSE dims
  /\ UNCHANGED <<pc, requestVars, threadVars, gen, latest, dead, seen, stop>>

(* ... process: the buffer's memory, mapped first if it is a dmabuf, ...    *)
Buffers == {"memory", "dmabuf", "unmappable", "short"}
Readable(buffer) == buffer # "unmappable"

(* ... is copied row by row if it is long enough for a frame of the size    *)
(* negotiated last, and ...                                                 *)
SupportedFormat == format = "supported"
Copied(buffer) ==
  /\ Readable(buffer) /\ buffer # "short"
  /\ user_size # Zero
  /\ SupportedFormat

(* ... published; ...                                                       *)
Generation == gen + 1

Publish ==
  /\ th = "looping" /\ format # None
  /\ \E buffer \in Buffers : Copied(buffer)
  /\ gen < FrameBound
  /\ gen' = Generation
  /\ latest' = Generation
  /\ UNCHANGED <<pc, requestVars, threadVars, streamVars, dims, dead, seen, stop>>

(* a copy that fails is the end if the pixel format is unknown, and else    *)
(* loses a frame.                                                           *)
CopyFails ==
  /\ th = "looping" /\ format # None
  /\ \E buffer \in Buffers : ~Copied(buffer)
  /\ dead' = (dead \/ ~SupportedFormat)
  /\ UNCHANGED <<pc, requestVars, threadVars, streamVars, dims, gen, latest, seen, stop>>

-----------------------------------------------------------------------------
Handshake == Subscribe \/ Call \/ ReplyHasSession \/ TakeAnswer \/ TakeDenial \/ OpenPipewireRemote
Teardown == Quit \/ Join
Capturer ==
  \/ Handshake
  \/ SpawnSucceeds \/ SpawnFails \/ SpawnTimesOut
  \/ NegotiationOver \/ CheckSize
  \/ GrabTests \/ TakeFrame \/ FindDead \/ FrameTimeout
  \/ Teardown
StartUp == CreateLoop \/ StartFails \/ Started \/ SetUpFails \/ RunLoop
WindDown == LoopQuits \/ DestroyLoop \/ ThreadEnds
Callbacks == StreamError \/ ParamChanged \/ Publish \/ CopyFails

Next ==
  \/ Capturer \/ DBusFails \/ PortalAnswers \/ RaiseStop
  \/ StartUp \/ WindDown \/ Callbacks

(* Both threads run, and every wait but the one for the portal has a        *)
(* timeout.  The portal, the user and PipeWire owe nothing.                 *)
Spec ==
  /\ Init /\ [][Next]_vars
  /\ WF_vars(Capturer) /\ WF_vars(StartUp) /\ WF_vars(WindDown)

-----------------------------------------------------------------------------
(* PROPERTIES                                                               *)

(* "Subscribed before the call to avoid the classic reply/signal race": an  *)
(* answer the portal has sent gets the capturer on, however early it came.  *)
NoAnswerMissed ==
  \A request \in {"create", "select", "start"} :
    (pc = request /\ answered) ~> pc # request

(* Dropping the capturer, or failing in new, comes to an end, and then the  *)
(* PipeWire thread is gone too, in whatever state it was when the quit came *)
(* (portal.rs teardown).                                                    *)
TeardownEnds == pc = "quit" ~> (pc = "gone" /\ th = "ended")

(* The pointer to the main loop outlives the loop only if the thread gave   *)
(* up setting the stream up after it had handed the pointer out; a stream   *)
(* that dies later leaves the loop in place (portal.rs LoopPtr, teardown).  *)
QuitFindsTheLoop == dangling => setup_failed

PortalTypeOK ==
  /\ pc \in {"create", "select", "start", "open", "spawn", "negotiate", "check",
            "test", "grab", "quit", "join", "gone"}
  /\ step \in {"subscribe", "call", "await"}
  /\ subscribed \in BOOLEAN /\ asked \in BOOLEAN /\ answered \in BOOLEAN
  /\ loop_alive \in BOOLEAN /\ quit \in BOOLEAN /\ dangling \in BOOLEAN
  /\ setup_failed \in BOOLEAN /\ dead \in BOOLEAN /\ stop \in BOOLEAN
  /\ signal \in {None, "granted", "denied"}
  /\ th \in {"none", "building", "connecting", "setting_up", "looping", "leaving",
            "dying", "ended"}
  /\ startup \in {None, "started", "failed"}
  /\ user_size \in Sizes \cup {Zero}
  /\ format \in {None, "supported", "unsupported"}
  /\ dims \in Sizes \cup {Zero, None}
  /\ gen \in Nat /\ seen \in Nat
  /\ latest \in {None} \cup Nat
=============================================================================
