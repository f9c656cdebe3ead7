------------------------- MODULE CaptureFrontEndProofs -------------------------
(***************************************************************************)
(* Theorems about both capture front ends, for any step that fails, any     *)
(* sizes and any number of frames: on Linux pw_main_loop_quit is called on  *)
(* a loop that exists, unless the thread failed to set its stream up after  *)
(* it had handed the pointer out; on macOS the tap's memory outlives its    *)
(* callback and what was built is taken down, but for what the HAL refused. *)
(***************************************************************************)
EXTENDS CaptureFrontEnd, TLAPS

-----------------------------------------------------------------------------
(* The macOS audio tap.                                                     *)

(* What exists is known; the feeder builds only before there is a worker;   *)
(* the callback is registered on a state, and runs only while registered.   *)
BuiltInOrder ==
  /\ objects \subseteq handles
  /\ worker # "none" => feeder \in {"waiting", "gone"}
  /\ feeder \in {"io_proc", "start", "feeding"} => "state" \in objects
  /\ "io_proc" \in objects \ refused => "state" \in objects
  /\ cycle = "converting" => "io_proc" \in objects

(* What the worker is past is gone, but for what the HAL refused.           *)
TakenDownInOrder ==
  /\ worker \in {"state", "aggregate", "tap", "done"} => "io_proc" \notin objects \ refused
  /\ worker \in {"aggregate", "tap", "done"} => "state" \notin objects
  /\ worker \in {"tap", "done"} => "aggregate" \notin objects \ refused
  /\ worker = "done" => "tap" \notin objects \ refused

TapInv == TapTypeOK /\ BuiltInOrder /\ TakenDownInOrder /\ StateOutlivesCallbacks

LEMMA InitTapInv == TapInit => TapInv
<1> SUFFICES ASSUME TapInit PROVE TapInv
  OBVIOUS
<1>1. pending \in 0 .. CycleBound
  BY TapConstants DEF TapInit
<1> QED
  BY <1>1 DEF TapInit, TapInv, TapTypeOK, BuiltInOrder, TakenDownInOrder, StateOutlivesCallbacks

(* SystemTap::new and the end of the feeder.                                *)
LEMMA FeederStep ==
  TapInv /\ (Build \/ StepFails \/ FeederEnds \/ Drop) => TapInv'
<1> SUFFICES ASSUME TapInv, Build \/ StepFails \/ FeederEnds \/ Drop PROVE TapInv'
  OBVIOUS
<1> USE DEF TapInv, TapTypeOK, BuiltInOrder, TakenDownInOrder, StateOutlivesCallbacks
<1>1. CASE CreateTap
  BY <1>1 DEF CreateTap, Created
<1>2. CASE CreateAggregate
  BY <1>2 DEF CreateAggregate, Created
<1>3. CASE FormatSuits
  BY <1>3 DEF FormatSuits
<1>4. CASE CreateState
  BY <1>4 DEF CreateState, Created
<1>5. CASE CreateIoProc
  BY <1>5 DEF CreateIoProc, Created
<1>6. CASE StartDevice
  BY <1>6 DEF StartDevice
<1>7. CASE StepFails
  BY <1>7 DEF StepFails
<1>8. CASE FeederEnds
  BY <1>8 DEF FeederEnds
<1>9. CASE Begin
  BY <1>9 DEF Begin
<1>10. CASE WorkerReports
  BY <1>10 DEF WorkerReports
<1>11. CASE GivesUp
  BY <1>11 DEF GivesUp
<1> QED
  BY <1>1, <1>2, <1>3, <1>4, <1>5, <1>6, <1>7, <1>8, <1>9, <1>10, <1>11 DEF Build, Drop

(* teardown_bounded.                                                        *)
LEMMA WorkerStep == TapInv /\ Worker => TapInv'
<1> SUFFICES ASSUME TapInv, Worker PROVE TapInv'
  OBVIOUS
<1> USE DEF TapInv, TapTypeOK, BuiltInOrder, TakenDownInOrder, StateOutlivesCallbacks,
            NextCall, Following, Refuses, Skips, Destroys, Known
<1>1. CASE StopDevice
  BY <1>1 DEF StopDevice
<1>2. CASE DestroyIoProc
  BY <1>2 DEF DestroyIoProc
<1>3. CASE FreeState
  BY <1>3 DEF FreeState
<1>4. CASE DestroyDevice("aggregate")
  BY <1>4 DEF DestroyDevice
<1>5. CASE DestroyDevice("tap")
  BY <1>5 DEF DestroyDevice
<1> QED
  BY <1>1, <1>2, <1>3, <1>4, <1>5 DEF Worker

(* The callback.                                                            *)
LEMMA IoThreadStep == TapInv /\ IoThread => TapInv'
<1> SUFFICES ASSUME TapInv, IoThread PROVE TapInv'
  OBVIOUS
<1> USE TapConstants DEF TapInv, TapTypeOK, BuiltInOrder, TakenDownInOrder,
                         StateOutlivesCallbacks, UsesState
<1>1. CASE CycleBegins
  BY <1>1 DEF CycleBegins
<1>2. CASE ConverterAsks
  BY <1>2 DEF ConverterAsks
<1>3. CASE CycleEnds
  BY <1>3 DEF CycleEnds
<1> QED
  BY <1>1, <1>2, <1>3 DEF IoThread

LEMMA StepTapInv == TapInv /\ [TapNext]_tapVars => TapInv'
<1> SUFFICES ASSUME TapInv, [TapNext]_tapVars PROVE TapInv'
  OBVIOUS
<1>1. CASE UNCHANGED tapVars
  BY <1>1 DEF tapVars, TapInv, TapTypeOK, BuiltInOrder, TakenDownInOrder, StateOutlivesCallbacks
<1> QED
  BY <1>1, FeederStep, WorkerStep, IoThreadStep DEF TapNext

-----------------------------------------------------------------------------
(* The portal and the PipeWire thread.                                      *)

Running == {"negotiate", "check", "test", "grab", "quit"}
Over == {"leaving", "dying", "ended"}

(* What the thread has said so far tells where it is; the capturer goes on  *)
(* only after Started.                                                      *)
ThreadSaid ==
  /\ pc \in {"create", "select", "start", "open"} => th = "none"
  /\ th \in {"none", "building", "connecting"} <=> startup = None
  /\ pc \in Running => startup = "started"

(* The loop exists while the thread needs it, and is left only when it was  *)
(* told to quit, which is the capturer's last act.                          *)
LoopIsThere ==
  /\ th \in {"connecting", "setting_up", "looping"} => loop_alive
  /\ quit => pc \in {"join", "gone"}
  /\ startup = "started" /\ th \in Over => setup_failed \/ pc \in {"join", "gone"}
  /\ startup = "failed" => th \in Over

PortalInv == PortalTypeOK /\ ThreadSaid /\ LoopIsThere /\ QuitFindsTheLoop

LEMMA InitPortalInv == Init => PortalInv
<1> SUFFICES ASSUME Init PROVE PortalInv
  OBVIOUS
<1>1. PortalTypeOK
  BY DEF Init, FirstStep, PortalTypeOK
<1>2. ThreadSaid
  BY DEF Init, ThreadSaid, Running
<1>3. LoopIsThere /\ QuitFindsTheLoop
  BY PortalConstants DEF Init, LoopIsThere, QuitFindsTheLoop, Over
<1> QED
  BY <1>1, <1>2, <1>3 DEF PortalInv

(* The capturer before the thread, and the portal.                          *)
LEMMA HandshakeStep ==
  PortalInv /\ (Handshake \/ DBusFails \/ PortalAnswers) => PortalInv'
<1> SUFFICES ASSUME PortalInv, Handshake \/ DBusFails \/ PortalAnswers PROVE PortalInv'
  OBVIOUS
<1> USE PortalConstants
    DEF PortalInv, PortalTypeOK, ThreadSaid, LoopIsThere, QuitFindsTheLoop, Running, Over,
        requestVars, threadVars, streamVars, stateVars, InRequest
<1>1. CASE Subscribe
  BY <1>1 DEF Subscribe
<1>2. CASE Call
  BY <1>2 DEF Call
<1>3. CASE ReplyHasSession
  <2>1. PortalTypeOK'
    <3>1. subscribed' \in BOOLEAN /\ asked' \in BOOLEAN /\ answered' \in BOOLEAN
      BY <1>3, Zenon DEF ReplyHasSession, Proceed, NextRequest, FirstStep
    <3> HIDE DEF ThreadSaid, LoopIsThere, QuitFindsTheLoop, Running, Over
    <3> QED
      BY <1>3, <3>1 DEF ReplyHasSession, Proceed, NextRequest, FirstStep
  <2>2. ThreadSaid' /\ LoopIsThere' /\ QuitFindsTheLoop'
    BY <1>3 DEF ReplyHasSession, Proceed, NextRequest, FirstStep
  <2> QED
    BY <2>1, <2>2
<1>4. CASE TakeAnswer
  <2>1. PortalTypeOK'
    <3>1. subscribed' \in BOOLEAN /\ asked' \in BOOLEAN /\ answered' \in BOOLEAN
      BY <1>4, Zenon DEF TakeAnswer, Hints, Proceed, NextRequest, FirstStep
    <3> HIDE DEF ThreadSaid, LoopIsThere, QuitFindsTheLoop, Running, Over
    <3> QED
      BY <1>4, <3>1 DEF TakeAnswer, Hints, Proceed, NextRequest, FirstStep
  <2>2. ThreadSaid' /\ LoopIsThere' /\ QuitFindsTheLoop'
    BY <1>4 DEF TakeAnswer, Hints, Proceed, NextRequest, FirstStep
  <2> QED
    BY <2>1, <2>2
<1>5. CASE TakeDenial
  BY <1>5 DEF TakeDenial
<1>6. CASE OpenPipewireRemote
  BY <1>6 DEF OpenPipewireRemote
<1>7. CASE DBusFails
  BY <1>7 DEF DBusFails
<1>8. CASE PortalAnswers
  BY <1>8 DEF PortalAnswers
<1> QED
  BY <1>1, <1>2, <1>3, <1>4, <1>5, <1>6, <1>7, <1>8 DEF Handshake

(* The capturer beside the thread.                                          *)
LEMMA GrabStep ==
  ASSUME PortalInv,
         \/ SpawnSucceeds \/ SpawnFails \/ SpawnTimesOut \/ NegotiationOver \/ CheckSize
         \/ GrabTests \/ TakeFrame \/ FindDead \/ FrameTimeout \/ Teardown \/ RaiseStop
  PROVE  PortalInv'
<1> USE PortalConstants
    DEF PortalInv, PortalTypeOK, ThreadSaid, LoopIsThere, QuitFindsTheLoop, Running, Over,
        requestVars, threadVars, streamVars, stateVars
<1>1. CASE SpawnSucceeds
  BY <1>1 DEF SpawnSucceeds
<1>2. CASE SpawnFails
  BY <1>2 DEF SpawnFails
<1>3. CASE SpawnTimesOut
  BY <1>3 DEF SpawnTimesOut
<1>4. CASE NegotiationOver
  BY <1>4 DEF NegotiationOver
<1>5. CASE CheckSize
  BY <1>5 DEF CheckSize
<1>6. CASE GrabTests
  BY <1>6 DEF GrabTests
<1>7. CASE TakeFrame
  BY <1>7 DEF TakeFrame
<1>8. CASE FindDead
  BY <1>8 DEF FindDead
<1>9. CASE FrameTimeout
  BY <1>9 DEF FrameTimeout
<1>10. CASE Quit
  BY <1>10 DEF Quit, QuitQueued
<1>11. CASE Join
  BY <1>11 DEF Join
<1>12. CASE RaiseStop
  BY <1>12 DEF RaiseStop
<1> QED
  BY <1>1, <1>2, <1>3, <1>4, <1>5, <1>6, <1>7, <1>8, <1>9, <1>10, <1>11, <1>12 DEF Teardown

(* The PipeWire thread and its callbacks.                                   *)
LEMMA ThreadStep ==
  ASSUME PortalInv, StartUp \/ WindDown \/ Callbacks
  PROVE  PortalInv'
<1> USE PortalConstants
    DEF PortalInv, PortalTypeOK, ThreadSaid, LoopIsThere, QuitFindsTheLoop, Running, Over,
        requestVars, threadVars, streamVars, stateVars
<1>1. CASE CreateLoop
  BY <1>1 DEF CreateLoop
<1>2. CASE StartFails
  BY <1>2 DEF StartFails
<1>3. CASE Started
  BY <1>3 DEF Started
<1>4. CASE SetUpFails
  BY <1>4 DEF SetUpFails
<1>5. CASE RunLoop
  BY <1>5 DEF RunLoop
<1>6. CASE LoopQuits
  BY <1>6 DEF LoopQuits
<1>7. CASE DestroyLoop
  <2>1. PortalTypeOK'
    <3>1. loop_alive' \in BOOLEAN /\ quit' \in BOOLEAN
      BY <1>7, Zenon DEF DestroyLoop
    <3> HIDE DEF ThreadSaid, LoopIsThere, QuitFindsTheLoop, Running, Over
    <3> QED
      BY <1>7, <3>1 DEF DestroyLoop
  <2>2. ThreadSaid'
    BY <1>7 DEF DestroyLoop
  <2>3. LoopIsThere' /\ QuitFindsTheLoop'
    BY <1>7 DEF DestroyLoop
  <2> QED
    BY <2>1, <2>2, <2>3
<1>8. CASE ThreadEnds
  BY <1>8 DEF ThreadEnds
<1>9. CASE StreamError
  BY <1>9 DEF StreamError, KeepsLooping
<1>10. CASE ParamChanged
  BY <1>10 DEF ParamChanged
<1>11. CASE Publish
  BY <1>11 DEF Publish, Generation
<1>12. CASE CopyFails
  BY <1>12 DEF CopyFails
<1> QED
  BY <1>1, <1>2, <1>3, <1>4, <1>5, <1>6, <1>7, <1>8, <1>9, <1>10, <1>11, <1>12
  DEF StartUp, WindDown, Callbacks

LEMMA StepPortalInv == PortalInv /\ [Next]_vars => PortalInv'
<1> SUFFICES ASSUME PortalInv, [Next]_vars PROVE PortalInv'
  OBVIOUS
<1>1. CASE UNCHANGED vars
  BY <1>1 DEF vars, requestVars, threadVars, streamVars, stateVars, PortalInv, PortalTypeOK,
              ThreadSaid, LoopIsThere, QuitFindsTheLoop, Running, Over
<1> QED
  BY <1>1, HandshakeStep, GrabStep, ThreadStep DEF Next, Capturer

-----------------------------------------------------------------------------
(* A step of the front end is a step of one of the two, and the other       *)
(* stands still.                                                            *)
LEMMA FrontEndInvariant == FrontEndSpec => [](TapInv /\ PortalInv)
<1>1. FrontEndInit => TapInv /\ PortalInv
  BY InitTapInv, InitPortalInv DEF FrontEndInit
<1>2. [FrontEndNext]_frontEndVars => [TapNext]_tapVars /\ [Next]_vars
  BY DEF FrontEndNext, frontEndVars
<1>3. TapInv /\ PortalInv /\ [FrontEndNext]_frontEndVars => TapInv' /\ PortalInv'
  BY <1>2, StepTapInv, StepPortalInv
<1> QED
  BY <1>1, <1>3, PTL DEF FrontEndSpec

(* The fields and handles of SystemTap and of its teardown keep their types.*)
THEOREM TapTypeCorrect == FrontEndSpec => []TapTypeOK
<1>1. TapInv => TapTypeOK
  BY DEF TapInv
<1> QED BY FrontEndInvariant, <1>1, PTL

(* The IO callback never works on a freed IoState unless the HAL refused to *)
(* destroy it, however long the worker of teardown_bounded takes.           *)
THEOREM CallbackMemory == FrontEndSpec => []StateOutlivesCallbacks
<1>1. TapInv => StateOutlivesCallbacks
  BY DEF TapInv
<1> QED BY FrontEndInvariant, <1>1, PTL

(* Whatever failed, nothing SystemTap::new built stays behind but what the  *)
(* HAL refused to destroy.                                                  *)
THEOREM AllTakenDown == FrontEndSpec => []NothingLeftBehind
<1>1. TapInv => NothingLeftBehind
  BY DEF TapInv, TapTypeOK, TakenDownInOrder, NothingLeftBehind
<1> QED BY FrontEndInvariant, <1>1, PTL

(* The capturer's and the thread's fields keep their types, whatever the    *)
(* portal, the user and PipeWire do.                                        *)
THEOREM PortalTypeCorrect == FrontEndSpec => []PortalTypeOK
<1>1. PortalInv => PortalTypeOK
  BY DEF PortalInv
<1> QED BY FrontEndInvariant, <1>1, PTL

(* A set-up that fails after Started was sent is the only way to have quit  *)
(* called on a loop destroyed before (one is in the findings): a thread that *)
(* is set up leaves its loop in place until it is told to quit.             *)
THEOREM DanglesOnlyAfterFailedSetup == FrontEndSpec => []QuitFindsTheLoop
<1>1. PortalInv => QuitFindsTheLoop
  BY DEF PortalInv
<1> QED BY FrontEndInvariant, <1>1, PTL
=============================================================================
