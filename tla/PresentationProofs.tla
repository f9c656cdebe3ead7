-------------------------- MODULE PresentationProofs --------------------------
(***************************************************************************)
(* The render context's memory, for any number of frames, and the parameter *)
(* sets pictures are decoded with, for any stream.                          *)
(***************************************************************************)
EXTENDS Presentation, TLAPS

Before == {"show", "start", "failed"}
Rendering == {"pump", "swap", "poll", "watch", "stop", "halt"}
After == {"release", "hide", "returned"}
Holding == {"test", "take", "draw", "leave"}

(* Where the role's thread is tells the state of the display link; without  *)
(* a link there is no callback, and the presenter goes last.                *)
LinkFollowsRole ==
  /\ role \in Before \cup Rendering \cup {"drain"} \cup After
  /\ role \in Before => link = "none" /\ cb = "idle"
  /\ role \in Rendering => link = "running"
  /\ role = "drain" => link = "stopping"
  /\ role \in After => link = "released"
  /\ ~cache => role \in {"returned", "failed"}

(* References: two from start_render until stop_render gives them up, one   *)
(* of a callback from its clone to its end.                                 *)
OfLink == IF role \in Rendering \cup {"drain", "release"} THEN 2 ELSE 0
OfCallback == IF cb \in Holding THEN 1 ELSE 0
RefsCounted == refs = OfLink + OfCallback

(* CVDisplayLinkStop lets no callback outlast it, if it waits.              *)
CallbacksDrained ==
  /\ cb \in Holding \cup {"idle", "entered"}
  /\ drains /\ cb # "idle" => link \in {"running", "stopping"}

MemoryInv ==
  LinkFollowsRole /\ RefsCounted /\ CallbacksDrained /\ FreedMemoryUntouched

LEMMA InitMemoryInv == Init => MemoryInv
BY DEF Init, PresenterInit, MemoryInv, LinkFollowsRole, RefsCounted, OfLink, OfCallback,
       CallbacksDrained, FreedMemoryUntouched, Before, Rendering, After, Holding

(* The fields the invariant is about, all of them unchanged by the workers, *)
(* the user and the closures.                                               *)
memoryVars == <<role, link, cb, cache, refs, drains, touched>>

LEMMA MemoryUnchanged == MemoryInv /\ UNCHANGED memoryVars => MemoryInv'
BY DEF memoryVars, MemoryInv, LinkFollowsRole, RefsCounted, OfLink, OfCallback,
       CallbacksDrained, FreedMemoryUntouched

LEMMA WorkersLeaveMemory ==
  ASSUME EncoderResets \/ DecodeFrame \/ DecodeNothing \/ DecodeFails \/ ReceiveFails \/ ControlEnds \/ SeesStop
           \/ Cancel \/ RunClosure \/ UserCloses
  PROVE  UNCHANGED memoryVars
<1> USE DEF memoryVars, presenterVars, frameVars, linkVars, windowVars, engineVars
<1>0. CASE EncoderResets
  BY <1>0 DEF EncoderResets
<1>1. CASE DecodeFrame
  BY <1>1 DEF DecodeFrame, Submit
<1>2. CASE DecodeNothing
  BY <1>2 DEF DecodeNothing
<1>3. CASE DecodeFails \/ ReceiveFails \/ ControlEnds \/ SeesStop
  BY <1>3 DEF DecodeFails, ReceiveFails, ControlEnds, SeesStop, WorkerExits, AsksToClose, RequestClose
<1>4. CASE Cancel
  BY <1>4 DEF Cancel
<1>5. CASE RunClosure
  BY <1>5 DEF RunClosure, Show, Hide
<1>6. CASE UserCloses
  BY <1>6 DEF UserCloses, CloseWindow
<1> QED
  BY <1>0, <1>1, <1>2, <1>3, <1>4, <1>5, <1>6

(* The role's thread, start_render and stop_render.                         *)
LEMMA RoleStep == MemoryInv /\ Role => MemoryInv'
<1> SUFFICES ASSUME MemoryInv, Role PROVE MemoryInv'
  OBVIOUS
<1> USE DEF MemoryInv, LinkFollowsRole, RefsCounted, OfLink, OfCallback, CallbacksDrained,
            FreedMemoryUntouched, Before, Rendering, After, Holding,
            presenterVars, frameVars, linkVars, windowVars, engineVars, Cli
<1>1. CASE ShowWindow
  BY <1>1 DEF ShowWindow, Show
<1>2. CASE StartRendering
  BY <1>2 DEF StartRendering, StartRender
<1>3. CASE StartFails
  BY <1>3 DEF StartFails
<1>4. CASE PumpOver
  BY <1>4 DEF PumpOver
<1>5. CASE SwapCloseRequest
  BY <1>5 DEF SwapCloseRequest, CloseWindow
<1>6. CASE PollClosed
  BY <1>6 DEF PollClosed, PollEvents
<1>7. CASE WatchStop
  BY <1>7 DEF WatchStop
<1>8. CASE WatchClosed
  BY <1>8 DEF WatchClosed, PollEvents
<1>9. CASE StopRender
  <2>1. CASE role = "stop" /\ RaiseStopping /\ role' = "halt"
    BY <2>1 DEF RaiseStopping
  <2>2. CASE role = "halt" /\ StopLink /\ role' = "drain"
    BY <2>2 DEF StopLink
  <2>3. CASE role = "drain" /\ LinkStopped /\ role' = "release"
    BY <2>3 DEF LinkStopped
  <2>4. CASE role = "release" /\ ReleaseContext /\ role' = "hide"
    BY <2>4 DEF ReleaseContext, GiveUp
  <2> QED
    BY <1>9, <2>1, <2>2, <2>3, <2>4 DEF StopRender
<1>10. CASE HideWindow
  BY <1>10 DEF HideWindow, Hide
<1>11. CASE DropsPresenter
  BY <1>11 DEF DropsPresenter, DropPresenter
<1> QED
  BY <1>1, <1>2, <1>3, <1>4, <1>5, <1>6, <1>7, <1>8, <1>9, <1>10, <1>11 DEF Role

(* The display link's thread.                                               *)
LEMMA CallbackStep == MemoryInv /\ (VsyncFires \/ CallbackRuns) => MemoryInv'
<1> SUFFICES ASSUME MemoryInv, VsyncFires \/ CallbackRuns PROVE MemoryInv'
  OBVIOUS
<1> USE DEF MemoryInv, LinkFollowsRole, RefsCounted, OfLink, OfCallback, CallbacksDrained,
            FreedMemoryUntouched, Before, Rendering, After, Holding,
            presenterVars, frameVars, linkVars, windowVars, engineVars
<1>1. CASE VsyncFires
  BY <1>1 DEF VsyncFires, Vsync
<1>2. CASE CallbackRuns
  <2> USE <1>2 DEF CallbackRuns
  <2>1. CASE TakeReference
    BY <2>1 DEF TakeReference, Cloned
  <2>2. CASE TestStopping
    BY <2>2 DEF TestStopping
  <2>3. CASE TakePending
    BY <2>3 DEF TakePending
  <2>4. CASE Draw
    BY <2>4 DEF Draw
  <2>5. CASE DropFrame
    BY <2>5 DEF DropFrame
  <2>6. CASE LeaveCallback
    BY <2>6 DEF LeaveCallback, GiveUp
  <2> QED
    BY <2>1, <2>2, <2>3, <2>4, <2>5, <2>6 DEF Callback
<1> QED
  BY <1>1, <1>2

LEMMA MemoryInvariant == Spec => []MemoryInv
<1>1. MemoryInv /\ [Next]_vars => MemoryInv'
  <2> SUFFICES ASSUME MemoryInv, [Next]_vars PROVE MemoryInv'
    OBVIOUS
  <2>1. CASE UNCHANGED vars
    BY <2>1, MemoryUnchanged
    DEF vars, memoryVars, presenterVars, frameVars, linkVars, windowVars, engineVars
  <2> QED
    BY <2>1, MemoryUnchanged, WorkersLeaveMemory, RoleStep, CallbackStep DEF Next
<1> QED
  BY InitMemoryInv, <1>1, PTL DEF Spec

(* If CVDisplayLinkStop waits for the callback under way, no callback       *)
(* touches a freed context or texture cache, wherever the end comes from.   *)
THEOREM ContextMemory == Spec => []FreedMemoryUntouched
<1>1. MemoryInv => FreedMemoryUntouched
  BY DEF MemoryInv
<1> QED BY MemoryInvariant, <1>1, PTL

-----------------------------------------------------------------------------
(* The session is the one last configured, and was built from the sets of a *)
(* unit that had them all; if the stream's own came in such a unit, and the *)
(* worker still decodes, it is the stream's.                                *)
StreamInv ==
  /\ stream \in Configurations
  /\ config = session
  /\ session # None => session \in heard
  /\ told /\ "decode" \in on => session = stream

LEMMA StreamInvInit == Init => StreamInv
BY StreamConstants DEF Init, StreamInit, DecoderInit, StreamInv

(* A unit that has a set of each kind is a key frame with the stream's.     *)
LEMMA CompleteIsOwn ==
  ASSUME stream \in Configurations, NEW unit \in Sent, Complete(unit)
  PROVE  unit.sets = stream /\ unit.keyframe
<1>1. unit \in KeyUnits
  <2>1. PICK kind \in Kinds : TRUE
    BY DecoderConstants
  <2>2. unit # OtherUnit
    BY <2>1, DecoderConstants DEF Complete, OtherUnit
  <2> QED BY <2>2 DEF Sent
<1>2. PICK kinds \in SUBSET Kinds, picture \in BOOLEAN :
        unit = [keyframe |-> TRUE, picture |-> picture,
                sets |-> [kind \in Kinds |-> IF kind \in kinds THEN stream[kind] ELSE None]]
  BY <1>1 DEF KeyUnits
<1>3. \A kind \in Kinds : unit.sets[kind] = stream[kind]
  BY <1>2 DEF Complete
<1> QED BY <1>2, <1>3 DEF Configurations

(* What a call makes of the session.                                        *)
LEMMA SessionAfter ==
  ASSUME StreamInv, "decode" \in on, NEW unit \in Sent, Delivered(unit), Reconfigure(unit)
  PROVE  /\ stream' \in Configurations
         /\ config' = session'
         /\ session' # None => session' \in heard'
         /\ told' => session' = stream'
<1>1. CASE Differs(unit)
  BY <1>1, CompleteIsOwn DEF StreamInv, Delivered, Reconfigure, Differs
<1>2. CASE ~Differs(unit)
  <2>1. Complete(unit) => session = stream
    BY <1>2, CompleteIsOwn DEF Differs, StreamInv
  <2> QED
    BY <1>2, <2>1 DEF StreamInv, Delivered, Reconfigure, decoderVars
<1> QED BY <1>1, <1>2

(* A call that fails ends the worker; the session is then of no use.        *)
LEMMA FailedCall == StreamInv /\ DecodeFails => StreamInv'
<1> SUFFICES ASSUME StreamInv, DecodeFails PROVE StreamInv'
  OBVIOUS
<1>1. "decode" \in on /\ "decode" \notin on'
  BY DEF DecodeFails, WorkerExits
<1>2. PICK unit \in Sent : Delivered(unit) /\ DecodeErr(unit)
  BY DEF DecodeFails
<1>3. CASE Reconfigure(unit)
  BY <1>1, <1>2, <1>3, SessionAfter DEF StreamInv
<1>4. CASE UNCHANGED decoderVars
  BY <1>1, <1>2, <1>4 DEF StreamInv, Delivered, decoderVars
<1> QED BY <1>2, <1>3, <1>4 DEF DecodeErr

(* A call no frame comes of.                                                *)
LEMMA EmptyCall == StreamInv /\ DecodeNothing => StreamInv'
<1> SUFFICES ASSUME StreamInv, DecodeNothing PROVE StreamInv'
  OBVIOUS
<1>1. "decode" \in on /\ on' = on
  BY DEF DecodeNothing, engineVars
<1>2. PICK unit \in Sent : Delivered(unit) /\ DecodesNothing(unit)
  BY DEF DecodeNothing
<1>3. CASE Reconfigure(unit)
  BY <1>1, <1>2, <1>3, SessionAfter DEF StreamInv
<1>4. CASE ~KnowsCodec(unit) /\ UNCHANGED decoderVars
  <2>1. ~Complete(unit)
    BY <1>4, CompleteIsOwn, DecoderConstants DEF StreamInv, Complete, KnowsCodec
  <2> QED BY <1>1, <1>2, <1>4, <2>1 DEF StreamInv, Delivered, decoderVars
<1> QED BY <1>2, <1>3, <1>4 DEF DecodesNothing

(* A call that yields a frame decodes it by the sets of the stream, or of   *)
(* one it had before.                                                       *)
LEMMA FrameCall ==
  ASSUME StreamInv, DecodeFrame
  PROVE  StreamInv' /\ (told' => session' = stream) /\ session' \in heard'
<1>1. "decode" \in on /\ on' = on
  BY DEF DecodeFrame, engineVars
<1>2. PICK unit \in Sent : Delivered(unit) /\ DecodesFrame(unit)
  BY DEF DecodeFrame
<1>3. Reconfigure(unit) /\ session' # None /\ stream' = stream
  BY <1>2 DEF DecodesFrame, Delivered
<1> QED BY <1>1, <1>2, <1>3, SessionAfter DEF StreamInv

(* Everything else leaves the session and what was delivered alone, shows   *)
(* no other frame, and starts no worker.                                    *)
LEMMA OthersLeaveStream ==
  ASSUME ReceiveFails \/ ControlEnds \/ SeesStop \/ Cancel \/ Role \/ RunClosure \/ UserCloses
           \/ VsyncFires \/ CallbackRuns
  PROVE  /\ UNCHANGED <<decoderVars, streamVars, newest>>
         /\ "decode" \in on' => "decode" \in on
<1> USE DEF presenterVars, frameVars, engineVars
<1>1. CASE ReceiveFails \/ ControlEnds \/ SeesStop
  BY <1>1 DEF ReceiveFails, ControlEnds, SeesStop, WorkerExits, AsksToClose, RequestClose
<1>2. CASE Cancel
  BY <1>2 DEF Cancel
<1>3. CASE Role
  <2>1. CASE ShowWindow \/ StartRendering \/ StartFails
    BY <2>1 DEF ShowWindow, Show, StartRendering, StartRender, StartFails
  <2>2. CASE PumpOver \/ SwapCloseRequest \/ PollClosed
    BY <2>2 DEF PumpOver, SwapCloseRequest, CloseWindow, PollClosed, PollEvents
  <2>3. CASE WatchStop \/ WatchClosed
    BY <2>3 DEF WatchStop, WatchClosed, PollEvents
  <2>4. CASE StopRender
    BY <2>4 DEF StopRender, RaiseStopping, StopLink, LinkStopped, ReleaseContext
  <2>5. CASE HideWindow \/ DropsPresenter
    BY <2>5 DEF HideWindow, Hide, DropsPresenter, DropPresenter
  <2> QED BY <1>3, <2>1, <2>2, <2>3, <2>4, <2>5 DEF Role
<1>4. CASE RunClosure \/ UserCloses
  BY <1>4 DEF RunClosure, Show, Hide, UserCloses, CloseWindow
<1>5. CASE VsyncFires
  BY <1>5 DEF VsyncFires, Vsync
<1>6. CASE CallbackRuns
  BY <1>6 DEF CallbackRuns, Callback, TakeReference, TestStopping, TakePending, Draw,
              DropFrame, LeaveCallback
<1> QED BY <1>1, <1>2, <1>3, <1>4, <1>5, <1>6

(* Whatever units are lost or cut, and however often the stream starts      *)
(* afresh: once a unit with all of its parameter sets was delivered, its    *)
(* pictures are decoded with these, and none is decoded with a mixture.     *)
THEOREM OwnSetsDecode == Spec => DecodedByOwnSets
<1>1. StreamInv /\ [Next]_vars =>
        /\ StreamInv'
        /\ newest' # newest => (told' => session' = stream) /\ session' \in heard'
  <2> SUFFICES ASSUME StreamInv, [Next]_vars
               PROVE  /\ StreamInv'
                      /\ newest' # newest => (told' => session' = stream) /\ session' \in heard'
    OBVIOUS
  <2>1. CASE UNCHANGED vars
    BY <2>1 DEF vars, StreamInv, decoderVars, streamVars, engineVars, presenterVars, frameVars
  <2>2. CASE EncoderResets
    BY <2>2, StreamConstants
    DEF EncoderResets, StartAfresh, StreamInv, decoderVars, engineVars, presenterVars, frameVars
  <2>3. CASE DecodeFrame
    BY <2>3, FrameCall
  <2>4. CASE DecodeNothing
    BY <2>4, EmptyCall DEF DecodeNothing, presenterVars, frameVars
  <2>5. CASE DecodeFails
    BY <2>5, FailedCall DEF DecodeFails, WorkerExits, AsksToClose, RequestClose, frameVars
  <2>6. CASE ReceiveFails \/ ControlEnds \/ SeesStop \/ Cancel \/ Role \/ RunClosure
               \/ UserCloses \/ VsyncFires \/ CallbackRuns
    <3>1. /\ UNCHANGED <<decoderVars, streamVars, newest>>
          /\ "decode" \in on' => "decode" \in on
      BY <2>6, OthersLeaveStream
    <3> QED BY <3>1 DEF StreamInv, decoderVars, streamVars
  <2> QED BY <2>1, <2>2, <2>3, <2>4, <2>5, <2>6 DEF Next
<1>2. StreamInv /\ [Next]_vars =>
        [newest' # newest => (told' => session' = stream) /\ session' \in heard']_vars
  BY <1>1
<1> QED BY StreamInvInit, <1>1, <1>2, PTL DEF Spec, DecodedByOwnSets
=============================================================================
