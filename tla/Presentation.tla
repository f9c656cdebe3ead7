---------------------------- MODULE Presentation ----------------------------
(***************************************************************************)
(* The last part of run_target on macOS (thunderlink-engine/src/imp.rs):    *)
(* the decode worker feeds the presenter, the control worker ends the       *)
(* session, and the role's own thread presents until the window closes or   *)
(* the session stops.                                                       *)
(*                                                                          *)
(* On the command line that thread is the process main thread and runs the  *)
(* event loop of Presenter::run.  In the desktop app it is a worker: it     *)
(* has the main thread show and hide the window by closures that run there  *)
(* in order, and polls the presenter's events.                              *)
(***************************************************************************)
EXTENDS DecodedStream, Presenter, Sequences

CONSTANTS
  FrameBound   \* bound: frames submitted

ASSUME FrameBoundAssumption == FrameBound \in Nat

VARIABLES
  path,        \* "cli", "embedded"
  role,        \* its thread: "show", "start", "pump", "swap", "poll" (cli),
               \* "watch" (embedded), "stop", "halt", "drain", "release", "hide",
               \* "returned", "failed"
  ui,          \* closures queued to the embedder's main thread
  stop,        \* the session's stop flag
  on           \* workers running, of "decode" and "control"

engineVars == <<path, role, ui, stop, on>>
vars == <<decoderVars, streamVars, presenterVars, engineVars>>

Init ==
  /\ StreamInit
  /\ PresenterInit
  /\ path \in {"cli", "embedded"}
  /\ role = "show"
  /\ ui = <<>>
  /\ stop = FALSE
  /\ on = {"decode", "control"}

Cli == path = "cli"

-----------------------------------------------------------------------------
(* The peer's encoder starts afresh.                                        *)
EncoderResets ==
  /\ "decode" \in on
  /\ StartAfresh
  /\ UNCHANGED <<presenterVars, engineVars>>

(* The decode worker: a unit is decoded and its frame submitted.            *)
DecodeFrame ==
  /\ "decode" \in on /\ ~stop
  /\ newest < FrameBound
  /\ \E unit \in Sent : Delivered(unit) /\ DecodesFrame(unit)
  /\ Submit
  /\ UNCHANGED engineVars

DecodeNothing ==
  /\ "decode" \in on /\ ~stop
  /\ \E unit \in Sent : Delivered(unit) /\ DecodesNothing(unit)
  /\ UNCHANGED <<presenterVars, engineVars>>

(* A worker ends, for the stop flag or for its own reasons (a decoder or    *)
(* socket error; the peer's Stop, a lost or silent channel): it raises the  *)
(* flag and asks the window to close.                                       *)
StopsOnly == UNCHANGED presenterVars   \* faulty variant
AsksToClose == RequestClose

WorkerExits(worker) ==
  /\ worker \in on
  /\ on' = on \ {worker}
  /\ stop' = TRUE
  /\ AsksToClose
  /\ UNCHANGED <<path, role, ui>>

DecodeFails ==
  /\ \E unit \in Sent : Delivered(unit) /\ DecodeErr(unit)
  /\ WorkerExits("decode")

ControlEnds == WorkerExits("control") /\ UNCHANGED <<decoderVars, streamVars>>

SeesStop ==
  /\ stop
  /\ \E worker \in on : WorkerExits(worker)
  /\ UNCHANGED <<decoderVars, streamVars>>

ReceiveFails == WorkerExits("decode") /\ UNCHANGED <<decoderVars, streamVars>>

Cancel ==
  /\ ~stop
  /\ stop' = TRUE
  /\ UNCHANGED <<decoderVars, streamVars, presenterVars, path, role, ui, on>>

-----------------------------------------------------------------------------
(* The role's thread.  show, at once or through the main thread.            *)
ShowWindow ==
  /\ role = "show"
  /\ role' = "start"
  /\ IF Cli
     THEN Show /\ UNCHANGED ui
     ELSE ui' = Append(ui, "show") /\ UNCHANGED presenterVars
  /\ UNCHANGED <<decoderVars, streamVars, path, stop, on>>

StartRendering ==
  /\ role = "start"
  /\ StartRender
  /\ role' = IF Cli THEN "pump" ELSE "watch"
  /\ UNCHANGED <<decoderVars, streamVars, path, ui, stop, on>>

(* No display link: the role leaves by `?`.                                 *)
StartFails ==
  /\ role = "start"
  /\ role' = "failed"
  /\ UNCHANGED <<decoderVars, streamVars, presenterVars, path, ui, stop, on>>

(* run: pump the events of a sixtieth of a second, ...                      *)
PumpOver ==
  /\ role = "pump"
  /\ role' = "swap"
  /\ UNCHANGED <<decoderVars, streamVars, presenterVars, path, ui, stop, on>>

(* ... close the window if that was asked for, ...                          *)
SwapCloseRequest ==
  /\ role = "swap"
  /\ role' = "poll"
  /\ IF close_requested
     THEN CloseWindow /\ close_requested' = FALSE
     ELSE UNCHANGED presenterVars
  /\ UNCHANGED <<decoderVars, streamVars, path, ui, stop, on>>

(* ... and end when the event says that it is closed.                       *)
PollClosed ==
  /\ role = "poll"
  /\ PollEvents
  /\ role' = IF close_event THEN "stop" ELSE "pump"
  /\ stop' = (stop \/ close_event)
  /\ UNCHANGED <<decoderVars, streamVars, path, ui, on>>

(* Embedded: every 50 ms, the stop flag and then the events.                *)
WatchStop ==
  /\ role = "watch" /\ stop
  /\ role' = "stop"
  /\ UNCHANGED <<decoderVars, streamVars, presenterVars, path, ui, stop, on>>

WatchClosed ==
  /\ role = "watch" /\ ~stop /\ close_event
  /\ PollEvents
  /\ stop' = TRUE
  /\ role' = "stop"
  /\ UNCHANGED <<decoderVars, streamVars, path, ui, on>>

(* stop_render.                                                             *)
StopRender ==
  /\ \/ role = "stop" /\ RaiseStopping /\ role' = "halt"
     \/ role = "halt" /\ StopLink /\ role' = "drain"
     \/ role = "drain" /\ LinkStopped /\ role' = "release"
     \/ role = "release" /\ ReleaseContext /\ role' = "hide"
  /\ UNCHANGED <<decoderVars, streamVars, path, ui, stop, on>>

HideWindow ==
  /\ role = "hide"
  /\ role' = "returned"
  /\ IF Cli
     THEN Hide /\ UNCHANGED ui
     ELSE ui' = Append(ui, "hide") /\ UNCHANGED presenterVars
  /\ stop' = TRUE
  /\ UNCHANGED <<decoderVars, streamVars, path, on>>

(* The last owner drops the presenter.                                      *)
DropsPresenter ==
  /\ role \in {"returned", "failed"} /\ ui = <<>> /\ cache
  /\ DropPresenter
  /\ UNCHANGED <<decoderVars, streamVars, engineVars>>

-----------------------------------------------------------------------------
(* The embedder's main thread runs the closures in order.                   *)
RunClosure ==
  /\ ui # <<>>
  /\ IF Head(ui) = "show" THEN Show ELSE Hide
  /\ ui' = Tail(ui)
  /\ UNCHANGED <<decoderVars, streamVars, path, role, stop, on>>

(* The user closes the window.                                              *)
UserCloses ==
  /\ visible
  /\ ~Cli \/ role = "pump"
  /\ CloseWindow
  /\ UNCHANGED <<decoderVars, streamVars, engineVars, close_requested>>

VsyncFires == Vsync /\ UNCHANGED <<decoderVars, streamVars, engineVars>>
CallbackRuns == Callback /\ UNCHANGED <<decoderVars, streamVars, engineVars>>

Role ==
  \/ ShowWindow \/ StartRendering \/ StartFails
  \/ PumpOver \/ SwapCloseRequest \/ PollClosed
  \/ WatchStop \/ WatchClosed
  \/ StopRender \/ HideWindow \/ DropsPresenter

Next ==
  \/ EncoderResets
  \/ DecodeFrame \/ DecodeNothing \/ DecodeFails \/ ReceiveFails \/ ControlEnds \/ SeesStop
  \/ Cancel
  \/ Role \/ RunClosure \/ UserCloses
  \/ VsyncFires \/ CallbackRuns

(* The threads run; a worker sees the stop flag within its timeouts; the    *)
(* display link fires once per vsync, and its callback ends.                *)
Spec ==
  /\ Init /\ [][Next]_vars
  /\ WF_vars(Role) /\ WF_vars(RunClosure) /\ WF_vars(SeesStop)
  /\ WF_vars(VsyncFires) /\ WF_vars(CallbackRuns)

-----------------------------------------------------------------------------
(* PROPERTIES                                                               *)

(* The context a callback renders with, and the texture cache it borrows,   *)
(* outlive the callback if CVDisplayLinkStop waits for it.  (The comments   *)
(* of RenderCtx and stop_render claim it without that condition, which the  *)
(* code needs: see the findings.)                                           *)
FreedMemoryUntouched == touched => ~drains

(* Once one unit with all parameter sets of the stream was delivered, its   *)
(* pictures are decoded with them, whatever was decoded before; until then, *)
(* because that key frame was lost or cut, they may be decoded with older   *)
(* ones, but never with a mixture (decode, "(Re)create the session when the *)
(* config changes").                                                        *)
DecodedByOwnSets ==
  [][newest' # newest =>
       /\ told' => session' = stream
       /\ session' \in heard']_vars

(* Latest-wins ends with the latest: while the window is rendered, the      *)
(* newest frame submitted gets to the screen, unless it was drawn for       *)
(* nothing because there was no drawable.                                   *)
LatestIsDrawn ==
  \A frame \in 1 .. FrameBound :
    (newest = frame /\ link = "running") ~> (on_screen >= frame \/ lost >= frame \/ link # "running")

(* Wherever the end comes from (the user closing the window, the peer, a    *)
(* worker's error, the embedder), role, workers, display link and window    *)
(* all come to their end; a role that could not start rendering is left out.*)
EndsTogether ==
  (stop \/ close_event) ~>
    (role = "failed" \/ (role = "returned" /\ on = {} /\ link = "released" /\ ~visible))
=============================================================================
