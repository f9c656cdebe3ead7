----------------------------- MODULE Presenter -----------------------------
(***************************************************************************)
(* The target's window and its render loop, tl-macos-render/src/present.rs. *)
(* Frames go through a latest-wins slot to a callback that the display link *)
(* runs once per vsync on its own thread.  The callback gets the render     *)
(* context as a raw pointer to a reference-counted object and first makes   *)
(* its own reference from it; stop_render stops the link and gives up the   *)
(* two others.  The texture cache belongs to the presenter; the context     *)
(* only borrows it.                                                         *)
(*                                                                          *)
(* CVDisplayLinkStop is external: whether it waits for a callback under way *)
(* is not documented, and is chosen at the start.                           *)
(***************************************************************************)
EXTENDS Naturals

VARIABLES
  newest,      \* frames submitted
  pending,     \* the slot: a frame, 0 when empty
  cb,          \* the callback: "idle", "entered", "test", "take", "draw", "leave"
  taken,       \* the frame it has, or 0
  held,        \* the frame whose textures the context retains, or 0
  on_screen,   \* the frame committed last, or 0
  lost,        \* newest frame taken and not shown
  link,        \* the display link: "none", "running", "stopping",
               \* "released"
  refs,        \* references to the context
  stopping,    \* the context's flag
  cache,       \* the texture cache is alive
  drains,      \* CVDisplayLinkStop waits for a callback under way
  touched,     \* history: a callback has touched freed memory
  visible,     \* the window is on the screen
  delegate,    \* it has its delegate
  close_requested,
  close_event  \* CloseRequested is queued

frameVars == <<newest, pending, taken, on_screen, lost>>
linkVars == <<link, refs, stopping, cache, drains>>
windowVars == <<visible, delegate, close_requested, close_event>>
presenterVars == <<frameVars, cb, held, linkVars, touched, windowVars>>

PresenterInit ==
  /\ newest = 0 /\ pending = 0 /\ taken = 0 /\ held = 0 /\ on_screen = 0 /\ lost = 0
  /\ cb = "idle"
  /\ link = "none" /\ refs = 0 /\ stopping = FALSE /\ cache = TRUE
  /\ drains \in BOOLEAN
  /\ touched = FALSE
  /\ visible = FALSE /\ delegate = FALSE
  /\ close_requested = FALSE /\ close_event = FALSE

(* The last reference takes the context with it, and the held textures.     *)
GiveUp(n) ==
  /\ refs' = refs - n
  /\ held' = IF refs' = 0 THEN 0 ELSE held

-----------------------------------------------------------------------------
(* SubmitHandle::submit: a new frame replaces the one not yet presented.    *)
FirstWins(frame) == IF pending = 0 THEN frame ELSE pending   \* faulty variant
Replace(frame) == frame

Submit ==
  /\ newest' = newest + 1
  /\ pending' = Replace(newest')
  /\ UNCHANGED <<taken, on_screen, lost, cb, held, linkVars, touched, windowVars>>

-----------------------------------------------------------------------------
(* display_link_callback.  It is called with the raw pointer, ...           *)
Vsync ==
  /\ link = "running" /\ cb = "idle"
  /\ cb' = "entered"
  /\ UNCHANGED <<frameVars, held, linkVars, touched, windowVars>>

(* ... makes a reference of its own and leaves the link's in place, ...     *)
TakesTheLinks == refs   \* faulty variant
Cloned == refs + 1

TakeReference ==
  /\ cb = "entered"
  /\ IF refs = 0
     THEN /\ touched' = TRUE
          /\ cb' = "idle"
          /\ UNCHANGED refs
     ELSE /\ refs' = Cloned
          /\ cb' = "test"
          /\ UNCHANGED touched
  /\ UNCHANGED <<frameVars, held, link, stopping, cache, drains, windowVars>>

TestStopping ==
  /\ cb = "test"
  /\ cb' = IF stopping THEN "leave" ELSE "take"
  /\ UNCHANGED <<frameVars, held, linkVars, touched, windowVars>>

(* ... render_latest: takes the pending frame, ...                          *)
TakePending ==
  /\ cb = "take"
  /\ taken' = pending
  /\ pending' = 0
  /\ cb' = IF pending = 0 THEN "leave" ELSE "draw"
  /\ UNCHANGED <<newest, on_screen, lost, held, linkVars, touched, windowVars>>

(* ... makes textures of it in the cache; the frame is drawn and committed, *)
(* and its textures replace those held ...                                  *)
Draw ==
  /\ cb = "draw"
  /\ touched' = (touched \/ ~cache)
  /\ on_screen' = taken
  /\ held' = taken
  /\ taken' = 0
  /\ cb' = "leave"
  /\ UNCHANGED <<newest, pending, lost, linkVars, windowVars>>

(* ... or is dropped: a format without a pipeline, no drawable, Metal fails.*)
DropFrame ==
  /\ cb = "draw"
  /\ touched' = (touched \/ ~cache)
  /\ lost' = taken
  /\ taken' = 0
  /\ cb' = "leave"
  /\ UNCHANGED <<newest, pending, on_screen, held, linkVars, windowVars>>

LeaveCallback ==
  /\ cb = "leave"
  /\ GiveUp(1)
  /\ cb' = "idle"
  /\ UNCHANGED <<frameVars, link, stopping, cache, drains, touched, windowVars>>

-----------------------------------------------------------------------------
(* start_render, with build_runtime: the context has two references, one of *)
(* them leaked to the link.                                                 *)
StartRender ==
  /\ link' = "running"
  /\ refs' = 2
  /\ UNCHANGED <<frameVars, cb, held, stopping, cache, drains, touched, windowVars>>

(* stop_render: the flag first, ...                                         *)
RaiseStopping ==
  /\ stopping' = TRUE
  /\ UNCHANGED <<frameVars, cb, held, link, refs, cache, drains, touched, windowVars>>

(* ... then CVDisplayLinkStop: no further callbacks, ...                    *)
StopLink ==
  /\ link' = "stopping"
  /\ UNCHANGED <<frameVars, cb, held, refs, stopping, cache, drains, touched, windowVars>>

(* ... and its return, ...                                                  *)
LinkStopped ==
  /\ drains => cb = "idle"
  /\ link' = "released"
  /\ UNCHANGED <<frameVars, cb, held, refs, stopping, cache, drains, touched, windowVars>>

(* ... then the two references.                                             *)
ReleaseContext ==
  /\ GiveUp(2)
  /\ UNCHANGED <<frameVars, cb, link, stopping, cache, drains, touched, windowVars>>

(* Drop: the texture cache goes.                                            *)
DropPresenter ==
  /\ cache' = FALSE
  /\ UNCHANGED <<frameVars, cb, held, link, refs, stopping, drains, touched, windowVars>>

-----------------------------------------------------------------------------
Show ==
  /\ delegate' = TRUE /\ visible' = TRUE
  /\ UNCHANGED <<frameVars, cb, held, linkVars, touched, close_requested, close_event>>

Hide ==
  /\ delegate' = FALSE /\ visible' = FALSE
  /\ UNCHANGED <<frameVars, cb, held, linkVars, touched, close_requested, close_event>>

(* The window closes: windowWillClose queues the event.                     *)
CloseWindow ==
  /\ visible' = FALSE
  /\ close_event' = (close_event \/ delegate)
  /\ UNCHANGED <<frameVars, cb, held, linkVars, touched, delegate>>

RequestClose ==
  /\ close_requested' = TRUE
  /\ UNCHANGED <<frameVars, cb, held, linkVars, touched, visible, delegate, close_event>>

(* poll_events drains the queue.                                            *)
PollEvents ==
  /\ close_event' = FALSE
  /\ UNCHANGED <<frameVars, cb, held, linkVars, touched, visible, delegate, close_requested>>

Callback == TakeReference \/ TestStopping \/ TakePending \/ Draw \/ DropFrame \/ LeaveCallback
=============================================================================
