------------------------------ MODULE SystemTap ------------------------------
(***************************************************************************)
(* System audio capture on a macOS initiator                                *)
(* (tl-macos-audio/src/system_tap.rs): SystemTap::new builds a process tap, *)
(* an aggregate device, a converter, the state its IO callback works on and *)
(* the callback itself, one on top of the other, and takes down what there  *)
(* is when a step fails.  The feeder thread (imp.rs audio_tap_feeder) pulls *)
(* samples; its end, like a failed step, starts a thread that takes the     *)
(* objects down, and waits for it three seconds at most.                    *)
(*                                                                          *)
(* Core Audio (the HAL) is external: each call succeeds or fails, stopping  *)
(* may take minutes, and the HAL's IO thread calls back at any moment while *)
(* the callback is registered and the device runs.  Destroying the callback *)
(* waits until it is not running.                                           *)
(***************************************************************************)
EXTENDS Naturals

CONSTANTS
  CycleBound   \* bound: frames in one IO cycle, at most MAX_IO_FRAMES

ASSUME TapConstants == CycleBound \in Nat

VARIABLES
  feeder,      \* "tap", "aggregate", "format", "converter", "io_proc", "start",
               \* "feeding", "teardown", "waiting", "gone"
  objects,     \* what exists, of "tap", "aggregate", "state", "io_proc"; the
               \* state owns the ring and the converter
  running,     \* the HAL runs the device
  handles,     \* what SystemTap::new or the capturer knows of, and "started"
  worker,      \* the teardown thread: "none", "stop", "io_proc", "state",
               \* "aggregate", "tap", "done"
  cycle,       \* the IO callback: "idle", "entered", "converting"
  pending,     \* PendingInput: frames of this cycle the converter may still
               \* ask for, 0 when there are none
  refused,     \* history: what the HAL refused to destroy or stop
  touched      \* history: the callback has used a state that is freed

tapVars == <<feeder, objects, running, handles, worker, cycle, pending, refused, touched>>

TapInit ==
  /\ feeder = "tap"
  /\ objects = {} /\ running = FALSE /\ handles = {}
  /\ worker = "none"
  /\ cycle = "idle" /\ pending = 0
  /\ refused = {} /\ touched = FALSE

-----------------------------------------------------------------------------
(* SystemTap::new: the process tap, then the aggregate device; each handle  *)
(* is kept as soon as there is one.                                         *)
Created(object) ==
  /\ objects' = objects \cup {object}
  /\ handles' = handles \cup {object}
  /\ UNCHANGED <<running, worker, cycle, pending, refused, touched>>

CreateTap ==
  /\ feeder = "tap"
  /\ feeder' = "aggregate"
  /\ Created("tap")

CreateAggregate ==
  /\ feeder = "aggregate"
  /\ feeder' = "format"
  /\ Created("aggregate")

(* The tap's format: PCM, two channels, a rate and a frame size.            *)
FormatSuits ==
  /\ feeder = "format"
  /\ feeder' = "converter"
  /\ UNCHANGED <<objects, running, handles, worker, cycle, pending, refused, touched>>

(* The converter, which goes straight into the callback's state.            *)
CreateState ==
  /\ feeder = "converter"
  /\ feeder' = "io_proc"
  /\ Created("state")

CreateIoProc ==
  /\ feeder = "io_proc"
  /\ feeder' = "start"
  /\ Created("io_proc")

StartDevice ==
  /\ feeder = "start"
  /\ feeder' = "feeding"
  /\ running' = TRUE
  /\ handles' = handles \cup {"started"}
  /\ UNCHANGED <<objects, worker, cycle, pending, refused, touched>>

(* Any step may fail (no output device, no permission, a format that does   *)
(* not suit, ...): what there is is rolled back.                            *)
StepFails ==
  /\ feeder \in {"tap", "aggregate", "format", "converter", "io_proc", "start"}
  /\ feeder' = "teardown"
  /\ UNCHANGED <<objects, running, handles, worker, cycle, pending, refused, touched>>

(* audio_tap_feeder ends: the stop flag, or no socket or encoder to start   *)
(* with.  The tap is dropped.                                               *)
FeederEnds ==
  /\ feeder = "feeding"
  /\ feeder' = "teardown"
  /\ UNCHANGED <<objects, running, handles, worker, cycle, pending, refused, touched>>

-----------------------------------------------------------------------------
(* teardown_bounded: the worker takes over the handles, ...                 *)
Begin ==
  /\ feeder = "teardown"
  /\ feeder' = "waiting"
  /\ worker' = "stop"
  /\ UNCHANGED <<objects, running, handles, cycle, pending, refused, touched>>

(* ... its creator waits for its word, ...                                  *)
WorkerReports ==
  /\ feeder = "waiting" /\ worker = "done"
  /\ feeder' = "gone"
  /\ UNCHANGED <<objects, running, handles, worker, cycle, pending, refused, touched>>

(* ... or for TEARDOWN_TIMEOUT, and leaves the worker to itself.            *)
WaitsForWorker == FALSE   \* faulty variant
MayGiveUp == worker # "done"

GivesUp ==
  /\ feeder = "waiting" /\ MayGiveUp
  /\ feeder' = "gone"
  /\ UNCHANGED <<objects, running, handles, worker, cycle, pending, refused, touched>>

(* The worker's calls, one after the other, each made only for what was     *)
(* created.  Their results are not looked at.                               *)
StateFirst == [stop |-> "state", state |-> "io_proc", io_proc |-> "aggregate",   \* faulty variant
               aggregate |-> "tap", tap |-> "done"]
Following == [stop |-> "io_proc", io_proc |-> "state", state |-> "aggregate",
              aggregate |-> "tap", tap |-> "done"]

NextCall(call) ==
  /\ worker = call
  /\ worker' = Following[call]

(* (`started` is no object: it says that the device is to be stopped.)      *)
OnlyIfStarted == IF "started" \in handles THEN handles ELSE handles \ {"io_proc"}   \* faulty variant
Known == handles

Refuses(object) ==
  /\ object \in Known
  /\ refused' = refused \cup {object}
  /\ UNCHANGED <<objects, running>>

Skips(object) ==
  /\ object \notin Known
  /\ UNCHANGED <<objects, running, refused>>

Destroys(object) ==
  /\ object \in Known
  /\ objects' = objects \ {object}
  /\ UNCHANGED <<running, refused>>

StopDevice ==
  /\ NextCall("stop")
  /\ \/ "started" \in Known /\ running' = FALSE /\ UNCHANGED <<objects, refused>>
     \/ Refuses("started") \/ Skips("started")
  /\ UNCHANGED <<feeder, handles, cycle, pending, touched>>

DestroyIoProc ==
  /\ NextCall("io_proc")
  /\ \/ cycle = "idle" /\ Destroys("io_proc")
     \/ Refuses("io_proc") \/ Skips("io_proc")
  /\ UNCHANGED <<feeder, handles, cycle, pending, touched>>

FreeState ==
  /\ NextCall("state")
  /\ Destroys("state") \/ Skips("state")
  /\ UNCHANGED <<feeder, handles, cycle, pending, touched>>

DestroyDevice(object) ==
  /\ NextCall(object)
  /\ Destroys(object) \/ Refuses(object) \/ Skips(object)
  /\ UNCHANGED <<feeder, handles, cycle, pending, touched>>

-----------------------------------------------------------------------------
(* The IO callback, which works on the state throughout.                    *)
UsesState == touched' = (touched \/ "state" \notin objects)

(* io_proc: a buffer of input.  (Of none, or of too much, nothing is made.) *)
CycleBegins ==
  /\ running /\ {"io_proc", "aggregate"} \subseteq objects
  /\ cycle = "idle"
  /\ cycle' = "converting"
  /\ pending' \in 1 .. CycleBound
  /\ UsesState
  /\ UNCHANGED <<feeder, objects, running, handles, worker, refused>>

(* conv_input_proc: the converter asks for frames and gets what is left.    *)
ConverterAsks ==
  /\ cycle = "converting" /\ pending > 0
  /\ \E requested \in 1 .. CycleBound :
       pending' = IF requested > pending THEN 0 ELSE pending - requested
  /\ UsesState
  /\ UNCHANGED <<feeder, objects, running, handles, worker, cycle, refused>>

(* What was converted goes into the ring; frames the converter did not ask  *)
(* for are lost.                                                            *)
CycleEnds ==
  /\ cycle = "converting"
  /\ cycle' = "idle"
  /\ UsesState
  /\ UNCHANGED <<feeder, objects, running, handles, worker, pending, refused>>

-----------------------------------------------------------------------------
Build == CreateTap \/ CreateAggregate \/ FormatSuits \/ CreateState \/ CreateIoProc \/ StartDevice
Drop == Begin \/ WorkerReports \/ GivesUp
Worker == StopDevice \/ DestroyIoProc \/ FreeState \/ DestroyDevice("aggregate") \/ DestroyDevice("tap")
IoThread == CycleBegins \/ ConverterAsks \/ CycleEnds

TapNext == Build \/ StepFails \/ FeederEnds \/ Drop \/ Worker \/ IoThread

TapSpec == TapInit /\ [][TapNext]_tapVars

-----------------------------------------------------------------------------
(* PROPERTIES                                                               *)

(* "State is freed only after the IOProc is destroyed": the HAL's thread    *)
(* never works on freed memory, unless the HAL refused to destroy the       *)
(* callback, to which nobody looks (system_tap.rs teardown_bounded).        *)
StateOutlivesCallbacks == touched => "io_proc" \in refused

(* Whatever step of new failed, and however the tap ended: once the worker  *)
(* is through, nothing is left of it but what the HAL refused to destroy    *)
(* (system_tap.rs new, teardown_bounded).                                   *)
NothingLeftBehind == worker = "done" => objects \subseteq refused

(* "Never block the caller": the drop ends although the HAL may hang (the   *)
(* timeout of teardown_bounded).                                            *)
TapDropEnds == feeder = "teardown" ~> feeder = "gone"

TapTypeOK ==
  /\ feeder \in {"tap", "aggregate", "format", "converter", "io_proc", "start",
                "feeding", "teardown", "waiting", "gone"}
  /\ objects \subseteq {"tap", "aggregate", "state", "io_proc"}
  /\ handles \subseteq {"tap", "aggregate", "state", "io_proc", "started"}
  /\ refused \subseteq handles
  /\ running \in BOOLEAN /\ touched \in BOOLEAN
  /\ worker \in {"none", "stop", "io_proc", "state", "aggregate", "tap", "done"}
  /\ cycle \in {"idle", "converting"}
  /\ pending \in 0 .. CycleBound
=============================================================================
