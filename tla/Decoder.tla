------------------------------ MODULE Decoder ------------------------------
(***************************************************************************)
(* The target's video decoder, tl-macos-render/src/decode.rs.  decode takes *)
(* one access unit and returns the frames of the call: it detects the codec *)
(* once, (re)creates the VideoToolbox session when the parameter sets       *)
(* change, and submits the picture and waits for it, so that the session's  *)
(* output callback runs inside the call.  One call is one step.             *)
(*                                                                          *)
(* A unit is a record of whether it is a key frame, of the parameter sets   *)
(* it carries (the first of each kind), and of whether it has a picture.    *)
(***************************************************************************)
CONSTANTS
  Kinds,       \* of parameter sets: VPS, SPS and PPS, or SPS and PPS
  Contents,    \* what a parameter set may say
  None

(* What a session is built from: one parameter set of each kind.            *)
Configurations == [Kinds -> Contents]

ASSUME DecoderConstants ==
  /\ None \notin Contents /\ None \notin Configurations
  /\ Kinds # {}

VARIABLES
  codec,       \* BOOLEAN: the codec is known
  session,     \* the configuration the live session was built from, or None
  config       \* the one the decoder compares with, or None

decoderVars == <<codec, session, config>>

Units ==
  [keyframe : BOOLEAN, sets : [Kinds -> Contents \cup {None}], picture : BOOLEAN]

DecoderInit ==
  /\ codec = FALSE
  /\ session = None /\ config = None

(* detect_codec: any parameter set tells, but only one of a key frame is    *)
(* trusted.  The codec is remembered once a session was created.            *)
KnowsCodec(unit) ==
  codec \/ (unit.keyframe /\ \E kind \in Kinds : unit.sets[kind] # None)

(* decode: a new session takes the old one's place if the unit has a        *)
(* parameter set of each kind, and one of them is new.  A unit that has     *)
(* some of them only is decoded, if it has a picture, with the old session. *)
Complete(unit) == \A kind \in Kinds : unit.sets[kind] # None

OnlyAtFirst(unit) == Complete(unit) /\ config = None   \* faulty variant
Differs(unit) == Complete(unit) /\ unit.sets # config

Reconfigure(unit) ==
  IF Differs(unit)
  THEN codec' = TRUE /\ config' = unit.sets /\ session' = unit.sets
  ELSE UNCHANGED decoderVars

(* A unit no frame comes of: it is too early, or has no picture, or         *)
(* VideoToolbox drops it.                                                   *)
DecodesNothing(unit) ==
  \/ ~KnowsCodec(unit) /\ UNCHANGED decoderVars
  \/ KnowsCodec(unit) /\ Reconfigure(unit)

DecodesFrame(unit) ==
  /\ KnowsCodec(unit)
  /\ unit.picture
  /\ Reconfigure(unit)
  /\ session' # None

(* create_session fails, and the old session stays; or submit_frame does.   *)
DecodeErr(unit) ==
  /\ KnowsCodec(unit)
  /\ \/ Differs(unit) /\ UNCHANGED decoderVars
     \/ unit.picture /\ Reconfigure(unit) /\ session' # None
=============================================================================
