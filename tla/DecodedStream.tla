---------------------------- MODULE DecodedStream ----------------------------
(***************************************************************************)
(* The stream that reaches the target's decoder (module Decoder).  The      *)
(* encoder may start afresh with other parameter sets.  It sends them with  *)
(* a key frame, all in one unit or, as the HEVC encoder of Linux cuts them  *)
(* (module FfmpegEncoder), over several.  The channel delivers units in     *)
(* order and may drop any of them (module VideoLink): a unit that is lost   *)
(* is one that was never sent, for the decoder as for this module, and the  *)
(* stream may therefore open, or go on after a reset, with a unit that      *)
(* carries no parameter set at all.                                         *)
(***************************************************************************)
EXTENDS Decoder, Naturals

CONSTANTS
  Streams,     \* the configurations the encoder may take
  ResetBound   \* bound: times the stream starts afresh

ASSUME StreamConstants == Streams \subseteq Configurations /\ ResetBound \in Nat

VARIABLES
  stream,      \* the configuration the encoder works with
  resets,      \* times it started afresh
  told,        \* ghost: a unit with all of its sets was delivered
  heard        \* ghost: the configurations of which such a unit was delivered

streamVars == <<stream, resets, told, heard>>

StreamInit ==
  /\ DecoderInit
  /\ stream \in Streams
  /\ resets = 0 /\ told = FALSE /\ heard = {}

(* The encoder starts afresh.  (With the same sets it would change nothing  *)
(* for the decoder.)                                                        *)
StartAfresh ==
  /\ resets < ResetBound
  /\ resets' = resets + 1
  /\ stream' \in Streams \ {stream}
  /\ told' = FALSE
  /\ UNCHANGED <<decoderVars, heard>>

(* A key frame, or a part of it that carries the parameter sets of these    *)
(* kinds; and any other picture.                                            *)
KeyUnits ==
  {[keyframe |-> TRUE, picture |-> picture,
    sets |-> [kind \in Kinds |-> IF kind \in kinds THEN stream[kind] ELSE None]] :
      kinds \in SUBSET Kinds \ {{}}, picture \in BOOLEAN}
OtherUnit == [keyframe |-> FALSE, picture |-> TRUE, sets |-> [kind \in Kinds |-> None]]

Sent == KeyUnits \cup {OtherUnit}

Delivered(unit) ==
  /\ told' = (told \/ Complete(unit))
  /\ heard' = IF Complete(unit) THEN heard \cup {stream} ELSE heard
  /\ UNCHANGED <<stream, resets>>
=============================================================================
