---------------------------- MODULE EncodeLoop ----------------------------
(***************************************************************************)
(* What the receiver's feedback does to the stream: the feedback worker     *)
(* runs the bitrate ladder and latches requests for a key frame, and the    *)
(* encode loop (tl-video run_initiator with the encode closure of imp.rs    *)
(* and imp_linux.rs) applies both to the encoder, one frame at a time.      *)
(*                                                                          *)
(* The encoder is VideoToolbox, whose output arrives by a callback while    *)
(* encode waits for it, or x264, whose output is there when encode returns. *)
(* Both take over a rate and a request for a key frame between two frames.  *)
(* Bitrates are in kbps, except the encoder's own, which is in bits a       *)
(* second.                                                                  *)
(***************************************************************************)
EXTENDS BitrateLadder

CONSTANTS
  None,
  Encoders,      \* the encoders of the platform, of "VideoToolbox" and "x264"
  RefusalBound   \* bound: changes of rate the encoder refuses

ASSUME EncodeConstants ==
  /\ None \notin Nat /\ RefusalBound \in Nat
  /\ Encoders \subseteq {"VideoToolbox", "x264"}

VARIABLES
  bitrate_target,  \* None before the ladder's first change
  idr_latched,     \* in VideoTx
  unserved,        \* history: a key frame was asked for and none submitted since
  pc,              \* "wait", "latch", "closure", "rate", "submit", "await", "ended"
  force_idr,       \* of the loop, for this frame
  forced,          \* the encoder's own flag
  last_bitrate,    \* of the closure
  encoder,         \* which one it is
  rate,            \* its bitrate, in bits a second
  refusals,
  output,          \* of the frame in the encoder: "none" yet, "unit", "error"
  stop             \* the session's stop flag

loopVars == <<pc, force_idr, last_bitrate, output>>
encoderVars == <<forced, encoder, rate, refusals>>
vars == <<ladderVars, bitrate_target, idr_latched, unserved, loopVars, encoderVars, stop>>

Init ==
  /\ LadderInit
  /\ bitrate_target = None
  /\ idr_latched = FALSE /\ unserved = FALSE
  /\ pc = "wait" /\ force_idr = FALSE
  /\ encoder \in Encoders
  /\ last_bitrate = Base /\ rate = 1000 * Base
  /\ forced = FALSE /\ refusals = 0
  /\ output = "none"
  /\ stop = FALSE

-----------------------------------------------------------------------------
(* The feedback worker: a receiver report ...                               *)
HandleReport(report) ==
  /\ ~stop
  /\ Report(report)
  /\ bitrate_target' = IF current' # current THEN current' ELSE bitrate_target
  /\ UNCHANGED <<idr_latched, unserved, loopVars, encoderVars, stop>>

(* ... or a NACK or a request for a key frame.                              *)
OfThisOnly(fb) == fb = "IdrRequest"   \* faulty variant
Latched(fb) == idr_latched \/ fb = "IdrRequest"

HandleFeedback(fb) ==
  /\ ~stop
  /\ idr_latched' = Latched(fb)
  /\ unserved' = (unserved \/ fb = "IdrRequest")
  /\ UNCHANGED <<ladderVars, bitrate_target, loopVars, encoderVars, stop>>

-----------------------------------------------------------------------------
(* run_initiator: a frame is there, ...                                     *)
TakeFrame ==
  /\ pc = "wait" /\ ~stop
  /\ pc' = "latch"
  /\ UNCHANGED <<ladderVars, bitrate_target, idr_latched, unserved, force_idr, last_bitrate, output, encoderVars, stop>>

(* ... take_idr_request, ...                                                *)
TakeIdrRequest ==
  /\ pc = "latch"
  /\ force_idr' = idr_latched
  /\ idr_latched' = FALSE
  /\ pc' = "closure"
  /\ UNCHANGED <<ladderVars, bitrate_target, unserved, last_bitrate, output, encoderVars, stop>>

(* ... the closure: the frame limit may raise the stop flag, and the        *)
(* encoder is told to make a key frame, ...                                 *)
RequestIdr ==
  /\ pc = "closure"
  /\ forced' = (forced \/ force_idr)
  /\ force_idr' = FALSE
  /\ stop' \in {stop, TRUE}
  /\ pc' = "rate"
  /\ UNCHANGED <<ladderVars, bitrate_target, idr_latched, unserved, last_bitrate, output, encoder, rate, refusals>>

(* ... and to change its rate.                                              *)
Wanted == bitrate_target \notin {None, last_bitrate}

KeepRate ==
  /\ pc = "rate" /\ ~Wanted
  /\ pc' = "submit"
  /\ UNCHANGED <<ladderVars, bitrate_target, idr_latched, unserved, force_idr, last_bitrate, output, encoderVars, stop>>

(* (VideoToolbox takes the number for bits a second, see the findings.)     *)
BitsAsSet(kbps) == IF encoder = "VideoToolbox" THEN kbps ELSE 1000 * kbps

SetRate ==
  /\ pc = "rate" /\ Wanted
  /\ rate' = BitsAsSet(bitrate_target)
  /\ last_bitrate' = bitrate_target
  /\ pc' = "submit"
  /\ UNCHANGED <<ladderVars, bitrate_target, idr_latched, unserved, force_idr, output, forced, encoder, refusals, stop>>

(* The encoder refuses: it is asked again at the next frame.                *)
ForgetsRefusal == bitrate_target   \* faulty variant
AfterRefusal == last_bitrate

RateRefused ==
  /\ pc = "rate" /\ Wanted
  /\ refusals < RefusalBound
  /\ refusals' = refusals + 1
  /\ last_bitrate' = AfterRefusal
  /\ pc' = "submit"
  /\ UNCHANGED <<ladderVars, bitrate_target, idr_latched, unserved, force_idr, output, forced, encoder, rate, stop>>

(* encode: submit the frame, which takes the flag; ...                      *)
Submit ==
  /\ pc = "submit"
  /\ forced' = FALSE
  /\ unserved' = (unserved /\ ~forced)
  /\ pc' = "await"
  /\ UNCHANGED <<ladderVars, bitrate_target, idr_latched, force_idr, last_bitrate, output, encoder, rate, refusals, stop>>

(* ... its unit comes out of the encoder, parameter sets and payload in     *)
(* Annex B, ...                                                             *)
UnitReady ==
  /\ pc = "await" /\ output = "none"
  /\ output' = "unit"
  /\ UNCHANGED <<ladderVars, bitrate_target, idr_latched, unserved, pc, force_idr, last_bitrate, encoderVars, stop>>

(* ... or an error (a status, no data, AVCC that does not parse); ...       *)
OutputFails ==
  /\ pc = "await" /\ output = "none"
  /\ output' = "error"
  /\ UNCHANGED <<ladderVars, bitrate_target, idr_latched, unserved, pc, force_idr, last_bitrate, encoderVars, stop>>

(* ... the unit is sent.                                                    *)
SendUnit ==
  /\ pc = "await" /\ output = "unit"
  /\ output' = "none"
  /\ pc' = "wait"
  /\ UNCHANGED <<ladderVars, bitrate_target, idr_latched, unserved, force_idr, last_bitrate, encoderVars, stop>>

(* The loop ends, by the stop flag or the end of the frames, and raises the *)
(* flag for everyone; ...                                                   *)
LoopEnds ==
  /\ pc = "wait"
  /\ pc' = "ended"
  /\ stop' = TRUE
  /\ UNCHANGED <<ladderVars, bitrate_target, idr_latched, unserved, force_idr, last_bitrate, output, encoderVars>>

(* ... or by an error in it (a frame of the wrong size, VideoToolbox, five  *)
(* seconds without output, the socket), which leaves by `?`.                *)
LoopFails ==
  /\ pc \in {"submit", "await"}
  /\ pc' = "ended"
  /\ UNCHANGED <<ladderVars, bitrate_target, idr_latched, unserved, force_idr, last_bitrate, output, encoderVars, stop>>

RaiseStop ==
  /\ ~stop
  /\ stop' = TRUE
  /\ UNCHANGED <<ladderVars, bitrate_target, idr_latched, unserved, loopVars, encoderVars>>

-----------------------------------------------------------------------------
Closure == RequestIdr \/ KeepRate \/ SetRate \/ RateRefused
MustEnd == (stop /\ LoopEnds) \/ (output = "error" /\ LoopFails)
Loop == TakeFrame \/ TakeIdrRequest \/ Closure \/ Submit \/ UnitReady \/ OutputFails \/ SendUnit

Next ==
  \/ \E report \in Reports : HandleReport(report)
  \/ \E fb \in {"Nack", "IdrRequest"} : HandleFeedback(fb)
  \/ Loop \/ LoopEnds \/ LoopFails \/ RaiseStop

(* Frames keep coming: screen grabbers and test sources are paced.  The     *)
(* encoder answers within five seconds or the loop ends.                    *)
Spec == Init /\ [][Next]_vars /\ WF_vars(Loop \/ MustEnd)

-----------------------------------------------------------------------------
(* PROPERTIES                                                               *)

(* A request for a key frame is never lost between the feedback worker, the *)
(* loop and the encoder: until a key frame is submitted, one of them has it *)
(* (VideoTx idr_latched, run_initiator force_idr, Encoder force_idr).       *)
IdrRequestKept ==
  unserved => (idr_latched \/ force_idr \/ forced \/ pc = "ended")

(* The ladder's last word reaches the encoder's set_bitrate while frames    *)
(* are encoded, also if it is refused at first (the closure's last_bitrate).*)
RateReached ==
  \A kbps \in Rates :
    bitrate_target = kbps ~> (rate \in {BitsAsSet(kbps), 1000 * kbps} \/ bitrate_target # kbps \/ pc = "ended")

(* "Deliberately conservative": the rate goes up only after CLEAN_STREAK    *)
(* reports without counted loss, goes down only after two lossy ones, by    *)
(* more than the light step only after two heavy ones, and stays in the     *)
(* band (ladder.rs, policy).                                                *)
LastTwoIn(S) == Len(recent) >= 2 /\ \A i \in {Len(recent) - 1, Len(recent)} : recent[i] \in S
LadderIsPatient ==
  [][/\ current' > current =>
          Len(recent') = CLEAN_STREAK /\ \A i \in 1 .. CLEAN_STREAK : recent'[i] \in {"clean", "outage"}
     /\ current' < current => LastTwoIn({"light", "heavy"})'
     /\ current' < Clamp(Percent(current, 85)) => LastTwoIn({"heavy"})'
     /\ current' \in Rates]_vars
=============================================================================
