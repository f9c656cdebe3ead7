--------------------------- MODULE FfmpegEncoder ---------------------------
(***************************************************************************)
(* HEVC on a Linux initiator: the ffmpeg child process of                   *)
(* tl-linux-capture/src/ffmpeg.rs.  encode writes a frame to the child's    *)
(* input, takes what the reader thread has read of its output so far, and   *)
(* cuts that into units.                                                    *)
(*                                                                          *)
(* The stream is a sequence of NAL units, each a record of its frame and    *)
(* type.  The child is external: it is run so that every frame is a key     *)
(* frame and repeats its headers, and its output comes when it likes.       *)
(***************************************************************************)
EXTENDS Naturals, FiniteSetsExt, SequencesExt

CONSTANTS
  FrameBound   \* bound: frames encoded

VARIABLES
  written,     \* frames written to the child's input
  child,       \* NAL units it has still to put out
  reader_buf,  \* what the reader thread has read
  pending,     \* what encode has taken over
  pc,          \* the encode call: "idle", "written", "ended"
  units        \* those the last call returned, oldest first

vars == <<written, child, reader_buf, pending, pc, units>>

Types == <<"VPS", "SPS", "PPS", "IDR">>
Output(frame) == [i \in 1 .. Len(Types) |-> [frame |-> frame, type |-> Types[i]]]

Init ==
  /\ written = 0
  /\ child = <<>> /\ reader_buf = <<>> /\ pending = <<>>
  /\ pc = "idle"
  /\ units = <<>>

-----------------------------------------------------------------------------
(* The child encodes what it was given ... and the reader thread reads it.  *)
ReadOutput ==
  /\ child # <<>>
  /\ reader_buf' = Append(reader_buf, Head(child))
  /\ child' = Tail(child)
  /\ UNCHANGED <<written, pending, pc, units>>

(* encode: a frame goes in, ...                                             *)
WriteFrame ==
  /\ pc = "idle" /\ written < FrameBound
  /\ written' = written + 1
  /\ child' = child \o Output(written')
  /\ pc' = "written"
  /\ UNCHANGED <<reader_buf, pending, units>>

(* ... or the child is gone, or the frame has another size than the stream, *)
WriteFails ==
  /\ pc = "idle"
  /\ pc' = "ended"
  /\ UNCHANGED <<written, child, reader_buf, pending, units>>

(* extract_next_unit: a unit goes from a VPS or SPS up to the next of these. *)
Boundaries(nals) == {i \in DOMAIN nals : nals[i].type \in {"VPS", "SPS"}}

(* The units of a call: a cut at every boundary but the first and the last. *)
Cuts(nals) == SetToSortSeq(Boundaries(nals), <)
Extracted(nals) ==
  [i \in 1 .. Len(Cuts(nals)) - 1 |-> SubSeq(nals, Cuts(nals)[i], Cuts(nals)[i + 1] - 1)]
Rest(nals) == IF Boundaries(nals) = {} THEN nals ELSE SubSeq(nals, Max(Boundaries(nals)), Len(nals))

(* ... then what the reader has collected is cut up.                        *)
TakeOutput ==
  /\ pc = "written"
  /\ LET nals == pending \o reader_buf
     IN /\ units' = Extracted(nals)
        /\ pending' = Rest(nals)
  /\ reader_buf' = <<>>
  /\ pc' = "idle"
  /\ UNCHANGED <<written, child>>

Next == ReadOutput \/ WriteFrame \/ WriteFails \/ TakeOutput

Spec == Init /\ [][Next]_vars

-----------------------------------------------------------------------------
(* "Encode one BGRA frame; returns complete Annex B access units": a unit   *)
(* has the parameter sets and the picture of one frame (ffmpeg.rs encode).  *)
CompleteUnits ==
  \A i \in DOMAIN units : \E frame \in 1 .. FrameBound : units[i] = Output(frame)
=============================================================================
