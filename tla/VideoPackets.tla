----------------------------- MODULE VideoPackets -----------------------------
(***************************************************************************)
(* What the two ends of the video channel share: the space of frame_seq    *)
(* values and the fragment cap (tl-proto/src/packet.rs VideoHeader,         *)
(* tl-net/src/video.rs).                                                    *)
(***************************************************************************)
EXTENDS Integers, Sequences, FiniteSets

CONSTANTS
  SeqSpace,             \* number of frame_seq values: 2^32 in the code
  MAX_FRAGS_PER_FRAME   \* cap on the fragments of one frame

ASSUME PacketConstants ==
  /\ SeqSpace \in Nat /\ SeqSpace > 1
  /\ MAX_FRAGS_PER_FRAME \in Nat \ {0}

Seqs == 0 .. SeqSpace - 1
==============================================================================
