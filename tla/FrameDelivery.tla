---------------------------- MODULE FrameDelivery ----------------------------
(***************************************************************************)
(* What the video channel promises (SPEC section 5, "latest wins"): access  *)
(* units are numbered as they are sent; the receiver shows some of them, in *)
(* order, none twice, and never one older than what it has shown.  Units    *)
(* may be skipped, but nothing is invented.                                 *)
(***************************************************************************)
EXTENDS Naturals

VARIABLES
  produced,  \* units sent so far
  shown,     \* how many units the decoder was handed
  latest     \* the number of the last of them, 0 at first

vars == <<produced, shown, latest>>

Init == produced = 0 /\ shown = 0 /\ latest = 0

Produce ==
  /\ produced' = produced + 1
  /\ UNCHANGED <<shown, latest>>

Show ==
  /\ latest' \in latest + 1 .. produced
  /\ shown' = shown + 1
  /\ UNCHANGED produced

Next == Produce \/ Show

Spec == Init /\ [][Next]_vars
==============================================================================
