--------------------------- MODULE MCPresentation ---------------------------
(***************************************************************************)
(* Presentation for TLC: two configurations of the encoder that differ in   *)
(* every parameter set, so that a mixture of them is neither.               *)
(***************************************************************************)
EXTENDS Presentation

MCStreams == {[kind \in Kinds |-> content] : content \in Contents}
=============================================================================
