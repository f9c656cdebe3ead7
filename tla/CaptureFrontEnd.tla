--------------------------- MODULE CaptureFrontEnd ---------------------------
(***************************************************************************)
(* What an initiator holds of the platform to get at its screen and its     *)
(* sound, besides its encode loop: on Linux the portal's screen cast and    *)
(* the PipeWire thread (PortalCapture), on macOS the Core Audio tap and its *)
(* IO thread (SystemTap).  A build is for one of them.                      *)
(***************************************************************************)
EXTENDS PortalCapture, SystemTap

VARIABLE target_os   \* "linux", "macos"

frontEndVars == <<target_os, vars, tapVars>>

FrontEndInit ==
  /\ target_os \in {"linux", "macos"}
  /\ Init
  /\ TapInit

FrontEndNext ==
  \/ target_os = "linux" /\ Next /\ UNCHANGED <<target_os, tapVars>>
  \/ target_os = "macos" /\ TapNext /\ UNCHANGED <<target_os, vars>>

(* The threads of the program run; the portal, PipeWire, the user and the   *)
(* HAL owe nothing.                                                         *)
FrontEndSpec ==
  /\ FrontEndInit /\ [][FrontEndNext]_frontEndVars
  /\ WF_frontEndVars(target_os = "linux" /\ Capturer /\ UNCHANGED <<target_os, tapVars>>)
  /\ WF_frontEndVars(target_os = "linux" /\ StartUp /\ UNCHANGED <<target_os, tapVars>>)
  /\ WF_frontEndVars(target_os = "linux" /\ WindDown /\ UNCHANGED <<target_os, tapVars>>)
  /\ WF_frontEndVars(target_os = "macos" /\ Drop /\ UNCHANGED <<target_os, vars>>)

(* Dropping either one, or failing to create it, comes to an end, whatever  *)
(* state its thread is in (portal.rs teardown, system_tap.rs                *)
(* teardown_bounded).                                                       *)
DropsEnd == TeardownEnds /\ TapDropEnds
=============================================================================
