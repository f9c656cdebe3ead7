--------------------------- MODULE InitiatorRole ---------------------------
(***************************************************************************)
(* The initiator: run_initiator (thunderlink-engine/src/imp.rs and          *)
(* imp_linux.rs) over InitiatorSession (tl-session/src/lib.rs), and its     *)
(* control worker (thunderlink-engine/src/ctrl.rs).  The main thread        *)
(* negotiates, opens sockets, capture and encoder, starts the stream and    *)
(* runs the encode loop.                                                    *)
(***************************************************************************)
EXTENDS ControlChannel

VARIABLES
  i_pc,        \* "idle", "hello", "caps", "configuring", "preparing",
               \* "starting", "spawning", "streaming", "closing",
               \* "returned", "failed"
  i_stop,      \* the stop flag, which is also the cancel token
  i_reason,    \* the end reason, "none" at first
  i_control    \* control worker: "off", "on", "ending", "exited"

initiatorVars == <<i_pc, i_stop, i_reason, i_control>>

InitiatorInit ==
  /\ i_pc = "idle"
  /\ i_stop = FALSE
  /\ i_reason = "none"
  /\ i_control = "off"

InitiatorDone == i_pc \in {"returned", "failed"}

-----------------------------------------------------------------------------
(* connect: Hello goes out with the connection, which `Opened` opens.       *)
Connect(Opened) ==
  /\ i_pc = "idle"
  /\ Opened
  /\ inbox' = [inbox EXCEPT ![<<Ini, "T">>] = <<"Hello">>]
  /\ i_pc' = "hello"
  /\ UNCHANGED <<i_stop, i_reason, i_control, accepted, cut, prompt>>

ConnectRefused ==
  /\ i_pc = "idle"
  /\ i_pc' = "failed"
  /\ UNCHANGED <<i_stop, i_reason, i_control, chanVars>>

(* Before the control worker has the session, an error drops it.            *)
FailEarly(in) ==
  /\ i_pc' = "failed"
  /\ inbox' \in AfterClose(in, Ini, "I")
  /\ open' = open \ {<<Ini, "I">>}

(* Each step of the handshake waits for one message, then may send another. *)
Expect(pc, wanted, reply, next) ==
  /\ i_pc = pc
  /\ HasMessage(Ini, "I")
  /\ LET found == Next1(Ini, "I") = wanted
     IN \/ /\ found
           /\ inbox' \in AfterSend(Taken(Ini, "I"), Ini, "I", reply)
           /\ i_pc' = next
           /\ UNCHANGED open
        \/ /\ ~found \/ (reply # << >> /\ SendMayFail(Ini, "I"))
           /\ FailEarly(Taken(Ini, "I"))
  /\ UNCHANGED <<i_stop, i_reason, i_control, accepted, cut, prompt>>

ExpectHello == Expect("hello", "Hello", << >>, "caps")

(* Caps pass the local checks and Config is sent, or they do not: audio was *)
(* asked for, or the codec is not among the decoders.                       *)
ExpectCaps == Expect("caps", "Caps", <<"Config">>, "configuring")

RefuseCaps ==
  /\ i_pc = "caps"
  /\ HasMessage(Ini, "I")
  /\ FailEarly(Taken(Ini, "I"))
  /\ UNCHANGED <<i_stop, i_reason, i_control, accepted, cut, prompt>>

ExpectConfigAck == Expect("configuring", "AckOk", << >>, "preparing")

(* The virtual display, sockets, capture and encoder are set up; then Start *)
(* is sent.                                                                 *)
SendStart ==
  /\ i_pc = "preparing"
  /\ i_pc' = "starting"
  /\ inbox' \in AfterSend(inbox, Ini, "I", <<"Start">>)
  /\ UNCHANGED <<i_stop, i_reason, i_control, open, accepted, cut, prompt>>

ExpectStartAck == Expect("starting", "AckOk", << >>, "spawning")

(* The workers are spawned; the control worker takes the session over.      *)
SpawnWorkers ==
  /\ i_pc = "spawning"
  /\ i_pc' = "streaming"
  /\ i_control' = "on"
  /\ UNCHANGED <<i_stop, i_reason, chanVars>>

WaitFails ==
  /\ i_pc \in {"hello", "caps", "configuring", "starting"}
  /\ AtEof(Ini, "I") \/ MayTimeOut(Ini, "I")
  /\ FailEarly(inbox)
  /\ UNCHANGED <<i_stop, i_reason, i_control, accepted, cut, prompt>>

(* Opening display, sockets, capture or encoder fails, sending Start, or    *)
(* opening the audio feeder after the ack.                                  *)
SetupFails ==
  /\ i_pc \in {"preparing", "spawning"}
  /\ FailEarly(inbox)
  /\ UNCHANGED <<i_stop, i_reason, i_control, accepted, cut, prompt>>

-----------------------------------------------------------------------------
(* The control worker: a heartbeat is echoed, other traffic consumed.       *)
FirstReasonOf(old, new) == IF old = "none" THEN new ELSE old

InitiatorControlEndsFor(reason) ==
  /\ i_control' = "ending"
  /\ i_reason' = FirstReasonOf(i_reason, reason)
  /\ UNCHANGED <<i_pc, i_stop>>

InitiatorReceives ==
  /\ i_control = "on"
  /\ HasMessage(Ini, "I")
  /\ LET m == Next1(Ini, "I")
     IN /\ inbox' \in IF m = "Heartbeat"
                      THEN AfterSend(Taken(Ini, "I"), Ini, "I", <<"Heartbeat">>)
                      ELSE {Taken(Ini, "I")}
        /\ IF m = "Stop"
           THEN InitiatorControlEndsFor("target")
           ELSE UNCHANGED initiatorVars
  /\ UNCHANGED <<open, accepted, cut, prompt>>

InitiatorLosesChannel ==
  /\ i_control = "on"
  /\ \/ /\ AtEof(Ini, "I")
        /\ InitiatorControlEndsFor("channel")
     \/ /\ MayBeSilent(Ini, "I")
        /\ InitiatorControlEndsFor("silent")
  /\ UNCHANGED chanVars

(* It raises the flag, says Stop and Bye, and drops the session.            *)
InitiatorControlExits ==
  /\ i_control = "ending" \/ (i_control = "on" /\ i_stop)
  /\ i_control' = "exited"
  /\ i_stop' = TRUE
  /\ \E in \in AfterSend(inbox, Ini, "I", <<"Stop">>) :
       inbox' \in AfterClose(in, Ini, "I")
  /\ open' = open \ {<<Ini, "I">>}
  /\ UNCHANGED <<i_pc, i_reason, accepted, cut, prompt>>

EncodeLoopEndsQuietly ==   \* faulty variant: the stop flag is not raised
  /\ i_pc = "streaming"
  /\ i_pc' = "closing"
  /\ UNCHANGED <<i_stop, i_reason, i_control, chanVars>>

(* The encode loop ends at the stop flag or when the source closes.         *)
EncodeLoopEnds ==
  /\ i_pc = "streaming"
  /\ i_pc' = "closing"
  /\ i_stop' = TRUE
  /\ UNCHANGED <<i_reason, i_control, chanVars>>

(* The main thread waits for the control worker, 2 s at most.               *)
Return ==
  /\ i_pc = "closing"
  /\ i_pc' = "returned"
  /\ UNCHANGED <<i_stop, i_reason, i_control, chanVars>>

(* An encoder or socket error leaves by `?` without raising the stop flag.  *)
EncodeLoopFails ==
  /\ i_pc = "streaming"
  /\ i_pc' = "failed"
  /\ UNCHANGED <<i_stop, i_reason, i_control, chanVars>>

CancelInitiator ==
  /\ ~i_stop
  /\ i_stop' = TRUE
  /\ UNCHANGED <<i_pc, i_reason, i_control, chanVars>>

InitiatorHandshake ==
  \/ ExpectHello
  \/ ExpectCaps
  \/ ExpectConfigAck
  \/ SendStart
  \/ ExpectStartAck
  \/ SpawnWorkers
  \/ WaitFails

InitiatorWaits == InitiatorReceives \/ InitiatorLosesChannel

(* What the initiator does by itself, once connected.                       *)
InitiatorNext ==
  \/ InitiatorHandshake
  \/ RefuseCaps
  \/ SetupFails
  \/ InitiatorWaits
  \/ InitiatorControlExits
  \/ EncodeLoopEnds
  \/ Return
  \/ EncodeLoopFails
  \/ CancelInitiator
=============================================================================
