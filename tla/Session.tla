------------------------------ MODULE Session ------------------------------
(***************************************************************************)
(* One target, one initiator, and other peers that reach the target's       *)
(* control port: handshake, steady state and teardown of SPEC section 4.    *)
(***************************************************************************)
EXTENDS TargetRole, InitiatorRole

sessionVars == <<chanVars, targetVars, initiatorVars>>

SessionInit == ChanInit /\ TargetInit /\ InitiatorInit

-----------------------------------------------------------------------------
InitiatorConnects ==
  /\ Connect(ConnectTo(Ini))
  /\ UNCHANGED targetVars

InitiatorRefused ==
  /\ TargetDone
  /\ ConnectRefused
  /\ UNCHANGED targetVars

(* Other peers connect, say anything in the order they like, and hang up.   *)
(* Bound: one message under way at a time.                                  *)
StrayConnects(c) ==
  /\ <<c, "I">> \notin open /\ <<c, "T">> \notin open
  /\ c \notin accepted
  /\ ConnectTo(c)
  /\ UNCHANGED <<inbox, accepted, cut, prompt, targetVars, initiatorVars>>

StraySays(c, m) ==
  /\ {<<c, "I">>, <<c, "T">>} \subseteq open
  /\ inbox[<<c, "T">>] = << >>
  /\ inbox' \in AfterSend(inbox, c, "I", <<m>>)
  /\ UNCHANGED <<open, accepted, cut, prompt, targetVars, initiatorVars>>

StrayHangsUp(c) ==
  /\ <<c, "I">> \in open
  /\ open' = open \ {<<c, "I">>}
  /\ inbox' \in AfterClose(inbox, c, "I")
  /\ UNCHANGED <<accepted, cut, prompt, targetVars, initiatorVars>>

Stray ==
  \E c \in Strays :
    \/ StrayConnects(c)
    \/ \E m \in {"Hello", "Config", "BadConfig", "Start"} : StraySays(c, m)
    \/ StrayHangsUp(c)

Unplug ==
  /\ ~cut
  /\ cut' = TRUE
  /\ UNCHANGED <<inbox, open, accepted, prompt, targetVars, initiatorVars>>

SessionNext ==
  \/ InitiatorConnects
  \/ InitiatorRefused
  \/ InitiatorNext /\ UNCHANGED targetVars
  \/ TargetNext /\ UNCHANGED initiatorVars
  \/ Stray
  \/ Unplug

SessionSpec == SessionInit /\ [][SessionNext]_sessionVars

(* Every thread goes on; timeouts and silence are noticed; a worker tests   *)
(* the stop flag between any two messages; an embedder answers a role that  *)
(* failed by cancelling it.                                                 *)
(* Nothing obliges the user, the source or a peer to do anything.           *)
SessionFairness ==
  /\ WF_sessionVars((InitiatorHandshake \/ Return) /\ UNCHANGED targetVars)
  /\ WF_sessionVars(InitiatorWaits /\ UNCHANGED targetVars)
  /\ WF_sessionVars(InitiatorControlExits /\ UNCHANGED targetVars)
  /\ WF_sessionVars(i_stop /\ EncodeLoopEnds /\ UNCHANGED targetVars)
  /\ WF_sessionVars(i_pc = "failed" /\ CancelInitiator /\ UNCHANGED targetVars)
  /\ WF_sessionVars(TargetHandshake /\ UNCHANGED initiatorVars)
  /\ WF_sessionVars(TargetWaits /\ UNCHANGED initiatorVars)
  /\ WF_sessionVars(TargetControlExits /\ UNCHANGED initiatorVars)
  /\ WF_sessionVars(TargetHeartbeat /\ UNCHANGED initiatorVars)
  /\ WF_sessionVars(t_stop /\ (TargetDecodeExits \/ Present) /\ UNCHANGED initiatorVars)
  /\ WF_sessionVars(t_pc = "failed" /\ CancelTarget /\ UNCHANGED initiatorVars)

FairSessionSpec == SessionSpec /\ SessionFairness

-----------------------------------------------------------------------------
(* Acks carry no reference to what they answer: still, the two sides never  *)
(* disagree on how far the handshake is, and the initiator streams only to  *)
(* a target that acked Start on this very connection (SPEC section 4, 4).   *)
HandshakeInStep ==
  /\ i_pc \in {"streaming", "closing"} =>
       t_conn = Ini /\ t_control # "off" /\ t_pc \in {"streaming", "returned", "failed"}
  /\ i_pc = "preparing" /\ t_conn = Ini => t_pc \notin {"accepting", "hello", "config", "streaming"}
  /\ t_conn = Ini /\ t_pc = "preparing" =>
       i_pc \in {"caps", "configuring", "preparing", "starting", "failed"}
  /\ t_conn = Ini /\ t_control = "on" => i_pc \notin {"idle", "hello", "caps", "configuring", "preparing"}

(* The reason a role reports is true: the other side said Stop, closed, or  *)
(* was cut off or stalled.  And the two never both blame the other's hangup.*)
ReasonIsTrue ==
  /\ t_conn = Ini /\ t_reason = "initiator" => i_control = "exited" /\ i_stop
  /\ t_conn = Ini /\ t_reason = "channel" => <<Ini, "I">> \notin open
  /\ i_reason = "channel" => t_control = "exited" /\ t_stop
  /\ ~(t_conn = Ini /\ t_reason \in {"initiator", "channel"} /\ i_reason = "channel")

(* The handshake ends, in a session or in a failure, even where no read     *)
(* timeout helps: neither side waits for a message the other will not send. *)
HandshakeEnds ==
  /\ i_pc = "hello" ~> (i_pc = "streaming" \/ InitiatorDone)
  /\ t_pc \in {"hello", "config", "preparing", "start"} ~>
       (t_pc \in {"accepting", "streaming"} \/ TargetDone)

(* Whichever side goes, and however, a session ends on both sides.          *)
SessionsEndTogether ==
  /\ InitiatorDone /\ t_conn = Ini /\ t_pc # "hello" ~> TargetDone
  /\ TargetDone /\ i_pc = "streaming" ~> InitiatorDone

(* No thread of a role outlives it for good, and the connection is closed.  *)
WorkersExit ==
  /\ TargetDone ~> (/\ {t_control, t_decode} \subseteq {"off", "exited"}
                   /\ \A c \in Conns : <<c, "T">> \notin open)
  /\ InitiatorDone ~> (i_control \in {"off", "exited"} /\ <<Ini, "I">> \notin open)

=============================================================================
