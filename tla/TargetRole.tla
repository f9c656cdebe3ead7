----------------------------- MODULE TargetRole -----------------------------
(***************************************************************************)
(* The target: thunderlink-engine/src/imp.rs run_target over TargetSession  *)
(* (tl-session/src/lib.rs).  The main thread accepts one session, brings up *)
(* the video path, acks Start and presents; a decode worker and a control   *)
(* worker run beside it under a shared stop flag.                           *)
(***************************************************************************)
EXTENDS ControlChannel

CONSTANTS
  MAX_FAILURES   \* accept attempts that may fail before the target gives up

ASSUME TargetConstants == MAX_FAILURES \in Nat \ {0}

VARIABLES
  t_pc,        \* "accepting", "hello", "config", "preparing", "start",
               \* "streaming", "returned", "failed"
  t_conn,      \* the connection being handled
  t_failures,  \* accept attempts that failed
  t_stop,      \* the stop flag, which is also the cancel token
  t_reason,    \* the end reason, "none" at first
  t_control,   \* control worker: "off", "on", "ending", "exited"
  t_decode     \* decode worker: "off", "on", "exited"

targetVars == <<t_pc, t_conn, t_failures, t_stop, t_reason, t_control,
                t_decode>>
targetWorkerVars == <<t_stop, t_reason, t_control, t_decode>>

TargetInit ==
  /\ t_pc = "accepting"
  /\ t_conn = NoConn
  /\ t_failures = 0
  /\ t_stop = FALSE
  /\ t_reason = "none"
  /\ t_control = "off"
  /\ t_decode = "off"

TargetDone == t_pc \in {"returned", "failed"}

-----------------------------------------------------------------------------
(* A connection arrives in the listener's backlog.                          *)
ConnectTo(c) ==
  /\ ~TargetDone
  /\ open' = open \cup {<<c, "I">>, <<c, "T">>}

(* The listener and the connections it still holds go with run_target.      *)
Backlog == {<<c, "T">> : c \in Conns \ accepted}

TooMany(n) == n >= MAX_FAILURES

(* The accept loop: an attempt that fails is counted, and the last one      *)
(* allowed ends the role.                                                   *)
AttemptFails(ends) ==
  /\ t_failures' = t_failures + 1
  /\ IF TooMany(t_failures + 1)
     THEN /\ t_pc' = "failed"
          /\ open' = open \ (ends \cup Backlog)
     ELSE /\ t_pc' = "accepting"
          /\ open' = open \ ends
  /\ t_conn' = NoConn
  /\ UNCHANGED targetWorkerVars

Accept(c) ==
  /\ t_pc = "accepting"
  /\ c \notin accepted
  /\ Connected(c)
  /\ accepted' = accepted \cup {c}
  /\ t_conn' = c
  /\ t_pc' = "hello"
  /\ UNCHANGED <<t_failures, targetWorkerVars, inbox, open, cut, prompt>>

AcceptFails ==
  /\ t_pc = "accepting"
  /\ AttemptFails({})
  /\ UNCHANGED <<inbox, accepted, cut, prompt>>

(* TargetSession::accept: the peer's Hello is answered by Hello and Caps.   *)
ReceiveHello ==
  /\ t_pc = "hello"
  /\ HasMessage(t_conn, "T")
  /\ LET hello == Next1(t_conn, "T") = "Hello"
     IN \/ /\ hello
           /\ inbox' \in AfterSend(Taken(t_conn, "T"), t_conn, "T", <<"Hello", "Caps">>)
           /\ t_pc' = "config"
           /\ UNCHANGED <<t_conn, t_failures, targetWorkerVars, open>>
        \/ /\ ~hello \/ SendMayFail(t_conn, "T")
           /\ inbox' \in AfterClose(Taken(t_conn, "T"), t_conn, "T")
           /\ AttemptFails({<<t_conn, "T">>})
  /\ UNCHANGED <<accepted, cut, prompt>>

HelloFails ==
  /\ t_pc = "hello"
  /\ AtEof(t_conn, "T") \/ MayTimeOut(t_conn, "T")
  /\ inbox' \in AfterClose(inbox, t_conn, "T")
  /\ AttemptFails({<<t_conn, "T">>})
  /\ UNCHANGED <<accepted, cut, prompt>>

-----------------------------------------------------------------------------
(* An error after accept leaves run_target by `?`: session and listener are *)
(* dropped.                                                                 *)
Fail(in) ==
  /\ t_pc' = "failed"
  /\ inbox' \in AfterClose(in, t_conn, "T")
  /\ open' = open \ ({<<t_conn, "T">>} \cup Backlog)
  /\ UNCHANGED <<t_conn, t_failures, targetWorkerVars>>

TwoAcks == <<"AckOk", "AckOk">>   \* faulty variant
ConfigReply == <<"AckOk">>

(* await_config: a supported Config is acked, an unsupported one refused.   *)
ReceiveConfig ==
  /\ t_pc = "config"
  /\ HasMessage(t_conn, "T")
  /\ LET m == Next1(t_conn, "T")
         rest == Taken(t_conn, "T")
     IN \/ /\ m = "Config"
           /\ inbox' \in AfterSend(rest, t_conn, "T", ConfigReply)
           /\ t_pc' = "preparing"
           /\ UNCHANGED <<t_conn, t_failures, targetWorkerVars, open>>
        \/ /\ m = "BadConfig"
           /\ \E in \in AfterSend(rest, t_conn, "T", <<"AckFail">>) : Fail(in)
        \/ /\ m \notin {"Config", "BadConfig"}
           /\ Fail(rest)
        \/ /\ m = "Config" /\ SendMayFail(t_conn, "T")
           /\ Fail(rest)
  /\ UNCHANGED <<accepted, cut, prompt>>

(* The video socket, decoder and presenter come up between Config and       *)
(* Start.                                                                   *)
Prepare ==
  /\ t_pc = "preparing"
  /\ t_pc' = "start"
  /\ UNCHANGED <<t_conn, t_failures, targetWorkerVars, chanVars>>

PrepareFails ==
  /\ t_pc = "preparing"
  /\ Fail(inbox)
  /\ UNCHANGED <<accepted, cut, prompt>>

(* await_start and ack_ready, then the workers are spawned.                 *)
ReceiveStart ==
  /\ t_pc = "start"
  /\ HasMessage(t_conn, "T")
  /\ LET start == Next1(t_conn, "T") = "Start"
         rest == Taken(t_conn, "T")
     IN \/ /\ start
           /\ inbox' \in AfterSend(rest, t_conn, "T", <<"AckOk">>)
           /\ t_pc' = "streaming"
           /\ t_control' = "on"
           /\ t_decode' = "on"
           /\ UNCHANGED <<t_conn, t_failures, t_stop, t_reason, open>>
        \/ ~start /\ Fail(rest)
        \/ start /\ SendMayFail(t_conn, "T") /\ Fail(rest)
  /\ UNCHANGED <<accepted, cut, prompt>>

(* await_config or await_start gets no message.                             *)
PeerLost ==
  /\ t_pc \in {"config", "start"}
  /\ AtEof(t_conn, "T") \/ MayTimeOut(t_conn, "T")
  /\ Fail(inbox)
  /\ UNCHANGED <<accepted, cut, prompt>>

-----------------------------------------------------------------------------
(* The control worker: a heartbeat, with statistics, every second.  Bound:  *)
(* one heartbeat or its echo under way.                                     *)
TargetHeartbeat ==
  /\ t_control = "on"
  /\ \A e \in Ends : \A i \in DOMAIN inbox[<<t_conn, e>>] :
       inbox[<<t_conn, e>>][i] # "Heartbeat"
  /\ inbox' \in AfterSend(inbox, t_conn, "T", <<"Heartbeat">>)
  /\ UNCHANGED <<targetVars, open, accepted, cut, prompt>>

(* set_reason: the first reason stays.                                      *)
FirstReason(old, new) == IF old = "none" THEN new ELSE old

TargetControlEndsFor(reason) ==
  /\ t_control' = "ending"
  /\ t_reason' = FirstReason(t_reason, reason)
  /\ UNCHANGED <<t_pc, t_conn, t_failures, t_stop, t_decode>>

EchoEndsSession == {"Heartbeat", "Stop"}   \* faulty variant
EndsSession == {"Stop"}

TargetReceives ==
  /\ t_control = "on"
  /\ HasMessage(t_conn, "T")
  /\ inbox' = Taken(t_conn, "T")
  /\ IF Next1(t_conn, "T") \in EndsSession
     THEN TargetControlEndsFor("initiator")
     ELSE UNCHANGED targetVars
  /\ UNCHANGED <<open, accepted, cut, prompt>>

TargetLosesChannel ==
  /\ t_control = "on"
  /\ \/ /\ AtEof(t_conn, "T")
        /\ TargetControlEndsFor("channel")
     \/ /\ MayBeSilent(t_conn, "T")
        /\ TargetControlEndsFor("silent")
  /\ UNCHANGED chanVars

(* It ends for its own reason or at the stop flag, raises the flag, asks    *)
(* the presenter to close, and drops the session.                           *)
TargetControlExits ==
  /\ t_control = "ending" \/ (t_control = "on" /\ t_stop)
  /\ t_control' = "exited"
  /\ t_stop' = TRUE
  /\ inbox' \in AfterClose(inbox, t_conn, "T")
  /\ open' = open \ {<<t_conn, "T">>}
  /\ UNCHANGED <<t_pc, t_conn, t_failures, t_reason, t_decode, accepted, cut, prompt>>

(* The decode worker ends at the stop flag, or with an error.               *)
TargetDecodeExits ==
  /\ t_decode = "on"
  /\ t_decode' = "exited"
  /\ t_stop' = TRUE
  /\ UNCHANGED <<t_pc, t_conn, t_failures, t_reason, t_control, chanVars>>

(* The window is closed, by the user, a worker or the stop flag.            *)
Present ==
  /\ t_pc = "streaming"
  /\ t_pc' = "returned"
  /\ t_stop' = TRUE
  /\ open' = open \ Backlog
  /\ UNCHANGED <<t_conn, t_failures, t_reason, t_control, t_decode,
                 inbox, accepted, cut, prompt>>

(* An error after the workers started (the input socket, the presenter)     *)
(* leaves by `?` without raising the stop flag.                             *)
PresentFails ==
  /\ t_pc = "streaming"
  /\ t_pc' = "failed"
  /\ open' = open \ Backlog
  /\ UNCHANGED <<t_conn, t_failures, targetWorkerVars, inbox, accepted, cut, prompt>>

(* The embedder cancels: the Stop button, or its answer to an error.        *)
CancelTarget ==
  /\ ~t_stop
  /\ t_stop' = TRUE
  /\ UNCHANGED <<t_pc, t_conn, t_failures, t_reason, t_control, t_decode, chanVars>>

TargetHandshake ==
  \/ \E c \in Conns : Accept(c)
  \/ ReceiveHello
  \/ HelloFails
  \/ ReceiveConfig
  \/ Prepare
  \/ ReceiveStart
  \/ PeerLost

TargetWaits == TargetReceives \/ TargetLosesChannel

TargetNext ==
  \/ TargetHandshake
  \/ AcceptFails
  \/ PrepareFails
  \/ TargetHeartbeat
  \/ TargetWaits
  \/ TargetControlExits
  \/ TargetDecodeExits
  \/ Present
  \/ PresentFails
  \/ CancelTarget
=============================================================================
