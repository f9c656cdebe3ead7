--------------------------- MODULE ControlChannel ---------------------------
(***************************************************************************)
(* TCP connections to the target's control port and the control messages    *)
(* on them (tl-net/src/control.rs): reliable, in order, one inbox per end.  *)
(* Framing and encoding are left out, and so are message contents other     *)
(* than whether a Config is one the target supports.  Stats and Bye are not *)
(* messages of their own: Stats always follows a Heartbeat and Bye a Stop,  *)
(* and their receivers treat them alike.                                    *)
(*                                                                          *)
(* TCP is modelled as closing behaves: an end that closes with unread       *)
(* input, or is written to after it closed, resets the connection, and a    *)
(* reset may discard what its peer has not read yet.                        *)
(***************************************************************************)
EXTENDS Naturals, Sequences

CONSTANTS
  Ini,      \* the connection of the initiator under study
  Strays,   \* connections of other peers: scans, probes, other initiators
  NoConn

ASSUME ChannelConstants == Ini \notin Strays /\ NoConn \notin Strays \cup {Ini}

Conns == Strays \cup {Ini}
Ends == {"I", "T"}   \* the connecting end and the target's
Messages == {"Hello", "Caps", "Config", "BadConfig", "AckOk", "AckFail", "Start",
             "Heartbeat", "Stop"}

VARIABLES
  inbox,     \* messages on their way to an end
  open,      \* ends not closed yet
  accepted,  \* connections accept() has returned
  cut,       \* the cable is unplugged: nothing arrives, not even an EOF
  prompt     \* both roles answer within the 5 s of the handshake

chanVars == <<inbox, open, accepted, cut, prompt>>

ChanInit ==
  /\ inbox = [x \in Conns \X Ends |-> << >>]
  /\ open = {}
  /\ accepted = {}
  /\ cut = FALSE
  /\ prompt \in BOOLEAN

Other(e) == IF e = "I" THEN "T" ELSE "I"

Connected(c) == <<c, "I">> \in open \/ <<c, "T">> \in open

(* What recv finds: a message, the end of the stream, or nothing.           *)
HasMessage(c, e) == ~cut /\ inbox[<<c, e>>] # << >>
Next1(c, e) == Head(inbox[<<c, e>>])
AtEof(c, e) == ~cut /\ inbox[<<c, e>>] = << >> /\ <<c, Other(e)>> \notin open

(* The inboxes after end e has taken a message.                             *)
Taken(c, e) == [inbox EXCEPT ![<<c, e>>] = Tail(@)]

(* A send to a closed end may fail, or go unnoticed until the next read.    *)
SendMayFail(c, e) == <<c, Other(e)>> \notin open

(* The possible inboxes after end e sends ms.  What is sent to a stray is   *)
(* not kept: whether it reads it only shows in how it closes.               *)
AfterSend(in, c, e, ms) ==
  LET to == <<c, Other(e)>>
  IN IF to \notin open
     THEN {in, [in EXCEPT ![<<c, e>>] = << >>]}
     ELSE {IF to \in Strays \X {"I"} THEN in ELSE [in EXCEPT ![to] = @ \o ms]}

(* The possible inboxes after end e closes.                                 *)
AfterClose(in, c, e) ==
  LET quiet == [in EXCEPT ![<<c, e>>] = << >>]
  IN IF in[<<c, e>>] = << >> /\ <<c, e>> \notin Strays \X {"I"}
     THEN {quiet}
     ELSE {quiet, [quiet EXCEPT ![<<c, Other(e)>>] = << >>]}

NeverTimesOut(c, e) == FALSE   \* faulty variant: no read timeout is set

(* A read timeout of the handshake.  With both roles prompt only a stray, a *)
(* peer still waiting to be accepted, or an unplugged cable lets it expire. *)
MayTimeOut(c, e) ==
  /\ cut \/ inbox[<<c, e>>] = << >>
  /\ prompt => cut \/ c \in Strays \/ c \notin accepted

NeverSilent(c, e) == FALSE   \* faulty variant: silence goes unnoticed

(* The steady state's 5 s of silence.                                       *)
MayBeSilent(c, e) == cut \/ (inbox[<<c, e>>] = << >> /\ ~prompt)
=============================================================================
