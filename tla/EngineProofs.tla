---------------------------- MODULE EngineProofs ----------------------------
(***************************************************************************)
(* Theorems about the two parts of the engine that carry no media: the      *)
(* session (module Session), for any number of stray peers and any number   *)
(* of accept attempts, and the input path (module InputPath), for any keys, *)
(* modifiers, buttons and positions and however long the user goes on.      *)
(*                                                                          *)
(* SessionInv: acks name neither their question nor their sender.  What     *)
(* keeps them unambiguous is that at each step of the handshake only the    *)
(* expected answer can be in the initiator's inbox (OneAnswer), and that    *)
(* the target's position bounds the initiator's (InStep).  The two need     *)
(* each other: an ack is unique because the target sent it from one place,  *)
(* and the target is in that place because one question was asked.          *)
(*                                                                          *)
(* InputInv: the stages of the input path hold events in the user's order,  *)
(* including the one move that waits to be coalesced.                       *)
(***************************************************************************)
EXTENDS Session, InputPath, FiniteSetTheorems, TLAPS

-----------------------------------------------------------------------------
(* THE SESSION                                                              *)

(* What lies in the initiator's inbox, and what in the target's from it.    *)
ToInitiator == inbox[<<Ini, "I">>]
ToTarget == inbox[<<Ini, "T">>]
In(m, box) == \E i \in DOMAIN box : box[i] = m
Underway(m) == In(m, ToTarget)

ChannelTypeOK ==
  /\ inbox \in [Conns \X Ends -> Seq(Messages)]
  /\ open \subseteq Conns \X Ends
  /\ accepted \subseteq Conns

TargetTypeOK ==
  /\ t_pc \in {"accepting", "hello", "config", "preparing", "start", "streaming",
               "returned", "failed"}
  /\ t_conn \in Conns \cup {NoConn}
  /\ t_stop \in BOOLEAN
  /\ t_reason \in {"none", "initiator", "channel", "silent"}
  /\ t_control \in {"off", "on", "ending", "exited"}

InitiatorTypeOK ==
  /\ i_pc \in {"idle", "hello", "caps", "configuring", "preparing", "starting", "spawning",
               "streaming", "closing", "returned", "failed"}
  /\ i_stop \in BOOLEAN
  /\ i_reason \in {"none", "target", "channel", "silent"}
  /\ i_control \in {"off", "on", "ending", "exited"}

(* A role's control worker exists from the end of its handshake on.         *)
TargetShape ==
  /\ t_pc = "accepting" => t_conn = NoConn
  /\ t_conn = Ini => Ini \in accepted
  /\ t_pc \in {"hello", "config", "preparing", "start"} => t_conn # NoConn /\ t_control = "off"
  /\ t_pc = "accepting" => t_control = "off"
  /\ t_control # "off" => t_conn # NoConn
  /\ t_pc \in {"streaming", "returned"} => t_control # "off"
  /\ t_reason # "none" => t_control \in {"ending", "exited"}
  /\ t_control = "exited" => t_stop

InitiatorShape ==
  /\ i_pc \in {"streaming", "closing", "returned"} => i_control # "off"
  /\ i_control # "off" => i_pc \in {"streaming", "closing", "returned", "failed"}
  /\ i_reason # "none" => i_control \in {"ending", "exited"}
  /\ i_control = "exited" => i_stop

Handshaking == {"hello", "caps", "configuring", "preparing", "starting", "spawning"}

(* An end is closed by its own role alone, and not before that role's       *)
(* handshake has failed or its control worker exits; or, not yet accepted,  *)
(* with the listener.                                                       *)
SocketsOpen ==
  /\ i_pc = "idle" => <<Ini, "I">> \notin open /\ <<Ini, "T">> \notin open
  /\ i_pc \in Handshaking \/ i_control \in {"on", "ending"} => <<Ini, "I">> \in open
  /\ Ini \notin accepted /\ ~TargetDone /\ <<Ini, "I">> \in open => <<Ini, "T">> \in open
  /\ t_conn = Ini /\ (t_pc \in {"hello", "config", "preparing", "start"}
                      \/ t_control \in {"on", "ending"})
       => <<Ini, "T">> \in open

(* Acks carry no reference to what they answer.  What makes them            *)
(* unambiguous: at each step of the handshake only the one expected answer  *)
(* can be in the inbox, ...                                                 *)
OneAnswer ==
  /\ i_pc = "idle" => ToInitiator = << >>
  /\ i_pc = "hello" => ToInitiator \in {<< >>, <<"Hello", "Caps">>}
  /\ i_pc = "caps" => ToInitiator \in {<< >>, <<"Caps">>}
  /\ i_pc = "configuring" => ToInitiator \in {<< >>, <<"AckOk">>}
  /\ i_pc = "preparing" => ToInitiator = << >>
  /\ i_pc = "starting" /\ ToInitiator # << >> => t_conn = Ini /\ t_control # "off"

(* ... and the target is where the question found it.                       *)
Unheard ==
  /\ i_pc \in {"idle", "hello", "failed"} /\ i_control = "off"
  /\ ToInitiator = << >>
  /\ ~Underway("Config") /\ ~Underway("Start")

InStep ==
  /\ Ini \notin accepted => Unheard
  /\ t_conn = Ini /\ t_pc = "hello" => Unheard /\ i_pc # "idle"
  /\ t_conn = Ini /\ t_pc = "config" =>
       /\ i_pc \in {"hello", "caps", "configuring", "failed"}
       /\ i_pc = "configuring" => ToInitiator = << >>
       /\ Underway("Config") => i_pc \in {"configuring", "failed"}
       /\ ~Underway("Start")
  /\ t_conn = Ini /\ t_pc \in {"preparing", "start"} =>
       /\ i_pc \in {"configuring", "preparing", "starting", "failed"}
       /\ i_pc = "starting" => ToInitiator = << >>
       /\ Underway("Start") => i_pc \in {"starting", "failed"}
  /\ t_conn = Ini /\ t_control # "off" =>
       i_pc \in {"starting", "spawning", "streaming", "closing", "returned", "failed"}
  /\ i_pc = "spawning" \/ i_control # "off" => t_conn = Ini /\ t_control # "off"

(* Who is heard to have said Stop has; the initiator offers a Config the    *)
(* target supports.                                                         *)
WordsKept ==
  /\ Underway("Stop") => i_control = "exited" /\ i_stop
  /\ ~Underway("BadConfig")

SessionInv ==
  /\ ChannelTypeOK /\ TargetTypeOK /\ InitiatorTypeOK
  /\ TargetShape /\ InitiatorShape
  /\ SocketsOpen /\ OneAnswer /\ InStep /\ WordsKept
  /\ ReasonIsTrue

-----------------------------------------------------------------------------
(* What the operations of a channel do to the inboxes.                      *)
Inboxes == [Conns \X Ends -> Seq(Messages)]

LEMMA EndFacts ==
  /\ Ini \in Conns /\ NoConn \notin Conns
  /\ Other("I") = "T" /\ Other("T") = "I"
  /\ \A e \in Ends : Other(e) \in Ends /\ Other(e) # e
BY ChannelConstants DEF Conns, Ends, Other

LEMMA InFacts ==
  /\ \A m : ~In(m, << >>)
  /\ \A m, w : In(m, <<w>>) => m = w
  /\ \A s \in Seq(Messages) : s # << >> =>
       /\ Tail(s) \in Seq(Messages) /\ Head(s) \in Messages /\ In(Head(s), s)
       /\ \A m : In(m, Tail(s)) => In(m, s)
  /\ \A s, ms \in Seq(Messages) :
       /\ s \o ms \in Seq(Messages)
       /\ \A m : In(m, s \o ms) => In(m, s) \/ In(m, ms)
<1>1. \A m : ~In(m, << >>)
  BY DEF In
<1>2. \A m, w : In(m, <<w>>) => m = w
  BY DEF In
<1>3. ASSUME NEW s \in Seq(Messages), s # << >>
      PROVE  /\ Tail(s) \in Seq(Messages) /\ Head(s) \in Messages /\ In(Head(s), s)
             /\ \A m : In(m, Tail(s)) => In(m, s)
  <2>1. Len(s) \in Nat /\ Len(s) > 0 /\ Head(s) = s[1] /\ DOMAIN s = 1 .. Len(s)
    BY <1>3
  <2>2. Tail(s) \in Seq(Messages) /\ Len(Tail(s)) = Len(s) - 1
        /\ \A i \in 1 .. Len(s) - 1 : Tail(s)[i] = s[i + 1]
    BY <1>3
  <2>3. ASSUME NEW m, In(m, Tail(s)) PROVE In(m, s)
    <3>1. PICK i \in 1 .. Len(s) - 1 : Tail(s)[i] = m
      BY <2>2, <2>3 DEF In
    <3>2. i + 1 \in DOMAIN s /\ s[i + 1] = m
      BY <2>1, <2>2, <3>1
    <3> QED BY <3>2 DEF In
  <2> QED BY <2>1, <2>2, <2>3 DEF In
<1>4. ASSUME NEW s \in Seq(Messages), NEW ms \in Seq(Messages)
      PROVE  /\ s \o ms \in Seq(Messages)
             /\ \A m : In(m, s \o ms) => In(m, s) \/ In(m, ms)
  <2>1. /\ s \o ms \in Seq(Messages) /\ Len(s \o ms) = Len(s) + Len(ms)
        /\ \A i \in 1 .. Len(s) + Len(ms) :
             (s \o ms)[i] = IF i <= Len(s) THEN s[i] ELSE ms[i - Len(s)]
    OBVIOUS
  <2>2. ASSUME NEW m, In(m, s \o ms) PROVE In(m, s) \/ In(m, ms)
    <3>1. PICK i \in 1 .. Len(s) + Len(ms) : (s \o ms)[i] = m
      BY <2>1, <2>2 DEF In
    <3>2. CASE i <= Len(s)
      <4>1. i \in DOMAIN s /\ s[i] = m
        BY <2>1, <3>1, <3>2
      <4> QED BY <4>1 DEF In
    <3>3. CASE i > Len(s)
      <4>1. i - Len(s) \in DOMAIN ms /\ ms[i - Len(s)] = m
        BY <2>1, <3>1, <3>3
      <4> QED BY <4>1 DEF In
    <3> QED BY <3>1, <3>2, <3>3
  <2> QED BY <2>1, <2>2
<1> QED BY <1>1, <1>2, <1>3, <1>4

LEMMA TakenEffect ==
  ASSUME ChannelTypeOK, NEW c \in Conns, NEW e \in Ends, HasMessage(c, e)
  PROVE  /\ Taken(c, e) \in Inboxes
         /\ inbox[<<c, e>>] \in Seq(Messages) /\ inbox[<<c, e>>] # << >>
         /\ Next1(c, e) \in Messages
         /\ Taken(c, e)[<<c, e>>] = Tail(inbox[<<c, e>>])
         /\ \A x \in Conns \X Ends : x # <<c, e>> => Taken(c, e)[x] = inbox[x]
<1>1. /\ <<c, e>> \in Conns \X Ends
      /\ inbox[<<c, e>>] \in Seq(Messages) /\ inbox[<<c, e>>] # << >>
  BY DEF ChannelTypeOK, HasMessage
<1>2. Tail(inbox[<<c, e>>]) \in Seq(Messages) /\ Head(inbox[<<c, e>>]) \in Messages
  BY <1>1, InFacts
<1> QED BY <1>1, <1>2 DEF ChannelTypeOK, Taken, Next1, Inboxes

LEMMA BoxFacts ==
  ASSUME NEW c \in Conns, NEW e \in Ends
  PROVE  /\ <<c, e>> \in Conns \X Ends /\ <<c, Other(e)>> \in Conns \X Ends
         /\ <<c, e>> # <<c, Other(e)>>
         /\ \A x \in Conns \X Ends : x[1] # c => x # <<c, e>> /\ x # <<c, Other(e)>>
BY EndFacts

(* A send leaves the sender's inbox or discards it, and may add to its      *)
(* peer's.                                                                  *)
LEMMA SendEffect ==
  ASSUME NEW in \in Inboxes, NEW c \in Conns, NEW e \in Ends, NEW ms \in Seq(Messages),
         NEW out \in AfterSend(in, c, e, ms)
  PROVE  /\ out \in Inboxes
         /\ out[<<c, e>>] \in {in[<<c, e>>], << >>}
         /\ out[<<c, Other(e)>>] \in {in[<<c, Other(e)>>], in[<<c, Other(e)>>] \o ms}
         /\ \A x \in Conns \X Ends : x[1] # c => out[x] = in[x]
<1> DEFINE own == <<c, e>>
           peer == <<c, Other(e)>>
<1>1. /\ own \in Conns \X Ends /\ peer \in Conns \X Ends /\ own # peer
      /\ \A x \in Conns \X Ends : x[1] # c => x # own /\ x # peer
  BY BoxFacts
<1>2. in[peer] \in Seq(Messages) /\ in[peer] \o ms \in Seq(Messages) /\ << >> \in Seq(Messages)
  BY <1>1 DEF Inboxes
<1>3. \/ out = in
      \/ out = [in EXCEPT ![own] = << >>]
      \/ out = [in EXCEPT ![peer] = in[peer] \o ms]
  BY DEF AfterSend
<1> HIDE DEF own, peer
<1>4. CASE out = in
  BY <1>1, <1>4 DEF own, peer
<1>5. CASE out = [in EXCEPT ![own] = << >>]
  <2>1. out \in Inboxes /\ out[own] = << >> /\ \A x \in Conns \X Ends : x # own => out[x] = in[x]
    BY <1>1, <1>2, <1>5 DEF Inboxes
  <2> QED BY <1>1, <2>1 DEF own, peer
<1>6. CASE out = [in EXCEPT ![peer] = in[peer] \o ms]
  <2>1. out \in Inboxes /\ out[peer] = in[peer] \o ms
        /\ \A x \in Conns \X Ends : x # peer => out[x] = in[x]
    BY <1>1, <1>2, <1>6 DEF Inboxes
  <2> QED BY <1>1, <2>1 DEF own, peer
<1> QED BY <1>3, <1>4, <1>5, <1>6

(* A close discards what the closing end has not read, and may discard what *)
(* its peer has not.                                                        *)
LEMMA CloseEffect ==
  ASSUME NEW in \in Inboxes, NEW c \in Conns, NEW e \in Ends, NEW out \in AfterClose(in, c, e)
  PROVE  /\ out \in Inboxes
         /\ out[<<c, e>>] = << >>
         /\ out[<<c, Other(e)>>] \in {in[<<c, Other(e)>>], << >>}
         /\ \A x \in Conns \X Ends : x[1] # c => out[x] = in[x]
<1> DEFINE own == <<c, e>>
           peer == <<c, Other(e)>>
           quiet == [in EXCEPT ![own] = << >>]
<1>1. /\ own \in Conns \X Ends /\ peer \in Conns \X Ends /\ own # peer
      /\ \A x \in Conns \X Ends : x[1] # c => x # own /\ x # peer
  BY BoxFacts
<1>2. << >> \in Seq(Messages)
  OBVIOUS
<1>3. out = quiet \/ out = [quiet EXCEPT ![peer] = << >>]
  BY DEF AfterClose
<1>4. quiet \in Inboxes /\ quiet[own] = << >>
      /\ \A x \in Conns \X Ends : x # own => quiet[x] = in[x]
  <2> HIDE DEF own
  <2> QED BY <1>1, <1>2 DEF Inboxes
<1> HIDE DEF own, peer, quiet
<1>5. CASE out = quiet
  BY <1>1, <1>4, <1>5 DEF own, peer
<1>6. CASE out = [quiet EXCEPT ![peer] = << >>]
  <2>1. out \in Inboxes /\ out[peer] = << >>
        /\ \A x \in Conns \X Ends : x # peer => out[x] = quiet[x]
    BY <1>1, <1>2, <1>4, <1>6 DEF Inboxes
  <2> QED BY <1>1, <1>4, <2>1 DEF own, peer
<1> QED BY <1>3, <1>5, <1>6

-----------------------------------------------------------------------------
(* The same by end: what it finds in the two inboxes of a connection.       *)
LEMMA InitiatorSends ==
  ASSUME NEW in \in Inboxes, NEW ms \in Seq(Messages), NEW out \in AfterSend(in, Ini, "I", ms)
  PROVE  /\ out \in Inboxes
         /\ out[<<Ini, "I">>] \in {in[<<Ini, "I">>], << >>}
         /\ \A m : In(m, out[<<Ini, "T">>]) => In(m, in[<<Ini, "T">>]) \/ In(m, ms)
<1>1. Ini \in Conns /\ "I" \in Ends /\ Other("I") = "T" /\ <<Ini, "T">> \in Conns \X Ends
  BY EndFacts DEF Ends
<1>2. /\ out \in Inboxes
      /\ out[<<Ini, "I">>] \in {in[<<Ini, "I">>], << >>}
      /\ out[<<Ini, Other("I")>>] \in {in[<<Ini, Other("I")>>], in[<<Ini, Other("I")>>] \o ms}
  BY <1>1, SendEffect
<1>3. in[<<Ini, "T">>] \in Seq(Messages)
  BY <1>1 DEF Inboxes
<1>4. CASE out[<<Ini, "T">>] = in[<<Ini, "T">>]
  BY <1>2, <1>4
<1>5. CASE out[<<Ini, "T">>] = in[<<Ini, "T">>] \o ms
  BY <1>2, <1>3, <1>5, InFacts
<1> QED BY <1>1, <1>2, <1>4, <1>5

LEMMA InitiatorCloses ==
  ASSUME NEW in \in Inboxes, NEW out \in AfterClose(in, Ini, "I")
  PROVE  /\ out \in Inboxes
         /\ out[<<Ini, "I">>] = << >>
         /\ \A m : In(m, out[<<Ini, "T">>]) => In(m, in[<<Ini, "T">>])
<1>1. Ini \in Conns /\ "I" \in Ends /\ Other("I") = "T"
  BY EndFacts DEF Ends
<1>2. /\ out \in Inboxes
      /\ out[<<Ini, "I">>] = << >>
      /\ out[<<Ini, Other("I")>>] \in {in[<<Ini, Other("I")>>], << >>}
  BY <1>1, CloseEffect
<1> QED BY <1>1, <1>2, InFacts

(* Two states of the inboxes agree but for those of a connection.           *)
AgreeElsewhere(in, out, c) == \A x \in Conns \X Ends : x[1] # c => out[x] = in[x]

LEMMA TargetSends ==
  ASSUME NEW in \in Inboxes, NEW c \in Conns, NEW ms \in Seq(Messages),
         NEW out \in AfterSend(in, c, "T", ms)
  PROVE  /\ out \in Inboxes
         /\ out[<<c, "I">>] \in {in[<<c, "I">>], in[<<c, "I">>] \o ms}
         /\ \A m : In(m, out[<<c, "T">>]) => In(m, in[<<c, "T">>])
         /\ AgreeElsewhere(in, out, c)
<1>1. "T" \in Ends /\ Other("T") = "I"
  BY EndFacts DEF Ends
<1>2. /\ out \in Inboxes
      /\ out[<<c, "T">>] \in {in[<<c, "T">>], << >>}
      /\ out[<<c, Other("T")>>] \in {in[<<c, Other("T")>>], in[<<c, Other("T")>>] \o ms}
  BY <1>1, SendEffect
<1>3. AgreeElsewhere(in, out, c)
  <2>1. \A x \in Conns \X Ends : x[1] # c => x # <<c, "T">> /\ x # <<c, Other("T")>>
    BY <1>1, BoxFacts
  <2>2. \/ out = in
        \/ \E w : out = [in EXCEPT ![<<c, "T">>] = w]
        \/ \E w : out = [in EXCEPT ![<<c, Other("T")>>] = w]
    BY DEF AfterSend
  <2> QED BY <2>1, <2>2 DEF Inboxes, AgreeElsewhere
<1>4. \A m : In(m, out[<<c, "T">>]) => In(m, in[<<c, "T">>])
  BY <1>2, InFacts
<1>5. out[<<c, "I">>] \in {in[<<c, "I">>], in[<<c, "I">>] \o ms}
  BY <1>1, <1>2
<1> QED BY <1>2, <1>3, <1>4, <1>5

LEMMA TargetCloses ==
  ASSUME NEW in \in Inboxes, NEW c \in Conns, NEW out \in AfterClose(in, c, "T")
  PROVE  /\ out \in Inboxes
         /\ out[<<c, "I">>] \in {in[<<c, "I">>], << >>}
         /\ out[<<c, "T">>] = << >>
         /\ \A x \in Conns \X Ends : x[1] # c => out[x] = in[x]
<1>1. "T" \in Ends /\ Other("T") = "I"
  BY EndFacts DEF Ends
<1>2. /\ out \in Inboxes
      /\ out[<<c, "T">>] = << >>
      /\ out[<<c, Other("T")>>] \in {in[<<c, Other("T")>>], << >>}
      /\ \A x \in Conns \X Ends : x[1] # c => out[x] = in[x]
  BY <1>1, CloseEffect
<1> QED BY <1>1, <1>2

LEMMA InitiatorTakes ==
  ASSUME ChannelTypeOK, HasMessage(Ini, "I")
  PROVE  /\ Taken(Ini, "I") \in Inboxes
         /\ ToInitiator \in Seq(Messages) /\ ToInitiator # << >>
         /\ Next1(Ini, "I") = Head(ToInitiator)
         /\ Taken(Ini, "I")[<<Ini, "I">>] = Tail(ToInitiator)
         /\ Taken(Ini, "I")[<<Ini, "T">>] = ToTarget
<1>1. Ini \in Conns /\ "I" \in Ends /\ <<Ini, "I">> # <<Ini, "T">> /\ <<Ini, "T">> \in Conns \X Ends
  BY EndFacts DEF Ends
<1> QED BY <1>1, TakenEffect DEF ToInitiator, ToTarget, Next1

LEMMA OursUntouched ==
  ASSUME ChannelTypeOK, UNCHANGED inbox
  PROVE  inbox' \in Inboxes /\ ToInitiator' = ToInitiator /\ \A m : Underway(m)' <=> Underway(m)
BY DEF ToInitiator, ToTarget, Underway, In, ChannelTypeOK, Inboxes

-----------------------------------------------------------------------------
(* The initiator's steps.                                                   *)

(* It takes what it expects and replies, or drops the session.              *)
LEMMA ExpectEffect ==
  ASSUME ChannelTypeOK, NEW pc, NEW wanted, NEW reply \in Seq(Messages), NEW next,
         Expect(pc, wanted, reply, next)
  PROVE  /\ inbox' \in Inboxes
         /\ ToInitiator # << >>
         /\ \/ /\ Head(ToInitiator) = wanted
               /\ i_pc' = next /\ open' = open
               /\ ToInitiator' \in {Tail(ToInitiator), << >>}
               /\ \A m : Underway(m)' => Underway(m) \/ In(m, reply)
            \/ /\ i_pc' = "failed" /\ open' = open \ {<<Ini, "I">>}
               /\ ToInitiator' = << >>
               /\ \A m : Underway(m)' => Underway(m)
         /\ i_pc = pc
         /\ UNCHANGED <<i_stop, i_reason, i_control, accepted>>
<1>1. HasMessage(Ini, "I") /\ i_pc = pc /\ UNCHANGED <<i_stop, i_reason, i_control, accepted>>
  BY DEF Expect
<1>2. CASE /\ Next1(Ini, "I") = wanted
           /\ inbox' \in AfterSend(Taken(Ini, "I"), Ini, "I", reply)
           /\ i_pc' = next /\ open' = open
  <2>1. /\ inbox' \in Inboxes
        /\ inbox'[<<Ini, "I">>] \in {Tail(ToInitiator), << >>}
        /\ \A m : In(m, inbox'[<<Ini, "T">>]) => In(m, ToTarget) \/ In(m, reply)
    BY <1>1, <1>2, InitiatorTakes, InitiatorSends
  <2> QED BY <1>1, <1>2, <2>1, InitiatorTakes DEF ToInitiator, ToTarget, Underway, In
<1>3. CASE FailEarly(Taken(Ini, "I"))
  <2>1. /\ inbox' \in Inboxes
        /\ inbox'[<<Ini, "I">>] = << >>
        /\ \A m : In(m, inbox'[<<Ini, "T">>]) => In(m, ToTarget)
    BY <1>1, <1>3, InitiatorTakes, InitiatorCloses DEF FailEarly
  <2> QED BY <1>1, <1>3, <2>1, InitiatorTakes DEF ToInitiator, ToTarget, Underway,
                                                  In, FailEarly
<1> QED BY <1>2, <1>3 DEF Expect

LEMMA FailEarlyEffect ==
  ASSUME ChannelTypeOK, NEW in \in {inbox, Taken(Ini, "I")}, FailEarly(in),
         in = inbox \/ HasMessage(Ini, "I")
  PROVE  /\ inbox' \in Inboxes
         /\ i_pc' = "failed" /\ open' = open \ {<<Ini, "I">>}
         /\ ToInitiator' = << >>
         /\ \A m : Underway(m)' => Underway(m)
<1>1. in \in Inboxes /\ in[<<Ini, "T">>] = ToTarget
  BY InitiatorTakes DEF ChannelTypeOK, Inboxes, ToTarget
<1>2. /\ inbox' \in Inboxes
      /\ inbox'[<<Ini, "I">>] = << >>
      /\ \A m : In(m, inbox'[<<Ini, "T">>]) => In(m, ToTarget)
  BY <1>1, InitiatorCloses DEF FailEarly
<1> QED BY <1>2 DEF FailEarly, ToInitiator, ToTarget, Underway, In

(* Dropping the session early is harmless at any step of the handshake.     *)
LEMMA FailedEarly ==
  ASSUME SessionInv, i_pc \in Handshaking,
         inbox' \in Inboxes,
         i_pc' = "failed", open' = open \ {<<Ini, "I">>},
         ToInitiator' = << >>,
         \A m : Underway(m)' => Underway(m),
         UNCHANGED <<i_stop, i_reason, i_control, accepted, targetVars>>
  PROVE  SessionInv'
BY EndFacts
DEF SessionInv, ChannelTypeOK, Inboxes, TargetTypeOK, InitiatorTypeOK, TargetShape,
    InitiatorShape, SocketsOpen, OneAnswer, InStep, Unheard, WordsKept,
    ReasonIsTrue, Handshaking, TargetDone, targetVars, Conns, Ends, Messages

LEMMA ExpectKeepsInv ==
  ASSUME SessionInv, UNCHANGED targetVars,
         ExpectHello \/ ExpectCaps \/ ExpectConfigAck \/ ExpectStartAck
  PROVE  SessionInv'
<1> USE DEF SessionInv, ChannelTypeOK, Inboxes, TargetTypeOK, InitiatorTypeOK,
            TargetShape, InitiatorShape, SocketsOpen, OneAnswer, InStep, Unheard,
            WordsKept, ReasonIsTrue, Handshaking, TargetDone
<1>1. << >> \in Seq(Messages) /\ <<"Config">> \in Seq(Messages)
      /\ (\A m : ~In(m, << >>)) /\ \A m : In(m, <<"Config">>) => m = "Config"
  BY InFacts DEF Messages
<1>2. Tail(<<"Hello", "Caps">>) = <<"Caps">> /\ Tail(<<"Caps">>) = << >> /\ Tail(<<"AckOk">>) = << >>
  OBVIOUS
<1> DEFINE Effect(pc, wanted, reply, next) ==
      /\ inbox' \in Inboxes
      /\ ToInitiator # << >>
      /\ \/ /\ Head(ToInitiator) = wanted
            /\ i_pc' = next /\ open' = open
            /\ ToInitiator' \in {Tail(ToInitiator), << >>}
            /\ \A m : Underway(m)' => Underway(m) \/ In(m, reply)
         \/ /\ i_pc' = "failed" /\ open' = open \ {<<Ini, "I">>}
            /\ ToInitiator' = << >>
            /\ \A m : Underway(m)' => Underway(m)
      /\ i_pc = pc
      /\ UNCHANGED <<i_stop, i_reason, i_control, accepted>>
<1>3. CASE ExpectHello
  <2>1. Effect("hello", "Hello", << >>, "caps")
    BY <1>1, <1>3, ExpectEffect DEF ExpectHello
  <2>2. ToInitiator = <<"Hello", "Caps">>
    BY <2>1
  <2> QED BY <1>1, <1>2, <2>1, <2>2, EndFacts
      DEF targetVars
<1>4. CASE ExpectCaps
  <2>1. Effect("caps", "Caps", <<"Config">>, "configuring")
    BY <1>1, <1>4, ExpectEffect DEF ExpectCaps
  <2>2. ToInitiator = <<"Caps">>
    BY <2>1
  <2> QED BY <1>1, <1>2, <2>1, <2>2, EndFacts
      DEF targetVars
<1>5. CASE ExpectConfigAck
  <2>1. Effect("configuring", "AckOk", << >>, "preparing")
    BY <1>1, <1>5, ExpectEffect DEF ExpectConfigAck
  <2>2. ToInitiator = <<"AckOk">>
    BY <2>1
  <2> QED BY <1>1, <1>2, <2>1, <2>2, EndFacts
      DEF targetVars
<1>6. CASE ExpectStartAck
  <2>1. Effect("starting", "AckOk", << >>, "spawning")
    BY <1>1, <1>6, ExpectEffect DEF ExpectStartAck
  <2> QED BY <1>1, <1>2, <2>1, EndFacts
      DEF targetVars
<1> QED BY <1>3, <1>4, <1>5, <1>6

LEMMA InitiatorStep ==
  ASSUME SessionInv, InitiatorNext, UNCHANGED targetVars
  PROVE  SessionInv'
<1> USE DEF SessionInv, ChannelTypeOK, Inboxes, TargetTypeOK, InitiatorTypeOK,
            TargetShape, InitiatorShape, SocketsOpen, OneAnswer, InStep, Unheard,
            WordsKept, ReasonIsTrue, Handshaking, TargetDone
<1>1. CASE ExpectHello \/ ExpectCaps \/ ExpectConfigAck \/ ExpectStartAck
  BY <1>1, ExpectKeepsInv
<1>2. CASE SendStart
  <2>1. <<"Start">> \in Seq(Messages) /\ \A m : In(m, <<"Start">>) => m = "Start"
    BY InFacts DEF Messages
  <2>2. /\ inbox' \in Inboxes
        /\ inbox'[<<Ini, "I">>] \in {ToInitiator, << >>}
        /\ \A m : In(m, inbox'[<<Ini, "T">>]) => In(m, ToTarget) \/ In(m, <<"Start">>)
    BY <1>2, <2>1, InitiatorSends DEF SendStart, ToInitiator, ToTarget
  <2>3. ToInitiator' \in {ToInitiator, << >>} /\ \A m : Underway(m)' => Underway(m) \/ m = "Start"
    BY <2>1, <2>2 DEF ToInitiator, ToTarget, Underway, In
  <2> QED BY <1>2, <2>2, <2>3, EndFacts
      DEF SendStart, targetVars
<1>3. CASE WaitFails \/ SetupFails \/ RefuseCaps
  <2>1. i_pc \in Handshaking /\ UNCHANGED <<i_stop, i_reason, i_control, accepted>>
    BY <1>3 DEF WaitFails, SetupFails, RefuseCaps
  <2>2. \/ FailEarly(inbox)
        \/ HasMessage(Ini, "I") /\ FailEarly(Taken(Ini, "I"))
    BY <1>3 DEF WaitFails, SetupFails, RefuseCaps
  <2>3. /\ inbox' \in Inboxes
        /\ i_pc' = "failed" /\ open' = open \ {<<Ini, "I">>}
        /\ ToInitiator' = << >>
        /\ \A m : Underway(m)' => Underway(m)
    BY <2>2, FailEarlyEffect
  <2> QED BY <2>1, <2>3, FailedEarly
<1>4. CASE \/ SpawnWorkers \/ InitiatorLosesChannel \/ EncodeLoopEnds
           \/ Return \/ EncodeLoopFails \/ CancelInitiator
  <2>1. UNCHANGED chanVars
    BY <1>4 DEF SpawnWorkers, InitiatorLosesChannel, EncodeLoopEnds, Return,
                EncodeLoopFails, CancelInitiator
  <2>2. inbox' \in Inboxes /\ ToInitiator' = ToInitiator /\ \A m : Underway(m)' <=> Underway(m)
    BY <2>1, OursUntouched DEF chanVars
  <2>3. AtEof(Ini, "I") => <<Ini, "T">> \notin open
    BY EndFacts DEF AtEof
  <2>4. CASE SpawnWorkers
    BY <2>1, <2>2, <2>4, EndFacts
        DEF SpawnWorkers, chanVars, targetVars
  <2>5. CASE InitiatorLosesChannel
    BY <2>1, <2>2, <2>3, <2>5, EndFacts
        DEF InitiatorLosesChannel, InitiatorControlEndsFor, FirstReasonOf,
            chanVars, targetVars
  <2>6. CASE EncodeLoopEnds
    BY <2>1, <2>2, <2>6, EndFacts
        DEF EncodeLoopEnds, chanVars, targetVars
  <2>7. CASE Return
    BY <2>1, <2>2, <2>7, EndFacts
        DEF Return, chanVars, targetVars
  <2>8. CASE EncodeLoopFails
    BY <2>1, <2>2, <2>8, EndFacts
        DEF EncodeLoopFails, chanVars, targetVars
  <2>9. CASE CancelInitiator
    BY <2>1, <2>2, <2>9, EndFacts
        DEF CancelInitiator, chanVars, targetVars
  <2> QED BY <1>4, <2>4, <2>5, <2>6, <2>7, <2>8, <2>9
<1>5. CASE InitiatorReceives
  <2>1. <<"Heartbeat">> \in Seq(Messages) /\ \A m : In(m, <<"Heartbeat">>) => m = "Heartbeat"
    BY InFacts DEF Messages
  <2>2. /\ Taken(Ini, "I") \in Inboxes
        /\ Taken(Ini, "I")[<<Ini, "T">>] = ToTarget
    BY <1>5, InitiatorTakes DEF InitiatorReceives
  <2>3. /\ inbox' \in Inboxes
        /\ \A m : In(m, inbox'[<<Ini, "T">>]) => In(m, ToTarget) \/ In(m, <<"Heartbeat">>)
    BY <1>5, <2>1, <2>2, InitiatorSends DEF InitiatorReceives
  <2>4. \A m : Underway(m)' => Underway(m) \/ m = "Heartbeat"
    BY <2>1, <2>3 DEF ToTarget, Underway, In
  <2> QED BY <1>5, <2>3, <2>4, EndFacts
      DEF InitiatorReceives, InitiatorControlEndsFor, FirstReasonOf, initiatorVars,
          targetVars
<1>6. CASE InitiatorControlExits
  <2>1. <<"Stop">> \in Seq(Messages) /\ \A m : In(m, <<"Stop">>) => m = "Stop"
    BY InFacts DEF Messages
  <2>2. PICK in \in AfterSend(inbox, Ini, "I", <<"Stop">>) : inbox' \in AfterClose(in, Ini, "I")
    BY <1>6 DEF InitiatorControlExits
  <2>3. in \in Inboxes /\ \A m : In(m, in[<<Ini, "T">>]) => In(m, ToTarget) \/ In(m, <<"Stop">>)
    BY <2>1, <2>2, InitiatorSends DEF ToTarget
  <2>4. /\ inbox' \in Inboxes
        /\ inbox'[<<Ini, "I">>] = << >>
        /\ \A m : In(m, inbox'[<<Ini, "T">>]) => In(m, ToTarget) \/ In(m, <<"Stop">>)
    BY <2>2, <2>3, InitiatorCloses
  <2>5. ToInitiator' = << >> /\ \A m : Underway(m)' => Underway(m) \/ m = "Stop"
    BY <2>1, <2>4 DEF ToInitiator, ToTarget, Underway, In
  <2> QED BY <1>6, <2>4, <2>5, EndFacts
      DEF InitiatorControlExits, targetVars
<1> QED BY <1>1, <1>2, <1>3, <1>4, <1>5, <1>6
    DEF InitiatorNext, InitiatorHandshake, InitiatorWaits

LEMMA ConnectStep ==
  ASSUME SessionInv, InitiatorConnects \/ InitiatorRefused
  PROVE  SessionInv'
<1> USE DEF SessionInv, ChannelTypeOK, Inboxes, TargetTypeOK, InitiatorTypeOK,
            TargetShape, InitiatorShape, SocketsOpen, OneAnswer, InStep, Unheard,
            WordsKept, ReasonIsTrue, Handshaking, TargetDone
<1>1. CASE InitiatorConnects
  <2>1. <<"Hello">> \in Seq(Messages) /\ \A m : In(m, <<"Hello">>) => m = "Hello"
    BY InFacts DEF Messages
  <2>2. inbox' = [inbox EXCEPT ![<<Ini, "T">>] = <<"Hello">>]
    BY <1>1 DEF InitiatorConnects, Connect
  <2>3. /\ inbox' \in Inboxes
        /\ inbox'[<<Ini, "I">>] = inbox[<<Ini, "I">>]
        /\ inbox'[<<Ini, "T">>] = <<"Hello">>
    BY <2>1, <2>2, EndFacts DEF Ends
  <2>4. ToInitiator' = ToInitiator /\ \A m : Underway(m)' => m = "Hello"
    BY <2>1, <2>3 DEF ToInitiator, ToTarget, Underway, In
  <2> QED BY <1>1, <2>3, <2>4, EndFacts
      DEF InitiatorConnects, Connect, ConnectTo, targetVars, Ends
<1>2. CASE InitiatorRefused
  <2>1. UNCHANGED chanVars
    BY <1>2 DEF InitiatorRefused, ConnectRefused
  <2>2. inbox' \in Inboxes /\ ToInitiator' = ToInitiator /\ \A m : Underway(m)' <=> Underway(m)
    BY <2>1, OursUntouched DEF chanVars
  <2> QED BY <1>2, <2>1, <2>2, EndFacts
      DEF InitiatorRefused, ConnectRefused, chanVars, targetVars
<1> QED BY <1>1, <1>2

-----------------------------------------------------------------------------
(* The target's steps.                                                      *)

(* The inboxes, but for messages the target may have read.                  *)
Reads(in) ==
  /\ in \in Inboxes
  /\ in[<<Ini, "I">>] = ToInitiator
  /\ \A m : In(m, in[<<Ini, "T">>]) => Underway(m)

LEMMA ReadsNothing ==
  ASSUME ChannelTypeOK
  PROVE  Reads(inbox)
BY DEF Reads, ChannelTypeOK, Inboxes, ToInitiator, ToTarget, Underway

LEMMA TargetTakes ==
  ASSUME ChannelTypeOK, NEW c \in Conns, HasMessage(c, "T")
  PROVE  /\ Reads(Taken(c, "T"))
         /\ c = Ini => Underway(Next1(c, "T"))
<1>1. /\ Taken(c, "T") \in Inboxes
      /\ inbox[<<c, "T">>] \in Seq(Messages) /\ inbox[<<c, "T">>] # << >>
      /\ Taken(c, "T")[<<c, "T">>] = Tail(inbox[<<c, "T">>])
      /\ \A x \in Conns \X Ends : x # <<c, "T">> => Taken(c, "T")[x] = inbox[x]
  BY TakenEffect DEF Ends
<1>2. /\ <<Ini, "I">> \in Conns \X Ends /\ <<Ini, "T">> \in Conns \X Ends
      /\ <<Ini, "I">> # <<c, "T">> /\ (<<Ini, "T">> = <<c, "T">> <=> c = Ini)
  BY EndFacts DEF Ends
<1>3. Taken(c, "T")[<<Ini, "I">>] = ToInitiator
  BY <1>1, <1>2 DEF ToInitiator
<1>4. \A m : In(m, Taken(c, "T")[<<Ini, "T">>]) => Underway(m)
  <2>1. CASE c = Ini
    BY <1>1, <2>1, InFacts DEF Underway, ToTarget
  <2>2. CASE c # Ini
    BY <1>1, <1>2, <2>2 DEF Underway, ToTarget
  <2> QED BY <2>1, <2>2
<1>5. c = Ini => Underway(Next1(c, "T"))
  BY <1>1, InFacts DEF Underway, ToTarget, Next1
<1> QED BY <1>1, <1>3, <1>4, <1>5 DEF Reads

LEMMA TargetSendEffect ==
  ASSUME NEW c \in Conns, NEW in, Reads(in), NEW ms \in Seq(Messages),
         inbox' \in AfterSend(in, c, "T", ms)
  PROVE  /\ inbox' \in Inboxes
         /\ \A m : Underway(m)' => Underway(m)
         /\ c = Ini => ToInitiator' \in {ToInitiator, ToInitiator \o ms}
         /\ c # Ini => ToInitiator' = ToInitiator
<1>1. /\ in \in Inboxes /\ inbox' \in Inboxes
      /\ inbox'[<<c, "I">>] \in {in[<<c, "I">>], in[<<c, "I">>] \o ms}
      /\ \A m : In(m, inbox'[<<c, "T">>]) => In(m, in[<<c, "T">>])
  BY TargetSends DEF Reads
<1>2. AgreeElsewhere(in, inbox', c)
  BY <1>1, TargetSends
<1>3. CASE c = Ini
  BY <1>1, <1>3 DEF Reads, ToInitiator, ToTarget, Underway, In
<1>4. CASE c # Ini
  <2>1. <<Ini, "I">> \in Conns \X Ends /\ <<Ini, "T">> \in Conns \X Ends
    BY EndFacts DEF Ends
  <2>2. inbox'[<<Ini, "I">>] = in[<<Ini, "I">>] /\ inbox'[<<Ini, "T">>] = in[<<Ini, "T">>]
    BY <1>2, <1>4, <2>1 DEF AgreeElsewhere
  <2> QED BY <1>1, <1>4, <2>2 DEF Reads, ToInitiator, ToTarget, Underway, In
<1> QED BY <1>3, <1>4

LEMMA StrayAnswered ==
  ASSUME NEW c \in Conns, c # Ini, NEW in, Reads(in), NEW ms \in Seq(Messages),
         NEW out \in AfterSend(in, c, "T", ms)
  PROVE  Reads(out)
<1>1. in \in Inboxes /\ <<Ini, "I">> \in Conns \X Ends /\ <<Ini, "T">> \in Conns \X Ends
  BY EndFacts DEF Reads, Ends
<1>2. out \in Inboxes /\ AgreeElsewhere(in, out, c)
  BY <1>1, TargetSends
<1>3. out[<<Ini, "I">>] = in[<<Ini, "I">>] /\ out[<<Ini, "T">>] = in[<<Ini, "T">>]
  BY <1>1, <1>2 DEF AgreeElsewhere
<1> QED BY <1>2, <1>3 DEF Reads

LEMMA TargetCloseEffect ==
  ASSUME NEW c \in Conns, NEW in, Reads(in), inbox' \in AfterClose(in, c, "T")
  PROVE  /\ inbox' \in Inboxes
         /\ \A m : Underway(m)' => Underway(m)
         /\ ToInitiator' \in {ToInitiator, << >>}
<1>1. /\ in \in Inboxes /\ inbox' \in Inboxes
      /\ inbox'[<<c, "I">>] \in {in[<<c, "I">>], << >>}
      /\ inbox'[<<c, "T">>] = << >>
      /\ \A x \in Conns \X Ends : x[1] # c => inbox'[x] = in[x]
  BY TargetCloses DEF Reads
<1>2. CASE c = Ini
  BY <1>1, <1>2, InFacts DEF Reads, ToInitiator, ToTarget, Underway, In
<1>3. CASE c # Ini
  <2>1. <<Ini, "I">> \in Conns \X Ends /\ <<Ini, "T">> \in Conns \X Ends
    BY EndFacts DEF Ends
  <2>2. inbox'[<<Ini, "I">>] = in[<<Ini, "I">>] /\ inbox'[<<Ini, "T">>] = in[<<Ini, "T">>]
    BY <1>1, <1>3, <2>1
  <2> QED BY <1>1, <2>2 DEF Reads, ToInitiator, ToTarget, Underway, In
<1> QED BY <1>2, <1>3

(* An attempt that fails leaves the initiator unheard or another's session  *)
(* untouched.                                                               *)
LEMMA AttemptFailed ==
  ASSUME SessionInv, t_pc \in {"accepting", "hello"},
         inbox' \in Inboxes, ToInitiator' \in {ToInitiator, << >>},
         \A m : Underway(m)' => Underway(m),
         NEW ends \in {{}, {<<t_conn, "T">>}}, AttemptFails(ends),
         UNCHANGED <<accepted, initiatorVars>>
  PROVE  SessionInv'
<1>1. t_conn' = NoConn /\ t_conn' # Ini /\ UNCHANGED targetWorkerVars /\ t_control = "off"
  BY EndFacts DEF AttemptFails, SessionInv, TargetShape
<1>2. CASE t_pc' = "failed" /\ open' = open \ (ends \cup Backlog)
  BY <1>1, <1>2, EndFacts
  DEF SessionInv, Backlog, ChannelTypeOK, Inboxes, TargetTypeOK, InitiatorTypeOK,
      TargetShape, InitiatorShape, SocketsOpen, OneAnswer, InStep, Unheard,
      WordsKept, ReasonIsTrue, Handshaking, TargetDone, targetWorkerVars,
      initiatorVars
<1>3. CASE t_pc' = "accepting" /\ open' = open \ ends
  BY <1>1, <1>3, EndFacts
  DEF SessionInv, ChannelTypeOK, Inboxes, TargetTypeOK, InitiatorTypeOK,
      TargetShape, InitiatorShape, SocketsOpen, OneAnswer, InStep, Unheard,
      WordsKept, ReasonIsTrue, Handshaking, TargetDone, targetWorkerVars,
      initiatorVars
<1> QED BY <1>2, <1>3 DEF AttemptFails

LEMMA TargetFailed ==
  ASSUME SessionInv, t_pc \in {"config", "preparing", "start"},
         inbox' \in Inboxes, ToInitiator' \in {ToInitiator, << >>},
         \A m : Underway(m)' => Underway(m),
         t_pc' = "failed", open' = open \ ({<<t_conn, "T">>} \cup Backlog),
         UNCHANGED <<t_conn, targetWorkerVars, accepted, initiatorVars>>
  PROVE  SessionInv'
BY EndFacts
DEF SessionInv, Backlog, ChannelTypeOK, Inboxes, TargetTypeOK, InitiatorTypeOK,
    TargetShape, InitiatorShape, SocketsOpen, OneAnswer, InStep, Unheard,
    WordsKept, ReasonIsTrue, Handshaking, TargetDone, targetWorkerVars,
    initiatorVars

LEMMA FailKeepsInv ==
  ASSUME SessionInv, t_pc \in {"config", "preparing", "start"},
         NEW in, Reads(in), Fail(in), UNCHANGED <<accepted, initiatorVars>>
  PROVE  SessionInv'
<1>1. t_conn \in Conns
  BY EndFacts DEF SessionInv, TargetShape, TargetTypeOK
<1>2. /\ inbox' \in Inboxes
      /\ \A m : Underway(m)' => Underway(m)
      /\ ToInitiator' \in {ToInitiator, << >>}
  BY <1>1, TargetCloseEffect DEF Fail
<1> QED BY <1>2, TargetFailed DEF Fail

LEMMA AcceptStep ==
  ASSUME SessionInv, UNCHANGED initiatorVars,
         (\E c \in Conns : Accept(c)) \/ AcceptFails \/ HelloFails \/ ReceiveHello
  PROVE  SessionInv'
<1> USE DEF SessionInv, ChannelTypeOK, Inboxes, TargetTypeOK, InitiatorTypeOK,
            TargetShape, InitiatorShape, SocketsOpen, OneAnswer, InStep, Unheard,
            WordsKept, ReasonIsTrue, Handshaking, TargetDone
<1>1. ASSUME NEW c \in Conns, Accept(c)
      PROVE  SessionInv'
  <2>1. inbox' \in Inboxes /\ ToInitiator' = ToInitiator /\ \A m : Underway(m)' <=> Underway(m)
    BY <1>1, OursUntouched DEF Accept
  <2>2. CASE c = Ini
    BY <1>1, <2>1, <2>2, EndFacts
    DEF Accept, Connected, targetWorkerVars, initiatorVars
  <2>3. CASE c # Ini
    BY <1>1, <2>1, <2>3, EndFacts
    DEF Accept, targetWorkerVars, initiatorVars
  <2> QED BY <2>2, <2>3
<1>2. CASE AcceptFails
  <2>1. inbox' \in Inboxes /\ ToInitiator' = ToInitiator /\ \A m : Underway(m)' <=> Underway(m)
    BY <1>2, OursUntouched DEF AcceptFails
  <2> QED BY <1>2, <2>1, AttemptFailed DEF AcceptFails
<1>3. t_pc = "hello" => t_conn \in Conns
  BY EndFacts
<1>4. CASE HelloFails
  <2>1. /\ inbox' \in Inboxes
        /\ \A m : Underway(m)' => Underway(m)
        /\ ToInitiator' \in {ToInitiator, << >>}
    BY <1>3, <1>4, ReadsNothing, TargetCloseEffect DEF HelloFails
  <2> QED BY <1>4, <2>1, AttemptFailed DEF HelloFails
<1>5. CASE ReceiveHello
  <2>1. t_conn \in Conns /\ Reads(Taken(t_conn, "T"))
    BY <1>3, <1>5, TargetTakes DEF ReceiveHello
  <2>2. CASE /\ inbox' \in AfterSend(Taken(t_conn, "T"), t_conn, "T", <<"Hello", "Caps">>)
             /\ t_pc' = "config"
             /\ UNCHANGED <<t_conn, targetWorkerVars, open>>
    <3>1. <<"Hello", "Caps">> \in Seq(Messages) /\ << >> \o <<"Hello", "Caps">> = <<"Hello", "Caps">>
      BY DEF Messages
    <3>2. /\ inbox' \in Inboxes
          /\ \A m : Underway(m)' => Underway(m)
          /\ t_conn = Ini => ToInitiator' \in {ToInitiator, ToInitiator \o <<"Hello", "Caps">>}
          /\ t_conn # Ini => ToInitiator' = ToInitiator
      BY <2>1, <2>2, <3>1, TargetSendEffect
    <3>3. CASE t_conn = Ini
      <4>1. ToInitiator' \in {<< >>, <<"Hello", "Caps">>}
        BY <1>5, <3>1, <3>2, <3>3 DEF ReceiveHello
      <4> QED BY <1>5, <2>2, <3>2, <3>3, <4>1, EndFacts
          DEF ReceiveHello, targetWorkerVars, initiatorVars
    <3>4. CASE t_conn # Ini
      BY <1>5, <2>2, <3>2, <3>4, EndFacts
      DEF ReceiveHello, targetWorkerVars, initiatorVars
    <3> QED BY <3>3, <3>4
  <2>3. CASE /\ inbox' \in AfterClose(Taken(t_conn, "T"), t_conn, "T")
             /\ AttemptFails({<<t_conn, "T">>})
    <3>1. /\ inbox' \in Inboxes
          /\ \A m : Underway(m)' => Underway(m)
          /\ ToInitiator' \in {ToInitiator, << >>}
      BY <2>1, <2>3, TargetCloseEffect
    <3> QED BY <1>5, <2>3, <3>1, AttemptFailed DEF ReceiveHello
  <2> QED BY <1>5, <2>2, <2>3 DEF ReceiveHello
<1> QED BY <1>1, <1>2, <1>4, <1>5

LEMMA BringUpStep ==
  ASSUME SessionInv, UNCHANGED initiatorVars,
         ReceiveConfig \/ Prepare \/ PrepareFails \/ ReceiveStart \/ PeerLost
  PROVE  SessionInv'
<1> USE DEF SessionInv, ChannelTypeOK, Inboxes, TargetTypeOK, InitiatorTypeOK,
            TargetShape, InitiatorShape, SocketsOpen, OneAnswer, InStep, Unheard,
            WordsKept, ReasonIsTrue, Handshaking, TargetDone
<1>1. t_pc \in {"config", "preparing", "start"} /\ t_conn \in Conns /\ UNCHANGED accepted
  BY EndFacts DEF ReceiveConfig, Prepare, PrepareFails, ReceiveStart, PeerLost, chanVars
<1>2. CASE PrepareFails \/ PeerLost
  BY <1>1, <1>2, ReadsNothing, FailKeepsInv DEF PrepareFails, PeerLost
<1>3. CASE Prepare
  <2>1. inbox' \in Inboxes /\ ToInitiator' = ToInitiator /\ \A m : Underway(m)' <=> Underway(m)
    BY <1>3, OursUntouched DEF Prepare, chanVars
  <2> QED BY <1>3, <2>1, EndFacts
      DEF Prepare, chanVars, targetWorkerVars, initiatorVars
<1>4. CASE ReceiveConfig
  <2> DEFINE m == Next1(t_conn, "T")
  <2>1. /\ Reads(Taken(t_conn, "T"))
        /\ t_conn = Ini => Underway(m)
    BY <1>1, <1>4, TargetTakes DEF ReceiveConfig
  <2>2. CASE Fail(Taken(t_conn, "T"))
    BY <1>1, <2>1, <2>2, FailKeepsInv
  <2>3. CASE /\ m = "BadConfig"
             /\ \E in \in AfterSend(Taken(t_conn, "T"), t_conn, "T", <<"AckFail">>) : Fail(in)
    <3>1. t_conn # Ini
      BY <2>1, <2>3
    <3>2. PICK in \in AfterSend(Taken(t_conn, "T"), t_conn, "T", <<"AckFail">>) : Fail(in)
      BY <2>3
    <3>3. Reads(in)
      <4>1. <<"AckFail">> \in Seq(Messages)
        BY DEF Messages
      <4> QED BY <1>1, <2>1, <3>1, <3>2, <4>1, StrayAnswered
    <3> QED BY <1>1, <3>2, <3>3, FailKeepsInv
  <2>4. CASE /\ m = "Config"
             /\ inbox' \in AfterSend(Taken(t_conn, "T"), t_conn, "T", <<"AckOk">>)
             /\ t_pc' = "preparing"
             /\ UNCHANGED <<t_conn, targetWorkerVars, open>>
    <3>1. <<"AckOk">> \in Seq(Messages) /\ << >> \o <<"AckOk">> = <<"AckOk">>
      BY DEF Messages
    <3>2. /\ inbox' \in Inboxes
          /\ \A w : Underway(w)' => Underway(w)
          /\ t_conn = Ini => ToInitiator' \in {ToInitiator, ToInitiator \o <<"AckOk">>}
          /\ t_conn # Ini => ToInitiator' = ToInitiator
      BY <1>1, <2>1, <2>4, <3>1, TargetSendEffect
    <3>3. CASE t_conn = Ini
      <4>1. i_pc = "configuring" => ToInitiator' \in {<< >>, <<"AckOk">>}
        BY <1>4, <3>1, <3>2, <3>3 DEF ReceiveConfig
      <4>2. i_pc \in {"configuring", "failed"}
        BY <1>4, <2>1, <2>4, <3>3 DEF ReceiveConfig
      <4> HIDE DEF m
      <4> QED BY <1>1, <1>4, <2>4, <3>2, <3>3, <4>1, <4>2, EndFacts
          DEF ReceiveConfig, targetWorkerVars, initiatorVars
    <3>4. CASE t_conn # Ini
      <4> HIDE DEF m
      <4> QED BY <1>1, <1>4, <2>4, <3>2, <3>4, EndFacts
          DEF ReceiveConfig, targetWorkerVars, initiatorVars
    <3> QED BY <3>3, <3>4
  <2> QED BY <1>4, <2>2, <2>3, <2>4 DEF ReceiveConfig, ConfigReply
<1>5. CASE ReceiveStart
  <2>1. /\ Reads(Taken(t_conn, "T"))
        /\ t_conn = Ini => Underway(Next1(t_conn, "T"))
    BY <1>1, <1>5, TargetTakes DEF ReceiveStart
  <2>2. CASE Fail(Taken(t_conn, "T"))
    BY <1>1, <2>1, <2>2, FailKeepsInv
  <2>3. CASE /\ Next1(t_conn, "T") = "Start"
             /\ inbox' \in AfterSend(Taken(t_conn, "T"), t_conn, "T", <<"AckOk">>)
             /\ t_pc' = "streaming"
             /\ t_control' = "on"
             /\ UNCHANGED <<t_conn, t_stop, t_reason, open>>
    <3>1. <<"AckOk">> \in Seq(Messages)
      BY DEF Messages
    <3>2. /\ inbox' \in Inboxes
          /\ \A w : Underway(w)' => Underway(w)
          /\ t_conn # Ini => ToInitiator' = ToInitiator
      BY <1>1, <2>1, <2>3, <3>1, TargetSendEffect
    <3>3. CASE t_conn = Ini
      <4>1. i_pc \in {"starting", "failed"}
        BY <1>5, <2>1, <2>3, <3>3 DEF ReceiveStart
      <4> QED BY <1>1, <1>5, <2>3, <3>2, <3>3, <4>1, EndFacts
          DEF ReceiveStart, targetWorkerVars, initiatorVars
    <3>4. CASE t_conn # Ini
      BY <1>1, <1>5, <2>3, <3>2, <3>4, EndFacts
      DEF ReceiveStart, targetWorkerVars, initiatorVars
    <3> QED BY <3>3, <3>4
  <2> QED BY <1>5, <2>2, <2>3 DEF ReceiveStart
<1> QED BY <1>2, <1>3, <1>4, <1>5
LEMMA StreamingStep ==
  ASSUME SessionInv, UNCHANGED initiatorVars,
         \/ TargetHeartbeat \/ TargetReceives \/ TargetLosesChannel \/ TargetControlExits
         \/ TargetDecodeExits \/ Present \/ PresentFails \/ CancelTarget
  PROVE  SessionInv'
<1> USE DEF SessionInv, ChannelTypeOK, Inboxes, TargetTypeOK, InitiatorTypeOK,
            TargetShape, InitiatorShape, SocketsOpen, OneAnswer, InStep, Unheard,
            WordsKept, ReasonIsTrue, Handshaking, TargetDone
<1>1. t_control # "off" => t_conn \in Conns
  BY EndFacts
<1>2. CASE TargetHeartbeat
  <2>1. <<"Heartbeat">> \in Seq(Messages)
    BY DEF Messages
  <2>2. /\ inbox' \in Inboxes
        /\ \A m : Underway(m)' => Underway(m)
        /\ t_conn # Ini => ToInitiator' = ToInitiator
    BY <1>1, <1>2, <2>1, ReadsNothing, TargetSendEffect DEF TargetHeartbeat
  <2> QED BY <1>2, <2>2, EndFacts
      DEF TargetHeartbeat, targetVars, initiatorVars
<1>3. CASE TargetReceives
  <2>1. /\ inbox' = Taken(t_conn, "T") /\ Reads(Taken(t_conn, "T"))
        /\ t_conn = Ini => Underway(Next1(t_conn, "T"))
    BY <1>1, <1>3, TargetTakes DEF TargetReceives
  <2>2. /\ inbox' \in Inboxes
        /\ ToInitiator' = ToInitiator
        /\ \A m : Underway(m)' => Underway(m)
    BY <2>1 DEF Reads, ToInitiator, ToTarget, Underway, In
  <2>3. CASE UNCHANGED targetVars
    BY <1>3, <2>2, <2>3, EndFacts
    DEF TargetReceives, targetVars, initiatorVars
  <2>4. CASE Next1(t_conn, "T") = "Stop" /\ TargetControlEndsFor("initiator")
    BY <1>3, <2>1, <2>2, <2>4, EndFacts
    DEF TargetReceives, TargetControlEndsFor, FirstReason, targetVars, initiatorVars
  <2> QED BY <1>3, <2>3, <2>4 DEF TargetReceives, EndsSession
<1>4. CASE TargetLosesChannel
  <2>1. inbox' \in Inboxes /\ ToInitiator' = ToInitiator /\ \A m : Underway(m)' <=> Underway(m)
    BY <1>4, OursUntouched DEF TargetLosesChannel, chanVars
  <2>2. CASE AtEof(t_conn, "T") /\ TargetControlEndsFor("channel")
    <3>1. t_conn = Ini => <<Ini, "I">> \notin open
      BY <2>2, EndFacts DEF AtEof
    <3> QED BY <1>4, <2>1, <2>2, <3>1, EndFacts
        DEF TargetLosesChannel, TargetControlEndsFor, FirstReason, chanVars,
            targetVars, initiatorVars
  <2>3. CASE TargetControlEndsFor("silent")
    BY <1>4, <2>1, <2>3, EndFacts
    DEF TargetLosesChannel, TargetControlEndsFor, FirstReason, chanVars,
        targetVars, initiatorVars
  <2> QED BY <1>4, <2>2, <2>3 DEF TargetLosesChannel
<1>5. CASE TargetControlExits
  <2>1. /\ inbox' \in Inboxes
        /\ \A m : Underway(m)' => Underway(m)
        /\ ToInitiator' \in {ToInitiator, << >>}
    BY <1>1, <1>5, ReadsNothing, TargetCloseEffect DEF TargetControlExits
  <2> QED BY <1>5, <2>1, EndFacts
      DEF TargetControlExits, targetVars, initiatorVars
<1>6. CASE TargetDecodeExits
  <2>1. inbox' \in Inboxes /\ ToInitiator' = ToInitiator /\ \A m : Underway(m)' <=> Underway(m)
    BY <1>6, OursUntouched DEF TargetDecodeExits, chanVars
  <2> QED BY <1>6, <2>1, EndFacts
      DEF TargetDecodeExits, chanVars, targetWorkerVars, targetVars, initiatorVars
<1>7. CASE Present
  <2>1. inbox' \in Inboxes /\ ToInitiator' = ToInitiator /\ \A m : Underway(m)' <=> Underway(m)
    BY <1>7, OursUntouched DEF Present, chanVars
  <2> QED BY <1>7, <2>1, EndFacts
      DEF Present, Backlog, chanVars, targetWorkerVars, targetVars, initiatorVars
<1>8. CASE PresentFails
  <2>1. inbox' \in Inboxes /\ ToInitiator' = ToInitiator /\ \A m : Underway(m)' <=> Underway(m)
    BY <1>8, OursUntouched DEF PresentFails, chanVars
  <2> QED BY <1>8, <2>1, EndFacts
      DEF PresentFails, Backlog, chanVars, targetWorkerVars, targetVars, initiatorVars
<1>9. CASE CancelTarget
  <2>1. inbox' \in Inboxes /\ ToInitiator' = ToInitiator /\ \A m : Underway(m)' <=> Underway(m)
    BY <1>9, OursUntouched DEF CancelTarget, chanVars
  <2> QED BY <1>9, <2>1, EndFacts
      DEF CancelTarget, chanVars, targetWorkerVars, targetVars, initiatorVars
<1> QED BY <1>2, <1>3, <1>4, <1>5, <1>6, <1>7, <1>8, <1>9

LEMMA TargetStep ==
  ASSUME SessionInv, TargetNext, UNCHANGED initiatorVars
  PROVE  SessionInv'
BY AcceptStep, BringUpStep, StreamingStep DEF TargetNext, TargetHandshake, TargetWaits

-----------------------------------------------------------------------------
(* Other peers touch only what is theirs, and a pulled cable nothing.       *)
LEMMA StrayStep ==
  ASSUME SessionInv, Stray \/ Unplug
  PROVE  SessionInv'
<1> USE DEF SessionInv, ChannelTypeOK, Inboxes, TargetTypeOK, InitiatorTypeOK,
            TargetShape, InitiatorShape, SocketsOpen, OneAnswer, InStep, Unheard,
            WordsKept, ReasonIsTrue, Handshaking, TargetDone
<1>1. UNCHANGED <<accepted, targetVars, initiatorVars>>
  BY DEF Stray, StrayConnects, StraySays, StrayHangsUp, Unplug
<1>2. /\ inbox' \in Inboxes
      /\ inbox'[<<Ini, "I">>] = inbox[<<Ini, "I">>] /\ inbox'[<<Ini, "T">>] = inbox[<<Ini, "T">>]
      /\ open' \subseteq Conns \X Ends
      /\ \A e \in Ends : <<Ini, e>> \in open' <=> <<Ini, e>> \in open
  <2> USE DEF ChannelTypeOK
  <2>1. ASSUME NEW c \in Strays
        PROVE  /\ c \in Conns /\ c # Ini /\ "I" \in Ends /\ "T" \in Ends
               /\ <<Ini, "I">> \in Conns \X Ends /\ <<Ini, "T">> \in Conns \X Ends
    BY ChannelConstants, EndFacts DEF Conns, Ends
  <2>2. ASSUME NEW c \in Strays, StrayConnects(c)
        PROVE  <1>2!1 /\ <1>2!2 /\ <1>2!3 /\ <1>2!4
    BY <2>1, <2>2 DEF StrayConnects, ConnectTo
  <2>3. ASSUME NEW c \in Strays, NEW m \in {"Hello", "Config", "BadConfig", "Start"}, StraySays(c, m)
        PROVE  <1>2!1 /\ <1>2!2 /\ <1>2!3 /\ <1>2!4
    <3>1. inbox \in Inboxes /\ <<m>> \in Seq(Messages) /\ open' = open
          /\ inbox' \in AfterSend(inbox, c, "I", <<m>>)
      BY <2>3 DEF StraySays, Messages
    <3>2. inbox' \in Inboxes
      BY <2>1, <3>1, SendEffect
    <3>3. \/ inbox' = inbox
          \/ \E w : inbox' = [inbox EXCEPT ![<<c, "I">>] = w]
          \/ \E w : inbox' = [inbox EXCEPT ![<<c, Other("I")>>] = w]
      BY <3>1 DEF AfterSend
    <3> QED BY <2>1, <3>1, <3>2, <3>3
  <2>4. ASSUME NEW c \in Strays, StrayHangsUp(c)
        PROVE  <1>2!1 /\ <1>2!2 /\ <1>2!3 /\ <1>2!4
    <3>1. inbox \in Inboxes /\ open' = open \ {<<c, "I">>} /\ inbox' \in AfterClose(inbox, c, "I")
      BY <2>4 DEF StrayHangsUp
    <3>2. inbox' \in Inboxes
      BY <2>1, <3>1, CloseEffect
    <3> DEFINE quiet == [inbox EXCEPT ![<<c, "I">>] = << >>]
    <3>3. inbox' = quiet \/ inbox' = [quiet EXCEPT ![<<c, Other("I")>>] = << >>]
      BY <3>1 DEF AfterClose
    <3>4. quiet[<<Ini, "I">>] = inbox[<<Ini, "I">>] /\ quiet[<<Ini, "T">>] = inbox[<<Ini, "T">>]
          /\ DOMAIN quiet = Conns \X Ends
      BY <2>1, <3>1
    <3> HIDE DEF quiet
    <3> QED BY <2>1, <3>1, <3>2, <3>3, <3>4
  <2>5. CASE Unplug
    BY <2>5 DEF Unplug
  <2> QED BY <2>2, <2>3, <2>4, <2>5 DEF Stray
<1>3. ToInitiator' = ToInitiator /\ \A m : Underway(m)' <=> Underway(m)
  BY <1>2 DEF ToInitiator, ToTarget, Underway, In
<1>4. (<<Ini, "I">> \in open' <=> <<Ini, "I">> \in open) /\ (<<Ini, "T">> \in open' <=> <<Ini, "T">> \in open)
  BY <1>2 DEF Ends
<1> QED BY <1>1, <1>2, <1>3, <1>4, EndFacts
    DEF targetVars, initiatorVars

LEMMA StutterStep ==
  ASSUME SessionInv, UNCHANGED sessionVars
  PROVE  SessionInv'
<1>1. inbox' \in Inboxes /\ ToInitiator' = ToInitiator /\ \A m : Underway(m)' <=> Underway(m)
  BY OursUntouched DEF SessionInv, sessionVars, chanVars
<1> QED BY <1>1, EndFacts
    DEF SessionInv, sessionVars, chanVars, ChannelTypeOK, Inboxes, TargetTypeOK,
        InitiatorTypeOK, TargetShape, InitiatorShape, SocketsOpen, OneAnswer,
        InStep, Unheard, WordsKept, ReasonIsTrue, Handshaking, TargetDone,
        targetVars, initiatorVars

LEMMA InitSessionInv == SessionInit => SessionInv
<1> SUFFICES ASSUME SessionInit
             PROVE  SessionInv
  OBVIOUS
<1>1. inbox \in Inboxes /\ ToInitiator = << >> /\ ToTarget = << >> /\ \A m : ~Underway(m)
  BY EndFacts, InFacts DEF SessionInit, ChanInit, Inboxes, ToInitiator, ToTarget,
                           Underway, Ends
<1> QED BY <1>1, EndFacts
    DEF SessionInv, SessionInit, ChanInit, TargetInit, InitiatorInit,
        ChannelTypeOK, Inboxes, TargetTypeOK, InitiatorTypeOK, TargetShape,
        InitiatorShape, SocketsOpen, OneAnswer, InStep, Unheard, WordsKept,
        ReasonIsTrue, Handshaking, TargetDone, targetVars, initiatorVars

(* The roles' positions, the sockets they hold open and what is under way   *)
(* between them fit together at every step, however a session ends.         *)
THEOREM SessionSound == SessionSpec => []SessionInv
<1>1. SessionInv /\ [SessionNext]_sessionVars => SessionInv'
  BY ConnectStep, InitiatorStep, TargetStep, StrayStep, StutterStep DEF SessionNext
<1> QED BY <1>1, InitSessionInv, PTL DEF SessionSpec

(* Acks carry no reference, and yet no two of the parties ever take one for *)
(* another: the roles agree on how far the handshake is, for any number of  *)
(* other peers that reach the port (SPEC section 4; tl-session lib.rs).     *)
THEOREM RolesAgree == SessionSpec => []HandshakeInStep
<1>1. SessionInv => HandshakeInStep
  BY EndFacts DEF SessionInv, HandshakeInStep, TargetTypeOK, InitiatorTypeOK,
                  TargetShape, InitiatorShape, InStep, Unheard
<1> QED BY <1>1, SessionSound, PTL

(* A role that reports that the other stopped or hung up reports what       *)
(* happened, and the two never both blame the other's hangup (set_reason).  *)
THEOREM ReasonsAreTrue == SessionSpec => []ReasonIsTrue
<1>1. SessionInv => ReasonIsTrue
  BY DEF SessionInv
<1> QED BY <1>1, SessionSound, PTL

-----------------------------------------------------------------------------
(* THE INPUT PATH                                                           *)

(* Every stage of the path holds events, numbered by the user's steps.      *)
InputTypeOK ==
  /\ platform \in {"macos", "linux"} /\ reliable \in BOOLEAN
  /\ steps \in 0 .. UserSteps /\ at \in Positions \cup {Outside}
  /\ mod_down \subseteq Modifiers
  /\ pending_move \in Moves \cup {Nothing}
  /\ emitting \in Seq(Events)
  /\ slot \in Events \cup {Nothing}
  /\ net \in Seq(Events)
  /\ injector \in {"up", "dropped", "closing", "gone"}
  /\ latest \in 0 .. UserSteps

(* The events that the tap still has, and their order along the path: in a  *)
(* sequence, and before another event.                                      *)
AtTap == {emitting[i] : i \in DOMAIN emitting} \cup ({pending_move} \ {Nothing})
Sorted(s) == \A i, j \in DOMAIN s : i <= j => s[i].n <= s[j].n
NoLater(s, n) == \A i \in DOMAIN s : s[i].n <= n

(* A move waits only while nothing is being emitted: it is flushed ahead of *)
(* the next event, and the callback is over before the pointer moves again. *)
FlushedFirst == pending_move # Nothing => emitting = << >>

(* On a link that keeps order, from the injector back to the user no stage  *)
(* holds an event older than one further on.                                *)
FlowInOrder ==
  /\ Sorted(net) /\ Sorted(emitting)
  /\ latest <= steps /\ NoLater(net, steps) /\ \A e \in AtTap : e.n <= steps
  /\ \A i \in DOMAIN net : latest <= net[i].n
  /\ slot # Nothing => latest <= slot.n /\ slot.n <= steps /\ NoLater(net, slot.n)
  /\ \A e \in AtTap :
       /\ latest <= e.n /\ NoLater(net, e.n)
       /\ slot # Nothing => slot.n <= e.n

(* What release_all can release is held; when no call fails, everything     *)
(* held is known to it; and once it has run for the last time it knows of   *)
(* nothing.                                                                 *)
TracksWhatIsHeld ==
  /\ pressed \subseteq held
  /\ reliable /\ injector = "up" => held = pressed
  /\ injector = "closing" => pressed = {}

InputInv ==
  /\ InputTypeOK /\ FlushedFirst
  /\ reliable => FlowInOrder
  /\ TracksWhatIsHeld

-----------------------------------------------------------------------------
LEMMA EventFacts ==
  /\ \A e \in Events : e.n \in 1 .. UserSteps
  /\ \A e \in Moves : e \in Events
  /\ \A p \in Positions, n \in Numbers : Move(p, n) \in Moves /\ Move(p, n).n = n
  /\ \A b \in Buttons, d \in BOOLEAN, p \in Positions, n \in Numbers :
       Button(b, d, p, n) \in Events /\ Button(b, d, p, n).n = n
  /\ \A n \in Numbers : Scroll(n) \in Events /\ Scroll(n).n = n
  /\ \A k \in Keys \cup Modifiers, d \in BOOLEAN, n \in Numbers :
       Key(k, d, n) \in Events /\ Key(k, d, n).n = n
  /\ \A n \in Numbers : Leave(n) \in Events /\ Leave(n).n = n
BY DEF Events, Moves, Numbers, Move, Button, Scroll, Key, Leave

(* flush_pending puts the waiting move first, so what is emitted is in      *)
(* order.                                                                   *)
LEMMA EmitFacts ==
  ASSUME InputInv, NEW n \in steps .. UserSteps, NEW evs \in Seq(Events), Emit(evs),
         \A i \in DOMAIN evs : evs[i].n = n
  PROVE  /\ emitting' \in Seq(Events) /\ pending_move' = Nothing
         /\ \A i \in DOMAIN emitting' :
              \/ emitting'[i].n = n
              \/ emitting'[i] = pending_move /\ pending_move # Nothing
         /\ reliable => Sorted(emitting')
<1>0. n \in Nat /\ steps \in Nat /\ steps <= n
  BY InputConstants DEF InputInv, InputTypeOK
<1>1. CASE pending_move = Nothing
  <2>1. emitting' = evs
    BY <1>1 DEF Emit
  <2> QED BY <1>0, <2>1 DEF Emit, Sorted
<1>2. CASE pending_move # Nothing
  <2>1. pending_move \in Events /\ pending_move.n \in Nat
    BY <1>2, EventFacts, InputConstants DEF InputInv, InputTypeOK
  <2>2. reliable => pending_move.n <= n
    BY <1>0, <1>2, <2>1 DEF InputInv, FlowInOrder, AtTap
  <2>3. emitting' = <<pending_move>> \o evs /\ <<pending_move>> \in Seq(Events)
    BY <1>2, <2>1 DEF Emit
  <2>4. /\ emitting' \in Seq(Events) /\ Len(emitting') = 1 + Len(evs) /\ Len(evs) \in Nat
        /\ DOMAIN emitting' = 1 .. 1 + Len(evs) /\ DOMAIN evs = 1 .. Len(evs)
        /\ \A i \in 1 .. 1 + Len(evs) :
             emitting'[i] = IF i = 1 THEN pending_move ELSE evs[i - 1]
    BY <2>3
  <2>5. \A i \in 2 .. 1 + Len(evs) : i \in Nat /\ i # 1 /\ i \in 1 .. 1 + Len(evs) /\ i - 1 \in DOMAIN evs
    BY <2>4
  <2>6. emitting'[1] = pending_move /\ \A i \in 2 .. 1 + Len(evs) : emitting'[i].n = n
    BY <2>4, <2>5
  <2>7. \A i \in DOMAIN emitting' : i = 1 \/ i \in 2 .. 1 + Len(evs)
    BY <2>4
  <2>8. reliable => Sorted(emitting')
    BY <1>0, <2>1, <2>2, <2>6, <2>7, <2>4 DEF Sorted
  <2> QED BY <1>2, <2>4, <2>6, <2>7, <2>8 DEF Emit
<1> QED BY <1>1, <1>2

(* Whatever the user does, what the tap makes of it is newer than all the   *)
(* rest.                                                                    *)
LEMMA TapKeepsInv ==
  ASSUME InputInv, emitting = << >>,
         steps' \in steps .. UserSteps,
         at' \in Positions \cup {Outside}, mod_down' \subseteq Modifiers,
         \/ Ignore
         \/ /\ pending_move' \in Moves /\ pending_move'.n = steps' /\ UNCHANGED emitting
         \/ \E evs \in Seq(Events) : Emit(evs) /\ \A i \in DOMAIN evs : evs[i].n = steps',
         UNCHANGED <<platform, reliable, slot, net, injVars>>
  PROVE  InputInv'
<1> USE DEF InputInv
<1>1. /\ emitting' \in Seq(Events) /\ pending_move' \in Moves \cup {Nothing}
      /\ pending_move' # Nothing => emitting' = << >>
      /\ \A e \in AtTap' : e.n = steps' \/ e \in AtTap
      /\ reliable => Sorted(emitting')
  <2>1. CASE Ignore
    BY <2>1 DEF Ignore, InputTypeOK, FlushedFirst, AtTap, FlowInOrder
  <2>2. CASE pending_move' \in Moves /\ pending_move'.n = steps' /\ UNCHANGED emitting
    BY <2>2 DEF InputTypeOK, AtTap, FlowInOrder
  <2>3. CASE \E evs \in Seq(Events) : Emit(evs) /\ \A i \in DOMAIN evs : evs[i].n = steps'
    <3>1. /\ emitting' \in Seq(Events) /\ pending_move' = Nothing
          /\ \A i \in DOMAIN emitting' :
               \/ emitting'[i].n = steps'
               \/ emitting'[i] = pending_move /\ pending_move # Nothing
          /\ reliable => Sorted(emitting')
      BY <2>3, EmitFacts
    <3> QED BY <3>1 DEF AtTap
  <2> QED BY <2>1, <2>2, <2>3
<1>2. steps \in Nat /\ steps' \in Nat /\ steps <= steps' /\ steps' <= UserSteps /\ latest \in Nat
  BY InputConstants DEF InputTypeOK
<1>3. /\ \A i \in DOMAIN net : net[i].n \in Nat
      /\ slot # Nothing => slot.n \in Nat
      /\ \A e \in AtTap : e.n \in Nat
  <2>1. \A e \in Events : e.n \in Nat
    BY EventFacts, InputConstants
  <2>2. \A i \in DOMAIN net : net[i] \in Events
    BY DEF InputTypeOK
  <2>3. \A e \in AtTap : e \in Events
    BY EventFacts DEF InputTypeOK, AtTap
  <2> QED BY <2>1, <2>2, <2>3 DEF InputTypeOK
<1>4. reliable => FlowInOrder'
  <2> SUFFICES ASSUME reliable PROVE FlowInOrder'
    OBVIOUS
  <2>1. FlowInOrder
    OBVIOUS
  <2>2. \A e \in AtTap' : /\ e.n <= steps' /\ latest <= e.n /\ NoLater(net, e.n)
                          /\ slot # Nothing => slot.n <= e.n
    BY <1>1, <1>2, <1>3, <2>1 DEF FlowInOrder, NoLater
  <2>3. latest <= steps' /\ NoLater(net, steps') /\ (slot # Nothing => slot.n <= steps')
    BY <1>2, <1>3, <2>1 DEF FlowInOrder, NoLater
  <2> QED BY <1>1, <2>1, <2>2, <2>3 DEF FlowInOrder, NoLater, Sorted, injVars
<1>5. InputTypeOK'
  BY <1>1, <1>2 DEF InputTypeOK, injVars
<1> QED BY <1>1, <1>4, <1>5 DEF FlushedFirst, TracksWhatIsHeld, injVars

(* A finite set as a sequence.                                              *)
LEMMA SetToSeqFacts ==
  ASSUME NEW S, IsFiniteSet(S)
  PROVE  /\ Len(SetToSeq(S)) \in Nat
         /\ \A i \in 1 .. Len(SetToSeq(S)) : SetToSeq(S)[i] \in S
<1>1. Cardinality(S) \in Nat /\ ExistsBijection(1 .. Cardinality(S), S)
  BY FS_CardinalityType
<1>2. \E f \in [1 .. Cardinality(S) -> S] : IsInjective(f)
  BY <1>1 DEF ExistsBijection, Bijection, Injection
<1>3. SetToSeq(S) \in [1 .. Cardinality(S) -> S]
  BY <1>2 DEF SetToSeq
<1>4. SetToSeq(S) \in Seq(S)
  BY <1>1, <1>3
<1> QED BY <1>4

-----------------------------------------------------------------------------
(* The user's and the tap's steps.                                          *)
LEMMA NoEvents == << >> \in Seq(Events) /\ \A n : \A i \in DOMAIN << >> : << >>[i].n = n
OBVIOUS

LEMMA UserStep ==
  ASSUME InputInv,
         \/ \E p \in Positions \cup {Outside} : MovePointer(p)
         \/ \E b \in Buttons : ChangeButton(b)
         \/ TurnWheel
         \/ \E k \in Keys, d \in BOOLEAN : ChangeKey(k, d)
         \/ \E m \in Modifiers : ChangeModifier(m)
  PROVE  InputInv'
<1> DEFINE Told == \E evs \in Seq(Events) : Emit(evs) /\ \A i \in DOMAIN evs : evs[i].n = steps'
<1>0. /\ UserActs /\ emitting = << >> /\ steps' = steps + 1 /\ steps' \in Numbers
      /\ steps' \in steps .. UserSteps
      /\ UNCHANGED <<platform, reliable, slot, net, injVars>>
  <2>1. UserActs
    BY DEF MovePointer, ChangeButton, TurnWheel, ChangeKey, ChangeModifier
  <2> QED BY <2>1, InputConstants DEF UserActs, slotVars, Numbers, InputInv, InputTypeOK
<1>1. \A e \in Events : e.n = steps' => <<e>> \in Seq(Events) /\ \A i \in DOMAIN <<e>> : <<e>>[i].n = steps'
  OBVIOUS
<1>2. ASSUME NEW p \in Positions \cup {Outside}, MovePointer(p)
      PROVE  InputInv'
  <2>1. p # Outside => Move(p, steps') \in Moves /\ Move(p, steps').n = steps'
    BY <1>0, EventFacts
  <2>2. Leave(steps') \in Events /\ Leave(steps').n = steps'
    BY <1>0, EventFacts
  <2>3. Emit(<<Leave(steps')>>) => Told
    BY <1>1, <2>2
  <2>4. \/ Ignore
        \/ pending_move' \in Moves /\ pending_move'.n = steps' /\ UNCHANGED emitting
        \/ Told
    BY <1>2, <2>1, <2>3 DEF MovePointer
  <2>5. at' \in Positions \cup {Outside} /\ mod_down' \subseteq Modifiers
    BY <1>2 DEF MovePointer, InputInv, InputTypeOK
  <2> QED BY <1>0, <2>4, <2>5, TapKeepsInv
<1>3. ASSUME NEW b \in Buttons, ChangeButton(b)
      PROVE  InputInv'
  <2>1. at # Outside => Button(b, b \in down', at, steps') \in Events
                        /\ Button(b, b \in down', at, steps').n = steps'
    <3> DEFINE d == b \in down'
    <3>1. d \in BOOLEAN
      OBVIOUS
    <3> HIDE DEF d
    <3>2. at # Outside => Button(b, d, at, steps') \in Events /\ Button(b, d, at, steps').n = steps'
      BY <1>0, <3>1, EventFacts DEF InputInv, InputTypeOK
    <3> QED BY <3>2 DEF d
  <2>2. Ignore \/ Told
    BY <1>1, <1>3, <2>1 DEF ChangeButton
  <2>3. at' \in Positions \cup {Outside} /\ mod_down' \subseteq Modifiers
    BY <1>3 DEF ChangeButton, InputInv, InputTypeOK
  <2> QED BY <1>0, <2>2, <2>3, TapKeepsInv
<1>4. CASE TurnWheel
  <2>1. Scroll(steps') \in Events /\ Scroll(steps').n = steps'
    BY <1>0, EventFacts
  <2>2. Ignore \/ Told
    BY <1>1, <1>4, <2>1 DEF TurnWheel
  <2>3. at' \in Positions \cup {Outside} /\ mod_down' \subseteq Modifiers
    BY <1>4 DEF TurnWheel, InputInv, InputTypeOK
  <2> QED BY <1>0, <2>2, <2>3, TapKeepsInv
<1>5. ASSUME NEW k \in Keys, NEW d \in BOOLEAN, ChangeKey(k, d)
      PROVE  InputInv'
  <2>1. Key(k, d, steps') \in Events /\ Key(k, d, steps').n = steps'
    BY <1>0, EventFacts
  <2>2. Ignore \/ Told
    BY <1>1, <1>5, <2>1 DEF ChangeKey
  <2>3. at' \in Positions \cup {Outside} /\ mod_down' \subseteq Modifiers
    BY <1>5 DEF ChangeKey, InputInv, InputTypeOK
  <2> QED BY <1>0, <2>2, <2>3, TapKeepsInv
<1>6. ASSUME NEW m \in Modifiers, ChangeModifier(m)
      PROVE  InputInv'
  <2> DEFINE now == down' \cap Modifiers
             changed == SetToSeq(SymDiff(mod_down, now))
             evs == [i \in 1 .. Len(changed) |-> Key(changed[i], changed[i] \in now, steps')]
  <2>1. mod_down \subseteq Modifiers /\ now \subseteq Modifiers
        /\ SymDiff(mod_down, now) \subseteq Modifiers
    BY DEF SymDiff, InputInv, InputTypeOK
  <2>2. IsFiniteSet(SymDiff(mod_down, now))
    BY <2>1, InputConstants, FS_Subset
  <2>3. Len(changed) \in Nat /\ \A i \in 1 .. Len(changed) : changed[i] \in Modifiers
    BY <2>1, <2>2, SetToSeqFacts
  <2>4. ASSUME NEW i \in 1 .. Len(changed)
        PROVE  Key(changed[i], changed[i] \in now, steps') \in Events
               /\ Key(changed[i], changed[i] \in now, steps').n = steps'
    <3> DEFINE d == changed[i] \in now
    <3>1. d \in BOOLEAN
      OBVIOUS
    <3> HIDE DEF changed, now, d
    <3>0. changed[i] \in Modifiers
      BY <2>3
    <3>2. Key(changed[i], d, steps') \in Events /\ Key(changed[i], d, steps').n = steps'
      BY <1>0, <3>0, <3>1, EventFacts
    <3> QED BY <3>2 DEF d
  <2>5. evs \in Seq(Events) /\ \A i \in DOMAIN evs : evs[i].n = steps'
    <3> HIDE DEF changed, now
    <3> QED BY <2>3, <2>4
  <2>6. Ignore \/ Emit(evs)
    BY <1>6 DEF ChangeModifier
  <2>7. at' \in Positions \cup {Outside} /\ mod_down' \subseteq Modifiers
    BY <1>6, <2>1 DEF ChangeModifier, InputInv, InputTypeOK
  <2>8. Ignore \/ Told
    BY <2>5, <2>6
  <2> QED BY <1>0, <2>7, <2>8, TapKeepsInv
<1> QED BY <1>2, <1>3, <1>4, <1>5, <1>6

LEMMA FlushStep ==
  ASSUME InputInv, FlushTimer
  PROVE  InputInv'
<1>1. \E evs \in Seq(Events) : Emit(evs) /\ \A i \in DOMAIN evs : evs[i].n = steps'
  BY NoEvents DEF FlushTimer
<1>2. /\ emitting = << >> /\ steps' \in steps .. UserSteps
      /\ at' \in Positions \cup {Outside} /\ mod_down' \subseteq Modifiers
      /\ UNCHANGED <<platform, reliable, slot, net, injVars>>
  BY InputConstants DEF FlushTimer, userVars, slotVars, InputInv, InputTypeOK
<1> QED BY <1>1, <1>2, TapKeepsInv

-----------------------------------------------------------------------------
(* What is numbered is a number.                                            *)
LEMMA NumbersTyped ==
  ASSUME InputTypeOK
  PROVE  /\ latest \in Nat /\ steps \in Nat
         /\ \A i \in DOMAIN net : net[i].n \in Nat
         /\ \A i \in DOMAIN emitting : emitting[i].n \in Nat
         /\ slot # Nothing => slot.n \in Nat
         /\ \A e \in AtTap : e.n \in Nat
<1>1. \A e \in Events : e.n \in Nat
  BY EventFacts, InputConstants
<1>2. \A e \in AtTap : e \in Events
  BY EventFacts DEF InputTypeOK, AtTap
<1>3. (\A i \in DOMAIN net : net[i] \in Events) /\ \A i \in DOMAIN emitting : emitting[i] \in Events
  BY DEF InputTypeOK
<1> QED BY <1>1, <1>2, <1>3, InputConstants DEF InputTypeOK

LEMMA EmitNextStep ==
  ASSUME InputInv, EmitNext
  PROVE  InputInv'
<1> USE DEF InputInv
<1>1. /\ emitting # << >> /\ slot' = Head(emitting) /\ emitting' = Tail(emitting)
      /\ UNCHANGED <<platform, reliable, userVars, tapVars, net, injVars>>
  BY DEF EmitNext
<1>2. /\ emitting \in Seq(Events) /\ Len(emitting) \in Nat \ {0} /\ DOMAIN emitting = 1 .. Len(emitting)
      /\ slot' = emitting[1] /\ slot' \in Events /\ 1 \in DOMAIN emitting
      /\ emitting' \in Seq(Events) /\ DOMAIN emitting' = 1 .. Len(emitting) - 1
      /\ \A i \in DOMAIN emitting' : emitting'[i] = emitting[i + 1] /\ i + 1 \in DOMAIN emitting
  BY <1>1 DEF InputTypeOK
<1>3. \A e \in AtTap' : e \in AtTap
  BY <1>1, <1>2 DEF AtTap, tapVars
<1>4. pending_move = Nothing
  BY <1>1 DEF FlushedFirst
<1>5. slot' \in AtTap
  BY <1>2 DEF AtTap
<1>6. reliable => \A e \in AtTap' : slot'.n <= e.n
  BY <1>1, <1>2, <1>4 DEF FlowInOrder, Sorted, AtTap, tapVars
<1>7. reliable => Sorted(emitting')
  <2> SUFFICES ASSUME reliable, NEW i \in DOMAIN emitting', NEW j \in DOMAIN emitting', i <= j
               PROVE  emitting'[i].n <= emitting'[j].n
    BY DEF Sorted
  <2>1. i \in Nat /\ j \in Nat /\ i + 1 <= j + 1
    BY <1>2
  <2> QED BY <1>2, <2>1 DEF FlowInOrder, Sorted
<1>8. reliable => FlowInOrder'
  BY <1>1, <1>3, <1>5, <1>6, <1>7 DEF FlowInOrder, NoLater, Sorted, userVars, injVars
<1> QED BY <1>1, <1>2, <1>4, <1>8
    DEF InputTypeOK, FlushedFirst, TracksWhatIsHeld, userVars, tapVars, injVars

LEMMA SendStep ==
  ASSUME InputInv, TakeAndSend
  PROVE  InputInv'
<1> USE DEF InputInv
<1>1. /\ slot \in Events /\ slot # Nothing /\ slot' = Nothing /\ net' = Append(net, slot)
      /\ UNCHANGED <<platform, reliable, userVars, tapVars, emitting, injVars>>
  BY DEF TakeAndSend, InputTypeOK
<1>2. /\ net \in Seq(Events) /\ Len(net) \in Nat /\ DOMAIN net = 1 .. Len(net)
      /\ net' \in Seq(Events) /\ DOMAIN net' = 1 .. Len(net) + 1
      /\ net'[Len(net) + 1] = slot /\ \A i \in DOMAIN net : net'[i] = net[i]
  BY <1>1 DEF InputTypeOK
<1>3. \A i \in DOMAIN net' : i \in DOMAIN net \/ i = Len(net) + 1
  BY <1>2
<1>4. slot.n \in Nat /\ \A i \in DOMAIN net : net[i].n \in Nat
  BY <1>1, NumbersTyped
<1>5. reliable => Sorted(net')
  <2> SUFFICES ASSUME reliable, NEW i \in DOMAIN net', NEW j \in DOMAIN net', i <= j
               PROVE  net'[i].n <= net'[j].n
    BY DEF Sorted
  <2>1. CASE j \in DOMAIN net
    <3>1. i \in DOMAIN net
      BY <1>2, <2>1
    <3> QED BY <1>2, <2>1, <3>1 DEF FlowInOrder, Sorted
  <2>2. CASE j = Len(net) + 1
    BY <1>1, <1>2, <1>3, <1>4, <2>2 DEF FlowInOrder, NoLater
  <2> QED BY <1>3, <2>1, <2>2
<1>6. reliable => FlowInOrder'
  BY <1>1, <1>2, <1>3, <1>5 DEF FlowInOrder, NoLater, Sorted, AtTap, userVars,
                                tapVars, injVars
<1> QED BY <1>1, <1>2, <1>6
    DEF InputTypeOK, FlushedFirst, TracksWhatIsHeld, userVars, tapVars, injVars

LEMMA RemoveFacts ==
  ASSUME NEW s \in Seq(Events), NEW i \in DOMAIN s
  PROVE  /\ RemoveAt(s, i) \in Seq(Events)
         /\ i = 1 => RemoveAt(s, i) = Tail(s)
<1>1. Len(s) \in Nat /\ i \in 1 .. Len(s)
  OBVIOUS
<1>2. SubSeq(s, 1, i - 1) \in Seq(Events) /\ SubSeq(s, i + 1, Len(s)) \in Seq(Events)
  BY <1>1
<1>3. i = 1 => SubSeq(s, 1, i - 1) = << >> /\ SubSeq(s, i + 1, Len(s)) = Tail(s)
  BY <1>1
<1>4. RemoveAt(s, i) = SubSeq(s, 1, i - 1) \o SubSeq(s, i + 1, Len(s))
  BY DEF RemoveAt
<1>5. RemoveAt(s, i) \in Seq(Events)
  BY <1>2, <1>4
<1>6. i = 1 => RemoveAt(s, i) = Tail(s)
  <2>1. Tail(s) \in Seq(Events) /\ << >> \o Tail(s) = Tail(s)
    BY <1>1
  <2> QED BY <1>3, <1>4, <2>1
<1> QED BY <1>5, <1>6

LEMMA LoseStep ==
  ASSUME InputInv, Lose
  PROVE  InputInv'
<1> USE DEF InputInv
<1>1. PICK i \in DOMAIN net : net' = RemoveAt(net, i)
  BY DEF Lose
<1>2. net' \in Seq(Events)
  BY <1>1, RemoveFacts DEF InputTypeOK
<1>3. ~reliable /\ UNCHANGED <<platform, reliable, userVars, tapVars, emitting, slot, injVars>>
  BY DEF Lose, slotVars
<1> QED BY <1>2, <1>3
    DEF InputTypeOK, FlushedFirst, TracksWhatIsHeld, userVars, tapVars, injVars

(* The injector takes the oldest event of a link that keeps order.          *)
LEMMA InjectStep ==
  ASSUME InputInv, Inject
  PROVE  InputInv' /\ (reliable => latest <= latest')
<1> USE DEF InputInv
<1>1. PICK i \in DOMAIN net :
        /\ reliable => i = 1
        /\ net' = RemoveAt(net, i)
        /\ InjectEvent(net[i])
        /\ latest' = net[i].n
  BY DEF Inject
<1>2. injector = "up" /\ UNCHANGED <<platform, reliable, userVars, tapVars, emitting, slot, injector>>
  BY DEF Inject, slotVars
<1>3. /\ net \in Seq(Events) /\ Len(net) \in Nat /\ DOMAIN net = 1 .. Len(net)
      /\ net' \in Seq(Events) /\ net[i] \in Events /\ latest' \in 0 .. UserSteps
  <2>1. net[i].n \in 1 .. UserSteps
    BY EventFacts DEF InputTypeOK
  <2> QED BY <1>1, <2>1, RemoveFacts, InputConstants DEF InputTypeOK
<1>4. TracksWhatIsHeld'
  <2>1. CASE net[i].type \in {"Button", "Key"} /\ Press(net[i].which, net[i].down)
    BY <1>2, <2>1 DEF TracksWhatIsHeld, Press
  <2>2. CASE \E kept \in SUBSET pressed : ReleaseAll(kept)
    BY <1>2, <2>2 DEF TracksWhatIsHeld, ReleaseAll
  <2>3. CASE UNCHANGED <<pressed, held>>
    BY <1>2, <2>3 DEF TracksWhatIsHeld
  <2> QED BY <1>1, <2>1, <2>2, <2>3 DEF InjectEvent
<1>5. ASSUME reliable
      PROVE  FlowInOrder' /\ latest <= latest'
  <2>1. i = 1 /\ net' = Tail(net) /\ net # << >>
    BY <1>1, <1>3, <1>5, RemoveFacts
  <2>2. /\ DOMAIN net' = 1 .. Len(net) - 1
        /\ \A k \in DOMAIN net' : net'[k] = net[k + 1] /\ k + 1 \in DOMAIN net /\ 1 <= k + 1
    BY <1>3, <2>1
  <2>3. Sorted(net')
    <3> SUFFICES ASSUME NEW k \in DOMAIN net', NEW j \in DOMAIN net', k <= j
                 PROVE  net'[k].n <= net'[j].n
      BY DEF Sorted
    <3>1. k \in Nat /\ j \in Nat /\ k + 1 <= j + 1
      BY <1>3, <2>2
    <3> QED BY <1>5, <2>2, <3>1 DEF FlowInOrder, Sorted
  <2>4. /\ 1 \in DOMAIN net
        /\ \A k \in DOMAIN net' : latest' <= net'[k].n
    BY <1>1, <1>3, <1>5, <2>1, <2>2 DEF FlowInOrder, Sorted
  <2>5. latest <= latest' /\ latest' <= steps
        /\ (slot # Nothing => latest' <= slot.n) /\ \A e \in AtTap : latest' <= e.n
    BY <1>1, <1>5, <2>1, <2>4 DEF FlowInOrder, NoLater
  <2>6. \A n : NoLater(net, n) => NoLater(net', n)
    BY <2>2 DEF NoLater
  <2>7. AtTap' = AtTap
    BY <1>2 DEF AtTap, tapVars
  <2> QED BY <1>2, <1>5, <2>3, <2>4, <2>5, <2>6, <2>7
    DEF FlowInOrder, userVars, tapVars, Sorted
<1>6. InputTypeOK'
  BY <1>2, <1>3 DEF InputTypeOK, userVars, tapVars
<1> QED BY <1>2, <1>4, <1>5, <1>6 DEF FlushedFirst, tapVars

LEMMA RestStep ==
  ASSUME InputInv,
         \/ ToggleTap \/ SenderEnds \/ UNCHANGED vars
         \/ InjectorEnds \/ DropReleases \/ DestroyDevice
  PROVE  InputInv'
<1>1. UNCHANGED <<platform, reliable, userVars, tapVars, emitting, slot, net, latest>>
  BY DEF ToggleTap, SenderEnds, InjectorEnds, DropReleases, DestroyDevice, slotVars, vars,
         injVars
<1>2. InputTypeOK' /\ FlushedFirst' /\ (reliable' => FlowInOrder')
  <2>1. injector' \in {"up", "dropped", "closing", "gone"}
    BY DEF ToggleTap, SenderEnds, InjectorEnds, DropReleases, DestroyDevice, vars, injVars,
           InputInv, InputTypeOK
  <2> QED BY <1>1, <2>1
      DEF InputInv, InputTypeOK, FlushedFirst, FlowInOrder, NoLater, Sorted, AtTap,
          userVars, tapVars
<1>3. TracksWhatIsHeld'
  <2>1. CASE UNCHANGED injVars /\ UNCHANGED reliable
    BY <2>1 DEF InputInv, TracksWhatIsHeld, injVars
  <2>2. CASE InjectorEnds
    BY <2>2 DEF InputInv, InjectorEnds, TracksWhatIsHeld
  <2>3. CASE DropReleases
    BY <2>3 DEF DropReleases, ReleaseAll, TracksWhatIsHeld
  <2>4. CASE DestroyDevice
    BY <2>4 DEF InputInv, DestroyDevice, TracksWhatIsHeld
  <2> QED BY <2>1, <2>2, <2>3, <2>4 DEF ToggleTap, SenderEnds, vars
<1> QED BY <1>2, <1>3 DEF InputInv

LEMMA InitInputInv == Init => InputInv
BY InputConstants
DEF Init, InputInv, InputTypeOK, FlushedFirst, FlowInOrder, NoLater, Sorted, AtTap,
    TracksWhatIsHeld

LEMMA InputStep ==
  ASSUME InputInv, [Next]_vars
  PROVE  InputInv'
BY UserStep, FlushStep, EmitNextStep, SendStep, LoseStep, InjectStep, RestStep DEF Next

(* Every stage of the path, from the tap to the injector, keeps its types,  *)
(* and what release_all knows to be down is down.                           *)
THEOREM InputSound == Spec => []InputInv
BY InitInputInv, InputStep, PTL DEF Spec

(* On a link that keeps order, no event takes effect before one the user    *)
(* made earlier: flush_pending and the channel never swap two events.       *)
THEOREM UsersOrderKept == Spec => InUsersOrder
<1>1. InputInv /\ [Next]_vars => [reliable => latest' >= latest]_vars
  <2> SUFFICES ASSUME InputInv, Next, reliable
               PROVE  latest' >= latest
    OBVIOUS
  <2>1. latest \in Nat /\ latest' \in Nat
    BY InputStep, InputConstants DEF InputInv, InputTypeOK
  <2>2. CASE Inject
    BY <2>1, <2>2, InjectStep
  <2>3. CASE UNCHANGED latest
    BY <2>1, <2>3
  <2>4. Inject \/ UNCHANGED latest
    BY DEF Next, MovePointer, ChangeButton, TurnWheel, ChangeKey, ChangeModifier,
           UserActs, FlushTimer, EmitNext, ToggleTap, TakeAndSend, SenderEnds,
           Lose, InjectorEnds, DropReleases, DestroyDevice, injVars
  <2> QED BY <2>2, <2>3, <2>4
<1> QED BY <1>1, InputSound, PTL DEF InUsersOrder, Spec

-----------------------------------------------------------------------------
(* Stuck keys.  The events on their way from the tap to the injector:       *)
OnTheWay ==
  {net[i] : i \in DOMAIN net} \cup ({slot} \ {Nothing})
    \cup {emitting[i] : i \in DOMAIN emitting}

(* what bears on a key or button, and what presses it;                      *)
Touches(e, k) == e.type = "Leave" \/ (e.type \in {"Button", "Key"} /\ e.which = k)
Presses(e, k) == e.type \in {"Button", "Key"} /\ e.which = k /\ e.down

(* and what will be held when they have arrived: a key that the last event  *)
(* to bear on it presses, or that is held and left alone.                   *)
WillBeHeld(k) ==
  \/ \E e \in OnTheWay :
       Presses(e, k) /\ \A f \in OnTheWay : Touches(f, k) => f.n <= e.n
  \/ k \in held /\ \A e \in OnTheWay : ~Touches(e, k)

NothingLost == reliable /\ ~replaced /\ sender = "up" /\ injector = "up"

(* As long as nothing is lost the tap knows where the pointer is and which  *)
(* modifiers are down, and nothing will be held but what the user may hold. *)
StuckInv ==
  /\ InputInv
  /\ reliable => tap_on
  /\ held \subseteq Things /\ down \subseteq Things
  /\ NothingLost =>
       /\ inside = (at # Outside)
       /\ mod_down = down \cap Modifiers
       /\ \A k \in Things : WillBeHeld(k) => k \in MayHold

LEMMA InitStuckInv == Init => StuckInv
<1> SUFFICES ASSUME Init PROVE StuckInv
  OBVIOUS
<1>1. InputInv
  BY InitInputInv
<1>2. held = {} /\ down = {} /\ at = Outside /\ inside = FALSE /\ mod_down = {} /\ tap_on
      /\ net = << >> /\ emitting = << >> /\ slot = Nothing
  BY DEF Init
<1>3. OnTheWay = {}
  BY <1>2 DEF OnTheWay
<1> QED BY <1>1, <1>2, <1>3 DEF StuckInv, WillBeHeld

(* What is on the way is numbered, and never by more than the user's steps. *)
LEMMA WayFacts ==
  ASSUME InputInv
  PROVE  /\ OnTheWay \subseteq Events
         /\ \A e \in OnTheWay : e.n \in Nat
         /\ reliable => \A e \in OnTheWay : e.n <= steps
<1>1. OnTheWay \subseteq Events
  BY DEF OnTheWay, InputInv, InputTypeOK
<1>2. \A e \in OnTheWay : e.n \in Nat
  BY <1>1, EventFacts, InputConstants
<1>3. reliable => \A e \in OnTheWay : e.n <= steps
  BY DEF InputInv, FlowInOrder, NoLater, AtTap, OnTheWay
<1> QED BY <1>1, <1>2, <1>3

(* flush_pending and the events that follow: the flushed move touches       *)
(* nothing.                                                                 *)
LEMMA EmitOnWay ==
  ASSUME InputInv, NEW evs \in Seq(Events), Emit(evs), emitting = << >>,
         UNCHANGED <<net, slot>>
  PROVE  /\ OnTheWay \subseteq OnTheWay'
         /\ \A i \in DOMAIN evs : evs[i] \in OnTheWay'
         /\ \A e \in OnTheWay' :
              \/ e \in OnTheWay
              \/ \E i \in DOMAIN evs : e = evs[i]
              \/ e.type = "Move"
<1>1. CASE pending_move = Nothing
  <2>1. emitting' = evs
    BY <1>1 DEF Emit
  <2> QED BY <2>1 DEF OnTheWay
<1>2. CASE pending_move # Nothing
  <2>1. pending_move \in Events /\ pending_move.type = "Move"
    BY <1>2, EventFacts DEF InputInv, InputTypeOK, Moves
  <2>2. emitting' = <<pending_move>> \o evs /\ <<pending_move>> \in Seq(Events)
    BY <1>2, <2>1 DEF Emit
  <2>3. /\ Len(evs) \in Nat /\ DOMAIN evs = 1 .. Len(evs)
        /\ DOMAIN emitting' = 1 .. 1 + Len(evs)
        /\ \A i \in 1 .. 1 + Len(evs) :
             emitting'[i] = IF i = 1 THEN pending_move ELSE evs[i - 1]
    BY <2>2
  <2>4. \A i \in DOMAIN evs : i + 1 \in DOMAIN emitting' /\ emitting'[i + 1] = evs[i]
    BY <2>3
  <2>5. \A i \in DOMAIN emitting' : i = 1 \/ (i - 1 \in DOMAIN evs /\ emitting'[i] = evs[i - 1])
    BY <2>3
  <2>6. \A i \in DOMAIN emitting' :
          emitting'[i] = pending_move \/ \E j \in DOMAIN evs : emitting'[i] = evs[j]
    BY <2>3, <2>5
  <2> QED BY <2>1, <2>4, <2>6 DEF OnTheWay
<1> QED BY <1>1, <1>2

(* The user's newest events settle the keys they bear on; of the others     *)
(* nothing changes.                                                         *)
LEMMA NewestSettles ==
  ASSUME InputInv, reliable, NEW evs \in Seq(Events), Emit(evs), emitting = << >>,
         \A i \in DOMAIN evs : evs[i].n = steps + 1,
         UNCHANGED <<net, slot, held>>, NEW k, WillBeHeld(k)'
  PROVE  \/ \E i \in DOMAIN evs : Presses(evs[i], k)
         \/ WillBeHeld(k) /\ \A i \in DOMAIN evs : ~Touches(evs[i], k)
<1> SUFFICES ASSUME \A i \in DOMAIN evs : ~Presses(evs[i], k)
             PROVE  WillBeHeld(k) /\ \A i \in DOMAIN evs : ~Touches(evs[i], k)
  OBVIOUS
<1>0. steps \in Nat
  BY InputConstants DEF InputInv, InputTypeOK
<1>1. \A e \in OnTheWay : e.n \in Nat /\ e.n <= steps
  BY WayFacts
<1>2. /\ OnTheWay \subseteq OnTheWay'
      /\ \A i \in DOMAIN evs : evs[i] \in OnTheWay'
      /\ \A e \in OnTheWay' : e \in OnTheWay \/ (\E i \in DOMAIN evs : e = evs[i]) \/ e.type = "Move"
  BY EmitOnWay
<1>3. CASE \E e \in OnTheWay' :
             Presses(e, k) /\ \A f \in OnTheWay' : Touches(f, k) => f.n <= e.n
  <2>1. PICK e \in OnTheWay' :
          Presses(e, k) /\ \A f \in OnTheWay' : Touches(f, k) => f.n <= e.n
    BY <1>3
  <2>2. e \in OnTheWay
    BY <1>2, <2>1 DEF Presses
  <2>3. \A i \in DOMAIN evs : ~Touches(evs[i], k)
    BY <1>0, <1>1, <1>2, <2>1, <2>2
  <2> QED BY <1>2, <2>1, <2>2, <2>3 DEF WillBeHeld
<1>4. CASE k \in held' /\ \A e \in OnTheWay' : ~Touches(e, k)
  BY <1>2, <1>4 DEF WillBeHeld
<1> QED BY <1>3, <1>4 DEF WillBeHeld

LEMMA SameWay ==
  ASSUME UNCHANGED <<net, slot, emitting, held>>, NEW k, WillBeHeld(k)'
  PROVE  WillBeHeld(k)
<1>1. OnTheWay' = OnTheWay
  BY DEF OnTheWay
<1> QED BY <1>1 DEF WillBeHeld

LEMMA SingleEvent ==
  ASSUME NEW e \in Events
  PROVE  /\ <<e>> \in Seq(Events)
         /\ 1 \in DOMAIN <<e>> /\ \A i \in DOMAIN <<e>> : i = 1 /\ <<e>>[i] = e
OBVIOUS

(* A modifier event of one changed modifier.                                *)
LEMMA SingletonAsSeq ==
  ASSUME NEW S, NEW x, S = {x}
  PROVE  Len(SetToSeq(S)) = 1 /\ SetToSeq(S)[1] = x /\ SetToSeq(S) # << >>
<1>1. IsFiniteSet(S) /\ Cardinality(S) = 1
  BY FS_Singleton
<1>2. ExistsBijection(1 .. 1, S)
  BY <1>1, FS_CardinalityType
<1>3. \E f \in [1 .. 1 -> S] : IsInjective(f)
  BY <1>2 DEF ExistsBijection, Bijection, Injection
<1>4. SetToSeq(S) \in [1 .. 1 -> S]
  BY <1>1, <1>3 DEF SetToSeq
<1>5. ASSUME NEW n \in Nat, NEW f \in [1 .. n -> S]
      PROVE  f \in Seq(S) /\ Len(f) = n
  OBVIOUS
<1>6. SetToSeq(S) \in Seq(S) /\ Len(SetToSeq(S)) = 1
  BY <1>4, <1>5
<1> QED BY <1>4, <1>6

(* The user moves, clicks and types.                                        *)
LEMMA MoveKeepsStuck ==
  ASSUME StuckInv, NothingLost, UserActs, NEW p \in Positions \cup {Outside}, MovePointer(p)
  PROVE  /\ inside' = (at' # Outside) /\ mod_down' = down' \cap Modifiers
         /\ \A k \in Things : WillBeHeld(k)' => k \in MayHold'
<1> USE DEF StuckInv
<1>0. /\ Hears /\ emitting = << >> /\ UNCHANGED <<net, slot, held, down, mod_down>>
      /\ at' = p /\ steps' = steps + 1 /\ inside = (at # Outside)
  BY DEF MovePointer, UserActs, slotVars, injVars, Hears, NothingLost
<1>1. inside' = (at' # Outside) /\ mod_down' = down' \cap Modifiers
  BY <1>0 DEF MovePointer
<1>2. ASSUME NEW k \in Things, WillBeHeld(k)'
      PROVE  k \in MayHold'
  <2>1. CASE p # Outside
    <3>1. UNCHANGED emitting
      BY <1>0, <2>1 DEF MovePointer
    <3> QED BY <1>0, <1>2, <2>1, <3>1, SameWay DEF MayHold
  <2>2. CASE p = Outside /\ inside
    <3>1. Emit(<<Leave(steps')>>)
      BY <1>0, <2>2 DEF MovePointer, Hears
    <3>2. steps' \in Numbers
      BY <1>0, InputConstants DEF UserActs, Numbers, InputInv, InputTypeOK
    <3>3. Leave(steps') \in Events /\ Leave(steps').n = steps + 1 /\ Leave(steps').type = "Leave"
      BY <1>0, <3>2, EventFacts DEF Leave
    <3> DEFINE e == Leave(steps')
    <3> HIDE DEF e
    <3>4. Touches(e, k) /\ ~Presses(e, k)
      BY <3>3 DEF Touches, Presses, e
    <3>5. <<e>> \in Seq(Events) /\ 1 \in DOMAIN <<e>> /\ \A i \in DOMAIN <<e>> : <<e>>[i] = e
      BY <3>3, SingleEvent DEF e
    <3>6. Emit(<<e>>) /\ \A i \in DOMAIN <<e>> : <<e>>[i].n = steps + 1
      BY <3>1, <3>3, <3>5 DEF e
    <3> QED BY <1>0, <1>2, <3>4, <3>5, <3>6, NewestSettles DEF NothingLost
  <2>3. CASE p = Outside /\ ~inside
    <3>1. UNCHANGED <<emitting, at>>
      BY <1>0, <2>3 DEF MovePointer, Ignore
    <3> QED BY <1>0, <1>2, <3>1, SameWay DEF MayHold
  <2> QED BY <2>1, <2>2, <2>3
<1> QED BY <1>1, <1>2

(* An event that tells of a key or button what the user has just done.      *)
LEMMA ToldOfKey ==
  ASSUME StuckInv, NothingLost, emitting = << >>, UNCHANGED <<net, slot, held, at>>,
         NEW x \in Things, NEW e \in Events, Emit(<<e>>), e.n = steps + 1,
         e.type \in {"Button", "Key"}, e.which = x, e.down = (x \in down'),
         \A k \in Things : k # x => (k \in down <=> k \in down'),
         x \in Buttons => at # Outside,
         NEW k \in Things, WillBeHeld(k)'
  PROVE  k \in MayHold'
<1>1. <<e>> \in Seq(Events) /\ 1 \in DOMAIN <<e>> /\ \A i \in DOMAIN <<e>> : <<e>>[i] = e
  BY SingleEvent
<1>2. Presses(e, k) \/ (WillBeHeld(k) /\ ~Touches(e, k))
  BY <1>1, NewestSettles DEF StuckInv, NothingLost
<1>3. CASE Presses(e, k)
  BY <1>3 DEF Presses, MayHold
<1>4. CASE WillBeHeld(k) /\ ~Touches(e, k)
  BY <1>4 DEF StuckInv, Touches, MayHold
<1> QED BY <1>2, <1>3, <1>4

LEMMA ButtonKeepsStuck ==
  ASSUME StuckInv, NothingLost, UserActs, NEW b \in Buttons, ChangeButton(b)
  PROVE  /\ inside' = (at' # Outside) /\ mod_down' = down' \cap Modifiers
         /\ \A k \in Things : WillBeHeld(k)' => k \in MayHold'
<1>0. /\ Hears /\ emitting = << >> /\ UNCHANGED <<net, slot, held, at, inside, mod_down>>
      /\ down' = SymDiff(down, {b}) /\ steps' = steps + 1 /\ b \in Things
      /\ inside = (at # Outside) /\ mod_down = down \cap Modifiers
  BY DEF StuckInv, ChangeButton, UserActs, slotVars, injVars, Hears, NothingLost, Things
<1>1. \A k \in Things : k # b => (k \in down <=> k \in down')
  BY <1>0 DEF SymDiff
<1>2. inside' = (at' # Outside) /\ mod_down' = down' \cap Modifiers
  BY <1>0, InputConstants DEF SymDiff
<1>3. ASSUME NEW k \in Things, WillBeHeld(k)'
      PROVE  k \in MayHold'
  <2>1. CASE at # Outside
    <3> DEFINE d == b \in down'
               e == Button(b, d, at, steps')
    <3>1. Emit(<<e>>)
      BY <1>0, <2>1 DEF ChangeButton
    <3>2. d \in BOOLEAN /\ at \in Positions /\ steps' \in Numbers
      BY <1>0, <2>1, InputConstants DEF UserActs, Numbers, StuckInv, InputInv, InputTypeOK
    <3>3. e \in Events /\ e.n = steps + 1 /\ e.type = "Button" /\ e.which = b /\ e.down = d
      <4> HIDE DEF d
      <4>1. e \in Events /\ e.n = steps'
        BY <3>2, EventFacts
      <4> QED BY <1>0, <4>1 DEF Button
    <3> HIDE DEF e
    <3> QED BY <1>0, <1>1, <1>3, <2>1, <3>1, <3>3, ToldOfKey
  <2>2. CASE at = Outside
    <3>1. UNCHANGED emitting
      BY <1>0, <2>2 DEF ChangeButton, Ignore
    <3>2. k \in MayHold
      BY <1>0, <1>3, <3>1, SameWay DEF StuckInv
    <3> QED BY <1>0, <1>1, <2>2, <3>2 DEF MayHold
  <2> QED BY <2>1, <2>2
<1> QED BY <1>2, <1>3

LEMMA KeyKeepsStuck ==
  ASSUME StuckInv, NothingLost, UserActs, NEW x \in Keys, NEW d \in BOOLEAN, ChangeKey(x, d)
  PROVE  /\ inside' = (at' # Outside) /\ mod_down' = down' \cap Modifiers
         /\ \A k \in Things : WillBeHeld(k)' => k \in MayHold'
<1>0. /\ Hears /\ emitting = << >> /\ UNCHANGED <<net, slot, held, at, inside, mod_down>>
      /\ down' = (IF d THEN down \cup {x} ELSE down \ {x})
      /\ steps' = steps + 1 /\ x \in Things /\ x \notin Buttons /\ x \notin Modifiers
      /\ inside = (at # Outside) /\ mod_down = down \cap Modifiers
  BY InputConstants
  DEF StuckInv, ChangeKey, UserActs, slotVars, injVars, Hears, NothingLost, Things
<1>1. \A k \in Things : k # x => (k \in down <=> k \in down')
  BY <1>0
<1>2. inside' = (at' # Outside) /\ mod_down' = down' \cap Modifiers
  BY <1>0
<1>3. ASSUME NEW k \in Things, WillBeHeld(k)'
      PROVE  k \in MayHold'
  <2> DEFINE e == Key(x, d, steps')
  <2>1. Emit(<<e>>)
    BY <1>0 DEF ChangeKey
  <2>2. steps' \in Numbers
    BY <1>0, InputConstants DEF UserActs, Numbers, StuckInv, InputInv, InputTypeOK
  <2>3. e \in Events /\ e.n = steps + 1 /\ e.type = "Key" /\ e.which = x /\ e.down = d
    BY <1>0, <2>2, EventFacts DEF Key
  <2>4. d = (x \in down')
    BY <1>0
  <2> HIDE DEF e
  <2> QED BY <1>0, <1>1, <1>3, <2>1, <2>3, <2>4, ToldOfKey
<1> QED BY <1>2, <1>3

(* The tap knew all the modifiers but the one that changed.                 *)
LEMMA ModifierKeepsStuck ==
  ASSUME StuckInv, NothingLost, UserActs, NEW m \in Modifiers, ChangeModifier(m)
  PROVE  /\ inside' = (at' # Outside) /\ mod_down' = down' \cap Modifiers
         /\ \A k \in Things : WillBeHeld(k)' => k \in MayHold'
<1> DEFINE now == down' \cap Modifiers
           changed == SetToSeq(SymDiff(mod_down, now))
           d == m \in down'
           e == Key(m, d, steps')
<1>0. /\ Hears /\ emitting = << >> /\ UNCHANGED <<net, slot, held, at, inside>>
      /\ down' = SymDiff(down, {m})
      /\ steps' = steps + 1 /\ m \in Things /\ m \notin Buttons
      /\ inside = (at # Outside) /\ mod_down = down \cap Modifiers
  BY InputConstants
  DEF StuckInv, ChangeModifier, UserActs, slotVars, injVars, Hears, NothingLost, Things
<1>1. \A k \in Things : k # m => (k \in down <=> k \in down')
  BY <1>0 DEF SymDiff
<1>2. SymDiff(mod_down, now) = {m}
  BY <1>0 DEF SymDiff
<1>3. Len(changed) = 1 /\ changed[1] = m /\ changed # << >>
  <2> HIDE DEF now
  <2> QED BY <1>2, SingletonAsSeq
<1>4. inside' = (at' # Outside) /\ mod_down' = down' \cap Modifiers
  BY <1>0 DEF ChangeModifier
<1>5. Emit([i \in 1 .. Len(changed) |-> Key(changed[i], changed[i] \in now, steps')])
  BY <1>0, <1>3 DEF ChangeModifier
<1>6. (m \in now) = d
  OBVIOUS
<1>7. [i \in 1 .. Len(changed) |-> Key(changed[i], changed[i] \in now, steps')] = <<e>>
  <2> HIDE DEF changed, now, d
  <2>1. [i \in 1 .. 1 |-> Key(changed[i], changed[i] \in now, steps')] = <<Key(changed[1], changed[1] \in now, steps')>>
    OBVIOUS
  <2> QED BY <1>3, <1>6, <2>1
<1>8. d \in BOOLEAN /\ steps' \in Numbers
  BY <1>0, InputConstants DEF UserActs, Numbers, StuckInv, InputInv, InputTypeOK
<1>9. e \in Events /\ e.n = steps + 1 /\ e.type = "Key" /\ e.which = m /\ e.down = d
  <2> HIDE DEF d
  <2>1. e \in Events /\ e.n = steps'
    BY <1>8, EventFacts
  <2> QED BY <1>0, <2>1 DEF Key
<1>10. Emit(<<e>>)
  BY <1>5, <1>7
<1>11. ASSUME NEW k \in Things, WillBeHeld(k)'
       PROVE  k \in MayHold'
  <2> HIDE DEF e, changed, now
  <2> QED BY <1>0, <1>1, <1>9, <1>10, <1>11, ToldOfKey
<1> QED BY <1>4, <1>11

LEMMA UserKeepsStuck ==
  ASSUME StuckInv,
         \/ \E p \in Positions \cup {Outside} : MovePointer(p)
         \/ \E b \in Buttons : ChangeButton(b)
         \/ TurnWheel
         \/ \E k \in Keys, d \in BOOLEAN : ChangeKey(k, d)
         \/ \E m \in Modifiers : ChangeModifier(m)
  PROVE  StuckInv'
<1>1. InputInv'
  BY UserStep DEF StuckInv
<1>2. UserActs
  BY DEF MovePointer, ChangeButton, TurnWheel, ChangeKey, ChangeModifier
<1>3. UNCHANGED <<reliable, tap_on, replaced, sender, injector, held>>
  BY <1>2 DEF UserActs, slotVars, injVars
<1>4. down' \subseteq Things
  BY DEF StuckInv, MovePointer, ChangeButton, TurnWheel, ChangeKey, ChangeModifier, Things,
         SymDiff
<1>5. ASSUME NothingLost
      PROVE  /\ inside' = (at' # Outside) /\ mod_down' = down' \cap Modifiers
             /\ \A k \in Things : WillBeHeld(k)' => k \in MayHold'
  <2>1. CASE TurnWheel
    <3>0. /\ emitting = << >> /\ UNCHANGED <<net, slot, held, at, down, inside, mod_down>>
          /\ steps' = steps + 1 /\ steps' \in Numbers
      BY <1>2, <2>1, InputConstants
      DEF TurnWheel, UserActs, slotVars, injVars, Numbers, StuckInv, InputInv, InputTypeOK
    <3>1. ASSUME NEW k \in Things, WillBeHeld(k)'
          PROVE  WillBeHeld(k)
      <4>1. CASE Ignore
        BY <3>0, <3>1, <4>1, SameWay DEF Ignore
      <4>2. CASE Emit(<<Scroll(steps')>>)
        <5> DEFINE e == Scroll(steps')
        <5>1. e \in Events /\ e.n = steps + 1 /\ e.type = "Scroll"
          BY <3>0, EventFacts DEF Scroll
        <5> HIDE DEF e
        <5>2. <<e>> \in Seq(Events) /\ \A i \in DOMAIN <<e>> : <<e>>[i] = e
          BY <5>1, SingleEvent
        <5>3. Emit(<<e>>)
          BY <4>2 DEF e
        <5>4. \A i \in DOMAIN <<e>> : <<e>>[i].n = steps + 1 /\ ~Presses(<<e>>[i], k)
          BY <5>1, <5>2 DEF Presses
        <5>5. InputInv /\ NothingLost /\ k \in Things
          BY <1>5, <3>1 DEF StuckInv
        <5> QED BY <3>0, <3>1, <5>2, <5>3, <5>4, <5>5, NewestSettles DEF NothingLost
      <4> QED BY <2>1, <4>1, <4>2 DEF TurnWheel
    <3> QED BY <1>5, <3>0, <3>1 DEF StuckInv, MayHold
  <2> QED BY <1>2, <1>5, <2>1, MoveKeepsStuck, ButtonKeepsStuck, KeyKeepsStuck,
             ModifierKeepsStuck
<1> QED BY <1>1, <1>3, <1>4, <1>5 DEF StuckInv, NothingLost

(* The injector takes the oldest event: what will be held stays the same or *)
(* gets less.                                                               *)
LEMMA InjectKeepsStuck ==
  ASSUME StuckInv, Inject
  PROVE  StuckInv'
<1>1. InputInv'
  BY InjectStep DEF StuckInv
<1>2. UNCHANGED <<reliable, tap_on, replaced, sender, injector, userVars, tapVars, slot, emitting>>
  BY DEF Inject, slotVars
<1>3. PICK i \in DOMAIN net :
        (reliable => i = 1) /\ net' = RemoveAt(net, i) /\ InjectEvent(net[i])
  BY DEF Inject
<1>4. /\ net \in Seq(Events) /\ Len(net) \in Nat /\ DOMAIN net = 1 .. Len(net)
      /\ net[i] \in Events
  BY <1>3 DEF StuckInv, InputInv, InputTypeOK
<1>5. held' \subseteq Things
  <2>1. net[i].type \in {"Button", "Key"} => net[i].which \in Things
    BY <1>4 DEF Events, Moves, Things
  <2>2. pressed \subseteq Things
    BY DEF StuckInv, InputInv, TracksWhatIsHeld
  <2> QED BY <1>3, <2>1, <2>2 DEF StuckInv, InjectEvent, Press, ReleaseAll
<1>6. ASSUME NothingLost, NEW k \in Things, WillBeHeld(k)'
      PROVE  WillBeHeld(k)
  <2> DEFINE e == net[1]
  <2>1. /\ i = 1 /\ net' = Tail(net) /\ net # << >> /\ InjectEvent(e) /\ e \in OnTheWay
        /\ e \in Events
    <3>1. i = 1
      BY <1>3, <1>6 DEF NothingLost
    <3>2. net # << >> /\ e \in Events /\ InjectEvent(e)
      BY <1>3, <1>4, <3>1
    <3>3. net' = Tail(net)
      BY <1>3, <1>4, <3>1, RemoveFacts
    <3>4. e \in OnTheWay
      BY <1>3, <3>1 DEF OnTheWay
    <3> QED BY <3>1, <3>2, <3>3, <3>4
  <2>2. /\ DOMAIN net' = 1 .. Len(net) - 1
        /\ \A j \in DOMAIN net' : net'[j] = net[j + 1] /\ j + 1 \in DOMAIN net
        /\ \A j \in DOMAIN net : j = 1 \/ (j - 1 \in DOMAIN net' /\ net'[j - 1] = net[j])
    BY <1>4, <2>1
  <2>3. OnTheWay' \subseteq OnTheWay /\ OnTheWay \subseteq OnTheWay' \cup {e}
    BY <1>2, <2>2 DEF OnTheWay
  <2>4. \A f \in OnTheWay : e.n <= f.n
    BY <1>4, <1>6, <2>1 DEF StuckInv, InputInv, FlowInOrder, Sorted, NoLater, AtTap, OnTheWay, NothingLost
  <2>5. held = pressed
    BY <1>6 DEF StuckInv, InputInv, TracksWhatIsHeld, NothingLost
  <2>6. k \in held' => Presses(e, k) \/ (k \in held /\ ~Touches(e, k))
    <3> HIDE DEF e
    <3>1. CASE e.type \in {"Button", "Key"} /\ Press(e.which, e.down)
      BY <3>1 DEF Press, Presses, Touches
    <3>2. CASE e.type = "Leave" /\ \E kept \in SUBSET pressed : ReleaseAll(kept)
      BY <1>6, <2>5, <3>2 DEF ReleaseAll, NothingLost
    <3>3. CASE e.type \in {"Move", "Scroll"} /\ UNCHANGED <<pressed, held>>
      BY <3>3 DEF Touches
    <3> QED BY <2>1, <3>1, <3>2, <3>3 DEF InjectEvent
  <2>7. CASE \E g \in OnTheWay' :
               Presses(g, k) /\ \A f \in OnTheWay' : Touches(f, k) => f.n <= g.n
    <3> HIDE DEF e
    <3> QED BY <2>3, <2>4, <2>7 DEF WillBeHeld
  <2>8. CASE k \in held' /\ \A f \in OnTheWay' : ~Touches(f, k)
    <3> HIDE DEF e
    <3>1. e.n <= e.n
      BY <2>1, <2>4
    <3>2. CASE Presses(e, k)
      BY <2>1, <2>3, <2>8, <3>1, <3>2 DEF WillBeHeld
    <3>3. CASE k \in held /\ ~Touches(e, k)
      BY <2>3, <2>8, <3>3 DEF WillBeHeld
    <3> QED BY <2>6, <2>8, <3>2, <3>3
  <2> QED BY <1>6, <2>7, <2>8 DEF WillBeHeld
<1> QED BY <1>1, <1>2, <1>5, <1>6 DEF StuckInv, NothingLost, userVars, tapVars, MayHold

(* Steps of the channel, where a replacement is a loss; of the timer; and   *)
(* the end of either side.                                                  *)
LEMMA RestKeepsStuck ==
  ASSUME StuckInv,
         \/ FlushTimer \/ EmitNext \/ TakeAndSend \/ Lose \/ ToggleTap \/ SenderEnds
         \/ InjectorEnds \/ DropReleases \/ DestroyDevice \/ UNCHANGED vars
  PROVE  StuckInv'
<1>1. InputInv'
  BY FlushStep, EmitNextStep, SendStep, LoseStep, RestStep DEF StuckInv
<1>2. UNCHANGED <<reliable, userVars, inside, mod_down>>
  BY DEF FlushTimer, EmitNext, TakeAndSend, Lose, ToggleTap, SenderEnds, InjectorEnds,
         DropReleases, DestroyDevice, vars, tapVars
<1>3. reliable' => tap_on'
  BY DEF StuckInv, FlushTimer, EmitNext, TakeAndSend, Lose, ToggleTap, SenderEnds,
         InjectorEnds, DropReleases, DestroyDevice, vars
<1>4. held' \subseteq Things
  BY DEF StuckInv, InputInv, TracksWhatIsHeld, FlushTimer, EmitNext, TakeAndSend, Lose,
         ToggleTap, SenderEnds, InjectorEnds, DropReleases, ReleaseAll, DestroyDevice, vars,
         injVars
<1>5. ASSUME NothingLost', NEW k \in Things, WillBeHeld(k)'
      PROVE  NothingLost /\ WillBeHeld(k)
  <2>1. CASE FlushTimer
    <3>1. NothingLost /\ emitting = << >> /\ Emit(<< >>) /\ UNCHANGED <<net, slot, held>>
      BY <1>5, <2>1 DEF FlushTimer, NothingLost, slotVars, injVars
    <3>2. \E evs \in Seq(Events) : evs = << >>
      BY NoEvents
    <3>3. PICK evs \in Seq(Events) : evs = << >>
      BY <3>2
    <3>4. DOMAIN evs = {}
      BY <3>3
    <3>5. Emit(evs)
      BY <3>1, <3>3
    <3>6. InputInv /\ reliable
      BY <3>1 DEF StuckInv, NothingLost
    <3> HIDE <3>3
    <3>7. (\E i \in DOMAIN evs : Presses(evs[i], k)) \/ WillBeHeld(k)
      BY <1>5, <3>1, <3>4, <3>5, <3>6, NewestSettles
    <3> QED BY <3>1, <3>4, <3>7
  <2>2. CASE EmitNext
    <3>1. /\ NothingLost /\ slot = Nothing /\ emitting # << >> /\ UNCHANGED <<net, held>>
          /\ slot' = Head(emitting) /\ emitting' = Tail(emitting)
      BY <1>5, <2>2 DEF EmitNext, NothingLost, injVars
    <3>2. /\ emitting \in Seq(Events) /\ slot' = emitting[1] /\ slot' # Nothing
          /\ Len(emitting) \in Nat
          /\ DOMAIN emitting = 1 .. Len(emitting) /\ DOMAIN emitting' = 1 .. Len(emitting) - 1
          /\ \A i \in DOMAIN emitting' : emitting'[i] = emitting[i + 1]
      <4>1. emitting \in Seq(Events) /\ emitting[1] \in Events
        BY <3>1 DEF StuckInv, InputInv, InputTypeOK
      <4>2. emitting[1] # Nothing
        BY <4>1, NothingIsNoEvent
      <4> QED BY <3>1, <4>1, <4>2
    <3>3. \A i \in DOMAIN emitting : i = 1 \/ (i - 1 \in DOMAIN emitting' /\ emitting'[i - 1] = emitting[i])
      BY <3>2
    <3>4. 1 \in DOMAIN emitting /\ \A i \in DOMAIN emitting' : i + 1 \in DOMAIN emitting
      BY <3>1, <3>2
    <3>5. OnTheWay' = OnTheWay
      <4>1. \A i \in DOMAIN emitting :
              emitting[i] = slot' \/ \E j \in DOMAIN emitting' : emitting[i] = emitting'[j]
        BY <3>2, <3>3
      <4>2. \A j \in DOMAIN emitting' : \E i \in DOMAIN emitting : emitting'[j] = emitting[i]
        BY <3>2, <3>4
      <4>3. \E i \in DOMAIN emitting : slot' = emitting[i]
        BY <3>2, <3>4
      <4>4. OnTheWay' \subseteq OnTheWay
        BY <3>1, <4>2, <4>3 DEF OnTheWay
      <4>5. OnTheWay \subseteq OnTheWay'
        BY <3>1, <3>2, <4>1 DEF OnTheWay
      <4> QED BY <4>4, <4>5
    <3> QED BY <1>5, <3>1, <3>5 DEF WillBeHeld
  <2>3. CASE TakeAndSend
    <3>1. /\ NothingLost /\ slot # Nothing /\ slot' = Nothing /\ net' = Append(net, slot)
          /\ UNCHANGED <<emitting, held>> /\ net \in Seq(Events) /\ slot \in Events
      BY <1>5, <2>3 DEF TakeAndSend, NothingLost, injVars, StuckInv, InputInv, InputTypeOK
    <3>2. /\ Len(net) \in Nat /\ DOMAIN net = 1 .. Len(net) /\ DOMAIN net' = 1 .. Len(net) + 1
          /\ net'[Len(net) + 1] = slot /\ \A i \in DOMAIN net : net'[i] = net[i]
      BY <3>1
    <3>3. \A i \in DOMAIN net' : i \in DOMAIN net \/ i = Len(net) + 1
      BY <3>2
    <3>4. \A i \in DOMAIN net : i \in DOMAIN net'
      BY <3>2
    <3>5. Len(net) + 1 \in DOMAIN net'
      BY <3>2
    <3>6. OnTheWay' = OnTheWay
      BY <3>1, <3>2, <3>3, <3>4, <3>5 DEF OnTheWay
    <3> QED BY <1>5, <3>1, <3>6 DEF WillBeHeld
  <2>4. CASE Lose \/ ToggleTap \/ SenderEnds \/ InjectorEnds \/ DropReleases \/ DestroyDevice
    BY <1>5, <2>4 DEF Lose, ToggleTap, SenderEnds, InjectorEnds, DropReleases, DestroyDevice,
                      NothingLost, StuckInv
  <2>5. CASE UNCHANGED vars
    <3>1. NothingLost /\ UNCHANGED <<net, slot, emitting, held>>
      BY <1>5, <2>5 DEF vars, slotVars, injVars, NothingLost
    <3> QED BY <1>5, <3>1, SameWay
  <2> QED BY <2>1, <2>2, <2>3, <2>4, <2>5
<1>6. NothingLost' => NothingLost
  BY DEF NothingLost, FlushTimer, EmitNext, TakeAndSend, Lose, ToggleTap, SenderEnds,
         InjectorEnds, DropReleases, DestroyDevice, vars, slotVars, injVars
<1> QED BY <1>1, <1>2, <1>3, <1>4, <1>5, <1>6 DEF StuckInv, userVars, MayHold

LEMMA StuckStep ==
  ASSUME StuckInv, [Next]_vars
  PROVE  StuckInv'
BY UserKeepsStuck, InjectKeepsStuck, RestKeepsStuck DEF Next

(* Stuck keys: as long as no event is lost on the way, what is held on the  *)
(* initiator's machine once everything has arrived is held by the user      *)
(* still, buttons only on the stream.                                       *)
THEOREM NothingStaysStuck == Spec => []NothingStuck
<1>1. StuckInv => NothingStuck
  <2> SUFFICES ASSUME StuckInv, reliable, ~replaced, AllThrough, NEW k \in held
               PROVE  k \in MayHold
    BY DEF NothingStuck
  <2>1. OnTheWay = {}
    BY DEF AllThrough, OnTheWay
  <2>2. NothingLost /\ k \in Things /\ WillBeHeld(k)
    BY <2>1 DEF StuckInv, NothingLost, AllThrough, WillBeHeld
  <2> QED BY <2>2 DEF StuckInv
<1> QED BY <1>1, InitStuckInv, StuckStep, PTL DEF Spec

=============================================================================
