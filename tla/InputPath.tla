------------------------------ MODULE InputPath ------------------------------
(***************************************************************************)
(* Keyboard and pointer input, from the target's event tap to the           *)
(* initiator's machine: tl-macos-input/src/tap.rs, the sender thread and    *)
(* the injection thread (thunderlink-engine imp.rs and imp_linux.rs), and   *)
(* the injectors of tl-macos-input and tl-linux-input.                      *)
(*                                                                          *)
(* What the tap emits passes through a latest-wins channel (module          *)
(* FramePump) and then through UDP.  A batch's sequence number is written   *)
(* and never read, so it is left out; so are coordinates beyond a few       *)
(* positions, key codes, and the modifier mask that key events carry.       *)
(***************************************************************************)
EXTENDS Naturals, Sequences, FiniteSets, SequencesExt

CONSTANTS
  Keys, Modifiers, Buttons,   \* Caps Lock counts as a modifier
  Positions,                  \* places inside the streamed rectangle
  Outside, Nothing,
  UserSteps                   \* bound: what the user does

(* What changes at a modifier event is told key by key: the flags are few.  *)
ASSUME InputConstants ==
  /\ UserSteps \in Nat
  /\ Keys \cap Modifiers = {} /\ Buttons \cap (Keys \cup Modifiers) = {}
  /\ IsFiniteSet(Modifiers)
  /\ Outside \notin Positions /\ Nothing \notin Positions

VARIABLES
  platform,   \* of the initiator: "macos", "linux"; chosen at the start
  reliable,   \* no datagram is lost or overtaken and no call fails; chosen too
  steps,      \* what the user did so far: events are numbered by it
  at,         \* the target's pointer
  down,       \* held on the target's machine
  tap_on,     \* the system has not disabled the tap
  inside,     \* Normalizer::inside
  pending_move,
  mod_down,
  emitting,   \* events of the tap's callback still to be put in the channel
  slot,       \* the channel
  last,       \* ghost: the event put there last
  replaced,   \* ghost: an event was put there in place of another
  sender,     \* "up", "gone"
  net,        \* datagrams under way, in order
  injector,   \* "up", on Linux then "dropped" and "closing", "gone"
  pressed,    \* pressed_keys and pressed_buttons
  held,       \* held, by injection, on the initiator's machine
  pos,        \* its pointer
  latest      \* ghost: the number of the last event injected

userVars == <<steps, at, down>>
tapVars == <<inside, pending_move, mod_down>>
injVars == <<injector, pressed, held, pos, latest>>
slotVars == <<slot, last, replaced>>
vars == <<platform, reliable, userVars, tap_on, tapVars, emitting, slotVars, sender,
          net, injVars>>

Move(p, n) == [type |-> "Move", pos |-> p, n |-> n]
Button(b, d, p, n) == [type |-> "Button", which |-> b, down |-> d, pos |-> p, n |-> n]
Scroll(n) == [type |-> "Scroll", n |-> n]
Key(k, d, n) == [type |-> "Key", which |-> k, down |-> d, n |-> n]
Leave(n) == [type |-> "Leave", n |-> n]

Init ==
  /\ platform \in {"macos", "linux"}
  /\ reliable \in BOOLEAN
  /\ steps = 0 /\ at = Outside /\ down = {}
  /\ tap_on = TRUE
  /\ inside = FALSE /\ pending_move = Nothing /\ mod_down = {}
  /\ emitting = << >>
  /\ slot = Nothing /\ last = Nothing /\ replaced = FALSE
  /\ sender = "up"
  /\ net = << >>
  /\ injector = "up" /\ pressed = {} /\ held = {} /\ pos = Nothing /\ latest = 0

-----------------------------------------------------------------------------
(* The tap.  Its callback and its timer run on one thread; the system hands *)
(* it the next event when it is done with the last.                         *)
Hears == tap_on /\ sender = "up"

(* flush_pending, and then the events themselves.                           *)
EmitFlushedLate(evs) ==   \* faulty variant
  /\ emitting' = evs \o (IF pending_move = Nothing THEN << >> ELSE <<pending_move>>)
  /\ pending_move' = Nothing

Emit(evs) ==
  /\ emitting' = (IF pending_move = Nothing THEN << >> ELSE <<pending_move>>) \o evs
  /\ pending_move' = Nothing

Ignore == UNCHANGED <<pending_move, emitting>>

UserActs ==
  /\ steps < UserSteps
  /\ emitting = << >>
  /\ steps' = steps + 1
  /\ UNCHANGED <<platform, reliable, tap_on, slotVars, sender, net, injVars>>

(* feed_pointer: moves wait in pending_move; leaving is told once.          *)
MovePointer(p) ==
  /\ UserActs
  /\ at' = p
  /\ inside' = IF Hears THEN p # Outside ELSE inside
  /\ IF Hears /\ p # Outside THEN pending_move' = Move(p, steps') /\ UNCHANGED emitting
     ELSE IF Hears /\ inside THEN Emit(<<Leave(steps')>>)
     ELSE Ignore
  /\ UNCHANGED <<down, mod_down>>

(* feed_button and feed_scroll: only inside the rectangle.                  *)
ChangeButton(b) ==
  /\ UserActs
  /\ down' = SymDiff(down, {b})
  /\ IF Hears /\ at # Outside THEN Emit(<<Button(b, b \in down', at, steps')>>) ELSE Ignore
  /\ UNCHANGED <<at, inside, mod_down>>

TurnWheel ==
  /\ UserActs
  /\ IF Hears /\ at # Outside THEN Emit(<<Scroll(steps')>>) ELSE Ignore
  /\ UNCHANGED <<at, down, inside, mod_down>>

(* feed_key: wherever the pointer is.  A key held down repeats.             *)
ChangeKey(k, d) ==
  /\ UserActs
  /\ d \/ k \in down
  /\ down' = IF d THEN down \cup {k} ELSE down \ {k}
  /\ IF Hears THEN Emit(<<Key(k, d, steps')>>) ELSE Ignore
  /\ UNCHANGED <<at, inside, mod_down>>

(* feed_flags_changed: the modifiers that differ from those it knew.        *)
ChangeModifier(m) ==
  LET now == down' \cap Modifiers
      changed == SetToSeq(SymDiff(mod_down, now))
  IN  /\ UserActs
      /\ down' = SymDiff(down, {m})
      /\ IF Hears /\ changed # << >>
         THEN Emit([i \in 1 .. Len(changed) |-> Key(changed[i], changed[i] \in now, steps')])
         ELSE Ignore
      /\ mod_down' = IF Hears THEN now ELSE mod_down
      /\ UNCHANGED <<at, inside>>

(* flush_timer, every 2 ms.                                                 *)
FlushTimer ==
  /\ emitting = << >>
  /\ pending_move # Nothing
  /\ Emit(<< >>)
  /\ UNCHANGED <<platform, reliable, userVars, tap_on, inside, mod_down, slotVars,
                 sender, net, injVars>>

EmitIfEmpty ==   \* faulty variant: the oldest wins
  /\ emitting # << >>
  /\ slot' = IF slot = Nothing THEN Head(emitting) ELSE slot
  /\ last' = Head(emitting)
  /\ replaced' = (replaced \/ slot # Nothing)
  /\ emitting' = Tail(emitting)
  /\ UNCHANGED <<platform, reliable, userVars, tap_on, tapVars, sender, net, injVars>>

(* Each event replaces the one still in the channel.                        *)
EmitNext ==
  /\ emitting # << >>
  /\ slot' = Head(emitting)
  /\ last' = Head(emitting)
  /\ replaced' = (replaced \/ slot # Nothing)
  /\ emitting' = Tail(emitting)
  /\ UNCHANGED <<platform, reliable, userVars, tap_on, tapVars, sender, net, injVars>>

(* The system disables a tap it finds slow; the tap enables itself again.   *)
ToggleTap ==
  /\ ~tap_on \/ ~reliable
  /\ tap_on' = ~tap_on
  /\ UNCHANGED <<platform, reliable, userVars, tapVars, emitting, slotVars, sender, net,
                 injVars>>

-----------------------------------------------------------------------------
(* The sender thread and the network.                                       *)
TakeAndSend ==
  /\ sender = "up"
  /\ slot # Nothing
  /\ slot' = Nothing
  /\ net' = Append(net, slot)
  /\ UNCHANGED <<platform, reliable, userVars, tap_on, tapVars, emitting, last, replaced,
                 sender, injVars>>

(* Its loop ends on the stop flag, and the tap with it.                     *)
SenderEnds ==
  /\ sender = "up"
  /\ sender' = "gone"
  /\ UNCHANGED <<platform, reliable, userVars, tap_on, tapVars, emitting, slotVars, net,
                 injVars>>

(* A datagram is lost; or its sending, or the posting of its event, fails.  *)
Lose ==
  /\ ~reliable
  /\ \E i \in DOMAIN net : net' = RemoveAt(net, i)
  /\ UNCHANGED <<platform, reliable, userVars, tap_on, tapVars, emitting, slotVars,
                 sender, injVars>>

-----------------------------------------------------------------------------
(* The injection thread.  inject() posts the event and tracks what is down. *)

ReleaseAllKeys(kept) ==   \* faulty variant: the buttons are forgotten
  /\ kept \subseteq pressed \ Buttons
  /\ reliable => kept = {}
  /\ pressed' = {}
  /\ held' = (held \ (pressed \ Buttons)) \cup kept

(* release_all forgets everything, and releases what it can.                *)
ReleaseAll(kept) ==
  /\ kept \subseteq pressed
  /\ reliable => kept = {}
  /\ pressed' = {}
  /\ held' = (held \ pressed) \cup kept

Press(k, d) ==
  /\ pressed' = IF d THEN pressed \cup {k} ELSE pressed \ {k}
  /\ held' = IF d THEN held \cup {k} ELSE held \ {k}

InjectEvent(e) ==
  \/ e.type \in {"Button", "Key"} /\ Press(e.which, e.down)
  \/ e.type = "Leave" /\ \E kept \in SUBSET pressed : ReleaseAll(kept)
  \/ e.type \in {"Move", "Scroll"} /\ UNCHANGED <<pressed, held>>

Inject ==
  /\ injector = "up"
  /\ \E i \in DOMAIN net :
       /\ reliable => i = 1
       /\ net' = RemoveAt(net, i)
       /\ InjectEvent(net[i])
       /\ pos' = IF net[i].type = "Move" THEN net[i].pos ELSE pos
       /\ latest' = net[i].n
  /\ UNCHANGED <<platform, reliable, userVars, tap_on, tapVars, emitting, slotVars,
                 sender, injector>>

(* Its loop ends on the stop flag, and the injector is dropped.  That of    *)
(* macOS has no Drop: it forgets what is down and lets nothing go.          *)
InjectorEnds ==
  /\ injector = "up"
  /\ injector' = IF platform = "linux" THEN "dropped" ELSE "gone"
  /\ UNCHANGED <<platform, reliable, userVars, tap_on, tapVars, emitting, slotVars,
                 sender, net, pressed, held, pos, latest>>

(* That of Linux calls release_all, whose failure it ignores.               *)
DropReleases ==
  /\ injector = "dropped"
  /\ injector' = "closing"
  /\ \E kept \in SUBSET pressed : ReleaseAll(kept)
  /\ UNCHANGED <<platform, reliable, userVars, tap_on, tapVars, emitting, slotVars,
                 sender, net, pos, latest>>

(* Its device is destroyed, and the kernel releases what is still held.     *)
DestroyDevice ==
  /\ injector = "closing"
  /\ injector' = "gone"
  /\ held' = {}
  /\ UNCHANGED <<platform, reliable, userVars, tap_on, tapVars, emitting, slotVars,
                 sender, net, pressed, pos, latest>>

-----------------------------------------------------------------------------
Next ==
  \/ \E p \in Positions \cup {Outside} : MovePointer(p)
  \/ \E b \in Buttons : ChangeButton(b)
  \/ TurnWheel
  \/ \E k \in Keys, d \in BOOLEAN : ChangeKey(k, d)
  \/ \E m \in Modifiers : ChangeModifier(m)
  \/ FlushTimer
  \/ EmitNext
  \/ ToggleTap
  \/ TakeAndSend
  \/ SenderEnds
  \/ Lose
  \/ Inject
  \/ InjectorEnds
  \/ DropReleases
  \/ DestroyDevice

Spec == Init /\ [][Next]_vars

(* Tap, sender and injector are loops.  The user does as he likes, and      *)
(* either side may end.                                                     *)
Fairness ==
  /\ WF_vars(FlushTimer)
  /\ WF_vars(EmitNext)
  /\ WF_vars(TakeAndSend)
  /\ WF_vars(Inject)

FairSpec == Spec /\ Fairness

-----------------------------------------------------------------------------
Things == Keys \cup Modifiers \cup Buttons
Numbers == 1 .. UserSteps
Moves == [type : {"Move"}, pos : Positions, n : Numbers]
Events ==
  Moves
  \cup [type : {"Button"}, which : Buttons, down : BOOLEAN, pos : Positions, n : Numbers]
  \cup [type : {"Key"}, which : Keys \cup Modifiers, down : BOOLEAN, n : Numbers]
  \cup [type : {"Scroll", "Leave"}, n : Numbers]

ASSUME NothingIsNoEvent == Nothing \notin Events

(* Events may be dropped on the way, but on a link that keeps order none    *)
(* takes effect before one the user made earlier: a coalesced move goes out *)
(* ahead of the click that follows it.                                      *)
InUsersOrder == [][reliable => latest' >= latest]_vars

(* The event emitted last is not lost: latest wins.                         *)
Applied(e) ==
  CASE e = Nothing -> TRUE
    [] e.type = "Move" -> pos = e.pos
    [] e.type \in {"Button", "Key"} -> (e.which \in held) = e.down
    [] e.type = "Leave" -> held = {}
    [] OTHER -> latest = e.n

Quiet == steps = UserSteps /\ emitting = << >> /\ pending_move = Nothing

LastWordArrives ==
  reliable /\ Quiet ~> Applied(last) \/ sender = "gone" \/ injector # "up"

(* What the user may hold down on the other machine: a button only as long  *)
(* as the pointer is on the stream.                                         *)
MayHold == IF at = Outside THEN down \ Buttons ELSE down

(* Both sides run, and nothing is on the way from the one to the other.     *)
AllThrough ==
  /\ sender = "up" /\ injector = "up"
  /\ emitting = << >> /\ slot = Nothing /\ net = << >>

(* Stuck keys.  If no event was lost on the way, everything held on the     *)
(* initiator's machine is held by the user still: what he let go outside    *)
(* the stream, where buttons are not forwarded, or while the pointer was    *)
(* leaving, is released by Leave (tap.rs feed_button and feed_pointer,      *)
(* inject.rs release_all).                                                  *)
NothingStuck == reliable /\ ~replaced /\ AllThrough => held \subseteq MayHold
=============================================================================
