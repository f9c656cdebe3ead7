----------------------------- MODULE AppSession -----------------------------
(***************************************************************************)
(* The desktop app's one session slot: apps/desktop/src-tauri/src/lib.rs.   *)
(* Three kinds of thread meet at it: the commands, which run on the main    *)
(* thread one at a time; a thread for each role; and a cleaner that empties *)
(* the slot.  Its lock is held only to look or to store, so each lock is a  *)
(* step of its own.  The window's events, which change nothing here, are    *)
(* left out.                                                                *)
(***************************************************************************)
EXTENDS Naturals

CONSTANTS
  MaxSessions,   \* bound: sessions started
  NoSession

ASSUME AppConstants == MaxSessions \in Nat \ {0} /\ NoSession \notin Nat

Sessions == 1 .. MaxSessions
Kinds == {"target", "initiator"}

VARIABLES
  slot,        \* the session in AppState, or NoSession
  started,     \* sessions stored so far: they are numbered
  cancelled,   \* sessions whose cancel token has fired
  kind,        \* the role of each session
  role,        \* its thread: "unborn", "starting", "accepting", "running",
               \* "finishing", "gone"
  cmd,         \* the start command: "idle", "asked", "checked", "stored"
  asked,       \* the role it starts
  cleaner      \* "sleeping", "clearing"

vars == <<slot, started, cancelled, kind, role, cmd, asked, cleaner>>
sessionVars == <<started, cancelled, kind, role>>

Init ==
  /\ slot = NoSession
  /\ started = 0
  /\ cancelled = {}
  /\ kind = [s \in Sessions |-> "target"]
  /\ role = [s \in Sessions |-> "unborn"]
  /\ cmd = "idle"
  /\ asked = "target"
  /\ cleaner = "sleeping"

-----------------------------------------------------------------------------
(* start_target and start_initiator, called from the window.                *)
AskStart(k) ==
  /\ cmd = "idle"
  /\ started < MaxSessions
  /\ cmd' = "asked"
  /\ asked' = k
  /\ UNCHANGED <<slot, sessionVars, cleaner>>

(* The slot must be empty...                                                *)
CheckNothing ==   \* faulty variant: the slot is not looked at
  /\ cmd = "asked"
  /\ cmd' = "checked"
  /\ UNCHANGED <<slot, sessionVars, asked, cleaner>>

CheckSlot ==
  /\ cmd = "asked"
  /\ cmd' = IF slot = NoSession THEN "checked" ELSE "idle"
  /\ UNCHANGED <<slot, sessionVars, asked, cleaner>>

(* ...the presenter created, or the address parsed or discovered...         *)
PreparationFails ==
  /\ cmd = "checked"
  /\ cmd' = "idle"
  /\ UNCHANGED <<slot, sessionVars, asked, cleaner>>

(* ...then the session is stored with a new token...                        *)
StoreSession ==
  /\ cmd = "checked"
  /\ cmd' = "stored"
  /\ started' = started + 1
  /\ slot' = started'
  /\ kind' = [kind EXCEPT ![started'] = asked]
  /\ UNCHANGED <<cancelled, role, asked, cleaner>>

(* ...and its thread spawned.  Should that fail, the session stays stored.  *)
SpawnRole ==
  /\ cmd = "stored"
  /\ cmd' = "idle"
  /\ \/ role' = [role EXCEPT ![started] = "starting"]
     \/ UNCHANGED role
  /\ UNCHANGED <<slot, started, cancelled, kind, asked, cleaner>>

StartCommand == CheckSlot \/ PreparationFails \/ StoreSession \/ SpawnRole

CancelsNothing(sl) == {}   \* faulty variant
CancelsSlot(sl) == {sl} \ {NoSession}

(* stop_session.                                                            *)
Stop ==
  /\ cmd = "idle"
  /\ cancelled' = cancelled \cup CancelsSlot(slot)
  /\ UNCHANGED <<slot, started, kind, role, cmd, asked, cleaner>>

-----------------------------------------------------------------------------
(* The role threads.                                                        *)
Alive(s) == role[s] \in {"starting", "accepting", "running", "finishing"}

RoleTo(s, r) ==
  /\ role' = [role EXCEPT ![s] = r]
  /\ UNCHANGED <<slot, started, cancelled, kind, cmd, asked, cleaner>>

(* A target binds the control port, which another may hold still.           *)
PortHeld ==
  \E s \in Sessions : kind[s] = "target" /\ role[s] \in {"accepting", "running"}

TargetBinds(s) ==
  /\ role[s] = "starting" /\ kind[s] = "target"
  /\ ~PortHeld
  /\ RoleTo(s, "accepting")

(* accept() returns when a peer connects, and not before.                   *)
PeerArrives(s) == role[s] = "accepting" /\ RoleTo(s, "running")

InitiatorConnects(s) ==
  /\ role[s] = "starting" /\ kind[s] = "initiator"
  /\ RoleTo(s, "running")

(* run_target or run_initiator returns, on its token or an error.           *)
RoleReturns(s) ==
  /\ role[s] \in {"starting", "accepting", "running"}
  /\ RoleTo(s, "finishing")

(* At its end the thread fires the token of the session in the slot,        *)
(* whichever that is.                                                       *)
RoleLeaves(s) ==
  /\ role[s] = "finishing"
  /\ role' = [role EXCEPT ![s] = "gone"]
  /\ cancelled' = cancelled \cup CancelsSlot(slot)
  /\ UNCHANGED <<slot, started, kind, cmd, asked, cleaner>>

-----------------------------------------------------------------------------
(* spawn_slot_cleaner: every 500 ms, a session whose token has fired is     *)
(* taken out.  The lock is let go between the look and the clearing.        *)
PollAnything(sl) == sl # NoSession   \* faulty variant
MayClear(sl) == sl \in cancelled

CleanerLooks ==
  /\ cleaner = "sleeping"
  /\ MayClear(slot)
  /\ cleaner' = "clearing"
  /\ UNCHANGED <<slot, sessionVars, cmd, asked>>

CleanerClears ==
  /\ cleaner = "clearing"
  /\ cleaner' = "sleeping"
  /\ slot' = NoSession
  /\ UNCHANGED <<sessionVars, cmd, asked>>

Cleaner == CleanerLooks \/ CleanerClears

-----------------------------------------------------------------------------
Next ==
  \/ \E k \in Kinds : AskStart(k)
  \/ StartCommand
  \/ Stop
  \/ \E s \in Sessions :
       \/ TargetBinds(s)
       \/ PeerArrives(s)
       \/ InitiatorConnects(s)
       \/ RoleReturns(s)
       \/ RoleLeaves(s)
  \/ Cleaner

Spec == Init /\ [][Next]_vars

(* The cleaner's loop and a command go on, and a thread whose role has      *)
(* returned runs to its end.  No role need ever return.                     *)
Fairness ==
  /\ WF_vars(StartCommand)
  /\ WF_vars(Cleaner)
  /\ \A s \in Sessions : WF_vars(RoleLeaves(s))

FairSpec == Spec /\ Fairness

-----------------------------------------------------------------------------
(* The types of the app's state; only sessions that exist are cancelled.    *)
TypeOK ==
  /\ slot \in (1 .. started) \cup {NoSession}
  /\ started \in 0 .. MaxSessions
  /\ cancelled \subseteq 1 .. started
  /\ kind \in [Sessions -> Kinds]
  /\ role \in [Sessions -> {"unborn", "starting", "accepting", "running", "finishing", "gone"}]
  /\ cmd \in {"idle", "asked", "checked", "stored"}
  /\ asked \in Kinds
  /\ cleaner \in {"sleeping", "clearing"}

(* The lock is let go between checking the slot and storing into it, and    *)
(* between the cleaner's look and its clearing: still, no session is ever   *)
(* overwritten, and none is taken out whose token has not fired.            *)
SlotKeepsItsSession ==
  [][slot # NoSession /\ slot' # slot => slot' = NoSession /\ slot \in cancelled]_vars

(* Nothing runs that Stop cannot reach: a live role is that of the session  *)
(* in the slot, or its token has fired already.                             *)
StopReachesEveryRole ==
  \A s \in Sessions : Alive(s) => slot = s \/ s \in cancelled

(* A session that was stopped, ended or failed leaves the slot, so that     *)
(* another can start ("fixes 'session in progress'").                       *)
SlotFreed ==
  \A s \in Sessions : s \in cancelled \/ role[s] = "finishing" ~> slot # s

=============================================================================
