-------------------------- MODULE AppSessionProofs --------------------------
(***************************************************************************)
(* The slot keeps its session, and Stop reaches every role, for any number  *)
(* of sessions.                                                             *)
(***************************************************************************)
EXTENDS AppSession, TLAPS

(* What each thread still knows after it let go of the lock: the command    *)
(* that found the slot empty, that it is empty; the command that stored,    *)
(* that its session is there or was cancelled; the cleaner, that the token  *)
(* of the session it saw has fired.  (And the bound leaves room for the     *)
(* session being started.)                                                  *)
AskedHolds == cmd \in {"asked", "checked"} => started < MaxSessions
CheckedHolds == cmd = "checked" => slot = NoSession
StoredHolds == cmd = "stored" => started # 0 /\ (slot = started \/ started \in cancelled)
ClearingHolds == cleaner = "clearing" => slot \in cancelled
Unstarted == \A s \in Sessions : s > started => role[s] = "unborn"

SlotInv ==
  /\ TypeOK
  /\ AskedHolds
  /\ CheckedHolds
  /\ StoredHolds
  /\ ClearingHolds
  /\ Unstarted
  /\ StopReachesEveryRole

(* Initially nothing has been started.                                      *)
LEMMA SlotInit == Init => SlotInv
BY AppConstants
DEF Init, SlotInv, TypeOK, AskedHolds, CheckedHolds, StoredHolds, ClearingHolds,
    Unstarted, StopReachesEveryRole, Alive, Sessions, Kinds

(* Every step of a command, a role or the cleaner keeps the invariant.      *)
LEMMA SlotStep == SlotInv /\ [Next]_vars => SlotInv'
<1>. SUFFICES ASSUME SlotInv, [Next]_vars PROVE SlotInv'
  OBVIOUS
<1>. USE AppConstants DEF SlotInv, TypeOK, AskedHolds, CheckedHolds, StoredHolds, ClearingHolds,
       Unstarted, StopReachesEveryRole, Alive, Sessions, Kinds, sessionVars, CancelsSlot
<1>1. ASSUME NEW k \in Kinds, AskStart(k) PROVE SlotInv'
  BY <1>1 DEF AskStart
<1>2. CASE CheckSlot
  BY <1>2 DEF CheckSlot
<1>3. CASE PreparationFails
  BY <1>3 DEF PreparationFails
<1>4. CASE StoreSession
  BY <1>4 DEF StoreSession
<1>5. CASE SpawnRole
  BY <1>5 DEF SpawnRole
<1>6. CASE Stop
  BY <1>6 DEF Stop
<1>7. ASSUME NEW s \in Sessions, TargetBinds(s) PROVE SlotInv'
  BY <1>7 DEF TargetBinds, RoleTo
<1>8. ASSUME NEW s \in Sessions, PeerArrives(s) PROVE SlotInv'
  BY <1>8 DEF PeerArrives, RoleTo
<1>9. ASSUME NEW s \in Sessions, InitiatorConnects(s) PROVE SlotInv'
  BY <1>9 DEF InitiatorConnects, RoleTo
<1>10. ASSUME NEW s \in Sessions, RoleReturns(s) PROVE SlotInv'
  BY <1>10 DEF RoleReturns, RoleTo
<1>11. ASSUME NEW s \in Sessions, RoleLeaves(s) PROVE SlotInv'
  BY <1>11 DEF RoleLeaves
<1>12. CASE CleanerLooks
  BY <1>12 DEF CleanerLooks, MayClear
<1>13. CASE CleanerClears
  BY <1>13 DEF CleanerClears
<1>14. CASE UNCHANGED vars
  BY <1>14 DEF vars
<1>. QED
  BY <1>1, <1>2, <1>3, <1>4, <1>5, <1>6, <1>7, <1>8, <1>9, <1>10, <1>11, <1>12, <1>13, <1>14 DEF Next, StartCommand, Cleaner

(* Whatever a command, a role and the cleaner know after letting go of the  *)
(* slot's lock stays true until they use it; so the types, and Stop's reach *)
(* over every live role, hold in every reachable state.                     *)
THEOREM StopReachesAll == Spec => [](TypeOK /\ StopReachesEveryRole)
<1>1. SlotInv => TypeOK /\ StopReachesEveryRole
  BY DEF SlotInv
<1>. QED
  BY SlotInit, SlotStep, <1>1, PTL DEF Spec

(* A command never overwrites a session stored by another, and the cleaner  *)
(* never takes out a session whose token has not fired.                     *)
THEOREM SlotSafe == Spec => SlotKeepsItsSession
<1>1. SlotInv /\ [Next]_vars =>
        [slot # NoSession /\ slot' # slot => slot' = NoSession /\ slot \in cancelled]_vars
  <2>. SUFFICES ASSUME SlotInv, Next, slot # NoSession, slot' # slot
                PROVE  slot' = NoSession /\ slot \in cancelled
    BY DEF vars
  <2>1. \A s \in Sessions : ~ (TargetBinds(s) \/ PeerArrives(s) \/ InitiatorConnects(s)
                                 \/ RoleReturns(s) \/ RoleLeaves(s))
    BY DEF TargetBinds, PeerArrives, InitiatorConnects, RoleReturns, RoleLeaves, RoleTo
  <2>2. ~StoreSession
    BY DEF SlotInv, CheckedHolds, StoreSession
  <2>3. CleanerClears
    BY <2>1, <2>2 DEF Next, AskStart, StartCommand, CheckSlot, PreparationFails, SpawnRole,
       Stop, Cleaner, CleanerLooks
  <2>. QED
    BY <2>3 DEF SlotInv, ClearingHolds, CleanerClears
<1>. QED
  BY SlotInit, SlotStep, <1>1, PTL DEF Spec, SlotKeepsItsSession
=============================================================================
