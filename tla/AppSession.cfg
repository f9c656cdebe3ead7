\* Three sessions, of either role, started, stopped and restarted.
SPECIFICATION FairSpec
CONSTANTS
  MaxSessions = 3
  NoSession = NoSession
INVARIANTS StopReachesEveryRole
PROPERTIES SlotKeepsItsSession SlotFreed
\* The app may be left alone.
CHECK_DEADLOCK FALSE
