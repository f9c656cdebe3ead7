\* Up to four frames, with and without --frames, from either source.
SPECIFICATION FairSpec
CONSTANTS
  NoLimit = NoLimit
  Kinds = {"paced", "callback"}
  Limits = {2, NoLimit}
  FrameBound = 4
INVARIANTS ClosureIsFinal
PROPERTIES NewestOnce PendingIsTaken PumpStops
\* The pump stops for good.
CHECK_DEADLOCK FALSE
