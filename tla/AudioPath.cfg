\* Four packets, numbered across the wrap: a gap can be concealed and then
\* skipped.  The ring is full after two frames.
SPECIFICATION Spec
CONSTANTS
  Capacity = 2
  Silence = 0
  OverlapBound = 1
  RunAhead = 0
  SeqSpace = 12
  DepthFrames = 2
  MAX_CONSECUTIVE_CONCEALS = 1
  None = None
  FirstSent = 10
  MaxSent = 14
  FaultBound = 1
  ChunkLen = 1
  Wants = {2}
INVARIANTS FifoUnlessRaced NothingStranded
PROPERTIES PlaysForward BufferedIsPlayed
\* The sink may end, and with everything sent and played nothing is left to do.
CHECK_DEADLOCK FALSE
