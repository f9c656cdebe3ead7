\* Two frames, units with all or some of two parameter sets, one reset of the stream
\* to other sets, the command line and the app.
SPECIFICATION Spec
CONSTANTS
  None = None
  Kinds = {sps, pps}
  Contents = {c1, c2}
  Streams <- MCStreams
  ResetBound = 1
  FrameBound = 2
INVARIANTS FreedMemoryUntouched
PROPERTIES LatestIsDrawn EndsTogether DecodedByOwnSets
\* Once everything has ended there is nothing left to do.
CHECK_DEADLOCK FALSE
