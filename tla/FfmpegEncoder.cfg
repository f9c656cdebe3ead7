\* Does a call return whole access units?
SPECIFICATION Spec
CONSTANTS
  FrameBound = 3
INVARIANT CompleteUnits
\* The encoder may be gone.
CHECK_DEADLOCK FALSE
