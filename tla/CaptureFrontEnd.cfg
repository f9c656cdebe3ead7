\* Two sizes, so that a renegotiation differs from the size announced; three
\* frames, so that one is overtaken in the slot; a cycle of three frames, so
\* that the converter may take them one by one, at once or leave some.
SPECIFICATION FrontEndSpec
CONSTANTS
  None = None
  Sizes = {small, large}
  Zero = Zero
  FrameBound = 3
  CycleBound = 3
INVARIANTS QuitFindsTheLoop StateOutlivesCallbacks NothingLeftBehind
PROPERTIES NoAnswerMissed DropsEnd
\* A capturer that is gone has nothing left to do.
CHECK_DEADLOCK FALSE
