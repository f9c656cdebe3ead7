\* Rates 1 to 6, either encoder; a step up after two clean reports; one refused change.
SPECIFICATION Spec
CONSTANTS
  Base = 4
  CLEAN_STREAK = 2
  None = None
  Encoders = {"VideoToolbox", "x264"}
  RefusalBound = 1
INVARIANTS IdrRequestKept
PROPERTIES RateReached LadderIsPatient
\* The loop ends for good.
CHECK_DEADLOCK FALSE
