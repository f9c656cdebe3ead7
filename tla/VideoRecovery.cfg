\* Two messages are lost; a frame gets one NACK and one re-NACK.
SPECIFICATION FairLinkSpec
CONSTANTS
  SeqSpace = 8
  MAX_FRAGS_PER_FRAME = 3
  IDR_DROP_THRESHOLD = 2
  MAX_GRACE_RENACKS = 1
  Units = {1, 2}
  MAX_FRAME_BYTES = 3
  PayloadSizes = {1}
  NoSeq = NoSeq
  NoUnit = NoUnit
  FullBytes = 1
  TailBytes = 1
  RingBytes = 3
  UnitSizes = {2, 3}
  MaxUnits = 2
  FailBudget = 1
  Window = 3
  LossBudget = 2
  MaxFeedback = 1
  Duplicates = FALSE
  LowLatency = TRUE
PROPERTIES NewestIsShown BufferDrains
\* The encode loop ends on a failed send, and then nothing may be in flight.
CHECK_DEADLOCK FALSE
