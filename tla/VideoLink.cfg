\* Two units of one to three fragments; a send may fail; the ring holds three
\* bytes, less than a unit of three fragments, so eviction runs inside a unit;
\* a unit of two fragments just meets the byte cap, one of three exceeds it.
SPECIFICATION LinkSpec
CONSTANTS
  SeqSpace = 8
  MAX_FRAGS_PER_FRAME = 3
  IDR_DROP_THRESHOLD = 2
  MAX_GRACE_RENACKS = 1
  Units = {1, 2}
  MAX_FRAME_BYTES = 3
  PayloadSizes = {1, 2}
  NoSeq = NoSeq
  NoUnit = NoUnit
  FullBytes = 2
  TailBytes = 1
  RingBytes = 3
  UnitSizes = {1, 2, 3}
  MaxUnits = 2
  FailBudget = 1
  Window = 3
  LossBudget = 0
  MaxFeedback = 1
  Duplicates = FALSE
  LowLatency = FALSE
INVARIANTS BufferSound RingSound
PROPERTIES NothingVanishes CountedOnce
\* The encode loop ends on a failed send, and then nothing may be in flight.
CHECK_DEADLOCK FALSE
