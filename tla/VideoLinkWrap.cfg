\* frame_seq wraps: 4 values, 5 units.  Everything in flight stays there until
\* it is too old, so it may arrive late, again, out of order or never.
SPECIFICATION LinkSpec
CONSTANTS
  SeqSpace = 4
  MAX_FRAGS_PER_FRAME = 2
  IDR_DROP_THRESHOLD = 1
  MAX_GRACE_RENACKS = 0
  Units = {1, 2, 3, 4, 5}
  MAX_FRAME_BYTES = 2
  PayloadSizes = {1}
  NoSeq = NoSeq
  NoUnit = NoUnit
  FullBytes = 1
  TailBytes = 1
  RingBytes = 1
  UnitSizes = {2}
  MaxUnits = 5
  FailBudget = 0
  Window = 1
  LossBudget = 0
  MaxFeedback = 0
  Duplicates = TRUE
  LowLatency = FALSE
INVARIANTS SerialOrderIsSendOrder WholeUnits
PROPERTIES DeliveryInOrder
