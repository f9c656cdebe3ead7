--------------------------- MODULE FramePumpProofs ---------------------------
(***************************************************************************)
(* What the latest-wins channel guarantees the encode loop, for any limit   *)
(* and any number of frames.                                                *)
(***************************************************************************)
EXTENDS FramePump, TLAPS

(* A pending frame is the newest one and was not received; the frame last   *)
(* received is the generation last seen.                                    *)
SlotIsNewest ==
  /\ slot # 0 => slot = gen /\ seen < gen
  /\ frame = seen

(* While the receiver holds the lock past its look at the slot, the slot is *)
(* empty; only the source closes, and it is the last thing it does.         *)
LookedUnderLock ==
  /\ rx_pc \in {"closure", "deadline"} => slot = 0
  /\ closed => src_pc = "closed"

PumpInv == TypeOK /\ SlotIsNewest /\ LookedUnderLock /\ ClosureIsFinal

LEMMA InitPumpInv == Init => PumpInv
<1> SUFFICES ASSUME Init PROVE PumpInv
  OBVIOUS
<1>1. kind \in {"paced", "callback"} /\ limit \in Nat \cup {NoLimit}
  BY PumpConstants DEF PumpConstants, Init
<1>2. stop \in BOOLEAN /\ closed \in BOOLEAN /\ expired \in BOOLEAN
  BY DEF Init
<1>3. src_pc \in {"testing", "producing", "closing", "closed"}
  BY DEF Init
<1> QED
  BY <1>1, <1>2, <1>3
  DEF Init, PumpInv, TypeOK, SlotIsNewest, LookedUnderLock, ClosureIsFinal

(* The source's steps.                                                      *)
LEMMA SourceStep == PumpInv /\ Source => PumpInv'
<1> SUFFICES ASSUME PumpInv, Source PROVE PumpInv'
  OBVIOUS
<1> USE DEF PumpInv, TypeOK, SlotIsNewest, LookedUnderLock, ClosureIsFinal
<1>1. CASE SourceTests
  BY <1>1 DEF SourceTests, chanVars, rxVars
<1>2. CASE Send
  BY <1>2 DEF Send, SlotLocked, NextGen, Published, rxVars
<1>3. CASE SourceFails
  BY <1>3 DEF SourceFails, chanVars, rxVars
<1>4. CASE Close
  BY <1>4 DEF Close, rxVars
<1>5. CASE DropCapturer
  BY <1>5 DEF DropCapturer, chanVars, rxVars
<1> QED
  BY <1>1, <1>2, <1>3, <1>4, <1>5 DEF Source

(* The steps inside recv_timeout.                                           *)
LEMMA ReceiveStep == PumpInv /\ Receive => PumpInv'
<1> SUFFICES ASSUME PumpInv, Receive PROVE PumpInv'
  OBVIOUS
<1> USE DEF PumpInv, TypeOK, SlotIsNewest, LookedUnderLock, ClosureIsFinal
<1>1. CASE LookForFrame
  BY <1>1 DEF LookForFrame, HasNewer, Return
<1>2. CASE LookForClosure
  BY <1>2 DEF LookForClosure, Return, chanVars
<1>3. CASE LookAtDeadline
  BY <1>3 DEF LookAtDeadline, Return, chanVars
<1>4. CASE WakeUp
  BY <1>4 DEF WakeUp, chanVars
<1> QED
  BY <1>1, <1>2, <1>3, <1>4 DEF Receive

(* The rest of the encode loop, the clock and the stop flag.                *)
LEMMA LoopStep ==
  ASSUME PumpInv,
         \/ LoopTests \/ LoopEndsIfClosed \/ Encode \/ EncodeFails
         \/ Teardown \/ DeadlinePasses \/ StopRequested
  PROVE  PumpInv'
<1> USE DEF PumpInv, TypeOK, SlotIsNewest, LookedUnderLock, ClosureIsFinal
<1>1. CASE LoopTests
  <2>1. CASE stop
    BY <1>1, <2>1 DEF LoopTests, chanVars, rxVars
  <2>2. CASE ~stop
    BY <1>1, <2>2 DEF LoopTests, chanVars, rxVars
  <2> QED BY <2>1, <2>2
<1>2. CASE LoopEndsIfClosed
  BY <1>2 DEF LoopEndsIfClosed, AfterNone, chanVars, rxVars
<1>3. CASE Encode \/ EncodeFails
  <2>1. stop' \in BOOLEAN
    BY <1>3 DEF Encode, EncodeFails
  <2> QED
    BY <1>3, <2>1 DEF Encode, EncodeFails, chanVars, rxVars
<1>4. CASE Teardown
  BY <1>4 DEF Teardown, chanVars, rxVars
<1>5. CASE DeadlinePasses
  BY <1>5 DEF DeadlinePasses, chanVars
<1>6. CASE StopRequested
  BY <1>6 DEF StopRequested, chanVars, rxVars
<1> QED
  BY <1>1, <1>2, <1>3, <1>4, <1>5, <1>6

LEMMA NextPumpInv == PumpInv /\ [Next]_vars => PumpInv'
<1> SUFFICES ASSUME PumpInv, [Next]_vars PROVE PumpInv'
  OBVIOUS
<1>1. CASE Next
  BY <1>1, SourceStep, ReceiveStep, LoopStep DEF Next, EncodeLoop
<1>2. CASE UNCHANGED vars
  BY <1>2 DEF vars, chanVars, rxVars, PumpInv, TypeOK, SlotIsNewest,
              LookedUnderLock, ClosureIsFinal
<1> QED
  BY <1>1, <1>2

LEMMA PumpInvariant == Spec => []PumpInv
  BY InitPumpInv, NextPumpInv, PTL DEF Spec

(* The variables of the channel and the two threads keep their types.       *)
THEOREM PumpTypeCorrect == Spec => []TypeOK
  BY PumpInvariant, PTL DEF PumpInv

(* recv_timeout reports closure only for a channel that is drained, however *)
(* its steps interleave with the source's.                                  *)
THEOREM ClosureMeansDrained == Spec => []ClosureIsFinal
  BY PumpInvariant, PTL DEF PumpInv

(* Every frame the encoder gets is the newest sent and newer than the last. *)
THEOREM LatestWinsChannel == Spec => NewestOnce
<1>1. ASSUME PumpInv, [Next]_vars
      PROVE  result' = "frame" /\ rx_pc # "out" /\ rx_pc' = "out"
               => frame' = gen /\ frame' > frame
  <2> SUFFICES ASSUME result' = "frame", rx_pc # "out", rx_pc' = "out"
               PROVE  frame' = gen /\ frame' > frame
    OBVIOUS
  <2>1. LookForFrame
    BY <1>1 DEF Next, Source, EncodeLoop, Receive, SourceTests, Send, SourceFails,
                Close, DropCapturer, LoopTests, LookForClosure, LookAtDeadline,
                WakeUp, Return, LoopEndsIfClosed, Encode, EncodeFails, Teardown,
                DeadlinePasses, StopRequested, vars, rxVars
  <2> QED
    BY <1>1, <2>1 DEF LookForFrame, Return, HasNewer, PumpInv, TypeOK, SlotIsNewest
<1>2. PumpInv /\ [Next]_vars
        => [result' = "frame" /\ rx_pc # "out" /\ rx_pc' = "out" =>
              frame' = gen /\ frame' > frame]_vars
  BY <1>1
<1> QED
  BY <1>2, PumpInvariant, PTL DEF Spec, NewestOnce
=============================================================================
