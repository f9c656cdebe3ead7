----------------------------- MODULE AudioProofs -----------------------------
(***************************************************************************)
(* Theorems about the audio path, for every ring size, sequence space,      *)
(* buffer depth, concealment limit and number of packets, and however the   *)
(* network loses, repeats and reorders.                                     *)
(*                                                                          *)
(* The invariant has two halves that meet only in the number of samples     *)
(* written.  RingInv: until a steal overlaps a pop, everything the two      *)
(* threads touch lies within Capacity positions, and positions less than    *)
(* Capacity apart have different slots.  JitterInv: every number the        *)
(* receiver handles lies within half of the sequence space, so that the     *)
(* wrapping comparisons of the code are comparisons of packet numbers.      *)
(***************************************************************************)
EXTENDS AudioPath, NaturalsInduction, WellFoundedInduction, TLAPS

-----------------------------------------------------------------------------
(* The inductive invariant.                                                 *)

Sample == Nat \cup {Silence}

RingTypeOK ==
  /\ data \in [0 .. Capacity - 1 -> Sample]
  /\ head \in Nat /\ tail \in Nat /\ dropped \in Nat
  /\ w_pc \in {"idle", "stealing", "copying"}
  /\ w_chunk \in Seq(Nat)
  /\ w_head \in Nat /\ w_done \in 0 .. Len(w_chunk)
  /\ r_pc \in {"idle", "loading", "copying"}
  /\ r_want \in Nat /\ r_tail \in Nat /\ r_head \in Nat /\ r_avail \in Nat
  /\ got \in Seq(Sample) /\ Len(got) <= r_avail
  /\ r_pc # "copying" => got = << >>
  /\ overlaps \in Nat
  /\ raced \in BOOLEAN

(* The chunk being written continues what is in the ring.                   *)
ChunkFollows ==
  /\ written = tail + Len(w_chunk)
  /\ \A i \in 1 .. Len(w_chunk) : w_chunk[i] = tail + i
  /\ Len(w_chunk) <= Capacity
  /\ w_pc = "idle" => w_chunk = << >>
  /\ w_pc # "copying" => w_done = 0

(* The positions that hold samples: the published ones not yet taken, and   *)
(* behind them those of the chunk already copied in.                        *)
HeldPositions == head .. tail + w_done - 1

RingOrdered ==
  /\ head <= tail /\ tail - head <= Capacity
  /\ \A position \in HeldPositions : data[Slot(position)] = position + 1
  /\ w_pc = "stealing" => w_head <= head /\ tail - w_head <= Capacity
  /\ w_pc = "copying" => tail + Len(w_chunk) - head <= Capacity
  /\ r_pc # "idle" => head <= r_tail /\ r_tail <= tail
  /\ r_pc = "copying" =>
       /\ r_head = head
       /\ r_head + r_avail <= r_tail
       /\ \A i \in 1 .. Len(got) : got[i] = r_head + i

RingInv == RingTypeOK /\ ChunkFollows /\ (~raced => RingOrdered)

(* Every number the receiver computes with.                                 *)
Numbers == FirstSent .. MaxSent + MAX_CONSECUTIVE_CONCEALS
Packets == FirstSent .. MaxSent - 1

JitterTypeOK ==
  /\ sent \in Nat /\ sent >= FirstSent
  /\ net \subseteq Packets
  /\ anchor # None => \E packet \in Packets : anchor = SeqOf(packet)
  /\ next_seq \in 0 .. SeqSpace - 1 \cup {None}
  /\ consecutive_conceals \in 0 .. MAX_CONSECUTIVE_CONCEALS
  /\ stats \in [played : Nat, concealed : Nat, dropped_late : Nat, dropped_gap : Nat]
  /\ started \in BOOLEAN
  /\ last_played \in Packets \cup {None}

(* A packet lies under its own number.                                      *)
SlotsKeyed ==
  /\ slots = [seq \in DOMAIN slots |-> slots[seq]]
  /\ \A seq \in DOMAIN slots : slots[seq] \in Packets /\ SeqOf(slots[seq]) = seq
  /\ anchor = None => DOMAIN slots = {} /\ ~started

NotStarted ==
  /\ next_seq = None
  /\ last_played = None
  /\ stats.played + stats.concealed + stats.dropped_gap = 0

(* The packet due is ahead of everything played.  Concealing can take it    *)
(* past the newest packet, but not far.                                     *)
Playing ==
  /\ first \in Packets
  /\ due \in FirstSent .. MaxSent + consecutive_conceals
  /\ last_played # None => last_played < due
  /\ NothingStranded

JitterInv ==
  JitterTypeOK /\ SlotsKeyed /\ (~started => NotStarted) /\ (started => Playing)

AudioInv == RingInv /\ JitterInv

-----------------------------------------------------------------------------
(* Division with a constant divisor: what the provers know of it, and what  *)
(* the two modules need.                                                    *)
LEMMA DivMod ==
  ASSUME NEW a \in Int, NEW c \in Nat \ {0}
  PROVE  /\ (a % c) \in 0 .. c - 1
         /\ a \div c \in Int
         /\ a = c * (a \div c) + (a % c)
OBVIOUS

LEMMA NextMultiple ==
  ASSUME NEW c \in Nat \ {0}, NEW p \in Int, NEW q \in Int, p < q
  PROVE  c * q >= c * p + c
<1>1. c * q = c * p + c * (q - p)
  OBVIOUS
<1>2. c * (q - p) >= c
  OBVIOUS
<1> QED BY <1>1, <1>2

(* The remainder is the only number below c a multiple of c away.           *)
LEMMA ModUnique ==
  ASSUME NEW a \in Int, NEW c \in Nat \ {0}, NEW q \in Int, NEW r \in 0 .. c - 1,
         a = c * q + r
  PROVE  a % c = r
<1> DEFINE p == a \div c
<1>1. (a % c) \in 0 .. c - 1 /\ p \in Int /\ a = c * p + (a % c)
  BY DivMod
<1>2. c * p \in Int /\ c * q \in Int
  BY <1>1
<1> HIDE DEF p
<1>3. CASE p < q
  BY <1>1, <1>2, <1>3, NextMultiple
<1>4. CASE p > q
  <2>1. c * p >= c * q + c
    BY <1>1, <1>4, NextMultiple
  <2> QED BY <2>1, <1>1, <1>2
<1>5. CASE p = q
  BY <1>1, <1>5
<1> QED BY <1>1, <1>3, <1>4, <1>5

(* A number of either sign less than c away from 0.                         *)
LEMMA ModNear ==
  ASSUME NEW c \in Nat \ {0}, NEW a \in Int, -c <= a, a < c
  PROVE  a % c = IF a >= 0 THEN a ELSE a + c
<1>1. CASE a >= 0
  <2>1. a \in 0 .. c - 1 /\ a = c * 0 + a
    BY <1>1
  <2> QED BY <2>1, <1>1, ModUnique
<1>2. CASE a < 0
  <2>1. a + c \in 0 .. c - 1 /\ a = c * (-1) + (a + c)
    BY <1>2
  <2>2. a % c = a + c
    BY <2>1, ModUnique
  <2> QED BY <2>2, <1>2
<1> QED BY <1>1, <1>2

(* Remainders may be taken early or late.                                   *)
LEMMA ModShift ==
  ASSUME NEW c \in Nat \ {0}, NEW a \in Int, NEW k \in Int
  PROVE  (a + c * k) % c = a % c
<1> DEFINE p == a \div c
           r == a % c
<1>1. r \in 0 .. c - 1 /\ p \in Int /\ a = c * p + r
  BY DivMod
<1> HIDE DEF p, r
<1>2. a + c * k = c * (p + k) + r /\ p + k \in Int /\ a + c * k \in Int
  BY <1>1
<1>3. (a + c * k) % c = r
  BY <1>1, <1>2, ModUnique
<1> QED BY <1>3 DEF r

LEMMA ModOfMod ==
  ASSUME NEW c \in Nat \ {0}, NEW a \in Int, NEW k \in Int
  PROVE  ((a % c) + k) % c = (a + k) % c
<1> DEFINE p == a \div c
           r == a % c
<1>1. r \in 0 .. c - 1 /\ p \in Int /\ a = c * p + r
  BY DivMod
<1> HIDE DEF p, r
<1>2. a + k = (r + k) + c * p /\ r + k \in Int
  BY <1>1
<1>3. ((r + k) + c * p) % c = (r + k) % c
  BY <1>1, <1>2, ModShift
<1> QED BY <1>2, <1>3 DEF r

LEMMA ModOfDifference ==
  ASSUME NEW c \in Nat \ {0}, NEW a \in Int, NEW b \in Int
  PROVE  ((a % c) - (b % c)) % c = (a - b) % c
<1> DEFINE q == b \div c
           s == b % c
           r == a % c
<1>1. s \in 0 .. c - 1 /\ q \in Int /\ b = c * q + s
  BY DivMod
<1>2. r \in Int /\ - s \in Int /\ a - b \in Int
  BY <1>1, DivMod
<1>3. \A k \in Int : ((a % c) + k) % c = (a + k) % c
  BY ModOfMod
<1>4. \A k \in Int : ((a - b) + c * k) % c = (a - b) % c
  BY <1>2, ModShift
<1> HIDE DEF q, s, r
<1>5. (a - b) + c * q = a + (- s)
  BY <1>1
<1>6. r + (- s) = r - s
  BY <1>1, <1>2
<1>7. (r - s) % c = (a - b) % c
  <2>1. (r + (- s)) % c = (a + (- s)) % c
    BY <1>2, <1>3 DEF r
  <2>2. ((a - b) + c * q) % c = (a - b) % c
    BY <1>1, <1>4
  <2> QED BY <2>1, <2>2, <1>5, <1>6
<1> QED BY <1>7 DEF r, s

(* Positions less than Capacity apart have different slots.                 *)
LEMMA SlotsDiffer ==
  ASSUME NEW p \in Nat, NEW q \in Nat, p < q, q - p < Capacity
  PROVE  Slot(p) # Slot(q)
<1>1. Capacity \in Nat \ {0} /\ p \in Int /\ q \in Int /\ q - p \in Int
  BY RingConstants
<1>2. ((q % Capacity) - (p % Capacity)) % Capacity = (q - p) % Capacity
  BY <1>1, ModOfDifference
<1>3. (q - p) % Capacity = q - p /\ 0 % Capacity = 0
  <2>1. - Capacity <= q - p /\ q - p >= 0 /\ - Capacity <= 0 /\ 0 < Capacity
    BY <1>1
  <2>2. (q - p) % Capacity = IF q - p >= 0 THEN q - p ELSE q - p + Capacity
    BY <1>1, <2>1, ModNear
  <2>3. 0 % Capacity = 0
    BY <1>1
  <2> QED BY <2>1, <2>2, <2>3
<1>4. (q % Capacity) \in Int /\ (p % Capacity) \in Int
  BY <1>1, DivMod
<1>5. ASSUME q % Capacity = p % Capacity PROVE FALSE
  <2>1. (q % Capacity) - (p % Capacity) = 0
    BY <1>4, <1>5
  <2>2. q - p = 0
    BY <2>1, <1>2, <1>3
  <2> QED BY <2>2
<1> QED BY <1>5 DEF Slot

LEMMA SlotType == \A p \in Nat : Slot(p) \in 0 .. Capacity - 1
BY RingConstants, DivMod DEF Slot

-----------------------------------------------------------------------------
(* The ring: the steps of a push, ...                                       *)
LEMMA ChunkType ==
  ASSUME written \in Nat
  PROVE  /\ Chunk \in Seq(Nat) /\ Len(Chunk) = ChunkLen
         /\ Len(Chunk) <= Capacity
         /\ \A i \in 1 .. Len(Chunk) : Chunk[i] = written + i
BY PathConstants, RingConstants DEF Chunk

LEMMA PushBeginRingInv ==
  ASSUME RingInv, PushBegin(Chunk), written' = written + ChunkLen
  PROVE  RingInv'
<1> USE DEF RingInv, PushBegin, popVars
<1>1. w_chunk = << >> /\ written = tail /\ w_done = 0
  BY DEF ChunkFollows, RingTypeOK
<1>2. w_chunk' = Chunk
  BY <1>1, ChunkType, PathConstants, RingConstants DEF RingTypeOK
<1>3. RingTypeOK'
  BY <1>1, <1>2, ChunkType DEF RingTypeOK
<1>4. ChunkFollows'
  BY <1>1, <1>2, ChunkType DEF RingTypeOK, ChunkFollows
<1>5. ASSUME ~raced' PROVE RingOrdered'
  BY <1>1, <1>5, RingConstants DEF RingOrdered, HeldPositions, RingTypeOK, Slot
<1> QED BY <1>3, <1>4, <1>5

(* Without a race a steal leaves room for the whole chunk: head is the one  *)
(* the producer loaded, or nothing needed stealing even from that one.      *)
LEMMA StealRingInv ==
  ASSUME RingInv, Steal, UNCHANGED written
  PROVE  RingInv'
<1> USE DEF RingInv, Steal, popVars
<1>1. Stolen \in Nat
  BY RingConstants DEF Stolen, ToSteal, Free, RingTypeOK
<1>2. RingTypeOK'
  BY <1>1 DEF RingTypeOK
<1>3. ChunkFollows'
  BY DEF ChunkFollows, RingTypeOK
<1>4. ASSUME ~raced' PROVE RingOrdered'
  <2>1. RingOrdered
    BY <1>4 DEF RingTypeOK
  <2>2. CASE Stolen = 0
    <3>1. head' = head
      BY <2>2 DEF RingTypeOK
    <3>2. tail + Len(w_chunk) - head <= Capacity
      BY <2>1, <2>2, RingConstants
      DEF RingOrdered, RingTypeOK, Stolen, ToSteal, Free
    <3> QED BY <2>1, <3>1, <3>2 DEF RingOrdered, HeldPositions, RingTypeOK, Slot
  <2>3. CASE Stolen > 0
    <3>1. r_pc = "idle" /\ head = w_head
      BY <1>4, <2>3
    <3>2. Stolen = Len(w_chunk) - (Capacity - (tail - head))
      BY <2>3, <3>1 DEF Stolen, ToSteal, Free
    <3>3. tail + Len(w_chunk) - head' = Capacity /\ head' >= head
      BY <3>2, <1>1, RingConstants DEF RingTypeOK
    <3>4. head' <= tail
      BY <3>3, RingConstants DEF ChunkFollows, RingTypeOK
    <3>5. w_done = 0
      BY DEF ChunkFollows
    <3> QED BY <2>1, <3>1, <3>3, <3>4, <3>5, RingConstants
            DEF RingOrdered, HeldPositions, RingTypeOK, Slot
  <2> QED BY <1>1, <2>2, <2>3
<1> QED BY <1>2, <1>3, <1>4

LEMMA CopyInRingInv ==
  ASSUME RingInv, CopyIn, UNCHANGED written
  PROVE  RingInv'
<1> USE DEF RingInv, CopyIn, popVars
<1> DEFINE next == tail + w_done
<1>1. next \in Nat /\ Slot(next) \in 0 .. Capacity - 1
  <2>1. next \in Nat
    BY DEF RingTypeOK
  <2> HIDE DEF next
  <2> QED BY <2>1, SlotType
<1>2. w_done + 1 \in 1 .. Len(w_chunk) /\ w_chunk[w_done + 1] \in Nat
  BY DEF RingTypeOK
<1>3. RingTypeOK'
  BY <1>1, <1>2 DEF RingTypeOK, Sample
<1>4. ChunkFollows'
  BY DEF ChunkFollows, RingTypeOK
<1>5. ASSUME ~raced' PROVE RingOrdered'
  <2>1. RingOrdered
    BY <1>5 DEF RingTypeOK
  <2>2. HeldPositions' = head .. next /\ HeldPositions = head .. next - 1
    BY DEF HeldPositions, RingTypeOK
  <2>3. next - head < Capacity
    BY <2>1, <1>2, RingConstants DEF RingOrdered, RingTypeOK
  <2>4. data'[Slot(next)] = next + 1
    BY <1>1, <1>2 DEF RingTypeOK, ChunkFollows
  <2>5. ASSUME NEW position \in head .. next - 1
        PROVE  data'[Slot(position)] = position + 1
    <3>1. position \in Nat /\ position < next /\ next - position < Capacity
      BY <2>3, <2>5, <1>1, RingConstants DEF RingTypeOK
    <3>2. Slot(position) # Slot(next) /\ Slot(position) \in 0 .. Capacity - 1
      BY <3>1, <1>1, SlotsDiffer, SlotType
    <3>3. data[Slot(position)] = position + 1
      BY <2>1, <2>2, <2>5 DEF RingOrdered
    <3> QED BY <3>2, <3>3 DEF RingTypeOK
  <2>6. \A position \in HeldPositions' : data'[Slot(position)] = position + 1
    <3> TAKE position \in HeldPositions'
    <3>1. position = next \/ position \in head .. next - 1
      BY <2>2, <1>1 DEF RingTypeOK
    <3> QED BY <3>1, <2>4, <2>5
  <2>7. \A position : Slot(position)' = Slot(position)
    BY DEF Slot
  <2> QED BY <2>1, <2>6 DEF RingOrdered, Slot
<1> QED BY <1>3, <1>4, <1>5

LEMMA PublishRingInv ==
  ASSUME RingInv, Publish, UNCHANGED written
  PROVE  RingInv'
<1> USE DEF RingInv, Publish, Copied, popVars
<1>1. RingTypeOK'
  BY DEF RingTypeOK
<1>2. ChunkFollows'
  <2>1. w_chunk' = << >> /\ Len(<< >>) = 0 /\ written' = tail' + 0
    BY DEF ChunkFollows, RingTypeOK
  <2> QED BY <2>1, RingConstants DEF ChunkFollows
<1>3. ASSUME ~raced' PROVE RingOrdered'
  <2>1. RingOrdered
    BY <1>3 DEF RingTypeOK
  <2>2. HeldPositions' = HeldPositions
    BY DEF HeldPositions, RingTypeOK
  <2> QED BY <2>1, <2>2, RingConstants DEF RingOrdered, RingTypeOK, Slot
<1> QED BY <1>1, <1>2, <1>3

(* ... the steps of a pop, ...                                              *)
LEMMA PopBeginRingInv ==
  ASSUME RingInv, NEW want \in Wants, PopBegin(want), UNCHANGED written
  PROVE  RingInv'
<1> USE DEF RingInv, PopBegin, pushVars
<1>1. want \in Nat
  BY PathConstants
<1>2. RingTypeOK'
  BY <1>1 DEF RingTypeOK
<1>3. ChunkFollows'
  BY DEF ChunkFollows
<1>4. ASSUME ~raced' PROVE RingOrdered'
  BY <1>4 DEF RingOrdered, HeldPositions, RingTypeOK, Slot
<1> QED BY <1>2, <1>3, <1>4

LEMMA PopLoadHeadRingInv ==
  ASSUME RingInv, PopLoadHead, UNCHANGED written
  PROVE  RingInv'
<1> USE DEF RingInv, PopLoadHead, PopReturns, pushVars
<1>1. Readable \in Nat
  BY DEF Readable, RingTypeOK
<1>2. got' = << >>
  BY DEF RingTypeOK
<1>3. RingTypeOK'
  <2>1. CASE Readable = 0
    BY <1>2, <2>1 DEF RingTypeOK
  <2>2. CASE Readable # 0
    BY <1>1, <1>2, <2>2 DEF RingTypeOK
  <2> QED BY <2>1, <2>2
<1>4. ChunkFollows'
  BY DEF ChunkFollows
<1>5. ASSUME ~raced' PROVE RingOrdered'
  <2>1. RingOrdered
    BY <1>5 DEF RingTypeOK
  <2>2. head <= r_tail => head + Readable <= r_tail
    BY DEF Readable, RingTypeOK
  <2>3. CASE Readable = 0
    BY <2>1, <2>3 DEF RingOrdered, HeldPositions, RingTypeOK, Slot
  <2>4. CASE Readable # 0
    <3>1. r_head' = head /\ r_avail' = Readable /\ r_tail' = r_tail /\ r_pc' = "copying"
      BY <2>4
    <3> QED BY <2>1, <2>2, <3>1, <1>2 DEF RingOrdered, HeldPositions, RingTypeOK, Slot
  <2> QED BY <2>3, <2>4
<1> QED BY <1>3, <1>4, <1>5

LEMMA CopyOutRingInv ==
  ASSUME RingInv, CopyOut, UNCHANGED written
  PROVE  RingInv'
<1> USE DEF RingInv, CopyOut, pushVars
<1> DEFINE position == r_head + Len(got)
<1>1. position \in Nat /\ data[Slot(position)] \in Sample
  <2>1. position \in Nat
    BY DEF RingTypeOK
  <2> HIDE DEF position
  <2>2. Slot(position) \in 0 .. Capacity - 1
    BY <2>1, SlotType
  <2> QED BY <2>1, <2>2 DEF RingTypeOK
<1>2. RingTypeOK'
  BY <1>1 DEF RingTypeOK
<1>3. ChunkFollows'
  BY DEF ChunkFollows
<1>4. ASSUME ~raced' PROVE RingOrdered'
  <2>1. RingOrdered
    BY <1>4 DEF RingTypeOK
  <2>2. position \in HeldPositions
    BY <2>1 DEF RingOrdered, HeldPositions, RingTypeOK
  <2>3. data[Slot(position)] = position + 1
    BY <2>1, <2>2 DEF RingOrdered
  <2>4. \A i \in 1 .. Len(got') : got'[i] = r_head + i
    <3>1. Len(got') = Len(got) + 1 /\ got'[Len(got) + 1] = data[Slot(position)]
      BY <1>1 DEF RingTypeOK
    <3>2. \A i \in 1 .. Len(got) : got'[i] = got[i] /\ got[i] = r_head + i
      BY <2>1, <1>1 DEF RingOrdered, RingTypeOK
    <3>3. position + 1 = r_head + (Len(got) + 1)
      BY DEF RingTypeOK
    <3> QED BY <2>3, <3>1, <3>2, <3>3 DEF RingTypeOK
  <2> QED BY <2>1, <2>4 DEF RingOrdered, HeldPositions, RingTypeOK, Slot
<1> QED BY <1>2, <1>3, <1>4

LEMMA ConsumeRingInv ==
  ASSUME RingInv, Consume, UNCHANGED written
  PROVE  RingInv'
<1> USE DEF RingInv, Consume, PopReturns, pushVars
<1>1. RingTypeOK'
  BY DEF RingTypeOK
<1>2. ChunkFollows'
  BY DEF ChunkFollows
<1>3. ASSUME ~raced' PROVE RingOrdered'
  <2>1. RingOrdered
    BY <1>3 DEF RingTypeOK
  <2>2. head' \in Nat /\ head <= head' /\ head' <= tail
    BY <2>1 DEF RingOrdered, RingTypeOK
  <2>3. \A position \in HeldPositions' : position \in HeldPositions
    BY <2>2 DEF HeldPositions, RingTypeOK
  <2>4. \A position \in HeldPositions' : data[Slot(position)] = position + 1
    BY <2>1, <2>3 DEF RingOrdered
  <2> QED BY <2>1, <2>2, <2>4, RingConstants DEF RingOrdered, RingTypeOK, ChunkFollows, Slot
<1> QED BY <1>1, <1>2, <1>3

(* ... and everything else.                                                 *)
LEMMA RingUntouched ==
  ASSUME RingInv, UNCHANGED ringVars, UNCHANGED written
  PROVE  RingInv'
BY DEF RingInv, RingTypeOK, ChunkFollows, RingOrdered, HeldPositions, Slot,
       ringVars, pushVars, popVars

LEMMA InitRingInv == Init => RingInv
BY RingConstants DEF Init, RingInit, RingInv, RingTypeOK, ChunkFollows, RingOrdered,
   HeldPositions, Sample

LEMMA StepRingInv == RingInv /\ [Next]_vars => RingInv'
<1> SUFFICES ASSUME RingInv, [Next]_vars PROVE RingInv'
  OBVIOUS
<1> DEFINE Untouched == UNCHANGED ringVars /\ UNCHANGED written
<1>0. Untouched => RingInv'
  BY RingUntouched
<1>1. WriteFrame => RingInv'
  BY <1>0, PushBeginRingInv DEF WriteFrame
<1>2. CASE FeederTick \/ SinkWaits \/ SinkEnds \/ UNCHANGED vars
  BY <1>2, <1>0 DEF FeederTick, SinkWaits, SinkEnds, vars, pathVars
<1>3. ASSUME NEW packet \in net, Deliver(packet) PROVE RingInv'
  BY <1>3, <1>0 DEF Deliver
<1>4. CASE SinkTick
  BY <1>4, <1>1 DEF SinkTick, SinkPlays, SinkConceals
<1>5. CASE RenderCallback
  BY <1>5, PopBeginRingInv DEF RenderCallback, pathVars
<1>6. CASE PushProceeds
  BY <1>6, StealRingInv, CopyInRingInv, PublishRingInv
  DEF PushProceeds, PushStep, pathVars
<1>7. CASE PopProceeds
  BY <1>7, PopLoadHeadRingInv, CopyOutRingInv, ConsumeRingInv
  DEF PopProceeds, PopStep, pathVars
<1> QED BY <1>2, <1>3, <1>4, <1>5, <1>6, <1>7 DEF Next

-----------------------------------------------------------------------------
(* The jitter buffer: its comparisons, on numbers less than half of the     *)
(* sequence space apart, are those of the packet numbers.                   *)
LEMMA SpaceFacts ==
  /\ SeqSpace \in Nat \ {0}
  /\ SeqSpace \div 2 \in Nat /\ SeqSpace = 2 * (SeqSpace \div 2)
<1>1. SeqSpace \in Nat \ {0} /\ SeqSpace % 2 = 0
  BY JitterConstants
<1>2. SeqSpace = 2 * (SeqSpace \div 2) + (SeqSpace % 2) /\ SeqSpace \div 2 \in Int
  BY <1>1, DivMod
<1> QED BY <1>1, <1>2

LEMMA NumbersAreNear ==
  ASSUME NEW a \in Numbers, NEW b \in Numbers
  PROVE  /\ a \in Nat /\ b \in Nat
         /\ a - b < SeqSpace \div 2 /\ b - a < SeqSpace \div 2
<1>1. MaxSent \in Nat /\ FirstSent \in Nat /\ MAX_CONSECUTIVE_CONCEALS \in Nat
  BY PathConstants, JitterConstants
<1>2. MaxSent + MAX_CONSECUTIVE_CONCEALS - FirstSent < SeqSpace \div 2
  BY PathConstants
<1>3. a \in Nat /\ b \in Nat /\ FirstSent <= a /\ FirstSent <= b
  /\ a <= MaxSent + MAX_CONSECUTIVE_CONCEALS /\ b <= MaxSent + MAX_CONSECUTIVE_CONCEALS
  BY <1>1 DEF Numbers
<1> QED BY <1>1, <1>2, <1>3, SpaceFacts

LEMMA PacketIsNumber == Packets \subseteq Numbers
BY PathConstants, JitterConstants DEF Packets, Numbers

(* Distance on the wire is distance in sending.                             *)
LEMMA WrappingDistance ==
  ASSUME NEW a \in Int, NEW b \in Int, -SeqSpace <= a - b, a - b < SeqSpace
  PROVE  WrappingSub(SeqOf(a), SeqOf(b)) = IF a >= b THEN a - b ELSE a - b + SeqSpace
<1>1. a - b \in Int
  OBVIOUS
<1>2. ((a % SeqSpace) - (b % SeqSpace)) % SeqSpace = (a - b) % SeqSpace
  BY SpaceFacts, ModOfDifference
<1>3. (a - b) % SeqSpace = IF a - b >= 0 THEN a - b ELSE a - b + SeqSpace
  BY <1>1, SpaceFacts, ModNear
<1> QED BY <1>2, <1>3 DEF WrappingSub, SeqOf

LEMMA SeqOfType == \A n \in Int : SeqOf(n) \in 0 .. SeqSpace - 1
BY SpaceFacts, DivMod DEF SeqOf

LEMMA SeqIdentifies ==
  ASSUME NEW a \in Numbers, NEW b \in Numbers, SeqOf(a) = SeqOf(b)
  PROVE  a = b
<1>1. a \in Int /\ b \in Int /\ -SeqSpace <= a - b /\ a - b < SeqSpace
  BY NumbersAreNear, SpaceFacts
<1>2. WrappingSub(SeqOf(a), SeqOf(b)) = IF a >= b THEN a - b ELSE a - b + SeqSpace
  BY <1>1, WrappingDistance
<1>3. WrappingSub(SeqOf(b), SeqOf(b)) = 0
  <2>1. -SeqSpace <= b - b /\ b - b < SeqSpace /\ b - b = 0
    BY <1>1, SpaceFacts
  <2> QED BY <2>1, <1>1, WrappingDistance
<1>4. a - b \in Int /\ -SeqSpace < a - b
  BY NumbersAreNear, SpaceFacts
<1>5. 0 = IF a >= b THEN a - b ELSE a - b + SeqSpace
  BY <1>2, <1>3
<1> QED BY <1>1, <1>4, <1>5, SpaceFacts

(* next_seq and next_seq + 1, next_seq - 1, as wrapping numbers.            *)
LEMMA NextSeq ==
  ASSUME NEW n \in Int
  PROVE  WrappingSub(SeqOf(n) + 1, 0) = SeqOf(n + 1) /\ WrappingSub(SeqOf(n), 1) = SeqOf(n - 1)
<1>1. \A k \in Int : ((n % SeqSpace) + k) % SeqSpace = (n + k) % SeqSpace
  BY SpaceFacts, ModOfMod
<1>2. (n % SeqSpace) \in Int
  BY SpaceFacts, DivMod
<1>3. ((n % SeqSpace) + 1) - 0 = (n % SeqSpace) + 1
      /\ (n % SeqSpace) - 1 = (n % SeqSpace) + (-1) /\ n - 1 = n + (-1)
  BY <1>2
<1>4. ((n % SeqSpace) + 1) % SeqSpace = (n + 1) % SeqSpace
  BY <1>1
<1>5. ((n % SeqSpace) + (-1)) % SeqSpace = (n + (-1)) % SeqSpace
  BY <1>1
<1> QED BY <1>3, <1>4, <1>5 DEF WrappingSub, SeqOf

(* A packet is late exactly if it was sent before the packet due.           *)
LEMMA LateIsBehind ==
  ASSUME NEW packet \in Numbers, NEW n \in Numbers, next_seq = SeqOf(n)
  PROVE  IsLate(SeqOf(packet)) <=> packet < n
<1> DEFINE half == SeqSpace \div 2
           wire == WrappingSub(SeqOf(packet), SeqOf(n - 1))
<1>1. next_seq # None
  BY SeqOfType, NumbersAreNear, JitterConstants
<1>2. WrappingSub(next_seq, 1) = SeqOf(n - 1)
  BY NextSeq, NumbersAreNear
<1>3. /\ packet \in Int /\ n - 1 \in Int /\ half \in Nat /\ SeqSpace = 2 * half
      /\ -half < packet - n /\ packet - n < half
  BY NumbersAreNear, SpaceFacts
<1> HIDE DEF half
<1>4. -SeqSpace <= packet - (n - 1) /\ packet - (n - 1) < SeqSpace
  BY <1>3
<1>5. wire = IF packet >= n - 1 THEN packet - (n - 1) ELSE packet - (n - 1) + SeqSpace
  BY <1>3, <1>4, WrappingDistance
<1>6. SeqOf(packet) = SeqOf(n - 1) <=> packet = n - 1
  <2>1. ASSUME SeqOf(packet) = SeqOf(n - 1) PROVE wire = 0
    <3>1. -SeqSpace <= (n - 1) - (n - 1) /\ (n - 1) - (n - 1) < SeqSpace
          /\ (n - 1) - (n - 1) = 0
      BY <1>3, SpaceFacts
    <3> QED BY <2>1, <3>1, <1>3, WrappingDistance
  <2> QED BY <2>1, <1>3, <1>5
<1>7. SeqOlder(SeqOf(packet), SeqOf(n - 1)) <=> packet < n - 1
  <2>1. SeqOlder(SeqOf(packet), SeqOf(n - 1)) <=> wire > half
    BY DEF SeqOlder, half
  <2> HIDE DEF wire
  <2> QED BY <2>1, <1>3, <1>5
<1> QED BY <1>1, <1>2, <1>3, <1>6, <1>7 DEF IsLate

LEMMA SignedIsDifference ==
  ASSUME NEW a \in Numbers, NEW b \in Numbers
  PROVE  SignedDistance(SeqOf(a), SeqOf(b)) = a - b
<1> DEFINE half == SeqSpace \div 2
<1>1. /\ a \in Int /\ b \in Int /\ half \in Nat /\ SeqSpace = 2 * half
      /\ -half < a - b /\ a - b < half
  BY NumbersAreNear, SpaceFacts
<1>2. WrappingSub(SeqOf(a), SeqOf(b)) = IF a >= b THEN a - b ELSE a - b + SeqSpace
  BY <1>1, WrappingDistance
<1>3. SignedDistance(SeqOf(a), SeqOf(b)) =
        IF WrappingSub(SeqOf(a), SeqOf(b)) >= half
        THEN WrappingSub(SeqOf(a), SeqOf(b)) - SeqSpace
        ELSE WrappingSub(SeqOf(a), SeqOf(b))
  BY DEF SignedDistance
<1> HIDE DEF half
<1> QED BY <1>1, <1>2, <1>3

(* A nonempty set of naturals has a least element.                          *)
LEMMA LeastElement ==
  ASSUME NEW S \in SUBSET Nat, S # {}
  PROVE  \E x \in S : \A y \in S : x <= y
<1> DEFINE Less == {p \in Nat \X Nat : p[1] < p[2]}
<1>1. IsWellFoundedOn(Less, Nat)
  BY NatLessThanWellFounded DEF OpToRel
<1>2. PICK x \in S : \A y \in S : ~(<<y, x>> \in Less)
  BY <1>1, WFMin
<1>3. \A y \in S : x <= y
  <2> TAKE y \in S
  <2>1. <<y, x>> \in Nat \X Nat /\ ~(y < x)
    BY <1>2
  <2> QED BY <2>1
<1> QED BY <1>3

(* lowest_seq finds the packet sent first.                                  *)
LEMMA LowestIsOldest ==
  ASSUME NEW oldest \in Numbers, NEW seqs, NEW held, seqs # {},
         \A seq \in seqs : held[seq] \in Packets /\ SeqOf(held[seq]) = seq
  PROVE  LET lowest == LowestSeq(seqs, SeqOf(oldest))
         IN lowest \in seqs /\ \A seq \in seqs : held[lowest] <= held[seq]
<1> DEFINE from == SeqOf(oldest)
<1>1. \A seq \in seqs : held[seq] \in Int /\ SignedDistance(seq, from) = held[seq] - oldest
  <2> TAKE seq \in seqs
  <2>1. held[seq] \in Numbers
    BY PacketIsNumber
  <2> QED BY <2>1, SignedIsDifference, NumbersAreNear
<1>2. oldest \in Int
  BY NumbersAreNear
<1>3. \E s \in seqs : \A t \in seqs : SignedDistance(s, from) <= SignedDistance(t, from)
  <2> DEFINE numbers == {held[seq] : seq \in seqs}
  <2>1. numbers \in SUBSET Nat /\ numbers # {}
    BY PathConstants DEF Packets
  <2>2. \E x \in numbers : \A y \in numbers : x <= y
    <3> HIDE DEF numbers
    <3> QED BY <2>1, LeastElement
  <2>3. PICK s \in seqs : \A t \in seqs : held[s] <= held[t]
    BY <2>2
  <2> QED BY <2>3, <1>1, <1>2
<1>4. /\ LowestSeq(seqs, from) \in seqs
      /\ \A t \in seqs : SignedDistance(LowestSeq(seqs, from), from) <= SignedDistance(t, from)
  BY <1>3 DEF LowestSeq
<1> QED BY <1>1, <1>2, <1>4

-----------------------------------------------------------------------------
(* The jitter buffer: its steps.                                            *)
receiverVars == <<jbVars, sent, net, first, due, last_played>>

LEMMA JitterUntouched ==
  ASSUME JitterInv, UNCHANGED receiverVars
  PROVE  JitterInv'
BY DEF receiverVars, jbVars, JitterInv, JitterTypeOK, SlotsKeyed, NotStarted, Playing,
       NothingStranded, SeqOf, Packets

LEMMA InitJitterInv == Init => JitterInv
<1> SUFFICES ASSUME Init PROVE JitterInv
  OBVIOUS
<1> USE DEF Init, JitterInit
<1>1. JitterTypeOK
  <2>1. /\ sent \in Nat /\ sent >= FirstSent
        /\ consecutive_conceals \in 0 .. MAX_CONSECUTIVE_CONCEALS
    BY PathConstants, JitterConstants
  <2>2. stats \in [played : Nat, concealed : Nat, dropped_late : Nat, dropped_gap : Nat]
    OBVIOUS
  <2> QED BY <2>1, <2>2 DEF JitterTypeOK
<1>2. DOMAIN slots = {} /\ slots = [seq \in DOMAIN slots |-> slots[seq]]
  OBVIOUS
<1>3. SlotsKeyed
  BY <1>2 DEF SlotsKeyed
<1>4. NotStarted
  BY DEF NotStarted
<1> QED BY <1>1, <1>3, <1>4 DEF JitterInv

LEMMA FeederJitterInv ==
  ASSUME JitterInv, FeederTick
  PROVE  JitterInv'
<1> USE DEF JitterInv, FeederTick, jbVars
<1>1. sent \in Packets
  BY PathConstants DEF JitterTypeOK, Packets
<1>2. JitterTypeOK'
  <2>1. Packets' = Packets /\ \A packet : SeqOf(packet)' = SeqOf(packet)
    BY DEF Packets, SeqOf
  <2>2. sent' \in Nat /\ sent' >= FirstSent
    BY PathConstants DEF JitterTypeOK
  <2>3. net' = net \/ net' = net \cup {sent}
    OBVIOUS
  <2>4. net' \subseteq Packets
    BY <1>1, <2>3 DEF JitterTypeOK
  <2> QED BY <2>1, <2>2, <2>4 DEF JitterTypeOK
<1>3. SlotsKeyed' /\ (~started' => NotStarted') /\ (started' => Playing')
  BY DEF SlotsKeyed, NotStarted, Playing, NothingStranded, Packets, SeqOf
<1> QED BY <1>2, <1>3

LEMMA EndJitterInv ==
  ASSUME JitterInv, SinkEnds
  PROVE  JitterInv'
BY DEF SinkEnds, jbVars, JitterInv, JitterTypeOK, SlotsKeyed, NotStarted, Playing,
       NothingStranded, SeqOf, Packets

(* The packet due, if it is buffered, is the one in its slot.               *)
LEMMA PlayingFacts ==
  ASSUME JitterInv, started
  PROVE  /\ due \in Numbers /\ due \in Nat /\ first \in Nat
         /\ next_seq = SeqOf(due)
         /\ \A seq \in DOMAIN slots : slots[seq] \in Numbers /\ slots[seq] \in Nat
         /\ next_seq \in DOMAIN slots => slots[next_seq] = due
         /\ \A seq \in DOMAIN slots : seq # next_seq => slots[seq] > due
<1>1. due \in Numbers
  BY PathConstants, JitterConstants DEF JitterInv, JitterTypeOK, Playing, Numbers
<1>2. due \in Nat /\ first \in Nat
  BY <1>1, NumbersAreNear, PathConstants DEF JitterInv, Playing, Packets
<1>3. next_seq = SeqOf(due) /\ \A seq \in DOMAIN slots : slots[seq] >= due
  BY DEF JitterInv, Playing, NothingStranded
<1>4. \A seq \in DOMAIN slots :
        slots[seq] \in Numbers /\ slots[seq] \in Nat /\ SeqOf(slots[seq]) = seq
  BY PacketIsNumber, NumbersAreNear DEF JitterInv, SlotsKeyed
<1>5. next_seq \in DOMAIN slots => slots[next_seq] = due
  BY <1>1, <1>3, <1>4, SeqIdentifies
<1>6. ASSUME NEW seq \in DOMAIN slots, seq # next_seq
      PROVE  slots[seq] > due
  BY <1>2, <1>3, <1>4, <1>6
<1> QED BY <1>1, <1>2, <1>3, <1>4, <1>5, <1>6

LEMMA WithoutKeyed ==
  ASSUME SlotsKeyed, NEW gone, slots' = Without(gone), UNCHANGED anchor,
         anchor # None
  PROVE  /\ SlotsKeyed'
         /\ DOMAIN slots' = DOMAIN slots \ {gone}
         /\ \A seq \in DOMAIN slots' : slots'[seq] = slots[seq]
<1>1. /\ DOMAIN slots' = DOMAIN slots \ {gone}
      /\ \A seq \in DOMAIN slots' : slots'[seq] = slots[seq]
      /\ slots' = [seq \in DOMAIN slots' |-> slots'[seq]]
  BY DEF Without
<1> QED BY <1>1 DEF SlotsKeyed, Packets, SeqOf

(* The packet due is played, ...                                            *)
LEMMA PlaysJitterInv ==
  ASSUME JitterInv, PopPlays, last_played' = slots[next_seq], due' = last_played' + 1,
         UNCHANGED <<sent, net, first>>
  PROVE  JitterInv' /\ last_played' = due
<1> USE DEF PopPlays
<1>1. started
  BY DEF JitterInv, NotStarted
<1>2. last_played' = due /\ due' = due + 1 /\ due \in Numbers /\ due \in Packets /\ due \in Nat
  <2>1. slots[next_seq] \in Packets
    BY DEF JitterInv, SlotsKeyed
  <2> QED BY <1>1, <2>1, PlayingFacts
<1>3. next_seq' = SeqOf(due')
  BY <1>1, <1>2, PlayingFacts, NextSeq
<1>4. anchor # None
  BY <1>1 DEF JitterInv, SlotsKeyed
<1>5. /\ SlotsKeyed'
      /\ DOMAIN slots' = DOMAIN slots \ {next_seq}
      /\ \A seq \in DOMAIN slots' : slots'[seq] = slots[seq]
  BY <1>4, WithoutKeyed DEF JitterInv
<1>6. JitterTypeOK'
  BY <1>2, <1>3, SeqOfType, JitterConstants DEF JitterInv, JitterTypeOK, Packets, SeqOf
<1>7. Playing'
  <2>1. \A seq \in DOMAIN slots' : slots'[seq] >= due'
    BY <1>1, <1>2, <1>5, PlayingFacts
  <2>2. stats'.played + stats'.concealed + stats'.dropped_gap = due' - first'
    BY <1>1, <1>2, PlayingFacts
    DEF JitterInv, JitterTypeOK, Playing, NothingStranded
  <2>3. due' \in FirstSent .. MaxSent + consecutive_conceals'
    BY <1>2, PathConstants DEF Packets
  <2>4. first' \in Packets'
    BY <1>1 DEF JitterInv, Playing, Packets
  <2>5. NothingStranded'
    BY <2>1, <2>2, <1>3, <1>1 DEF NothingStranded, SeqOf
  <2> QED BY <2>3, <2>4, <2>5, <1>2 DEF Playing
<1> QED BY <1>1, <1>2, <1>5, <1>6, <1>7 DEF JitterInv

(* ... or one missing is concealed, ...                                     *)
LEMMA ConcealsJitterInv ==
  ASSUME JitterInv, PopConceals, due' = due + 1,
         UNCHANGED <<sent, net, first, last_played>>
  PROVE  JitterInv'
<1> USE DEF PopConceals, Missing, Exhausted
<1>1. started
  BY DEF JitterInv, NotStarted
<1>2. due \in Nat /\ first \in Nat /\ next_seq' = SeqOf(due')
  BY <1>1, PlayingFacts, NextSeq
<1>3. SlotsKeyed'
  BY DEF JitterInv, SlotsKeyed, Packets, SeqOf
<1>4. JitterTypeOK'
  BY <1>2, SeqOfType, JitterConstants DEF JitterInv, JitterTypeOK, Packets, SeqOf
<1>5. Playing'
  <2>1. \A seq \in DOMAIN slots' : slots'[seq] >= due'
    BY <1>1, <1>2, PlayingFacts
  <2>2. stats'.played + stats'.concealed + stats'.dropped_gap = due' - first'
    BY <1>1, <1>2 DEF JitterInv, JitterTypeOK, Playing, NothingStranded
  <2>3. due' \in FirstSent .. MaxSent + consecutive_conceals'
    BY <1>1, <1>2, PathConstants, JitterConstants DEF JitterInv, JitterTypeOK, Playing
  <2>4. last_played' # None => last_played' < due'
    BY <1>1, <1>2, PathConstants DEF JitterInv, JitterTypeOK, Playing, Packets
  <2>5. NothingStranded'
    BY <2>1, <2>2, <1>1, <1>2 DEF NothingStranded, SeqOf
  <2> QED BY <2>3, <2>4, <2>5, <1>1 DEF Playing, JitterInv, Packets
<1> QED BY <1>1, <1>3, <1>4, <1>5 DEF JitterInv

(* ... or the gap is skipped to the packet sent first of those buffered, ... *)
LEMMA SkipsJitterInv ==
  ASSUME JitterInv, PopSkipsAhead, last_played' = slots[Target], due' = last_played' + 1,
         UNCHANGED <<sent, net, first>>
  PROVE  JitterInv' /\ last_played' >= due
<1> USE DEF PopSkipsAhead, Missing
<1>1. started /\ anchor # None
  BY DEF JitterInv, NotStarted, SlotsKeyed
<1>2. DOMAIN slots # {}
  <2>1. DOMAIN slots = {} => slots = << >>
    BY DEF JitterInv, SlotsKeyed
  <2> QED BY <2>1 DEF CanSkip
<1>3. Target \in DOMAIN slots /\ \A seq \in DOMAIN slots : slots[Target] <= slots[seq]
  <2>1. PICK oldest \in Numbers : anchor = SeqOf(oldest)
    BY <1>1, PacketIsNumber DEF JitterInv, JitterTypeOK
  <2>2. \A seq \in DOMAIN slots : slots[seq] \in Packets /\ SeqOf(slots[seq]) = seq
    BY DEF JitterInv, SlotsKeyed
  <2> QED BY <1>2, <2>1, <2>2, LowestIsOldest DEF Target, SkipTarget
<1>4. /\ last_played' \in Packets /\ last_played' \in Numbers /\ last_played' \in Nat
      /\ Target = SeqOf(last_played')
  BY <1>3, PacketIsNumber, NumbersAreNear DEF JitterInv, SlotsKeyed
<1>5. /\ due \in Numbers /\ due \in Nat /\ first \in Nat /\ next_seq = SeqOf(due)
      /\ last_played' >= due
  BY <1>1, <1>3, PlayingFacts
<1>6. next_seq' = SeqOf(due')
  BY <1>4, NextSeq
<1>7. SkippedSeqs = last_played' - due
  <2>1. -SeqSpace <= last_played' - due /\ last_played' - due < SeqSpace
    BY <1>4, <1>5, NumbersAreNear, SpaceFacts
  <2>2. WrappingSub(SeqOf(last_played'), SeqOf(due)) = last_played' - due
    BY <2>1, <1>4, <1>5, WrappingDistance
  <2> QED BY <2>2, <1>4, <1>5 DEF SkippedSeqs
<1>8. /\ SlotsKeyed'
      /\ DOMAIN slots' = DOMAIN slots \ {Target}
      /\ \A seq \in DOMAIN slots' : slots'[seq] = slots[seq]
  BY <1>1, WithoutKeyed DEF JitterInv
<1>9. JitterTypeOK'
  <2>1. stats' \in [played : Nat, concealed : Nat, dropped_late : Nat, dropped_gap : Nat]
    <3>1. SkippedSeqs \in Nat
      <4>1. last_played' - due \in Nat
        BY <1>4, <1>5
      <4> QED BY <4>1, <1>7
    <3>2. stats \in [played : Nat, concealed : Nat, dropped_late : Nat, dropped_gap : Nat]
      BY DEF JitterInv, JitterTypeOK
    <3>3. stats.dropped_gap + SkippedSeqs \in Nat /\ stats.played + 1 \in Nat
      BY <3>1, <3>2
    <3>4. stats' = [stats EXCEPT !.dropped_gap = @ + SkippedSeqs, !.played = @ + 1]
      OBVIOUS
    <3> HIDE DEF PopSkipsAhead
    <3> QED BY <3>2, <3>3, <3>4
  <2>2. next_seq' \in 0 .. SeqSpace - 1
    BY <1>4, <1>6, SeqOfType
  <2> QED BY <1>4, <2>1, <2>2, JitterConstants
          DEF JitterInv, JitterTypeOK, Packets, SeqOf
<1>10. Playing'
  <2>1. \A seq \in DOMAIN slots' : slots'[seq] >= due'
    <3> TAKE seq \in DOMAIN slots'
    <3>1. seq \in DOMAIN slots /\ slots[seq] \in Numbers /\ seq # Target
      BY <1>1, <1>8, PlayingFacts
    <3>2. SeqOf(slots[seq]) = seq
      BY <3>1 DEF JitterInv, SlotsKeyed
    <3>3. slots[seq] >= last_played' /\ slots[seq] # last_played'
      BY <1>3, <1>4, <3>1, <3>2
    <3> QED BY <1>4, <1>8, <3>1, <3>3, NumbersAreNear
  <2>2. stats'.played + stats'.concealed + stats'.dropped_gap = due' - first'
    <3>1. stats.played + stats.concealed + stats.dropped_gap = due - first
      BY <1>1 DEF JitterInv, Playing, NothingStranded
    <3>2. /\ stats'.played = stats.played + 1 /\ stats'.concealed = stats.concealed
          /\ stats'.dropped_gap = stats.dropped_gap + (last_played' - due)
      BY <1>7 DEF JitterInv, JitterTypeOK
    <3>3. stats.played \in Nat /\ stats.concealed \in Nat /\ stats.dropped_gap \in Nat
      BY DEF JitterInv, JitterTypeOK
    <3> QED BY <1>4, <1>5, <3>1, <3>2, <3>3
  <2>3. due' \in FirstSent .. MaxSent + consecutive_conceals'
    BY <1>4, PathConstants DEF Packets
  <2>4. first' \in Packets'
    BY <1>1 DEF JitterInv, Playing, Packets
  <2>5. NothingStranded'
    BY <2>1, <2>2, <1>6, <1>1 DEF NothingStranded, SeqOf
  <2> QED BY <2>3, <2>4, <2>5, <1>4 DEF Playing
<1> QED BY <1>1, <1>5, <1>8, <1>9, <1>10 DEF JitterInv

(* ... and a datagram is discarded only if its packet lies behind.          *)
LEMMA DeliverJitterInv ==
  ASSUME JitterInv, NEW packet \in net, Deliver(packet)
  PROVE  JitterInv'
<1> DEFINE seq == SeqOf(packet)
           from == IF anchor = None THEN seq ELSE anchor
           held == [s \in DOMAIN slots \cup {seq} |-> IF s = seq THEN packet ELSE slots[s]]
           starts == ~started /\ Cardinality(DOMAIN held) >= DepthFrames
<1>1. /\ packet \in Packets /\ packet \in Numbers /\ packet \in Nat
      /\ seq \in 0 .. SeqSpace - 1 /\ seq # None
  <2>1. packet \in Packets
    BY DEF JitterInv, JitterTypeOK
  <2>2. packet \in Numbers /\ packet \in Nat
    BY <2>1, PacketIsNumber, NumbersAreNear
  <2>3. seq \in 0 .. SeqSpace - 1
    BY <2>2, SeqOfType
  <2> QED BY <2>1, <2>2, <2>3, JitterConstants
<1>2. /\ anchor' = from
      /\ IF IsLate(seq)
         THEN /\ stats' = [stats EXCEPT !.dropped_late = @ + 1]
              /\ UNCHANGED <<slots, started, next_seq>>
         ELSE /\ slots' = held
              /\ started' = (started \/ starts)
              /\ next_seq' = IF starts THEN FirstToPlay(DOMAIN held, from) ELSE next_seq
              /\ UNCHANGED stats
      /\ UNCHANGED consecutive_conceals
  BY DEF Deliver, JitterPush
<1>3. UNCHANGED <<sent, last_played>> /\ net' \subseteq net
  BY DEF Deliver
<1>4. IF started' /\ ~started THEN first' = slots'[next_seq'] /\ due' = first'
      ELSE UNCHANGED <<first, due>>
  BY DEF Deliver
<1>5. PICK oldest \in Packets : from = SeqOf(oldest)
  BY <1>1 DEF JitterInv, JitterTypeOK
<1>6. anchor' # None /\ \E p \in Packets : anchor' = SeqOf(p)
  BY <1>2, <1>5, SeqOfType, PacketIsNumber, NumbersAreNear, JitterConstants
<1>7. Packets' = Packets /\ \A p : SeqOf(p)' = SeqOf(p)
  BY DEF Packets, SeqOf
<1>8. /\ DOMAIN held = DOMAIN slots \cup {seq}
      /\ held = [s \in DOMAIN held |-> held[s]]
      /\ \A s \in DOMAIN held : held[s] \in Packets /\ SeqOf(held[s]) = s
  BY <1>1 DEF JitterInv, SlotsKeyed
<1> HIDE DEF from, held
<1>9. CASE IsLate(seq)
  <2>1. started
    BY <1>9 DEF IsLate, JitterInv, NotStarted
  <2>2. JitterTypeOK'
    BY <1>2, <1>3, <1>6, <1>7, <1>9 DEF JitterInv, JitterTypeOK
  <2>3. SlotsKeyed'
    BY <1>2, <1>6, <1>7, <1>9 DEF JitterInv, SlotsKeyed
  <2>4. Playing'
    BY <1>2, <1>3, <1>4, <1>7, <1>9, <2>1
    DEF JitterInv, JitterTypeOK, Playing, NothingStranded, SeqOf
  <2> QED BY <2>1, <2>2, <2>3, <2>4, <1>2, <1>9 DEF JitterInv
<1>10. CASE ~IsLate(seq) /\ starts
  <2>1. NotStarted /\ ~started /\ started'
    BY <1>2, <1>10 DEF JitterInv
  <2>2. /\ next_seq' \in DOMAIN held
        /\ \A s \in DOMAIN held : held[next_seq'] <= held[s]
    <3>1. next_seq' = LowestSeq(DOMAIN held, SeqOf(oldest))
      BY <1>2, <1>5, <1>10 DEF FirstToPlay
    <3>2. DOMAIN held # {}
      BY <1>8
    <3> QED BY <3>1, <3>2, <1>5, <1>8, PacketIsNumber, LowestIsOldest
  <2>3. due' = held[next_seq'] /\ first' = due' /\ slots' = held
    BY <1>2, <1>4, <1>10, <2>1
  <2>4. due' \in Packets /\ next_seq' = SeqOf(due') /\ due' \in Nat
    BY <1>8, <2>2, <2>3, PacketIsNumber, NumbersAreNear
  <2>5. next_seq' \in 0 .. SeqSpace - 1
    BY <2>4, SeqOfType
  <2>6. JitterTypeOK'
    BY <1>2, <1>3, <1>6, <1>7, <1>10, <2>1, <2>5 DEF JitterInv, JitterTypeOK
  <2>7. SlotsKeyed'
    BY <1>6, <1>7, <1>8, <2>3 DEF SlotsKeyed
  <2>8. NothingStranded'
    <3>1. \A s \in DOMAIN slots' : slots'[s] >= due'
      <4> TAKE s \in DOMAIN slots'
      <4>1. held[s] \in Nat /\ due' <= held[s]
        BY <1>8, <2>2, <2>3, PacketIsNumber, NumbersAreNear
      <4> QED BY <4>1, <2>3, <2>4
    <3>2. stats'.played + stats'.concealed + stats'.dropped_gap = due' - first'
      BY <1>2, <1>10, <2>1, <2>3, <2>4 DEF NotStarted
    <3> QED BY <3>1, <3>2, <2>4 DEF NothingStranded, SeqOf
  <2>9. due' \in FirstSent .. MaxSent + consecutive_conceals'
    BY <1>2, <2>4, PathConstants, JitterConstants DEF Packets, JitterInv, JitterTypeOK
  <2>10. last_played' = None
    BY <1>3, <2>1 DEF NotStarted
  <2>11. Playing'
    BY <1>7, <2>3, <2>4, <2>8, <2>9, <2>10 DEF Playing
  <2> QED BY <2>1, <2>6, <2>7, <2>11 DEF JitterInv
<1>11. CASE ~IsLate(seq) /\ ~starts
  <2>1. started' = started /\ next_seq' = next_seq /\ slots' = held
        /\ UNCHANGED <<first, due, stats, consecutive_conceals>>
    BY <1>2, <1>4, <1>11 DEF JitterInv, JitterTypeOK
  <2>2. JitterTypeOK'
    BY <1>2, <1>3, <1>6, <1>7, <2>1 DEF JitterInv, JitterTypeOK
  <2>3. SlotsKeyed'
    BY <1>6, <1>7, <1>8, <2>1 DEF SlotsKeyed
  <2>4. ~started' => NotStarted'
    BY <1>3, <2>1 DEF JitterInv, NotStarted
  <2>5. ASSUME started PROVE Playing'
    <3>1. packet >= due /\ due \in Nat
      BY <1>1, <1>11, <2>5, PlayingFacts, LateIsBehind
    <3>2. \A s \in DOMAIN slots' : slots'[s] >= due'
      BY <2>1, <2>5, <3>1, <1>8, PlayingFacts DEF held, JitterInv, Playing, NothingStranded
    <3>3. NothingStranded'
      BY <2>1, <2>5, <3>2 DEF JitterInv, Playing, NothingStranded, SeqOf
    <3> QED BY <1>3, <1>7, <2>1, <2>5, <3>3 DEF JitterInv, Playing
  <2> QED BY <2>1, <2>2, <2>3, <2>4, <2>5 DEF JitterInv
<1> QED BY <1>9, <1>10, <1>11

LEMMA StepJitterInv == JitterInv /\ [Next]_vars => JitterInv'
<1> SUFFICES ASSUME JitterInv, [Next]_vars PROVE JitterInv'
  OBVIOUS
<1>1. CASE FeederTick
  BY <1>1, FeederJitterInv
<1>2. ASSUME NEW packet \in net, Deliver(packet) PROVE JitterInv'
  BY <1>2, DeliverJitterInv
<1>3. CASE SinkPlays
  BY <1>3, PlaysJitterInv, SkipsJitterInv DEF SinkPlays
<1>4. CASE SinkConceals
  BY <1>4, ConcealsJitterInv DEF SinkConceals
<1>5. CASE SinkEnds
  BY <1>5, EndJitterInv
<1>6. CASE SinkWaits \/ RenderCallback \/ PushProceeds \/ PopProceeds \/ UNCHANGED vars
  <2>1. UNCHANGED receiverVars
    BY <1>6 DEF SinkWaits, PopBelowDepth, PopDry, RenderCallback, PushProceeds,
                PopProceeds, vars, pathVars, receiverVars
  <2> QED BY <2>1, JitterUntouched
<1> QED BY <1>1, <1>2, <1>3, <1>4, <1>5, <1>6 DEF Next, SinkTick

-----------------------------------------------------------------------------
LEMMA AudioInvariant == Spec => []AudioInv
<1>1. Init => AudioInv
  BY InitRingInv, InitJitterInv DEF AudioInv
<1>2. AudioInv /\ [Next]_vars => AudioInv'
  BY StepRingInv, StepJitterInv DEF AudioInv
<1> QED BY <1>1, <1>2, PTL DEF Spec

(* Variables keep their types, for any constants.                           *)
THEOREM AudioTypeCorrect == Spec => [](RingTypeOK /\ JitterTypeOK)
<1>1. AudioInv => RingTypeOK /\ JitterTypeOK
  BY DEF AudioInv, RingInv, JitterInv
<1> QED BY <1>1, AudioInvariant, PTL

(* Until a steal overlaps a pop the ring is a FIFO that forgets its oldest  *)
(* samples, whatever its size, whatever the callback asks for and however   *)
(* the two threads interleave.                                              *)
THEOREM RingIsFifo == Spec => []FifoUnlessRaced
<1>1. AudioInv => FifoUnlessRaced
  <2> SUFFICES ASSUME AudioInv, ~raced PROVE FifoUnlessRaced
    BY DEF FifoUnlessRaced
  <2>1. RingOrdered /\ RingTypeOK
    BY DEF AudioInv, RingInv
  <2>2. \A position \in head .. tail - 1 : position \in HeldPositions
    BY <2>1 DEF HeldPositions, RingTypeOK
  <2> QED BY <2>1, <2>2 DEF FifoUnlessRaced, RingOrdered
<1> QED BY <1>1, AudioInvariant, PTL

(* Nothing buffered is ever behind the packet due, and every packet since   *)
(* the first one due is counted once, across the wrap of the sequence.      *)
THEOREM NothingForgotten == Spec => []NothingStranded
<1>1. AudioInv => NothingStranded
  BY DEF AudioInv, JitterInv, Playing, NothingStranded
<1> QED BY <1>1, AudioInvariant, PTL

(* Packets are played in the order of sending.                              *)
THEOREM PlaysInOrder == Spec => PlaysForward
<1>1. ASSUME AudioInv, [Next]_vars,
             last_played' # last_played, None \notin {last_played, last_played'}
      PROVE  last_played' > last_played
  <2>1. SinkPlays
    BY <1>1 DEF Next, FeederTick, Deliver, SinkTick, SinkConceals, SinkWaits, SinkEnds,
                RenderCallback, PushProceeds, PopProceeds, vars, pathVars
  <2>2. JitterInv
    BY <1>1 DEF AudioInv
  <2>3. started
    BY <2>1, <2>2 DEF SinkPlays, PopPlays, PopSkipsAhead, Missing, JitterInv, NotStarted
  <2>4. last_played < due /\ last_played \in Nat /\ due \in Nat
    BY <1>1, <2>2, <2>3, PlayingFacts, PathConstants
    DEF JitterInv, JitterTypeOK, Playing, Packets
  <2>5. last_played' >= due /\ JitterInv'
    BY <2>1, <2>2, <2>4, PlaysJitterInv, SkipsJitterInv DEF SinkPlays
  <2>6. last_played' \in Nat
    BY <1>1, <2>5, PathConstants DEF JitterInv, JitterTypeOK, Packets
  <2> QED BY <2>4, <2>5, <2>6
<1>2. AudioInv /\ [Next]_vars =>
        [last_played' # last_played /\ None \notin {last_played, last_played'}
           => last_played' > last_played]_vars
  BY <1>1
<1> QED BY <1>2, AudioInvariant, PTL DEF Spec, PlaysForward
=============================================================================
