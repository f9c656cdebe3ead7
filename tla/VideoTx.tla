------------------------------- MODULE VideoTx -------------------------------
(***************************************************************************)
(* The sender of the video channel: tl-net/src/video.rs `VideoTx` as driven *)
(* by its two threads.  The encode loop (tl-video/src/lib.rs run_initiator) *)
(* takes the IDR latch, encodes a frame and sends its access units; the     *)
(* feedback worker (thunderlink-engine/src/imp.rs) applies feedback.  A     *)
(* mutex guards VideoTx and is held while all units of one frame are sent.  *)
(*                                                                          *)
(* Fragments go to `net`, the datagrams in flight.  An empty unit is        *)
(* skipped without a state change and is not modelled.                      *)
(***************************************************************************)
EXTENDS VideoPackets, FiniteSetsExt, Functions

CONSTANTS
  FullBytes, TailBytes,  \* size of a datagram; of the last one of a unit
  RingBytes,             \* capacity of the retransmit ring; 0 disables it
  UnitSizes,             \* fragment counts of the units the encoder returns
  MaxUnits,              \* bound: units the encode loop sends
  FailBudget             \* bound: send_to calls that may fail, 0 or 1

ASSUME TxConstants ==
  /\ FullBytes \in Nat \ {0}
  /\ TailBytes \in 1 .. FullBytes
  /\ RingBytes \in Nat
  /\ UnitSizes \subseteq 1 .. MAX_FRAGS_PER_FRAME
  /\ MaxUnits \in Nat
  /\ FailBudget \in {0, 1}

VARIABLES
  tx_pc,        \* the encode loop: "idle", "encoding" (lock free), "sending",
                \* "between" two units (lock held), or "dead"
  force_idr,    \* the force_idr argument of the frame being encoded
  sent,         \* frame_seq and frag_count of each unit begun (history)
  next_frag,    \* fragments of the unit in progress already sent
  frame_seq,
  ring,         \* retained datagrams, by <<frame_seq, frag_index>>
  ring_order,   \* their keys, oldest first
  ring_used,    \* bytes the ring believes it holds
  idr_latched,
  net           \* datagrams in flight to the receiver

txVars == <<tx_pc, force_idr, sent, next_frag, frame_seq, ring, ring_order,
            ring_used, idr_latched, net>>
ringVars == <<ring, ring_order, ring_used>>

TxInit ==
  /\ tx_pc = "idle"
  /\ force_idr = FALSE
  /\ sent = << >>
  /\ next_frag = 0
  /\ frame_seq = 0
  /\ ring = [k \in {} |-> 0]
  /\ ring_order = << >>
  /\ ring_used = 0
  /\ idr_latched = FALSE
  /\ net = {}

-----------------------------------------------------------------------------
(* All datagrams of a unit are of one size but the last, which is shorter.  *)
IsTail(d) == d.frag_index = d.frag_count - 1
Size(d) == IF IsTail(d) THEN TailBytes ELSE FullBytes
Key(d) == <<d.frame_seq, d.frag_index>>

(* Bytes of a set of datagrams, and of the n oldest of the ring.            *)
Bytes(D) ==
  LET tails == {d \in D : IsTail(d)}
  IN Cardinality(D \ tails) * FullBytes + Cardinality(tails) * TailBytes

OldestBytes(n) == Bytes({ring[ring_order[i]] : i \in 1 .. n})

(* The eviction loop: oldest first, only as many as the new datagram needs, *)
(* all of them when it never fits.                                          *)

FitsAfter(n, bytes) == ring_used - OldestBytes(n) + bytes <= RingBytes

Evictions(bytes) ==
  LET fitting == {n \in 0 .. Len(ring_order) : FitsAfter(n, bytes)}
  IN IF fitting = {} THEN Len(ring_order) ELSE Min(fitting)

UsedAfterLeak(n) == ring_used   \* faulty variant
UsedAfter(n) == ring_used - OldestBytes(n)

KeepOldest(n) == SubSeq(ring_order, 1, Len(ring_order) - n)   \* faulty variant
KeepNewest(n) == SubSeq(ring_order, n + 1, Len(ring_order))

RingInsert(d) ==
  IF RingBytes = 0
  THEN UNCHANGED ringVars
  ELSE LET n    == Evictions(Size(d))
           rest == KeepNewest(n)
           kept == Restrict(ring, Range(rest))
       IN IF Size(d) > RingBytes
          THEN /\ ring' = kept
               /\ ring_order' = rest
               /\ ring_used' = UsedAfter(n)
          ELSE /\ ring' = [k \in DOMAIN kept \cup {Key(d)} |->
                             IF k = Key(d) THEN d ELSE kept[k]]
               /\ ring_order' = Append(rest, Key(d))
               /\ ring_used' = UsedAfter(n) + Size(d)

-----------------------------------------------------------------------------
(* run_initiator: the IDR latch is taken under the lock, then the frame is  *)
(* encoded with the lock released.                                          *)
TakeIdrRequest ==
  /\ tx_pc = "idle"
  /\ tx_pc' = "encoding"
  /\ force_idr' = idr_latched
  /\ idr_latched' = FALSE
  /\ UNCHANGED <<sent, next_frag, frame_seq, ringVars, net>>

(* The lock is taken when the frame is encoded, for all of its units.       *)
LockHeld == tx_pc \in {"sending", "between"}

(* send_unit starts on a unit of `count` fragments.                         *)
BeginUnit(count) ==
  /\ tx_pc \in {"encoding", "between"}
  /\ Len(sent) < MaxUnits
  /\ tx_pc' = "sending"
  /\ sent' = Append(sent, [frame_seq |-> frame_seq, frag_count |-> count])
  /\ next_frag' = 0
  /\ UNCHANGED <<force_idr, frame_seq, ringVars, idr_latched, net>>

(* A unit of more than MAX_FRAGS_PER_FRAME fragments is an error, and `?`   *)
(* ends run_initiator.                                                      *)
RejectUnit ==
  /\ tx_pc \in {"encoding", "between"}
  /\ Len(sent) < MaxUnits
  /\ FailBudget > 0
  /\ tx_pc' = "dead"
  /\ UNCHANGED <<force_idr, sent, next_frag, frame_seq, ringVars, idr_latched, net>>

NextFragment ==
  [frame_seq |-> frame_seq, frag_index |-> next_frag,
   frag_count |-> sent[Len(sent)].frag_count, unit |-> Len(sent)]

UnitDone(n) == n = NextFragment.frag_count

SeqAfter(s) == IF s + 1 = SeqSpace THEN 0 ELSE s + 1

(* One turn of send_unit's loop: keep the datagram for retransmission, send *)
(* it; the last one advances frame_seq.                                     *)
SendFragment ==
  /\ tx_pc = "sending"
  /\ RingInsert(NextFragment)
  /\ net' = net \cup {NextFragment}
  /\ next_frag' = next_frag + 1
  /\ IF UnitDone(next_frag')
     THEN tx_pc' = "between" /\ frame_seq' = SeqAfter(frame_seq)
     ELSE UNCHANGED <<tx_pc, frame_seq>>
  /\ UNCHANGED <<force_idr, sent, idr_latched>>

(* send_to fails: the datagram is in the ring already, frame_seq stays, and *)
(* the encode loop ends with the error.                                     *)
SendFails ==
  /\ tx_pc = "sending"
  /\ FailBudget > 0
  /\ RingInsert(NextFragment)
  /\ tx_pc' = "dead"
  /\ UNCHANGED <<force_idr, sent, next_frag, frame_seq, idr_latched, net>>

(* The frame has no more units (an encoder may return none).                *)
EndFrame ==
  /\ tx_pc \in {"encoding", "between"}
  /\ tx_pc' = "idle"
  /\ force_idr' = FALSE
  /\ UNCHANGED <<sent, next_frag, frame_seq, ringVars, idr_latched, net>>

EncodeLoop ==
  \/ TakeIdrRequest
  \/ \E count \in UnitSizes : BeginUnit(count)
  \/ RejectUnit
  \/ SendFragment
  \/ SendFails
  \/ EndFrame

(* handle_feedback.  The worker outlives an encode loop that failed.  A     *)
(* send_to error inside a retransmission is a lost datagram.                *)
ResendFirst(s, missing) ==      \* faulty variant: only the first of a range
  {ring[k] : k \in {<<s, 0>>} \cap DOMAIN ring}

Resend(s, missing) ==
  {ring[k] : k \in {<<s, i>> : i \in missing} \cap DOMAIN ring}

HandleFeedback(fb) ==
  /\ ~LockHeld
  /\ net' = IF fb.type = "Nack"
            THEN net \cup Resend(fb.frame_seq, fb.missing)
            ELSE net
  /\ idr_latched' = (idr_latched \/ fb.type = "IdrRequest")
  /\ UNCHANGED <<tx_pc, force_idr, sent, next_frag, frame_seq, ringVars>>

-----------------------------------------------------------------------------

(* The byte budget of the retransmit ring is real: what it believes it      *)
(* holds is what it holds, the FIFO lists each retained datagram once, and  *)
(* the total never passes the capacity (video.rs ring_insert).              *)
RingAccounting ==
  /\ Len(ring_order) = Cardinality(DOMAIN ring)
  /\ Range(ring_order) = DOMAIN ring
  /\ ring_used = OldestBytes(Len(ring_order))
  /\ ring_used <= RingBytes

(* Sent before, in the order of units and fragments.                        *)
Before(d, e) ==
  \/ d.unit < e.unit
  \/ d.unit = e.unit /\ d.frag_index < e.frag_index

(* Eviction is oldest first: the retained datagrams are in sending order    *)
(* and without a gap, so whatever was stored after a retained datagram is   *)
(* retained too.                                                            *)
RingHoldsNewest ==
  /\ \A i, j \in DOMAIN ring_order :
       i < j => Before(ring[ring_order[i]], ring[ring_order[j]])
  /\ \A n \in DOMAIN sent : \A i \in 0 .. sent[n].frag_count - 1 :
       LET d == [frame_seq |-> sent[n].frame_seq, frag_index |-> i,
                 frag_count |-> sent[n].frag_count, unit |-> n]
       IN \/ d \in Range(ring)
          \/ n = Len(sent) /\ i >= next_frag
          \/ \A e \in Range(ring) : Before(d, e)

(* What a NACK finds in the ring: the newest datagrams sent, as many as fit *)
(* the bytes, through every eviction and every send that fails.             *)
RingSound == RingAccounting /\ RingHoldsNewest

==============================================================================
