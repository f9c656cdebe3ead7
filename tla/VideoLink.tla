------------------------------ MODULE VideoLink ------------------------------
(***************************************************************************)
(* The video channel end to end: VideoTx, the UDP path to VideoRx, and the  *)
(* UDP feedback path back.  Both paths lose, duplicate and reorder.         *)
(*                                                                          *)
(* frame_seq wraps, and the receiver compares it in serial-number order, so *)
(* the channel relies on bounded lag: nothing in flight, in the retransmit  *)
(* ring or at the receiver is ever more than Window units behind the        *)
(* sender.  The code has no such check; it has 2^31 frames of slack, which  *)
(* is more than a year of 60 Hz video.                                      *)
(*                                                                          *)
(* VideoTx caps the fragments of a unit, VideoRx its bytes.  With datagrams *)
(* of 1400 bytes the first cap keeps units far below the second; a larger   *)
(* VideoTxConfig.datagram_payload does not, so units may exceed it here.    *)
(***************************************************************************)
EXTENDS VideoTx, VideoRx

CONSTANTS
  Window,      \* how far behind the sender anything may lag, in units
  LossBudget,  \* bound: datagrams and feedback messages that may be lost
  MaxFeedback, \* bound: feedback in flight when more is sent, and pending
               \* when a newer frame starts
  Duplicates,  \* TRUE: a delivery leaves a copy of the datagram in flight
  LowLatency   \* TRUE: round trips are shorter than the receiver's timers,
               \* and the receive loop never stalls for 500 ms

ASSUME LinkConstants ==
  /\ Window \in Nat \ {0} /\ 2 * Window < SeqSpace
  /\ RingBytes <= Window * TailBytes
  /\ Units = 1 .. MaxUnits
  /\ PayloadSizes = {FullBytes, TailBytes}
  /\ LossBudget \in Nat
  /\ MaxFeedback \in Nat
  /\ Duplicates \in BOOLEAN
  /\ LowLatency \in BOOLEAN

VARIABLES
  fbnet,    \* feedback in flight to the sender
  newest,   \* unit of the newest frame accepted, 0 at first (history)
  dropped,  \* newest unit whose drop was counted, 0 at first (history)
  losses    \* messages lost so far

linkVars == <<txVars, rxVars, fbnet, newest, dropped, losses>>

LinkInit ==
  /\ TxInit
  /\ RxInit
  /\ fbnet = {}
  /\ newest = 0
  /\ dropped = 0
  /\ losses = 0

-----------------------------------------------------------------------------
WithinWindow(n) ==
  /\ n - newest <= Window
  /\ \A d \in net : n - d.unit <= Window

Sender ==
  /\ EncodeLoop
  /\ Len(sent') > Len(sent) => WithinWindow(Len(sent'))
  /\ UNCHANGED <<rxVars, fbnet, newest, dropped, losses>>

Feedback(fb) ==
  /\ HandleFeedback(fb)
  /\ fbnet' = fbnet \ {fb}
  /\ UNCHANGED <<rxVars, newest, dropped, losses>>

(* The newest unit whose drop is counted when the frames of S are dropped.  *)
DroppedAfter(S) == Max({dropped} \cup UNION {Range(frames[s].frags) : s \in S})

Deliver(d) ==
  /\ HandleDatagram(d, Size(d))
  /\ Accepts(d) => Cardinality(pending) <= MaxFeedback
  /\ newest' = IF Accepts(d) THEN d.unit ELSE newest
  /\ dropped' = IF Accepts(d) THEN DroppedAfter(FirstDrops(DOMAIN frames)) ELSE dropped
  /\ net' = IF Duplicates THEN net ELSE net \ {d}
  /\ UNCHANGED <<tx_pc, force_idr, sent, next_frag, frame_seq, ringVars,
                 idr_latched, fbnet, losses>>

(* With LowLatency a timer fires only after everything that was on its way  *)
(* has arrived or is lost.                                                  *)
Quiet ==
  /\ net = {} /\ fbnet = {} /\ pending = {}
  /\ ~LockHeld

Timers(timedOut, expired) ==
  /\ LowLatency => Quiet /\ expired \cap timedOut = {}
  /\ Maintenance(timedOut, expired)
  /\ dropped' = DroppedAfter(FirstDrops(timedOut))
  /\ UNCHANGED <<txVars, fbnet, newest, losses>>

(* run_target flushes the pending feedback, one datagram per message.       *)
SendFeedback ==
  /\ TakeFeedback
  /\ Cardinality(fbnet) <= MaxFeedback
  /\ fbnet' = fbnet \cup pending
  /\ UNCHANGED <<txVars, newest, dropped, losses>>

Lose ==
  /\ losses < LossBudget
  /\ losses' = losses + 1
  /\ \/ \E d \in net : net' = net \ {d} /\ UNCHANGED fbnet
     \/ \E fb \in fbnet : fbnet' = fbnet \ {fb} /\ UNCHANGED net
  /\ UNCHANGED <<tx_pc, force_idr, sent, next_frag, frame_seq, ringVars,
                 idr_latched, rxVars, newest, dropped>>

(* What the sender has left Window units behind has left the network.       *)
Expire ==
  /\ net' = {d \in net : Len(sent) - d.unit < Window}
  /\ net' # net
  /\ UNCHANGED <<tx_pc, force_idr, sent, next_frag, frame_seq, ringVars,
                 idr_latched, rxVars, fbnet, newest, dropped, losses>>

FrameTimers ==
  \E timedOut, expired \in SUBSET DOMAIN frames :
    timedOut \cup expired # {} /\ Timers(timedOut, expired)

LinkNext ==
  \/ Sender
  \/ \E fb \in fbnet : Feedback(fb)
  \/ \E d \in net : Deliver(d)
  \/ FrameTimers
  \/ SendFeedback
  \/ Lose
  \/ Expire

LinkSpec == LinkInit /\ [][LinkNext]_linkVars

(* The receive loop and the feedback worker run until the session ends and  *)
(* timers fire; what is in flight arrives or is lost; the encode loop, once *)
(* it holds the lock, goes on.  Nothing obliges the encoder to produce      *)
(* another frame.                                                           *)
LinkFairness ==
  /\ WF_linkVars(\E fb \in fbnet : Feedback(fb))
  /\ WF_linkVars(\E d \in net : Deliver(d))
  /\ WF_linkVars(FrameTimers)
  /\ WF_linkVars(SendFeedback)
  /\ WF_linkVars(Sender /\ LockHeld)

FairLinkSpec == LinkSpec /\ LinkFairness

-----------------------------------------------------------------------------
(* Latest wins, across wraparound, loss, duplication, reordering and        *)
(* retransmission: what the decoder is handed are distinct units in the     *)
(* order they were sent, and only units that were sent.                     *)
LatestShown == IF delivered = NoUnit THEN 0 ELSE delivered.frags[0]
Abstract == INSTANCE FrameDelivery
  WITH produced <- Len(sent), shown <- frames_complete, latest <- LatestShown
DeliveryInOrder == Abstract!Spec

(* The serial-number comparison of wrapping sequence numbers agrees with    *)
(* the order of sending for everything that can still arrive, so a fresh    *)
(* frame is never taken for a stale one nor a stale one for fresh.          *)
SerialOrderIsSendOrder ==
  max_seq # NoSeq =>
    \A d \in net : Newer(d.frame_seq, max_seq) <=> d.unit > newest

(* Reassembly never mixes two frames and never returns a frame with a hole: *)
(* every unit handed on is exactly the fragments the sender cut it into.    *)
WholeUnits ==
  delivered # NoUnit =>
    LET n == delivered.frags[0]
    IN delivered = [frame_seq  |-> sent[n].frame_seq,
                    frag_count |-> sent[n].frag_count,
                    frags |-> [j \in 0 .. sent[n].frag_count - 1 |-> n]]

(* A frame counts as dropped once, however often it is revived by a         *)
(* retransmission and dropped again (video.rs drop_counted): each count is  *)
(* for one frame, newer than all counted before.                            *)
CountedOnce ==
  [][frames_dropped' # frames_dropped =>
       frames_dropped' = frames_dropped + 1 /\ dropped' > dropped]_linkVars

(* No frame of which a fragment was buffered vanishes from the statistics,  *)
(* but for a unit that exceeds the byte cap as a whole: handle_datagram     *)
(* throws it away as garbage and counts nothing.                            *)
UnitBytes(n) == (sent[n].frag_count - 1) * FullBytes + TailBytes
NothingVanishes ==
  [][\A s \in DOMAIN frames \ DOMAIN frames' :
       Traced(s) \/ UnitBytes(newest) > MAX_FRAME_BYTES]_linkVars

(* When round trips are shorter than a grace window and no more messages    *)
(* are lost than there are NACK rounds, the newest frame of which anything  *)
(* arrived is not stuck: it is shown, or a newer frame takes over, or the   *)
(* encode loop died in the middle of sending it.  (Units keep to the byte   *)
(* cap in the run.)                                                         *)
NewestIsShown ==
  \A n \in Units :
    newest = n ~> (newest > n \/ LatestShown = n \/ tx_pc = "dead")

(* The reassembly buffer does not linger: once the frames stop coming it is  *)
(* emptied, by a completion or by the last re-NACK, even when the sender is *)
(* gone and nothing answers.                                                *)
BufferDrains == DOMAIN frames # {} ~> DOMAIN frames = {}

==============================================================================
