---------------------------- MODULE VideoLinkProofs ----------------------------
(***************************************************************************)
(* Theorems about the video channel, first of the receiver by itself and    *)
(* then end to end: for every SeqSpace, window, ring size, unit size and    *)
(* number of units, and however the two UDP paths lose, duplicate and       *)
(* reorder.                                                                 *)
(*                                                                          *)
(* RxInv is inductive for the receiver whatever datagrams it is fed: its    *)
(* three parts lean on one another.  That at most one frame is buffered is  *)
(* what makes the drop counts of one step 0 or 1; that a buffered frame is  *)
(* incomplete and correctly typed is what makes its NACK a well-formed      *)
(* message.                                                                 *)
(*                                                                          *)
(* LinkInv is the inductive invariant.  Its core is one idea followed along *)
(* the whole path: nothing that can still arrive is more than Window units  *)
(* behind the sender, and frame_seq values less than SeqSpace units apart   *)
(* differ.  For what is in flight that is the network's bound; for the      *)
(* retransmit ring, which feeds the network again, it has to be derived     *)
(* from the byte budget (RingSpread, RingWithinWindow).  From it follow     *)
(* that a ring key is never reused, that the wrapping comparison is the     *)
(* order of sending, and that a buffered frame only ever gets fragments of  *)
(* its own unit.                                                            *)
(***************************************************************************)
EXTENDS VideoLink, FiniteSetTheorems, SequenceTheorems, TLAPS

-----------------------------------------------------------------------------
(* The receiver by itself.                                                  *)
RxInv == RxTypeOK /\ OnlyNewestBuffered /\ BufferCoherent

-----------------------------------------------------------------------------
(* One step first-drops at most one frame, and counts one exactly when      *)
(* there is one.                                                            *)
LEMMA FirstDropsCount ==
  ASSUME OnlyNewestBuffered, NEW S \in SUBSET DOMAIN frames
  PROVE  /\ Cardinality(FirstDrops(S)) \in {0, 1}
         /\ FirstDrops(S) # {} => Cardinality(FirstDrops(S)) = 1
<1>1. FirstDrops(S) \subseteq {max_seq}
  BY DEF FirstDrops, FreshDrops, OnlyNewestBuffered
<1>2. CASE FirstDrops(S) = {}
  BY <1>2, FS_EmptySet
<1>3. CASE FirstDrops(S) # {}
  <2>1. FirstDrops(S) = {max_seq}
    BY <1>1, <1>3
  <2> QED BY <2>1, FS_Singleton
<1> QED BY <1>2, <1>3

(* The drop bookkeeping keeps its counters well typed: the IDR window never *)
(* holds as many drops as the threshold.                                    *)
LEMMA CountDropsType ==
  ASSUME OnlyNewestBuffered, RxTypeOK,
         NEW S \in SUBSET DOMAIN frames, NEW kept \in 0 .. drop_times,
         CountDrops(S, kept)
  PROVE  /\ drop_times' \in 0 .. IDR_DROP_THRESHOLD - 1
         /\ frames_dropped' \in Nat
<1> DEFINE n == Cardinality(FirstDrops(S))
<1>1. n \in Nat
  BY FirstDropsCount
<1>2. frames_dropped' \in Nat
  BY <1>1 DEF CountDrops, RxTypeOK
<1>3. drop_times \in 0 .. IDR_DROP_THRESHOLD - 1 /\ kept + n \in Nat
  BY <1>1 DEF RxTypeOK
<1>4. \A m \in Nat : m % IDR_DROP_THRESHOLD \in 0 .. IDR_DROP_THRESHOLD - 1
  BY RxConstants
<1>5. drop_times' \in {drop_times, (kept + n) % IDR_DROP_THRESHOLD}
  BY DEF CountDrops, WindowAfter
<1> QED BY <1>2, <1>3, <1>4, <1>5

(* A NACK for a buffered frame names a frame_seq and fragments that exist.  *)
LEMMA NackType ==
  ASSUME RxTypeOK, NEW s \in DOMAIN frames
  PROVE  Nack(s, frames[s]) \in Feedbacks
<1>1. IsFrameBuf(frames[s]) /\ s \in Seqs
  BY DEF RxTypeOK
<1>2. Missing(frames[s]) \subseteq 0 .. MAX_FRAGS_PER_FRAME - 1
  BY <1>1, PacketConstants DEF IsFrameBuf, Missing
<1> QED BY <1>1, <1>2 DEF Nack, Feedbacks

LEMMA NacksType ==
  ASSUME RxTypeOK, NEW S \in SUBSET DOMAIN frames
  PROVE  Nacks(S) \subseteq Feedbacks
BY NackType DEF Nacks

(* The first fragment makes a well-formed buffer...                         *)
LEMMA NewBufType ==
  ASSUME NEW d \in Datagrams, NEW bytes \in PayloadSizes,
         d.frag_count <= MAX_FRAGS_PER_FRAME
  PROVE  /\ IsFrameBuf(NewBuf(d, bytes))
         /\ DOMAIN NewBuf(d, bytes).frags # {}
         /\ NewBuf(d, bytes).renacks = 0
         /\ ~NewBuf(d, bytes).nacked
<1>1. /\ d.frag_count \in 1 .. MAX_FRAGS_PER_FRAME
      /\ d.frag_index \in 0 .. d.frag_count - 1
      /\ d.unit \in Units
      /\ bytes \in Nat
  BY PacketConstants, RxConstants DEF Datagrams
<1> QED BY <1>1 DEF NewBuf, IsFrameBuf

(* ... and every further one keeps it so.                                   *)
LEMMA AddFragmentType ==
  ASSUME NEW d \in Datagrams, NEW bytes \in PayloadSizes,
         NEW f, IsFrameBuf(f), DOMAIN f.frags # {},
         f.frag_count = d.frag_count,
         f.renacks <= MAX_GRACE_RENACKS,
         f.nacked => f.drop_counted, ~f.nacked => f.renacks = 0
  PROVE  LET g == AddFragment(f, d, bytes)
         IN /\ IsFrameBuf(g)
            /\ DOMAIN g.frags # {}
            /\ g.renacks <= MAX_GRACE_RENACKS
            /\ g.nacked => g.drop_counted
            /\ ~g.nacked => g.renacks = 0
<1>1. CASE d.frag_index \in DOMAIN f.frags
  BY <1>1 DEF AddFragment
<1>2. CASE d.frag_index \notin DOMAIN f.frags
  <2> DEFINE frags == [i \in DOMAIN f.frags \cup {d.frag_index} |->
                         IF i = d.frag_index THEN d.unit ELSE f.frags[i]]
             g == AddFragment(f, d, bytes)
  <2>1. g = [frag_count |-> f.frag_count, frags |-> frags,
             total_bytes |-> f.total_bytes + bytes, nacked |-> FALSE,
             drop_counted |-> f.drop_counted, renacks |-> 0]
    BY <1>2 DEF AddFragment, IsFrameBuf
  <2>2. /\ d.frag_index \in 0 .. f.frag_count - 1
        /\ d.unit \in Units
        /\ f.total_bytes + bytes \in Nat
    <3>1. d.frag_index \in 0 .. f.frag_count - 1 /\ d.unit \in Units
      BY DEF Datagrams
    <3>2. f.total_bytes \in Nat /\ bytes \in Nat
      BY PacketConstants, RxConstants DEF IsFrameBuf
    <3> QED BY <3>1, <3>2
  <2>3. frags \in [DOMAIN frags -> Units] /\ DOMAIN frags \subseteq 0 .. f.frag_count - 1
    BY <2>2 DEF IsFrameBuf
  <2>4. IsFrameBuf(g)
    <3> HIDE DEF frags, g
    <3> QED BY <2>1, <2>2, <2>3 DEF IsFrameBuf
  <2> QED BY <2>1, <2>4, RxConstants
<1> QED BY <1>1, <1>2

-----------------------------------------------------------------------------
LEMMA InitRxInv == RxInit => RxInv
BY RxConstants DEF RxInit, RxInv, RxTypeOK, OnlyNewestBuffered, BufferCoherent

LEMMA BufferedStep ==
  ASSUME RxInv, NEW d \in Datagrams, NEW bytes \in PayloadSizes,
         FragmentOfBuffered(d, bytes)
  PROVE  RxInv'
<1> DEFINE s == d.frame_seq
           g == AddFragment(frames[s], d, bytes)
<1>1. /\ RxTypeOK /\ OnlyNewestBuffered /\ BufferCoherent
      /\ s \in DOMAIN frames /\ s \in Seqs
  BY DEF RxInv, FragmentOfBuffered, RxTypeOK
<1>2. /\ IsFrameBuf(g) /\ DOMAIN g.frags # {}
      /\ g.renacks <= MAX_GRACE_RENACKS
      /\ g.nacked => g.drop_counted
      /\ ~g.nacked => g.renacks = 0
  BY <1>1, AddFragmentType DEF RxTypeOK, BufferCoherent, FragmentOfBuffered
<1>3. UNCHANGED <<max_seq, pending, drop_times, frames_dropped>>
  BY DEF FragmentOfBuffered
<1>4. CASE Oversized(g) \/ IsComplete(g)
  <2>1. /\ frames' = Without(s)
        /\ Complete(s, g) \/ UNCHANGED <<frames_complete, delivered>>
    BY <1>4 DEF FragmentOfBuffered
  <2> HIDE DEF g
  <2>2. RxTypeOK'
    BY <1>1, <1>3, <2>1 DEF RxTypeOK, Without, Complete
  <2>3. OnlyNewestBuffered' /\ BufferCoherent'
    BY <1>1, <1>3, <2>1
    DEF OnlyNewestBuffered, BufferCoherent, Without, IsComplete, Missing, Oversized
  <2> QED BY <2>2, <2>3 DEF RxInv
<1>5. CASE ~Oversized(g) /\ ~IsComplete(g)
  <2>1. /\ frames' = [frames EXCEPT ![s] = g]
        /\ UNCHANGED <<frames_complete, delivered>>
    BY <1>5 DEF FragmentOfBuffered
  <2> HIDE DEF g
  <2>2. RxTypeOK'
    BY <1>1, <1>2, <1>3, <2>1 DEF RxTypeOK
  <2>3. OnlyNewestBuffered' /\ BufferCoherent'
    BY <1>1, <1>2, <1>3, <1>5, <2>1
    DEF OnlyNewestBuffered, BufferCoherent, IsComplete, Missing, Oversized
  <2> QED BY <2>2, <2>3 DEF RxInv
<1> QED BY <1>4, <1>5

LEMMA NewerStep ==
  ASSUME RxInv, NEW d \in Datagrams, NEW bytes \in PayloadSizes,
         FirstOfNewer(d, bytes)
  PROVE  RxInv'
<1> DEFINE s == d.frame_seq
           f == NewBuf(d, bytes)
<1>1. RxTypeOK /\ OnlyNewestBuffered /\ s \in Seqs
  BY DEF RxInv, Datagrams
<1>2. /\ IsFrameBuf(f) /\ DOMAIN f.frags # {}
      /\ f.renacks = 0 /\ ~f.nacked
  BY NewBufType DEF FirstOfNewer, Accepts
<1>3. max_seq' = s
  BY DEF FirstOfNewer
<1>4. PICK kept \in 0 .. drop_times :
        /\ CountDrops(DOMAIN frames, kept)
        /\ pending' = pending \cup Nacks(FreshDrops(DOMAIN frames))
                              \cup IdrDue(DOMAIN frames, kept)
  BY DEF FirstOfNewer
<1>5. drop_times' \in 0 .. IDR_DROP_THRESHOLD - 1 /\ frames_dropped' \in Nat
  BY <1>1, <1>4, CountDropsType
<1>6. pending' \subseteq Feedbacks
  <2>1. Nacks(FreshDrops(DOMAIN frames)) \subseteq Feedbacks
    BY <1>1, NacksType DEF FreshDrops
  <2> QED BY <1>1, <1>4, <2>1 DEF RxTypeOK, IdrDue, Feedbacks
<1>7. CASE Oversized(f) \/ IsComplete(f)
  <2>1. /\ frames' = [t \in {} |-> NoSeq]
        /\ Complete(s, f) \/ UNCHANGED <<frames_complete, delivered>>
    BY <1>7 DEF FirstOfNewer, NoOlder
  <2> HIDE DEF f
  <2>2. RxTypeOK'
    BY <1>1, <1>3, <1>5, <1>6, <2>1 DEF RxTypeOK, Complete
  <2>3. OnlyNewestBuffered' /\ BufferCoherent'
    BY <2>1 DEF OnlyNewestBuffered, BufferCoherent
  <2> QED BY <2>2, <2>3 DEF RxInv
<1>8. CASE ~Oversized(f) /\ ~IsComplete(f)
  <2>1. /\ frames' = [t \in {s} |-> f]
        /\ UNCHANGED <<frames_complete, delivered>>
    BY <1>8 DEF FirstOfNewer, NoOlder
  <2> HIDE DEF f
  <2>2. RxTypeOK'
    BY <1>1, <1>2, <1>3, <1>5, <1>6, <2>1 DEF RxTypeOK
  <2>3. OnlyNewestBuffered' /\ BufferCoherent'
    BY <1>2, <1>3, <1>8, <2>1, RxConstants
    DEF OnlyNewestBuffered, BufferCoherent, IsComplete, Missing, Oversized
  <2> QED BY <2>2, <2>3 DEF RxInv
<1> QED BY <1>7, <1>8

(* What a maintenance pass leaves of a frame it does not give up.           *)
LEMMA MaintainedType ==
  ASSUME RxInv, NEW s \in DOMAIN frames,
         NEW timedOut \in SUBSET DOMAIN frames, NEW expired \in SUBSET DOMAIN frames,
         expired \subseteq timedOut \cup {t \in DOMAIN frames : frames[t].nacked},
         s \notin GivenUp(expired)
  PROVE  LET g == Maintained(s, timedOut, expired)
         IN /\ IsFrameBuf(g)
            /\ ~IsComplete(g) /\ ~Oversized(g)
            /\ DOMAIN g.frags # {}
            /\ g.renacks <= MAX_GRACE_RENACKS
            /\ g.nacked => g.drop_counted
            /\ ~g.nacked => g.renacks = 0
<1> DEFINE f == frames[s]
           e == IF s \in timedOut THEN Dropped(f) ELSE f
           g == Maintained(s, timedOut, expired)
<1>1. /\ IsFrameBuf(f) /\ ~IsComplete(f) /\ ~Oversized(f) /\ DOMAIN f.frags # {}
      /\ f.renacks <= MAX_GRACE_RENACKS
      /\ f.nacked => f.drop_counted
      /\ ~f.nacked => f.renacks = 0
  BY DEF RxInv, RxTypeOK, BufferCoherent, Oversized
<1>2. s \in expired => f.renacks + 1 <= MAX_GRACE_RENACKS
  BY <1>1, RxConstants DEF GivenUp, GivesUp, IsFrameBuf
<1>3. /\ e.frag_count = f.frag_count /\ e.frags = f.frags
      /\ e.renacks = f.renacks /\ e.total_bytes = f.total_bytes
      /\ e = [frag_count |-> e.frag_count, frags |-> e.frags,
              total_bytes |-> e.total_bytes, nacked |-> e.nacked,
              drop_counted |-> e.drop_counted, renacks |-> e.renacks]
      /\ e.nacked \in BOOLEAN /\ e.drop_counted \in BOOLEAN
      /\ e.nacked => e.drop_counted
      /\ ~e.nacked => e.renacks = 0
      /\ s \in expired => e.nacked
  BY <1>1 DEF Dropped, IsFrameBuf
<1>4. /\ g.frag_count = e.frag_count /\ g.frags = e.frags
      /\ g.nacked = e.nacked /\ g.drop_counted = e.drop_counted
      /\ g.total_bytes = e.total_bytes
      /\ g.renacks = IF s \in expired THEN e.renacks + 1 ELSE e.renacks
      /\ g = [frag_count |-> g.frag_count, frags |-> g.frags,
              total_bytes |-> g.total_bytes, nacked |-> g.nacked,
              drop_counted |-> g.drop_counted, renacks |-> g.renacks]
  <2> HIDE DEF e
  <2>1. g = IF s \in expired THEN [e EXCEPT !.renacks = @ + 1] ELSE e
    BY DEF Maintained, e
  <2> HIDE DEF g
  <2> QED BY <1>3, <2>1
<1> HIDE DEF e, g
<1>5. g.renacks \in Nat /\ g.renacks <= MAX_GRACE_RENACKS
  BY <1>1, <1>2, <1>3, <1>4 DEF IsFrameBuf
<1>6. IsFrameBuf(g)
  BY <1>1, <1>3, <1>4, <1>5 DEF IsFrameBuf
<1>7. ~IsComplete(g) /\ ~Oversized(g)
  BY <1>1, <1>3, <1>4 DEF IsComplete, Missing, Oversized
<1>8. /\ DOMAIN g.frags # {}
      /\ g.nacked => g.drop_counted
      /\ ~g.nacked => g.renacks = 0
  BY <1>1, <1>3, <1>4
<1> QED BY <1>5, <1>6, <1>7, <1>8, Zenon DEF g

LEMMA MaintenanceStep ==
  ASSUME RxInv,
         NEW timedOut \in SUBSET DOMAIN frames, NEW expired \in SUBSET DOMAIN frames,
         Maintenance(timedOut, expired)
  PROVE  RxInv'
<1> DEFINE left == DOMAIN frames \ GivenUp(expired)
<1>1. RxTypeOK /\ OnlyNewestBuffered
  BY DEF RxInv
<1>2. /\ frames' = [s \in left |-> Maintained(s, timedOut, expired)]
      /\ UNCHANGED <<max_seq, frames_complete, delivered>>
      /\ expired \subseteq timedOut \cup {s \in DOMAIN frames : frames[s].nacked}
  BY DEF Maintenance
<1>3. PICK kept \in 0 .. drop_times :
        /\ CountDrops(timedOut, kept)
        /\ pending' = pending \cup Nacks(timedOut) \cup IdrDue(timedOut, kept)
                        \cup Nacks(expired \ GivenUp(expired))
                        \cup (IF GivenUp(expired) = {} THEN {} ELSE {IdrRequest})
  BY DEF Maintenance
<1>4. drop_times' \in 0 .. IDR_DROP_THRESHOLD - 1 /\ frames_dropped' \in Nat
  BY <1>1, <1>3, CountDropsType
<1>5. pending' \subseteq Feedbacks
  <2>1. Nacks(timedOut) \subseteq Feedbacks
    BY <1>1, NacksType
  <2>2. Nacks(expired \ GivenUp(expired)) \subseteq Feedbacks
    BY <1>1, NacksType
  <2> QED BY <1>1, <1>3, <2>1, <2>2 DEF RxTypeOK, IdrDue, Feedbacks
<1>6. \A s \in left : LET g == Maintained(s, timedOut, expired)
                      IN /\ IsFrameBuf(g)
                         /\ ~IsComplete(g) /\ ~Oversized(g)
                         /\ DOMAIN g.frags # {}
                         /\ g.renacks <= MAX_GRACE_RENACKS
                         /\ g.nacked => g.drop_counted
                         /\ ~g.nacked => g.renacks = 0
  BY <1>2, MaintainedType
<1>7. RxTypeOK'
  BY <1>1, <1>2, <1>4, <1>5, <1>6 DEF RxTypeOK
<1>8. OnlyNewestBuffered' /\ BufferCoherent'
  BY <1>1, <1>2, <1>6 DEF OnlyNewestBuffered, BufferCoherent, IsComplete, Missing, Oversized
<1> QED BY <1>7, <1>8 DEF RxInv

LEMMA StepRxInv == RxInv /\ [RxNext]_rxVars => RxInv'
<1> SUFFICES ASSUME RxInv, [RxNext]_rxVars PROVE RxInv'
  OBVIOUS
<1>1. CASE UNCHANGED rxVars
  BY <1>1 DEF rxVars, RxInv, RxTypeOK, OnlyNewestBuffered, BufferCoherent,
              IsComplete, Missing, Oversized
<1>2. ASSUME NEW d \in Datagrams, NEW bytes \in PayloadSizes, HandleDatagram(d, bytes)
      PROVE  RxInv'
  <2>1. CASE FragmentOfBuffered(d, bytes)
    BY <2>1, BufferedStep
  <2>2. CASE FirstOfNewer(d, bytes)
    BY <2>2, NewerStep
  <2>3. CASE IgnoredDatagram(d)
    BY <2>3, <1>1 DEF IgnoredDatagram
  <2> QED BY <1>2, <2>1, <2>2, <2>3 DEF HandleDatagram
<1>3. ASSUME NEW timedOut \in SUBSET DOMAIN frames, NEW expired \in SUBSET DOMAIN frames,
             Maintenance(timedOut, expired)
      PROVE  RxInv'
  BY <1>3, MaintenanceStep
<1>4. CASE TakeFeedback
  BY <1>4 DEF TakeFeedback, RxInv, RxTypeOK, OnlyNewestBuffered, BufferCoherent,
              IsComplete, Missing, Oversized
<1> QED BY <1>1, <1>2, <1>3, <1>4 DEF RxNext

LEMMA RxInvariant == RxSpec => []RxInv
BY InitRxInv, StepRxInv, PTL DEF RxSpec

-----------------------------------------------------------------------------
(* VideoRx's fields keep their types whatever the network delivers.         *)
THEOREM RxTypeCorrect == RxSpec => []RxTypeOK
<1>1. RxInv => RxTypeOK
  BY DEF RxInv
<1> QED BY RxInvariant, <1>1, PTL

(* Latest wins: handle_datagram never holds a frame beside the newest one   *)
(* it accepted.                                                             *)
THEOREM LatestWins == RxSpec => []OnlyNewestBuffered
<1>1. RxInv => OnlyNewestBuffered
  BY DEF RxInv
<1> QED BY RxInvariant, <1>1, PTL

(* The flags and counters of a buffered frame agree, and its re-NACKs stay  *)
(* within MAX_GRACE_RENACKS, in every order of fragments and timers.        *)
THEOREM DropPolicyCoherent == RxSpec => []BufferCoherent
<1>1. RxInv => BufferCoherent
  BY DEF RxInv
<1> QED BY RxInvariant, <1>1, PTL

(* Both together, as the runs check them.                                   *)
THEOREM BufferSoundness == RxSpec => []BufferSound
<1>1. RxInv => BufferSound
  BY DEF RxInv, BufferSound
<1> QED BY RxInvariant, <1>1, PTL

(* A frame that is dropped for the first time moves frames_dropped.         *)
LEMMA FirstDropIsCounted ==
  ASSUME RxInv, NEW S \in SUBSET DOMAIN frames, NEW kept, CountDrops(S, kept),
         NEW s \in S, ~frames[s].drop_counted
  PROVE  frames_dropped' > frames_dropped
<1>1. s \in FirstDrops(S)
  BY DEF RxInv, BufferCoherent, FirstDrops, FreshDrops
<1>2. Cardinality(FirstDrops(S)) = 1
  BY <1>1, FirstDropsCount DEF RxInv
<1> QED BY <1>2 DEF CountDrops, RxInv, RxTypeOK

(* Whatever a datagram takes out of the buffer leaves a trace, unless the   *)
(* datagram takes it over the byte cap.                                     *)
LEMMA HandledTraced ==
  ASSUME RxInv, NEW d \in Datagrams, NEW bytes \in PayloadSizes, HandleDatagram(d, bytes),
         NEW s \in DOMAIN frames \ DOMAIN frames'
  PROVE  \/ Traced(s)
         \/ /\ FragmentOfBuffered(d, bytes) /\ s = d.frame_seq
            /\ Oversized(AddFragment(frames[s], d, bytes))
<1>1. CASE FragmentOfBuffered(d, bytes)
  <2>1. s = d.frame_seq
    BY <1>1 DEF FragmentOfBuffered, Without
  <2>2. CASE ~Oversized(AddFragment(frames[s], d, bytes))
    <3>1. Complete(s, AddFragment(frames[s], d, bytes))
      BY <1>1, <2>1, <2>2 DEF FragmentOfBuffered
    <3> QED BY <3>1 DEF Complete, RxInv, RxTypeOK, Traced
  <2> QED BY <1>1, <2>1, <2>2
<1>2. CASE FirstOfNewer(d, bytes)
  <2>1. PICK kept \in 0 .. drop_times : CountDrops(DOMAIN frames, kept)
    BY <1>2 DEF FirstOfNewer
  <2> QED BY <2>1, FirstDropIsCounted DEF Traced
<1>3. CASE IgnoredDatagram(d)
  BY <1>3 DEF IgnoredDatagram, rxVars
<1> QED BY <1>1, <1>2, <1>3 DEF HandleDatagram

(* And whatever the timers take out.                                        *)
LEMMA TimedOutTraced ==
  ASSUME RxInv, NEW timedOut \in SUBSET DOMAIN frames, NEW expired \in SUBSET DOMAIN frames,
         Maintenance(timedOut, expired), NEW s \in DOMAIN frames \ DOMAIN frames'
  PROVE  Traced(s)
<1>1. PICK kept \in 0 .. drop_times : CountDrops(timedOut, kept)
  BY DEF Maintenance
<1>2. s \in timedOut \/ frames[s].nacked
  BY DEF Maintenance, GivenUp
<1>3. CASE frames[s].nacked
  BY <1>3 DEF RxInv, BufferCoherent, Traced
<1>4. CASE s \in timedOut
  BY <1>1, <1>4, FirstDropIsCounted DEF Traced
<1> QED BY <1>2, <1>3, <1>4

(* Whatever leaves the buffer leaves a trace or is garbage.                 *)
LEMMA TracedOrGarbage ==
  ASSUME RxInv, [RxNext]_rxVars, NEW s \in DOMAIN frames \ DOMAIN frames'
  PROVE  Traced(s) \/ GoesAsGarbage(s)
<1>1. CASE UNCHANGED rxVars
  BY <1>1 DEF rxVars
<1>2. ASSUME NEW d \in Datagrams, NEW bytes \in PayloadSizes, HandleDatagram(d, bytes)
      PROVE  Traced(s) \/ GoesAsGarbage(s)
  <2> DEFINE f == AddFragment(frames[s], d, bytes)
  <2>1. ASSUME FragmentOfBuffered(d, bytes), Oversized(f)
        PROVE  GoesAsGarbage(s)
    <3>1. IsFrameBuf(frames[s]) /\ ~Oversized(frames[s])
      BY DEF RxInv, RxTypeOK, BufferCoherent, Oversized
    <3>2. f.total_bytes \in {frames[s].total_bytes, frames[s].total_bytes + bytes}
      BY <3>1 DEF AddFragment, IsFrameBuf
    <3>3. max_seq' = max_seq
      BY <2>1 DEF FragmentOfBuffered
    <3> QED BY <2>1, <3>1, <3>2, <3>3 DEF Oversized, GoesAsGarbage
  <2> QED BY <1>2, <2>1, HandledTraced
<1>3. CASE TakeFeedback
  BY <1>3 DEF TakeFeedback
<1> QED BY <1>1, <1>2, <1>3, TimedOutTraced DEF RxNext

(* No frame leaves the buffer without a trace in the statistics, but one    *)
(* that the next payload takes over MAX_FRAME_BYTES: handle_datagram throws *)
(* that away and counts nothing.                                            *)
THEOREM NoSilentLoss == RxSpec => SilentOnlyOversized
<1>1. RxInv /\ [RxNext]_rxVars
        => [\A s \in DOMAIN frames \ DOMAIN frames' : Traced(s) \/ GoesAsGarbage(s)]_rxVars
  BY TracedOrGarbage
<1> QED BY RxInvariant, <1>1, PTL DEF RxSpec, SilentOnlyOversized

-----------------------------------------------------------------------------
(* The inductive invariant.                                                 *)

(* Fragment i of unit n, as send_unit cut it.                               *)
Fragment(n, i) ==
  [frame_seq |-> sent[n].frame_seq, frag_index |-> i,
   frag_count |-> sent[n].frag_count, unit |-> n]

IsSent(d) ==
  /\ d.unit \in DOMAIN sent
  /\ d.frag_index \in 0 .. sent[d.unit].frag_count - 1
  /\ d = Fragment(d.unit, d.frag_index)

UnitHeads == [frame_seq : Seqs, frag_count : 1 .. MAX_FRAGS_PER_FRAME]

TxTypeOK ==
  /\ tx_pc \in {"idle", "encoding", "sending", "between", "dead"}
  /\ sent \in Seq(UnitHeads)
  /\ Len(sent) <= MaxUnits
  /\ frame_seq \in Seqs
  /\ next_frag \in Nat
  /\ tx_pc = "sending" => sent # << >> /\ next_frag < sent[Len(sent)].frag_count
  /\ tx_pc \in {"idle", "encoding", "between"} /\ sent # << >> =>
       next_frag = sent[Len(sent)].frag_count

(* frame_seq k units later, and the unit the next frame_seq is for.         *)
Ahead(s, k) == IF s + k < SeqSpace THEN s + k ELSE s + k - SeqSpace
Numbered == IF tx_pc = "sending" THEN Len(sent) ELSE Len(sent) + 1

(* Consecutive units have consecutive sequence numbers, modulo SeqSpace:    *)
(* stated for pairs less than SeqSpace apart, where no division is needed.  *)
UnitsNumbered ==
  /\ \A m, n \in DOMAIN sent :
       n \in m .. m + SeqSpace - 1 =>
         sent[n].frame_seq = Ahead(sent[m].frame_seq, n - m)
  /\ tx_pc # "dead" =>
       \A m \in DOMAIN sent :
         Numbered - m < SeqSpace => frame_seq = Ahead(sent[m].frame_seq, Numbered - m)

(* The ring holds fragments that were sent, under their own keys; of the    *)
(* unit in progress, only those before next_frag.                           *)
Stored(i) == ring[ring_order[i]]
RingContents ==
  /\ ring_order \in Seq(DOMAIN ring)
  /\ Range(ring_order) = DOMAIN ring
  /\ \A k \in DOMAIN ring :
       /\ IsSent(ring[k])
       /\ Key(ring[k]) = k
       /\ tx_pc # "dead" /\ ring[k].unit = Len(sent) => ring[k].frag_index < next_frag

(* Every unit after a retained one has a datagram in the ring as well, so a *)
(* datagram is no more units old than there are datagrams after it; the     *)
(* unit just begun may still have none.                                     *)
NotYetStored == IF tx_pc = "sending" /\ next_frag = 0 THEN 1 ELSE 0
RingSpread ==
  \A i \in DOMAIN ring_order :
    Len(sent) - Stored(i).unit <= Len(ring_order) - i + NotYetStored

(* ring_used is the bytes of what is retained, within the capacity.         *)
RingBudget ==
  /\ ring_used = Bytes(Range(ring))
  /\ ring_used <= RingBytes

RingInv == RingContents /\ RingHoldsNewest /\ RingSpread /\ RingBudget

(* What is in flight was sent, and lags by Window units at most.            *)
InFlight ==
  /\ \A d \in net : IsSent(d) /\ Len(sent) - d.unit <= Window
  /\ newest \in 0 .. Len(sent)
  /\ Len(sent) - newest <= Window

(* The receiver's newest frame is a unit that was sent, the buffered        *)
(* fragments are all of that unit, it has not been shown, and its drop is   *)
(* not counted unless it says so.                                           *)
RxFollows ==
  /\ newest = 0 <=> max_seq = NoSeq
  /\ newest > 0 => max_seq = sent[newest].frame_seq
  /\ dropped \in 0 .. newest
  /\ LatestShown \in 0 .. newest
  /\ \A s \in DOMAIN frames :
       /\ newest > 0
       /\ frames[s].frag_count = sent[newest].frag_count
       /\ \A i \in DOMAIN frames[s].frags : frames[s].frags[i] = newest
       /\ LatestShown < newest
       /\ ~frames[s].drop_counted => dropped < newest

(* A buffered frame has no more bytes than its fragments brought.           *)
FragmentBytes(D, n) ==
  IF n - 1 \in D
  THEN (Cardinality(D) - 1) * FullBytes + TailBytes
  ELSE Cardinality(D) * FullBytes

OwnBytes(f) == f.total_bytes <= FragmentBytes(DOMAIN f.frags, f.frag_count)

RxBytes == \A s \in DOMAIN frames : OwnBytes(frames[s])

(* What was returned last is one whole unit that was sent.                  *)
DeliveredWhole ==
  delivered # NoUnit =>
    /\ delivered.frags[0] \in DOMAIN sent
    /\ WholeUnits

TxInv == TxTypeOK /\ UnitsNumbered /\ RingInv

LinkInv == TxInv /\ RxInv /\ InFlight /\ RxFollows /\ RxBytes /\ DeliveredWhole

-----------------------------------------------------------------------------
(* A nonempty set of naturals has the least element Min takes.              *)
LEMMA LeastElement ==
  ASSUME NEW S \in SUBSET Nat, S # {}
  PROVE  Min(S) \in S
<1>1. IsWellFoundedOn({p \in Nat \X Nat : p[1] < p[2]}, Nat)
  BY NatLessThanWellFounded DEF OpToRel
<1>2. PICK x \in S : \A y \in S : ~(<<y, x>> \in {p \in Nat \X Nat : p[1] < p[2]})
  BY <1>1, WFMin
<1>3. \A y \in S : x <= y
  <2> TAKE y \in S
  <2>1. <<y, x>> \in Nat \X Nat /\ ~(y < x)
    BY <1>2
  <2> QED BY <2>1
<1> QED BY <1>3 DEF Min

(* Max of the one or two numbers DroppedAfter compares.                     *)
LEMMA MaxOfTwo ==
  ASSUME NEW a \in Nat, NEW b \in Nat, a <= b
  PROVE  Max({a, b}) = b /\ Max({a}) = a /\ Max({b}) = b
<1>1. Max({a, b}) \in {a, b} /\ \A y \in {a, b} : Max({a, b}) >= y
  BY DEF Max
<1>2. Max({a}) \in {a}
  BY DEF Max
<1>3. Max({b}) \in {b}
  BY DEF Max
<1> QED BY <1>1, <1>2, <1>3

-----------------------------------------------------------------------------
(* The bytes of a set of datagrams: at least a tail's worth each, ...       *)
LEMMA BytesType ==
  ASSUME NEW D, IsFiniteSet(D)
  PROVE  /\ Bytes(D) \in Nat
         /\ Bytes(D) >= Cardinality(D) * TailBytes
<1> DEFINE tails == {d \in D : IsTail(d)}
<1>1. IsFiniteSet(tails) /\ IsFiniteSet(D \ tails)
  BY FS_Subset
<1>2. Cardinality(tails) \in Nat /\ Cardinality(D \ tails) \in Nat
  BY <1>1, FS_CardinalityType
<1>3. Cardinality(D) = Cardinality(D \ tails) + Cardinality(tails)
  <2>1. Cardinality(D \ tails) = Cardinality(D) - Cardinality(D \cap tails)
    BY FS_Difference
  <2>2. D \cap tails = tails
    OBVIOUS
  <2>3. Cardinality(D) \in Nat
    BY FS_CardinalityType
  <2> QED BY <1>2, <2>1, <2>2, <2>3
<1> HIDE DEF tails
<1>4. \A a, b \in Nat : /\ a * FullBytes + b * TailBytes \in Nat
                        /\ a * FullBytes + b * TailBytes >= (a + b) * TailBytes
  <2> TAKE a, b \in Nat
  <2>1. PICK x \in Nat : FullBytes = TailBytes + x
    <3>1. FullBytes - TailBytes \in Nat /\ FullBytes = TailBytes + (FullBytes - TailBytes)
      BY TxConstants
    <3> QED BY <3>1
  <2>2. a * x \in Nat /\ (a + b) * TailBytes \in Nat
    BY <2>1, TxConstants
  <2>3. a * FullBytes + b * TailBytes = a * x + (a + b) * TailBytes
    BY <2>1, TxConstants
  <2> QED BY <2>2, <2>3
<1> QED BY <1>2, <1>3, <1>4 DEF Bytes, tails

LEMMA NoBytes == Bytes({}) = 0
<1>1. {d \in {} : IsTail(d)} = {} /\ {} \ {d \in {} : IsTail(d)} = {}
  OBVIOUS
<1> QED BY <1>1, FS_EmptySet, TxConstants DEF Bytes

(* ... what eviction takes off is what the evicted datagrams had, ...       *)
LEMMA BytesSplit ==
  ASSUME NEW D, IsFiniteSet(D), NEW E \in SUBSET D
  PROVE  Bytes(D \ E) = Bytes(D) - Bytes(E)
<1> DEFINE tD == {d \in D : IsTail(d)}
           tE == {d \in E : IsTail(d)}
           tR == {d \in D \ E : IsTail(d)}
<1>1. IsFiniteSet(E) /\ IsFiniteSet(D \ E)
  BY FS_Subset
<1>2. /\ IsFiniteSet(tD) /\ IsFiniteSet(D \ tD)
      /\ IsFiniteSet(tE) /\ IsFiniteSet(E \ tE)
      /\ IsFiniteSet(tR) /\ IsFiniteSet((D \ E) \ tR)
  BY <1>1, FS_Subset
<1>3. tR = tD \ tE /\ tD \cap tE = tE
  OBVIOUS
<1>4. (D \ E) \ tR = (D \ tD) \ (E \ tE) /\ (D \ tD) \cap (E \ tE) = E \ tE
  OBVIOUS
<1> HIDE DEF tD, tE, tR
<1>5. Cardinality(tR) = Cardinality(tD) - Cardinality(tE)
  <2>1. Cardinality(tD \ tE) = Cardinality(tD) - Cardinality(tD \cap tE)
    BY <1>2, FS_Difference
  <2> QED BY <1>3, <2>1
<1>6. Cardinality((D \ E) \ tR) = Cardinality(D \ tD) - Cardinality(E \ tE)
  <2>1. Cardinality((D \ tD) \ (E \ tE))
          = Cardinality(D \ tD) - Cardinality((D \ tD) \cap (E \ tE))
    BY <1>2, FS_Difference
  <2> QED BY <1>4, <2>1
<1>7. /\ Cardinality(tD) \in Nat /\ Cardinality(tE) \in Nat
      /\ Cardinality(D \ tD) \in Nat /\ Cardinality(E \ tE) \in Nat
  BY <1>2, FS_CardinalityType
<1>8. /\ Bytes(D) = Cardinality(D \ tD) * FullBytes + Cardinality(tD) * TailBytes
      /\ Bytes(E) = Cardinality(E \ tE) * FullBytes + Cardinality(tE) * TailBytes
      /\ Bytes(D \ E) = Cardinality((D \ E) \ tR) * FullBytes + Cardinality(tR) * TailBytes
  BY DEF Bytes, tD, tE, tR
<1>9. \A a, b, c, e \in Nat :
        (a - c) * FullBytes + (b - e) * TailBytes
          = (a * FullBytes + b * TailBytes) - (c * FullBytes + e * TailBytes)
  BY TxConstants
<1> QED BY <1>5, <1>6, <1>7, <1>8, <1>9

(* ... and an insertion adds the size of the new one.                       *)
LEMMA BytesAdd ==
  ASSUME NEW D, IsFiniteSet(D), NEW d, d \notin D
  PROVE  Bytes(D \cup {d}) = Bytes(D) + Size(d)
<1>1. IsFiniteSet(D \cup {d})
  BY FS_AddElement
<1>2. IsFiniteSet({d}) /\ Cardinality({d}) = 1
  BY FS_Singleton
<1>3. (D \cup {d}) \ {d} = D
  OBVIOUS
<1>4. Bytes(D) = Bytes(D \cup {d}) - Bytes({d})
  BY <1>1, <1>3, BytesSplit
<1>5. Bytes({d}) = Size(d)
  <2>1. CASE IsTail(d)
    <3>1. {e \in {d} : IsTail(e)} = {d} /\ {d} \ {e \in {d} : IsTail(e)} = {}
      BY <2>1
    <3> QED BY <1>2, <2>1, <3>1, FS_EmptySet, TxConstants DEF Bytes, Size
  <2>2. CASE ~IsTail(d)
    <3>1. {e \in {d} : IsTail(e)} = {} /\ {d} \ {e \in {d} : IsTail(e)} = {d}
      BY <2>2
    <3> QED BY <1>2, <2>2, <3>1, FS_EmptySet, TxConstants DEF Bytes, Size
  <2> QED BY <2>1, <2>2
<1> QED BY <1>1, <1>2, <1>4, <1>5, BytesType

-----------------------------------------------------------------------------
(* The units begun, and a fragment of one: it is a datagram VideoRx accepts *)
(* as well formed.                                                          *)
LEMMA SentTypes ==
  ASSUME TxTypeOK
  PROVE  /\ Len(sent) \in Nat
         /\ DOMAIN sent = 1 .. Len(sent)
         /\ \A n \in DOMAIN sent : /\ sent[n].frame_seq \in Seqs
                                  /\ sent[n].frag_count \in 1 .. MAX_FRAGS_PER_FRAME
<1>1. /\ Len(sent) \in Nat /\ DOMAIN sent = 1 .. Len(sent)
      /\ \A n \in DOMAIN sent : sent[n] \in UnitHeads
  BY DEF TxTypeOK
<1> QED BY <1>1 DEF UnitHeads

LEMMA SentFragment ==
  ASSUME TxTypeOK, NEW d, IsSent(d)
  PROVE  /\ d.unit \in 1 .. Len(sent)
         /\ d.frag_index \in 0 .. d.frag_count - 1
         /\ d.frame_seq = sent[d.unit].frame_seq
         /\ d.frag_count = sent[d.unit].frag_count
         /\ d.frag_count \in 1 .. MAX_FRAGS_PER_FRAME
         /\ d \in Datagrams
<1>1. /\ d.unit \in DOMAIN sent /\ DOMAIN sent = 1 .. Len(sent)
      /\ Len(sent) \in Nat
  BY SentTypes DEF IsSent
<1> DEFINE n == d.unit
           i == d.frag_index
<1>2. /\ i \in 0 .. sent[n].frag_count - 1
      /\ d = [frame_seq |-> sent[n].frame_seq, frag_index |-> i,
              frag_count |-> sent[n].frag_count, unit |-> n]
  BY DEF IsSent, Fragment
<1> HIDE DEF n, i
<1>3. d.frag_count = sent[n].frag_count /\ d.frame_seq = sent[n].frame_seq
  BY <1>2
<1>4. n \in Units
  BY <1>1, LinkConstants, TxConstants DEF n, TxTypeOK
<1>5. /\ sent[n].frag_count \in 1 .. MAX_FRAGS_PER_FRAME
      /\ sent[n].frame_seq \in Seqs
  BY <1>1, SentTypes DEF n
<1>6. d \in Datagrams
  BY <1>2, <1>4, <1>5, PacketConstants DEF Datagrams
<1> QED BY <1>1, <1>2, <1>3, <1>5, <1>6 DEF n, i

(* The FIFO lists the retained datagrams once each, so their number is its  *)
(* length.                                                                  *)
LEMMA RingListed ==
  ASSUME TxTypeOK, RingContents, RingHoldsNewest
  PROVE  /\ Len(ring_order) \in Nat /\ DOMAIN ring_order = 1 .. Len(ring_order)
         /\ \A i \in 1 .. Len(ring_order) : Stored(i) \in Range(ring) /\ IsSent(Stored(i))
         /\ \A i, j \in 1 .. Len(ring_order) : Stored(i) = Stored(j) => i = j
         /\ Range(ring) = {Stored(i) : i \in 1 .. Len(ring_order)}
         /\ IsFiniteSet(Range(ring))
         /\ Cardinality(Range(ring)) = Len(ring_order)
         /\ Cardinality(DOMAIN ring) = Len(ring_order)
<1> DEFINE L == Len(ring_order)
<1>1. /\ L \in Nat /\ DOMAIN ring_order = 1 .. L
      /\ \A i \in 1 .. L : ring_order[i] \in DOMAIN ring
      /\ ring_order \in [1 .. L -> DOMAIN ring]
  BY DEF RingContents
<1>2. \A i \in 1 .. L : Stored(i) \in Range(ring) /\ IsSent(Stored(i))
  BY <1>1 DEF RingContents, Stored, Range
<1>3. \A i, j \in 1 .. L : Stored(i) = Stored(j) => i = j
  <2> SUFFICES ASSUME NEW i \in 1 .. L, NEW j \in 1 .. L, i < j,
                      Stored(i) = Stored(j)
               PROVE  FALSE
    BY <1>1
  <2>1. Before(Stored(i), Stored(j))
    BY <1>1 DEF RingHoldsNewest, Stored
  <2>2. Stored(i).unit \in Nat /\ Stored(i).frag_index \in Nat
    <3>1. /\ Stored(i).unit \in 1 .. Len(sent) /\ Len(sent) \in Nat
          /\ Stored(i).frag_count \in 1 .. MAX_FRAGS_PER_FRAME
          /\ Stored(i).frag_index \in 0 .. Stored(i).frag_count - 1
      BY <1>2, SentFragment DEF TxTypeOK
    <3> QED BY <3>1, PacketConstants
  <2> QED BY <2>1, <2>2 DEF Before
<1>4. \A i, j \in 1 .. L : ring_order[i] = ring_order[j] => i = j
  BY <1>3 DEF Stored
<1>5. Range(ring) = {Stored(i) : i \in 1 .. L}
  <2>1. \A k \in DOMAIN ring : \E i \in 1 .. L : ring_order[i] = k
    BY <1>1 DEF RingContents, Range
  <2> QED BY <1>2, <2>1 DEF Stored, Range
<1>6. IsFiniteSet(1 .. L) /\ Cardinality(1 .. L) = L
  BY <1>1, FS_Interval
<1>7. Cardinality(DOMAIN ring) = L
  <2>1. ring_order \in Surjection(1 .. L, DOMAIN ring)
    BY <1>1 DEF RingContents, Range, Surjection
  <2>2. ring_order \in Injection(1 .. L, DOMAIN ring)
    BY <1>1, <1>4 DEF Injection, IsInjective
  <2> QED BY <1>6, <2>1, <2>2, FS_Surjection
<1>8. IsFiniteSet(Range(ring)) /\ Cardinality(Range(ring)) = L
  <2> DEFINE f == [i \in 1 .. L |-> Stored(i)]
  <2>1. f \in Surjection(1 .. L, Range(ring))
    BY <1>2, <1>5 DEF Surjection
  <2>2. f \in Injection(1 .. L, Range(ring))
    BY <1>2, <1>3 DEF Injection, IsInjective
  <2> HIDE DEF f
  <2> QED BY <1>6, <2>1, <2>2, FS_Surjection
<1> QED BY <1>1, <1>2, <1>3, <1>5, <1>7, <1>8

(* What remains of the ring once its n oldest datagrams are gone.           *)
Remaining(n) == {Stored(i) : i \in n + 1 .. Len(ring_order)}

(* The eviction's accounting is exact.                                      *)
LEMMA RemainingBytes ==
  ASSUME TxTypeOK, RingInv, NEW n \in 0 .. Len(ring_order)
  PROVE  /\ IsFiniteSet(Remaining(n))
         /\ Remaining(n) \subseteq Range(ring)
         /\ UsedAfter(n) = Bytes(Remaining(n))
         /\ UsedAfter(n) \in Nat
         /\ n = Len(ring_order) => Remaining(n) = {} /\ UsedAfter(n) = 0
<1> DEFINE L == Len(ring_order)
           oldest == {Stored(i) : i \in 1 .. n}
<1>1. /\ L \in Nat
      /\ \A i, j \in 1 .. L : Stored(i) = Stored(j) => i = j
      /\ Range(ring) = {Stored(i) : i \in 1 .. L}
      /\ IsFiniteSet(Range(ring))
  BY RingListed DEF RingInv
<1>2. Remaining(n) = Range(ring) \ oldest /\ oldest \in SUBSET Range(ring)
  BY <1>1 DEF Remaining
<1>3. IsFiniteSet(Remaining(n))
  BY <1>1, <1>2, FS_Subset
<1>4. Bytes(Remaining(n)) = Bytes(Range(ring)) - Bytes(oldest)
  BY <1>1, <1>2, BytesSplit
<1>5. UsedAfter(n) = Bytes(Remaining(n))
  BY <1>4 DEF UsedAfter, OldestBytes, Stored, RingInv, RingBudget
<1>6. Bytes(Remaining(n)) \in Nat
  BY <1>3, BytesType
<1>7. ASSUME n = L PROVE Remaining(n) = {} /\ UsedAfter(n) = 0
  <2>1. Remaining(n) = {}
    BY <1>1, <1>7 DEF Remaining
  <2> QED BY <1>5, <2>1, NoBytes
<1> QED BY <1>2, <1>3, <1>5, <1>6, <1>7

(* The eviction loop stops as soon as the datagram fits, and empties the    *)
(* ring for one that never fits.                                            *)
LEMMA EvictionsFit ==
  ASSUME TxTypeOK, RingInv, NEW bytes \in Nat
  PROVE  /\ Evictions(bytes) \in 0 .. Len(ring_order)
         /\ bytes <= RingBytes => UsedAfter(Evictions(bytes)) + bytes <= RingBytes
         /\ bytes > RingBytes => Evictions(bytes) = Len(ring_order)
<1> DEFINE L == Len(ring_order)
           fitting == {n \in 0 .. L : FitsAfter(n, bytes)}
<1>1. L \in Nat
  BY DEF RingInv, RingContents
<1>2. \A n \in 0 .. L : UsedAfter(n) \in Nat
  BY RemainingBytes
<1>3. UsedAfter(L) = 0
  BY <1>1, RemainingBytes
<1>4. \A n \in 0 .. L : FitsAfter(n, bytes) <=> UsedAfter(n) + bytes <= RingBytes
  BY DEF FitsAfter, UsedAfter
<1>5. CASE fitting = {}
  <2>1. Evictions(bytes) = L
    BY <1>5 DEF Evictions
  <2>2. ~(bytes <= RingBytes)
    BY <1>1, <1>3, <1>4, <1>5
  <2> QED BY <1>1, <2>1, <2>2
<1>6. CASE fitting # {}
  <2>1. Evictions(bytes) \in fitting
    <3>1. fitting \in SUBSET Nat
      BY <1>1
    <3>2. Evictions(bytes) = Min(fitting)
      BY <1>6 DEF Evictions
    <3> HIDE DEF fitting
    <3> QED BY <1>6, <3>1, <3>2, LeastElement
  <2>2. UsedAfter(Evictions(bytes)) + bytes <= RingBytes
    BY <1>4, <2>1
  <2>3. ~(bytes > RingBytes)
    BY <1>2, <2>1, <2>2, TxConstants
  <2> QED BY <2>1, <2>2, <2>3
<1> QED BY <1>5, <1>6

-----------------------------------------------------------------------------
(* The datagram send_unit is at is a fragment of the newest unit.           *)
LEMMA CurrentFragment ==
  ASSUME TxTypeOK, UnitsNumbered, tx_pc = "sending"
  PROVE  /\ NextFragment.unit = Len(sent) /\ Len(sent) \in DOMAIN sent
         /\ NextFragment.frag_index = next_frag
         /\ NextFragment.frame_seq = frame_seq
         /\ NextFragment = Fragment(Len(sent), next_frag)
         /\ IsSent(NextFragment)
         /\ Size(NextFragment) \in Nat
<1>1. /\ Len(sent) \in Nat /\ DOMAIN sent = 1 .. Len(sent) /\ sent # << >>
      /\ next_frag \in 0 .. sent[Len(sent)].frag_count - 1
      /\ Len(sent) \in DOMAIN sent
  <2>1. /\ sent # << >> /\ Len(sent) # 0
        /\ next_frag \in Nat /\ next_frag < sent[Len(sent)].frag_count
    BY DEF TxTypeOK
  <2>2. Len(sent) \in DOMAIN sent
    BY <2>1, SentTypes
  <2> QED BY <2>1, <2>2, SentTypes
<1>2. Len(sent) \in DOMAIN sent
  BY <1>1
<1>3. frame_seq = sent[Len(sent)].frame_seq
  <2>1. Numbered = Len(sent)
    BY DEF Numbered
  <2>2. frame_seq = Ahead(sent[Len(sent)].frame_seq, Numbered - Len(sent))
    BY <1>1, <1>2, <2>1, PacketConstants DEF UnitsNumbered
  <2>3. sent[Len(sent)].frame_seq \in Seqs
    BY <1>1, SentTypes
  <2> QED BY <1>1, <2>1, <2>2, <2>3, PacketConstants DEF Ahead, Seqs
<1>4. NextFragment = Fragment(Len(sent), next_frag)
  BY <1>3 DEF NextFragment, Fragment
<1>5. /\ NextFragment.unit = Len(sent) /\ NextFragment.frag_index = next_frag
      /\ NextFragment.frame_seq = frame_seq
  BY DEF NextFragment
<1>6. IsSent(NextFragment)
  BY <1>1, <1>2, <1>4, <1>5 DEF IsSent
<1>7. Size(NextFragment) \in Nat
  BY TxConstants DEF Size
<1> QED BY <1>2, <1>4, <1>5, <1>6, <1>7

(* frame_seq values less than SeqSpace units apart differ.                  *)
LEMMA SameSeqSameUnit ==
  ASSUME TxTypeOK, UnitsNumbered,
         NEW m \in DOMAIN sent, NEW n \in DOMAIN sent,
         n - m < SeqSpace, m - n < SeqSpace,
         sent[m].frame_seq = sent[n].frame_seq
  PROVE  m = n
<1>1. /\ m \in Nat /\ n \in Nat
      /\ sent[m].frame_seq \in Seqs /\ sent[n].frame_seq \in Seqs
  BY SentTypes
<1>2. ASSUME m < n PROVE FALSE
  <2>1. n \in m .. m + SeqSpace - 1
    BY <1>1, <1>2, PacketConstants
  <2>2. sent[n].frame_seq = Ahead(sent[m].frame_seq, n - m)
    BY <2>1 DEF UnitsNumbered
  <2> QED BY <1>1, <1>2, <2>1, <2>2, PacketConstants DEF Ahead, Seqs
<1>3. ASSUME n < m PROVE FALSE
  <2>1. m \in n .. n + SeqSpace - 1
    BY <1>1, <1>3, PacketConstants
  <2>2. sent[m].frame_seq = Ahead(sent[n].frame_seq, m - n)
    BY <2>1 DEF UnitsNumbered
  <2> QED BY <1>1, <1>3, <2>1, <2>2, PacketConstants DEF Ahead, Seqs
<1> QED BY <1>1, <1>2, <1>3

(* The bytes of the ring bound how far back it reaches.                     *)
LEMMA RingWithinWindow ==
  ASSUME TxTypeOK, RingInv
  PROVE  /\ Len(ring_order) <= Window
         /\ \A i \in 1 .. Len(ring_order) : Len(sent) - Stored(i).unit <= Window
<1> DEFINE L == Len(ring_order)
<1>1. /\ L \in Nat /\ DOMAIN ring_order = 1 .. L
      /\ IsFiniteSet(Range(ring)) /\ Cardinality(Range(ring)) = L
      /\ \A i \in 1 .. L : IsSent(Stored(i))
  BY RingListed DEF RingInv
<1>2. L * TailBytes <= Window * TailBytes
  <2>1. Bytes(Range(ring)) \in Nat /\ Bytes(Range(ring)) >= L * TailBytes
    BY <1>1, BytesType
  <2>2. L * TailBytes \in Nat /\ Window * TailBytes \in Nat
    BY <1>1, TxConstants, LinkConstants
  <2> QED BY <2>1, <2>2, TxConstants, LinkConstants DEF RingInv, RingBudget
<1>3. L <= Window
  <2>1. \A a, b, t \in Nat : a > b /\ t > 0 => a * t > b * t
    OBVIOUS
  <2>2. TailBytes \in Nat /\ TailBytes > 0 /\ Window \in Nat
    BY TxConstants, LinkConstants
  <2> QED BY <1>1, <1>2, <2>1, <2>2
<1>4. ASSUME NEW i \in 1 .. L PROVE Len(sent) - Stored(i).unit <= Window
  <2>1. Len(sent) - Stored(i).unit <= L - i + NotYetStored
    BY <1>1 DEF RingInv, RingSpread
  <2>2. NotYetStored \in {0, 1}
    BY DEF NotYetStored
  <2>3. Stored(i).unit \in Nat /\ Len(sent) \in Nat
    BY <1>1, SentFragment DEF TxTypeOK
  <2> QED BY <1>1, <1>3, <2>1, <2>2, <2>3, LinkConstants
<1> QED BY <1>3, <1>4

-----------------------------------------------------------------------------
(* An empty ring satisfies all that is asked of the ring.                   *)
LEMMA EmptyRing ==
  ASSUME ring_order' = << >>, DOMAIN ring' = {}, ring_used' = 0
  PROVE  RingInv'
<1>1. /\ ring_order' \in Seq({}) /\ DOMAIN ring_order' = {}
      /\ Len(ring_order') = 0
  OBVIOUS
<1>2. Range(ring)' = {} /\ Range(ring_order)' = {}
  BY <1>1 DEF Range
<1>4. RingContents'
  BY <1>1, <1>2 DEF RingContents
<1>5. RingHoldsNewest' /\ RingSpread'
  BY <1>1, <1>2 DEF RingHoldsNewest, RingSpread
<1>6. RingBudget'
  BY <1>2, NoBytes, TxConstants DEF RingBudget
<1> QED BY <1>4, <1>5, <1>6 DEF RingInv

(* ring_insert keeps the ring sound: the key is new, what is evicted is     *)
(* older than what stays, and the new datagram is the newest of all.        *)
LEMMA InsertStep ==
  ASSUME TxTypeOK, UnitsNumbered, RingInv, tx_pc = "sending",
         RingInsert(NextFragment), UNCHANGED sent,
         next_frag' \in {next_frag, next_frag + 1},
         tx_pc' = "dead" \/ next_frag' = next_frag + 1
  PROVE  RingInv'
<1> DEFINE L == Len(ring_order)
           d == NextFragment
           n == Evictions(Size(d))
           rest == KeepNewest(n)
           R == Remaining(n)
<1>1. /\ L \in Nat /\ DOMAIN ring_order = 1 .. L
      /\ \A i \in 1 .. L : Stored(i) \in Range(ring) /\ IsSent(Stored(i))
      /\ \A i, j \in 1 .. L : Stored(i) = Stored(j) => i = j
      /\ Range(ring) = {Stored(i) : i \in 1 .. L}
  BY RingListed DEF RingInv
<1>2. /\ d.unit = Len(sent) /\ Len(sent) \in DOMAIN sent
      /\ d.frag_index = next_frag /\ d.frame_seq = frame_seq
      /\ d = Fragment(Len(sent), next_frag)
      /\ IsSent(d) /\ Size(d) \in Nat
  BY CurrentFragment
<1>3. /\ n \in 0 .. L
      /\ Size(d) <= RingBytes => UsedAfter(n) + Size(d) <= RingBytes
      /\ Size(d) > RingBytes => n = L
  BY <1>2, EvictionsFit
<1>4. /\ IsFiniteSet(R) /\ R \subseteq Range(ring)
      /\ UsedAfter(n) = Bytes(R) /\ UsedAfter(n) \in Nat
      /\ n = L => R = {} /\ UsedAfter(n) = 0
  BY <1>3, RemainingBytes
<1>5. /\ rest \in Seq(DOMAIN ring) /\ Len(rest) = L - n
      /\ DOMAIN rest = 1 .. L - n
      /\ \A i \in 1 .. L - n : rest[i] = ring_order[i + n]
  <2>1. \A i \in n + 1 .. L : ring_order[i] \in DOMAIN ring
    BY <1>1, <1>3 DEF RingInv, RingContents
  <2>2. /\ rest \in Seq(DOMAIN ring)
        /\ Len(rest) = IF n + 1 <= L THEN L - (n + 1) + 1 ELSE 0
        /\ \A i \in 1 .. L - (n + 1) + 1 : rest[i] = ring_order[n + 1 + i - 1]
    <3> HIDE DEF n
    <3> QED BY <1>1, <1>3, <2>1, SubSeqProperties DEF KeepNewest
  <2>3. Len(rest) = L - n
    BY <1>1, <1>3, <2>2
  <2>4. DOMAIN rest = 1 .. L - n
    <3> HIDE DEF rest
    <3> QED BY <2>2, <2>3, LenProperties
  <2>5. ASSUME NEW i \in 1 .. L - n
        PROVE  rest[i] = ring_order[i + n]
    <3> HIDE DEF rest, n
    <3>1. i \in 1 .. L - (n + 1) + 1 /\ n + 1 + i - 1 = i + n
      BY <1>1, <1>3
    <3>2. rest[i] = ring_order[n + 1 + i - 1]
      BY <2>2, <3>1
    <3> QED BY <3>1, <3>2
  <2> QED BY <2>2, <2>3, <2>4, <2>5
<1>6. ASSUME RingBytes = 0 \/ Size(d) > RingBytes PROVE RingInv'
  <2>1. CASE RingBytes = 0
    <3>1. L = 0
      <4>1. L * TailBytes <= 0
        <5>1. /\ IsFiniteSet(Range(ring)) /\ Cardinality(Range(ring)) = L
          BY RingListed DEF RingInv
        <5>2. Bytes(Range(ring)) \in Nat /\ Bytes(Range(ring)) >= L * TailBytes
          BY <5>1, BytesType
        <5>3. L * TailBytes \in Nat
          BY <1>1, TxConstants
        <5> QED BY <2>1, <5>2, <5>3 DEF RingInv, RingBudget
      <4>2. \A a, t \in Nat : a > 0 /\ t > 0 => a * t > 0
        OBVIOUS
      <4>3. TailBytes \in Nat /\ TailBytes > 0
        BY TxConstants
      <4> QED BY <1>1, <4>1, <4>2, <4>3
    <3>2. ring_order = << >> /\ DOMAIN ring = {}
      BY <1>1, <3>1 DEF RingInv, RingContents, Range
    <3>3. ring_used = 0
      <4>1. Range(ring) = {}
        BY <1>1, <3>1
      <4> QED BY <4>1, NoBytes DEF RingInv, RingBudget
    <3> QED BY <2>1, <3>2, <3>3, EmptyRing DEF RingInsert, ringVars
  <2>2. CASE RingBytes # 0 /\ Size(d) > RingBytes
    <3>1. rest = << >> /\ Range(rest) = {}
      BY <1>1, <1>3, <1>5, <2>2 DEF Range
    <3>2. /\ ring' = Restrict(ring, Range(rest)) /\ ring_order' = rest
          /\ ring_used' = UsedAfter(n)
      BY <2>2 DEF RingInsert
    <3>3. DOMAIN ring' = {}
      BY <3>1, <3>2 DEF Restrict
    <3> QED BY <1>3, <1>4, <2>2, <3>1, <3>2, <3>3, EmptyRing
  <2> QED BY <1>6, <2>1, <2>2
<1> SUFFICES ASSUME RingBytes # 0, Size(d) <= RingBytes PROVE RingInv'
  BY <1>2, <1>6, TxConstants
<1>7. /\ ring' = [k \in Range(rest) \cup {Key(d)} |->
                    IF k = Key(d) THEN d ELSE ring[k]]
      /\ ring_order' = Append(rest, Key(d))
      /\ ring_used' = UsedAfter(n) + Size(d)
  <2>1. ~(Size(d) > RingBytes)
    BY <1>2, TxConstants
  <2> QED BY <2>1 DEF RingInsert, Restrict
<1>8. Range(rest) \subseteq DOMAIN ring
  BY <1>5 DEF Range
<1>9. Key(d) \notin DOMAIN ring
  <2> SUFFICES ASSUME Key(d) \in DOMAIN ring PROVE FALSE
    OBVIOUS
  <2>1. PICK i \in 1 .. L : Stored(i) = ring[Key(d)]
    BY <1>1 DEF Range
  <2> DEFINE e == Stored(i)
  <2>2. /\ Key(e) = Key(d) /\ IsSent(e)
        /\ e.unit = Len(sent) => e.frag_index < next_frag
    BY <2>1 DEF RingInv, RingContents
  <2>3. e.frame_seq = d.frame_seq /\ e.frag_index = d.frag_index
    <3> HIDE DEF e
    <3> QED BY <2>2 DEF Key
  <2>4. /\ Len(sent) - e.unit <= Window
        /\ e.unit \in DOMAIN sent /\ e.unit \in 1 .. Len(sent)
        /\ e.frame_seq = sent[e.unit].frame_seq
    BY <2>2, RingWithinWindow, SentFragment DEF IsSent
  <2>5. d.frame_seq = sent[Len(sent)].frame_seq
    BY <1>2, SentFragment
  <2>6. Len(sent) \in Nat
    BY SentTypes
  <2>7. e.unit = Len(sent)
    <3> HIDE DEF e, d
    <3>1. Len(sent) - e.unit < SeqSpace /\ e.unit - Len(sent) < SeqSpace
      BY <2>4, <2>6, LinkConstants, PacketConstants
    <3> QED BY <1>2, <2>3, <2>4, <2>5, <3>1, SameSeqSameUnit
  <2>8. e.frag_index \in Nat
    BY <2>2, SentFragment, PacketConstants
  <2>9. next_frag \in Nat
    BY DEF TxTypeOK
  <2> QED BY <1>2, <2>2, <2>3, <2>7, <2>8, <2>9
<1>10. /\ DOMAIN ring' = Range(rest) \cup {Key(d)}
       /\ ring'[Key(d)] = d
       /\ \A k \in Range(rest) : ring'[k] = ring[k]
  BY <1>7, <1>8, <1>9
<1>11. /\ ring_order' \in Seq(DOMAIN ring') /\ Len(ring_order') = L - n + 1
       /\ DOMAIN ring_order' = 1 .. L - n + 1
       /\ \A i \in 1 .. L - n : ring_order'[i] = ring_order[i + n]
       /\ ring_order'[L - n + 1] = Key(d)
  <2> HIDE DEF rest, n, d
  <2>1. rest \in Seq(DOMAIN ring')
    <3>1. \A i \in 1 .. Len(rest) : rest[i] \in DOMAIN ring'
      BY <1>5, <1>10 DEF Range
    <3> QED BY <1>5, <3>1
  <2>2. Key(d) \in DOMAIN ring'
    BY <1>10
  <2>3. /\ Append(rest, Key(d)) \in Seq(DOMAIN ring')
        /\ Len(Append(rest, Key(d))) = Len(rest) + 1
        /\ \A i \in 1 .. Len(rest) : Append(rest, Key(d))[i] = rest[i]
        /\ Append(rest, Key(d))[Len(rest) + 1] = Key(d)
    BY <2>1, <2>2, AppendProperties
  <2>4. DOMAIN Append(rest, Key(d)) = 1 .. Len(rest) + 1
    BY <2>3, LenProperties
  <2> QED BY <1>3, <1>5, <1>7, <2>3, <2>4
<1>12. /\ \A i \in 1 .. L - n : ring'[ring_order'[i]] = Stored(i + n)
       /\ ring'[ring_order'[L - n + 1]] = d
  <2>1. \A i \in 1 .. L - n : ring_order[i + n] \in Range(rest)
    BY <1>5 DEF Range
  <2> HIDE DEF rest, n, d
  <2> QED BY <1>10, <1>11, <2>1 DEF Stored
<1>13. Range(ring') = R \cup {d} /\ d \notin R
  <2>1. Range(rest) = {ring_order[i] : i \in n + 1 .. L}
    <3>1. \A i \in n + 1 .. L : i - n \in 1 .. L - n /\ rest[i - n] = ring_order[i]
      BY <1>1, <1>3, <1>5
    <3>2. \A i \in 1 .. L - n : i + n \in n + 1 .. L
      BY <1>1, <1>3
    <3> HIDE DEF rest, n
    <3> QED BY <1>5, <3>1, <3>2 DEF Range
  <2>2. {ring[k] : k \in Range(rest)} = R
    <3> HIDE DEF rest, n
    <3> QED BY <2>1 DEF Remaining, Stored
  <2>3. Range(ring') = {ring[k] : k \in Range(rest)} \cup {d}
    <3> HIDE DEF rest, n, d
    <3> QED BY <1>10 DEF Range
  <2>4. d \notin Range(ring)
    BY <1>9 DEF RingInv, RingContents, Range
  <2> QED BY <1>4, <2>2, <2>3, <2>4
<1>14. \A i \in DOMAIN ring_order' :
         \/ i \in 1 .. L - n /\ ring'[ring_order'[i]] = Stored(i + n)
         \/ i = L - n + 1 /\ ring'[ring_order'[i]] = d
  <2> HIDE DEF d, n
  <2> QED BY <1>1, <1>3, <1>11, <1>12
<1>15. \A i \in 1 .. L : Before(Stored(i), d)
  <2> TAKE i \in 1 .. L
  <2>1. /\ Stored(i).unit \in 1 .. Len(sent) /\ Len(sent) \in Nat
        /\ Stored(i).unit = Len(sent) => Stored(i).frag_index < next_frag
    <3>1. /\ IsSent(Stored(i)) /\ Stored(i) \in Range(ring) /\ Len(sent) \in Nat
      BY <1>1, SentTypes
    <3> QED BY <3>1, SentFragment DEF RingInv, RingContents, Range
  <2> HIDE DEF d
  <2> QED BY <1>2, <2>1 DEF Before
<1>16. RingContents'
  <2>1. Range(ring_order') = DOMAIN ring'
    <3> HIDE DEF rest, n, d
    <3>1. \A k \in Range(rest) : \E i \in 1 .. L - n : ring_order'[i] = k
      BY <1>5, <1>11 DEF Range
    <3>2. 1 .. L - n \subseteq DOMAIN ring_order' /\ L - n + 1 \in DOMAIN ring_order'
      BY <1>1, <1>3, <1>11
    <3>3. DOMAIN ring' \subseteq Range(ring_order')
      BY <1>10, <1>11, <3>1, <3>2 DEF Range
    <3>4. \A i \in DOMAIN ring_order' : ring_order'[i] \in DOMAIN ring'
      BY <1>11
    <3> QED BY <3>3, <3>4 DEF Range
  <2>2. ASSUME NEW k \in DOMAIN ring'
        PROVE  /\ IsSent(ring'[k])
               /\ Key(ring'[k]) = k
               /\ tx_pc' # "dead" /\ ring'[k].unit = Len(sent') => ring'[k].frag_index < next_frag'
    <3>1. CASE k = Key(d)
      <4>1. ring'[k] = d
        BY <1>10, <3>1
      <4>2. next_frag \in Nat
        BY DEF TxTypeOK
      <4> HIDE DEF d
      <4> QED BY <1>2, <3>1, <4>1, <4>2
    <3>2. CASE k \in Range(rest)
      <4>1. k \in DOMAIN ring /\ ring'[k] = ring[k]
        BY <1>8, <1>10, <3>2
      <4>2. /\ IsSent(ring[k]) /\ Key(ring[k]) = k
            /\ ring[k].unit = Len(sent) => ring[k].frag_index < next_frag
        BY <4>1 DEF RingInv, RingContents
      <4>3. next_frag \in Nat /\ ring[k].frag_index \in Nat
        BY <4>2, SentFragment, PacketConstants DEF TxTypeOK
      <4> QED BY <4>1, <4>2, <4>3
    <3> QED BY <1>10, <3>1, <3>2
  <2> QED BY <1>11, <2>1, <2>2 DEF RingContents, IsSent, Fragment
<1>17. RingHoldsNewest'
  <2>1. ASSUME NEW i \in DOMAIN ring_order', NEW j \in DOMAIN ring_order', i < j
        PROVE  Before(ring'[ring_order'[i]], ring'[ring_order'[j]])
    <3>1. i \in 1 .. L - n /\ ring'[ring_order'[i]] = Stored(i + n)
      <4> HIDE DEF n, d
      <4> QED BY <1>1, <1>3, <1>11, <1>14, <2>1
    <3>2. i + n \in 1 .. L
      BY <1>1, <1>3, <3>1
    <3>3. CASE j \in 1 .. L - n /\ ring'[ring_order'[j]] = Stored(j + n)
      <4>1. j + n \in 1 .. L /\ i + n < j + n
        BY <1>1, <1>3, <2>1, <3>1, <3>3
      <4>2. Before(Stored(i + n), Stored(j + n))
        BY <1>1, <3>2, <4>1 DEF RingInv, RingHoldsNewest, Stored
      <4> QED BY <3>1, <3>3, <4>2
    <3>4. CASE ring'[ring_order'[j]] = d
      BY <1>15, <3>1, <3>2, <3>4
    <3> QED BY <1>14, <3>3, <3>4
  <2>2. ASSUME NEW m \in DOMAIN sent, NEW i \in 0 .. sent[m].frag_count - 1
        PROVE  \/ Fragment(m, i) \in Range(ring')
               \/ m = Len(sent) /\ i >= next_frag'
               \/ \A e \in Range(ring') : Before(Fragment(m, i), e)
    <3>0. /\ Fragment(m, i).unit = m /\ Fragment(m, i).frag_index = i
      BY DEF Fragment
    <3>1. /\ m \in 1 .. Len(sent) /\ Len(sent) \in Nat /\ next_frag \in Nat /\ i \in Int
      BY SentTypes DEF TxTypeOK
    <3>2. CASE m = Len(sent) /\ i >= next_frag
      <4>1. CASE i = next_frag
        BY <1>2, <1>13, <3>2, <4>1
      <4>2. CASE i # next_frag
        BY <3>1, <3>2, <4>2
      <4> QED BY <4>1, <4>2
    <3> SUFFICES ASSUME ~(m = Len(sent) /\ i >= next_frag)
                 PROVE  \/ Fragment(m, i) \in Range(ring')
                        \/ \A e \in Range(ring') : Before(Fragment(m, i), e)
      BY <3>2
    <3>3. Before(Fragment(m, i), d)
      <4> HIDE DEF d
      <4> QED BY <1>2, <3>0, <3>1 DEF Before
    <3>4. \/ Fragment(m, i) \in Range(ring)
          \/ \A e \in Range(ring) : Before(Fragment(m, i), e)
      BY DEF RingInv, RingHoldsNewest, Fragment
    <3>5. CASE \A e \in Range(ring) : Before(Fragment(m, i), e)
      BY <1>4, <1>13, <3>3, <3>5
    <3>6. CASE Fragment(m, i) \in Range(ring)
      <4>1. PICK j \in 1 .. L : Stored(j) = Fragment(m, i)
        BY <1>1, <3>6
      <4>2. CASE j > n
        <5>1. Fragment(m, i) \in R
          BY <1>1, <1>3, <4>1, <4>2 DEF Remaining
        <5> QED BY <1>13, <5>1
      <4>3. CASE j <= n
        <5>1. ASSUME NEW e \in R PROVE Before(Fragment(m, i), e)
          <6>1. PICK q \in n + 1 .. L : e = Stored(q)
            BY DEF Remaining
          <6>2. q \in 1 .. L /\ j < q
            BY <1>1, <1>3, <4>3
          <6> QED BY <1>1, <4>1, <6>1, <6>2 DEF RingInv, RingHoldsNewest, Stored
        <5> QED BY <1>13, <3>3, <5>1
      <4> QED BY <1>1, <1>3, <4>2, <4>3
    <3> QED BY <3>4, <3>5, <3>6
  <2> QED BY <2>1, <2>2 DEF RingHoldsNewest, Fragment
<1>18. RingSpread'
  <2> SUFFICES ASSUME NEW i \in DOMAIN ring_order'
               PROVE  Len(sent) - ring'[ring_order'[i]].unit
                        <= Len(ring_order') - i + NotYetStored'
    BY DEF RingSpread, Stored
  <2>1. NotYetStored \in {0, 1} /\ NotYetStored' \in {0, 1} /\ Len(sent) \in Nat
    BY SentTypes DEF NotYetStored
  <2>2. CASE i \in 1 .. L - n /\ ring'[ring_order'[i]] = Stored(i + n)
    <3>1. i + n \in 1 .. L
      BY <1>1, <1>3, <2>2
    <3>2. Len(sent) - Stored(i + n).unit <= L - (i + n) + NotYetStored
      BY <1>1, <3>1 DEF RingInv, RingSpread
    <3>3. Stored(i + n).unit \in Nat
      BY <1>1, <3>1, SentFragment, <2>1
    <3> DEFINE x == Stored(i + n).unit
    <3>4. x \in Nat /\ Len(sent) - x <= L - (i + n) + NotYetStored
      BY <3>2, <3>3
    <3> HIDE DEF n, x
    <3>5. Len(ring_order') - i = L - (i + n) + 1
      BY <1>1, <1>3, <1>11, <2>2
    <3>6. L - (i + n) \in Nat
      BY <1>1, <3>1
    <3>7. NotYetStored \in 0 .. 1 /\ NotYetStored' \in 0 .. 1
      BY <2>1
    <3>8. Len(sent) - x <= (L - (i + n) + 1) + NotYetStored'
      BY <2>1, <3>4, <3>6, <3>7
    <3> QED BY <2>2, <3>5, <3>8 DEF x
  <2>3. CASE i = L - n + 1 /\ ring'[ring_order'[i]] = d
    <3>1. Len(ring_order') - i = 0
      <4> HIDE DEF n
      <4> QED BY <1>1, <1>3, <1>11, <2>3
    <3>2. Len(sent) - ring'[ring_order'[i]].unit = 0
      <4> HIDE DEF d
      <4> QED BY <1>2, <2>1, <2>3
    <3> QED BY <2>1, <3>1, <3>2
  <2> QED BY <1>14, <2>2, <2>3
<1>19. RingBudget'
  <2>1. Bytes(Range(ring')) = Bytes(R) + Size(d)
    BY <1>4, <1>13, BytesAdd
  <2> QED BY <1>3, <1>4, <1>7, <2>1 DEF RingBudget
<1> QED BY <1>16, <1>17, <1>18, <1>19 DEF RingInv

-----------------------------------------------------------------------------
(* The sender's steps.                                                      *)
senderVars == <<tx_pc, sent, next_frag, frame_seq, ringVars>>

LEMMA TxInvUnchanged ==
  ASSUME TxInv, UNCHANGED senderVars
  PROVE  TxInv'
<1>1. UNCHANGED <<tx_pc, sent, next_frag, frame_seq, ring, ring_order, ring_used>>
  BY DEF senderVars, ringVars
<1> QED BY <1>1 DEF TxInv, TxTypeOK, UnitsNumbered, Numbered, RingInv, RingContents,
              RingHoldsNewest, RingSpread, RingBudget, NotYetStored, Stored, IsSent, Fragment

(* Steps between two units touch neither the units nor the ring.            *)
LEMMA PauseStep ==
  ASSUME TxInv, tx_pc \in {"idle", "encoding", "between"},
         tx_pc' \in {"idle", "encoding", "dead"},
         UNCHANGED <<sent, next_frag, frame_seq, ringVars>>
  PROVE  TxInv'
<1>1. UNCHANGED <<sent, next_frag, frame_seq, ring, ring_order, ring_used>>
  BY DEF ringVars
<1>2. TxTypeOK'
  BY <1>1 DEF TxInv, TxTypeOK
<1>3. UnitsNumbered'
  BY <1>1 DEF TxInv, UnitsNumbered, Numbered
<1>4. RingContents'
  BY <1>1 DEF TxInv, RingInv, RingContents, IsSent, Fragment
<1>5. RingHoldsNewest' /\ RingBudget'
  BY <1>1 DEF TxInv, RingInv, RingHoldsNewest, RingBudget
<1>6. RingSpread'
  BY <1>1 DEF TxInv, RingInv, RingSpread, Stored, NotYetStored
<1> QED BY <1>2, <1>3, <1>4, <1>5, <1>6 DEF TxInv, RingInv

(* A unit begun leaves those before it as they were.                        *)
SentGrows ==
  /\ Len(sent') >= Len(sent)
  /\ \A n \in DOMAIN sent : n \in DOMAIN sent' /\ sent'[n] = sent[n]

LEMMA BeginAppends ==
  ASSUME TxTypeOK, NEW count \in UnitSizes, BeginUnit(count)
  PROVE  /\ sent' \in Seq(UnitHeads)
         /\ Len(sent') = Len(sent) + 1 /\ DOMAIN sent' = 1 .. Len(sent) + 1
         /\ \A n \in DOMAIN sent : sent'[n] = sent[n]
         /\ sent'[Len(sent) + 1].frame_seq = frame_seq
         /\ sent'[Len(sent) + 1].frag_count = count
         /\ SentGrows
<1> DEFINE h == [frame_seq |-> frame_seq, frag_count |-> count]
<1>1. h \in UnitHeads
  BY TxConstants DEF UnitHeads, TxTypeOK
<1>2. h.frame_seq = frame_seq /\ h.frag_count = count
  OBVIOUS
<1>3. sent' = Append(sent, h)
  BY DEF BeginUnit
<1> HIDE DEF h
<1>4. sent \in Seq(UnitHeads)
  BY DEF TxTypeOK
<1>5. /\ sent' \in Seq(UnitHeads) /\ Len(sent') = Len(sent) + 1
      /\ \A n \in 1 .. Len(sent) : sent'[n] = sent[n]
      /\ sent'[Len(sent) + 1] = h
  BY <1>1, <1>3, <1>4, AppendProperties
<1>6. DOMAIN sent' = 1 .. Len(sent) + 1 /\ DOMAIN sent = 1 .. Len(sent)
  BY <1>4, <1>5, LenProperties
<1>7. Len(sent) \in Nat
  BY <1>4
<1> QED BY <1>2, <1>5, <1>6, <1>7 DEF SentGrows

(* Beginning a unit: the one before it is finished, so nothing of it is     *)
(* missing from the ring that was not evicted.                              *)
LEMMA BeginStep ==
  ASSUME TxInv, NEW count \in UnitSizes, BeginUnit(count)
  PROVE  TxInv'
<1>1. /\ TxTypeOK /\ UnitsNumbered /\ RingInv
      /\ tx_pc \in {"encoding", "between"} /\ tx_pc' = "sending"
      /\ Len(sent) < MaxUnits /\ next_frag' = 0
      /\ UNCHANGED <<frame_seq, ring, ring_order, ring_used>>
  BY DEF TxInv, BeginUnit, ringVars
<1>2. /\ sent' \in Seq(UnitHeads)
      /\ Len(sent') = Len(sent) + 1 /\ DOMAIN sent' = 1 .. Len(sent) + 1
      /\ \A n \in DOMAIN sent : sent'[n] = sent[n]
      /\ sent'[Len(sent) + 1].frame_seq = frame_seq
      /\ sent'[Len(sent) + 1].frag_count = count
  BY <1>1, BeginAppends
<1>3. /\ Len(sent) \in Nat /\ DOMAIN sent = 1 .. Len(sent) /\ count \in Nat \ {0}
      /\ frame_seq \in Seqs /\ next_frag \in Nat
  BY <1>1, SentTypes, TxConstants, PacketConstants DEF TxTypeOK
<1>4. TxTypeOK'
  <2>1. sent' # << >> /\ Len(sent') <= MaxUnits
    BY <1>1, <1>2, <1>3, TxConstants
  <2>2. next_frag' \in Nat /\ next_frag' < sent'[Len(sent')].frag_count
    BY <1>1, <1>2, <1>3
  <2>3. frame_seq' \in Seqs /\ tx_pc' = "sending"
    BY <1>1, <1>3
  <2> QED BY <1>2, <2>1, <2>2, <2>3 DEF TxTypeOK
<1>5. UnitsNumbered'
  <2>1. Numbered' = Len(sent) + 1 /\ Numbered = Len(sent) + 1
    BY <1>1, <1>2 DEF Numbered
  <2>2. ASSUME NEW m \in DOMAIN sent', NEW n \in DOMAIN sent', n \in m .. m + SeqSpace - 1
        PROVE  sent'[n].frame_seq = Ahead(sent'[m].frame_seq, n - m)
    <3>1. CASE m \in DOMAIN sent /\ n \in DOMAIN sent
      BY <1>1, <1>2, <2>2, <3>1 DEF UnitsNumbered
    <3>2. CASE m \in DOMAIN sent /\ n = Len(sent) + 1
      <4>1. Numbered - m < SeqSpace
        BY <1>3, <2>1, <2>2, <3>2, PacketConstants
      <4>2. frame_seq = Ahead(sent[m].frame_seq, n - m)
        BY <1>1, <2>1, <3>2, <4>1 DEF UnitsNumbered
      <4> QED BY <1>2, <3>2, <4>2
    <3>3. CASE m = Len(sent) + 1
      <4>1. n = m
        BY <1>2, <1>3, <2>2, <3>3, PacketConstants
      <4> QED BY <1>2, <1>3, <3>3, <4>1, PacketConstants DEF Ahead, Seqs
    <3> QED BY <1>2, <1>3, <3>1, <3>2, <3>3
  <2>3. ASSUME NEW m \in DOMAIN sent', Numbered' - m < SeqSpace
        PROVE  frame_seq' = Ahead(sent'[m].frame_seq, Numbered' - m)
    <3>1. Numbered' \in m .. m + SeqSpace - 1 /\ Numbered' \in DOMAIN sent'
      BY <1>2, <1>3, <2>1, <2>3, PacketConstants
    <3>2. sent'[Numbered'].frame_seq = Ahead(sent'[m].frame_seq, Numbered' - m)
      BY <2>2, <3>1
    <3> QED BY <1>1, <1>2, <2>1, <3>2
  <2> QED BY <2>2, <2>3 DEF UnitsNumbered, Ahead
<1>6. ASSUME NEW k \in DOMAIN ring
      PROVE  /\ IsSent(ring[k])' /\ ring[k].unit \in 1 .. Len(sent)
             /\ ring[k].unit # Len(sent')
  <2>1. IsSent(ring[k])
    BY <1>1 DEF RingInv, RingContents
  <2>2. ring[k].unit \in 1 .. Len(sent)
    BY <1>1, <2>1, SentFragment
  <2> QED BY <1>1, <1>2, <1>3, <2>1, <2>2 DEF IsSent, Fragment
<1>7. RingContents'
  BY <1>1, <1>6 DEF RingInv, RingContents
<1>8. RingHoldsNewest'
  <2>1. ASSUME NEW n \in DOMAIN sent', NEW i \in 0 .. sent'[n].frag_count - 1
        PROVE  LET d == [frame_seq |-> sent'[n].frame_seq, frag_index |-> i,
                         frag_count |-> sent'[n].frag_count, unit |-> n]
               IN \/ d \in Range(ring)
                  \/ n = Len(sent') /\ i >= next_frag'
                  \/ \A e \in Range(ring) : Before(d, e)
    <3>1. CASE n = Len(sent) + 1
      BY <1>1, <1>2, <3>1
    <3>2. CASE n \in DOMAIN sent
      <4>1. ~(n = Len(sent) /\ i >= next_frag)
        <5>1. n = Len(sent) => next_frag = sent[n].frag_count
          BY <1>1, <1>3, <3>2 DEF TxTypeOK
        <5>2. sent[n].frag_count \in Nat /\ sent'[n] = sent[n]
          BY <1>1, <1>2, <3>2, SentTypes, PacketConstants
        <5> QED BY <1>3, <5>1, <5>2
      <4> QED BY <1>1, <1>2, <3>2, <4>1 DEF RingInv, RingHoldsNewest
    <3> QED BY <1>2, <1>3, <3>1, <3>2
  <2> QED BY <1>1, <2>1 DEF RingInv, RingHoldsNewest
<1>9. RingSpread'
  <2>1. NotYetStored' = 1 /\ NotYetStored = 0
    BY <1>1 DEF NotYetStored
  <2>2. ASSUME NEW i \in DOMAIN ring_order
        PROVE  Len(sent') - Stored(i).unit <= Len(ring_order) - i + 1
    <3>1. Len(sent) - Stored(i).unit <= Len(ring_order) - i + 0
      BY <1>1, <2>1 DEF RingInv, RingSpread
    <3>2. Stored(i).unit \in Nat /\ i \in Nat /\ Len(ring_order) \in Nat
      BY <1>1, <1>3, RingListed, SentFragment DEF RingInv
    <3> QED BY <1>2, <1>3, <3>1, <3>2
  <2> QED BY <1>1, <2>1, <2>2 DEF RingSpread, Stored
<1>10. RingBudget'
  BY <1>1 DEF RingInv, RingBudget
<1> QED BY <1>4, <1>5, <1>7, <1>8, <1>9, <1>10 DEF TxInv, RingInv

(* wrapping_add(1) is one unit further.                                     *)
LEMMA AheadNext ==
  ASSUME NEW s \in Seqs, NEW k \in Nat, k + 1 < SeqSpace
  PROVE  SeqAfter(Ahead(s, k)) = Ahead(s, k + 1)
BY PacketConstants DEF Ahead, SeqAfter, Seqs

(* Sending a fragment, whether send_to succeeds or not.                     *)
LEMMA FragmentStep ==
  ASSUME TxInv, SendFragment \/ SendFails
  PROVE  TxInv'
<1>1. /\ TxTypeOK /\ UnitsNumbered /\ RingInv
      /\ tx_pc = "sending" /\ RingInsert(NextFragment) /\ UNCHANGED sent
      /\ next_frag' \in {next_frag, next_frag + 1}
      /\ tx_pc' = "dead" \/ next_frag' = next_frag + 1
  BY DEF TxInv, SendFragment, SendFails
<1>2. RingInv'
  BY <1>1, InsertStep
<1>3. /\ Len(sent) \in Nat /\ DOMAIN sent = 1 .. Len(sent)
      /\ next_frag \in Nat /\ frame_seq \in Seqs /\ sent \in Seq(UnitHeads)
      /\ sent # << >> /\ next_frag < sent[Len(sent)].frag_count
      /\ \A n \in DOMAIN sent : /\ sent[n].frag_count \in Nat
                                /\ sent[n].frame_seq \in Seqs
  BY <1>1, SentTypes, PacketConstants DEF TxTypeOK
<1>4. CASE SendFails
  <2>1. tx_pc' = "dead" /\ UNCHANGED <<sent, next_frag, frame_seq>>
    BY <1>4 DEF SendFails
  <2> QED BY <1>1, <1>2, <2>1 DEF TxInv, TxTypeOK, UnitsNumbered
<1>5. CASE SendFragment
  <2>1. next_frag' = next_frag + 1
    BY <1>5 DEF SendFragment
  <2>2. NextFragment.frag_count = sent[Len(sent)].frag_count
    BY DEF NextFragment
  <2>3. Len(sent) \in DOMAIN sent /\ sent[Len(sent)].frag_count \in Nat
    BY <1>3
  <2>4. CASE UnitDone(next_frag')
    <3>1. /\ tx_pc' = "between" /\ frame_seq' = SeqAfter(frame_seq)
          /\ next_frag' = sent[Len(sent)].frag_count
      BY <1>5, <2>2, <2>4 DEF SendFragment, UnitDone
    <3>2. frame_seq' \in Seqs
      BY <1>3, <3>1, PacketConstants DEF SeqAfter, Seqs
    <3>3. TxTypeOK'
      BY <1>1, <1>3, <2>1, <3>1, <3>2 DEF TxTypeOK
    <3>4. Numbered = Len(sent) /\ Numbered' = Len(sent) + 1
      BY <1>1, <3>1 DEF Numbered
    <3>5. ASSUME NEW m \in DOMAIN sent, Numbered' - m < SeqSpace
          PROVE  frame_seq' = Ahead(sent[m].frame_seq, Numbered' - m)
      <4>1. m \in 1 .. Len(sent) /\ Numbered - m < SeqSpace
        BY <1>3, <3>4, <3>5, PacketConstants
      <4>2. frame_seq = Ahead(sent[m].frame_seq, Numbered - m)
        BY <1>1, <4>1 DEF UnitsNumbered
      <4>3. sent[m].frame_seq \in Seqs
        BY <1>3
      <4> DEFINE k == Len(sent) - m
      <4>4. k \in Nat /\ k + 1 < SeqSpace /\ Numbered - m = k /\ Numbered' - m = k + 1
        BY <1>3, <3>4, <3>5, <4>1, PacketConstants
      <4> HIDE DEF k
      <4>5. SeqAfter(Ahead(sent[m].frame_seq, k)) = Ahead(sent[m].frame_seq, k + 1)
        BY <4>3, <4>4, AheadNext
      <4> QED BY <3>1, <4>2, <4>4, <4>5
    <3>6. UnitsNumbered'
      BY <1>1, <3>5 DEF UnitsNumbered, Ahead
    <3> QED BY <1>2, <3>3, <3>6 DEF TxInv
  <2>5. CASE ~UnitDone(next_frag')
    <3>1. UNCHANGED <<tx_pc, frame_seq>> /\ next_frag' # sent[Len(sent)].frag_count
      BY <1>5, <2>2, <2>5 DEF SendFragment, UnitDone
    <3>2. TxTypeOK'
      BY <1>1, <1>3, <2>1, <2>3, <3>1 DEF TxTypeOK
    <3>3. UnitsNumbered'
      BY <1>1, <3>1 DEF UnitsNumbered, Numbered
    <3> QED BY <1>2, <3>2, <3>3 DEF TxInv
  <2> QED BY <2>4, <2>5
<1> QED BY <1>4, <1>5

-----------------------------------------------------------------------------
(* Within the window the wrapping comparison is the order of sending, and   *)
(* equal sequence numbers mean the same unit.                               *)
LEMMA SerialOrder ==
  ASSUME TxTypeOK, UnitsNumbered, InFlight, newest > 0,
         NEW n \in DOMAIN sent, Len(sent) - n <= Window
  PROVE  /\ Newer(sent[n].frame_seq, sent[newest].frame_seq) <=> n > newest
         /\ sent[n].frame_seq = sent[newest].frame_seq => n = newest
<1>1. /\ Len(sent) \in Nat /\ DOMAIN sent = 1 .. Len(sent)
      /\ newest \in DOMAIN sent /\ Len(sent) - newest <= Window
      /\ sent[n].frame_seq \in Seqs /\ sent[newest].frame_seq \in Seqs
  BY SentTypes DEF InFlight
<1>2. /\ n \in Nat /\ newest \in Nat /\ Window \in Nat /\ SeqSpace \in Nat
      /\ n - newest <= Window /\ newest - n <= Window /\ 2 * Window < SeqSpace
  BY <1>1, LinkConstants, PacketConstants
<1>3. sent[n].frame_seq = sent[newest].frame_seq => n = newest
  BY <1>1, <1>2, SameSeqSameUnit
<1> DEFINE a == sent[n].frame_seq
           b == sent[newest].frame_seq
<1>4. CASE n > newest
  <2>1. n \in newest .. newest + SeqSpace - 1
    BY <1>2, <1>4
  <2>2. a = Ahead(b, n - newest)
    BY <1>1, <2>1 DEF UnitsNumbered
  <2> HIDE DEF a, b
  <2>3. WrappingSub(a, b) = n - newest
    BY <1>1, <1>2, <1>4, <2>2 DEF Ahead, WrappingSub, Seqs, a, b
  <2>4. Newer(a, b)
    BY <1>2, <1>4, <2>3 DEF Newer
  <2> QED BY <1>3, <1>4, <2>4 DEF a, b
<1>5. CASE n = newest
  <2>1. WrappingSub(a, b) = 0
    BY <1>1, <1>5 DEF WrappingSub, Seqs
  <2> QED BY <1>2, <1>5, <2>1 DEF Newer
<1>6. CASE n < newest
  <2>1. newest \in n .. n + SeqSpace - 1
    BY <1>2, <1>6
  <2>2. b = Ahead(a, newest - n)
    BY <1>1, <2>1 DEF UnitsNumbered
  <2> HIDE DEF a, b
  <2>3. WrappingSub(a, b) = SeqSpace - (newest - n)
    <3> DEFINE k == newest - n
    <3>1. a \in 0 .. SeqSpace - 1 /\ k \in 1 .. SeqSpace - 1
      BY <1>1, <1>2, <1>6 DEF Seqs, a
    <3> HIDE DEF k
    <3>2. b = IF a + k < SeqSpace THEN a + k ELSE a + k - SeqSpace
      BY <2>2 DEF Ahead, k
    <3>3. WrappingSub(a, b) = SeqSpace - k
      BY <1>2, <3>1, <3>2 DEF WrappingSub
    <3> QED BY <3>3 DEF k
  <2>4. ~Newer(a, b)
    BY <1>2, <1>6, <2>3 DEF Newer
  <2> QED BY <1>2, <1>3, <1>6, <2>4 DEF a, b
<1> QED BY <1>2, <1>4, <1>5, <1>6

LEMMA SerialInv == LinkInv => SerialOrderIsSendOrder
<1> SUFFICES ASSUME LinkInv, max_seq # NoSeq, NEW d \in net
             PROVE  Newer(d.frame_seq, max_seq) <=> d.unit > newest
  BY DEF SerialOrderIsSendOrder
<1>1. TxTypeOK /\ UnitsNumbered /\ InFlight /\ RxFollows
  BY DEF LinkInv, TxInv
<1>2. newest > 0 /\ max_seq = sent[newest].frame_seq
  BY <1>1 DEF RxFollows, InFlight, TxTypeOK
<1>3. /\ d.unit \in DOMAIN sent /\ Len(sent) - d.unit <= Window
      /\ d.frame_seq = sent[d.unit].frame_seq
  BY <1>1, SentFragment DEF InFlight, IsSent
<1> QED BY <1>1, <1>2, <1>3, SerialOrder

-----------------------------------------------------------------------------
(* The receiver's steps.                                                    *)

(* What a complete frame of unit n returns.                                 *)
LEMMA WholeFrame ==
  ASSUME TxTypeOK, NEW n \in DOMAIN sent, NEW f, IsFrameBuf(f), IsComplete(f),
         f.frag_count = sent[n].frag_count,
         \A i \in DOMAIN f.frags : f.frags[i] = n,
         Complete(sent[n].frame_seq, f)
  PROVE  /\ delivered' # NoUnit
         /\ delivered'.frags[0] = n
         /\ delivered' = [frame_seq  |-> sent[n].frame_seq,
                          frag_count |-> sent[n].frag_count,
                          frags |-> [j \in 0 .. sent[n].frag_count - 1 |-> n]]
<1>1. /\ n \in Units /\ sent[n].frame_seq \in Seqs
      /\ sent[n].frag_count \in 1 .. MAX_FRAGS_PER_FRAME
  BY SentTypes, LinkConstants, TxConstants DEF TxTypeOK
<1> DEFINE c == sent[n].frag_count
           whole == [j \in 0 .. c - 1 |-> n]
<1>2. f.frags = whole
  <2>1. DOMAIN f.frags = 0 .. c - 1
    BY DEF IsFrameBuf, IsComplete, Missing
  <2>2. f.frags = [j \in DOMAIN f.frags |-> f.frags[j]]
    BY DEF IsFrameBuf
  <2> QED BY <2>1, <2>2
<1>3. delivered' = [frame_seq |-> sent[n].frame_seq, frag_count |-> c, frags |-> whole]
  BY <1>2 DEF Complete
<1>4. delivered'.frags[0] = n
  <2>1. delivered'.frags = whole
    BY <1>3
  <2>2. 0 \in 0 .. c - 1
    BY <1>1, PacketConstants
  <2> QED BY <2>1, <2>2
<1>5. delivered' # NoUnit
  <2>1. whole \in [0 .. c - 1 -> Units]
    BY <1>1
  <2> HIDE DEF whole, c
  <2>2. whole \in UNION {[0 .. k - 1 -> Units] : k \in 1 .. MAX_FRAGS_PER_FRAME}
    BY <1>1, <2>1 DEF c
  <2>3. delivered' \in [frame_seq : Seqs, frag_count : 1 .. MAX_FRAGS_PER_FRAME,
                        frags : UNION {[0 .. k - 1 -> Units] :
                                         k \in 1 .. MAX_FRAGS_PER_FRAME}]
    BY <1>1, <1>3, <2>2 DEF c
  <2> QED BY <2>3, RxConstants
<1> QED BY <1>3, <1>4, <1>5

(* Dropping frames moves `dropped` exactly when a first drop is among them. *)
LEMMA DroppedStep ==
  ASSUME RxInv, InFlight, RxFollows, NEW S \in SUBSET DOMAIN frames
  PROVE  /\ FirstDrops(S) = {} => DroppedAfter(FirstDrops(S)) = dropped
         /\ FirstDrops(S) # {} => /\ DroppedAfter(FirstDrops(S)) = newest
                                  /\ dropped < newest
<1> DEFINE F == FirstDrops(S)
<1>1. newest \in Nat /\ dropped \in Nat /\ dropped <= newest
  <2>1. newest \in Nat
    BY DEF InFlight
  <2> QED BY <2>1 DEF RxFollows
<1>2. CASE F = {}
  <2>1. {dropped} \cup UNION {Range(frames[s].frags) : s \in F} = {dropped}
    BY <1>2
  <2> QED BY <1>1, <1>2, <2>1, MaxOfTwo DEF DroppedAfter
<1>3. CASE F # {}
  <2>1. \A s \in F : /\ s \in DOMAIN frames /\ ~frames[s].drop_counted
                     /\ DOMAIN frames[s].frags # {}
    BY DEF FirstDrops, FreshDrops, RxInv, BufferCoherent
  <2>2. \A s \in F : Range(frames[s].frags) = {newest}
    BY <2>1 DEF RxFollows, Range
  <2>3. UNION {Range(frames[s].frags) : s \in F} = {newest}
    BY <1>3, <2>2
  <2>4. {dropped} \cup UNION {Range(frames[s].frags) : s \in F} = {dropped, newest}
    BY <2>3
  <2>5. dropped < newest
    BY <1>3, <2>1 DEF RxFollows
  <2> QED BY <1>1, <1>3, <2>4, <2>5, MaxOfTwo DEF DroppedAfter
<1> QED BY <1>2, <1>3

(* The receiver's part of the invariant.                                    *)
RxPart == RxFollows /\ RxBytes /\ DeliveredWhole

(* A step that hands on a unit hands on one, newer than the last.           *)
ShowsNewer ==
  \/ UNCHANGED <<frames_complete, LatestShown>>
  \/ frames_complete' = frames_complete + 1 /\ LatestShown' > LatestShown

(* Every datagram brings at most FullBytes.                                 *)
LEMMA DatagramSize ==
  ASSUME NEW d
  PROVE  Size(d) \in PayloadSizes /\ Size(d) \in Nat /\ Size(d) <= FullBytes
BY LinkConstants, TxConstants DEF Size

LEMMA FullFragments ==
  ASSUME NEW c \in Nat
  PROVE  /\ c * FullBytes \in Nat
         /\ (c + 1) * FullBytes = c * FullBytes + FullBytes
         /\ \A m \in Nat : c <= m => m * FullBytes \in Nat /\ c * FullBytes <= m * FullBytes
<1>1. FullBytes \in Nat
  BY TxConstants
<1>2. \A a, b, x \in Nat : /\ a * x \in Nat
                           /\ (a + b) * x = a * x + b * x
                           /\ (a + 1) * x = a * x + x
  OBVIOUS
<1>3. ASSUME NEW m \in Nat, c <= m
      PROVE  m * FullBytes \in Nat /\ c * FullBytes <= m * FullBytes
  <2>1. m - c \in Nat /\ m = c + (m - c)
    BY <1>3
  <2>2. m * FullBytes = c * FullBytes + (m - c) * FullBytes
    BY <1>1, <1>2, <2>1
  <2> QED BY <1>1, <1>2, <2>1, <2>2
<1> QED BY <1>1, <1>2, <1>3

(* A set of fragment indices is finite, and full only with all of them.     *)
LEMMA FragmentIndices ==
  ASSUME NEW n \in 1 .. MAX_FRAGS_PER_FRAME, NEW D \in SUBSET (0 .. n - 1)
  PROVE  /\ IsFiniteSet(D)
         /\ Cardinality(D) \in 0 .. n
         /\ D # 0 .. n - 1 => Cardinality(D) < n
<1>1. n \in Nat /\ n - 1 \in Int /\ ~(0 > n - 1) /\ n - 1 - 0 + 1 = n
  BY PacketConstants
<1>2. IsFiniteSet(0 .. n - 1)
  BY <1>1, FS_Interval
<1>3. Cardinality(0 .. n - 1) = IF 0 > n - 1 THEN 0 ELSE n - 1 - 0 + 1
  BY <1>1, FS_Interval
<1>4. Cardinality(0 .. n - 1) = n
  BY <1>1, <1>3
<1>5. /\ IsFiniteSet(D) /\ Cardinality(D) <= n
      /\ n = Cardinality(D) => 0 .. n - 1 = D
  BY <1>2, <1>4, FS_Subset
<1>6. Cardinality(D) \in Nat
  BY <1>5, FS_CardinalityType
<1> QED BY <1>1, <1>5, <1>6

(* The bytes of any fragments of a unit are no more than those of all.      *)
LEMMA NoMoreThanTheUnit ==
  ASSUME NEW n \in 1 .. MAX_FRAGS_PER_FRAME, NEW D \in SUBSET (0 .. n - 1)
  PROVE  /\ FragmentBytes(D, n) \in Int
         /\ FragmentBytes(D, n) <= (n - 1) * FullBytes + TailBytes
<1> DEFINE c == Cardinality(D)
<1>1. /\ c \in 0 .. n /\ IsFiniteSet(D) /\ (D # 0 .. n - 1 => c < n)
      /\ n \in Nat /\ n - 1 \in Nat
  BY FragmentIndices, PacketConstants
<1>2. CASE n - 1 \in D
  <2>1. c # 0
    BY <1>1, <1>2, FS_EmptySet
  <2>2. c - 1 \in Nat /\ c - 1 <= n - 1
    BY <1>1, <2>1
  <2> HIDE DEF c
  <2>3. /\ (c - 1) * FullBytes \in Nat /\ (n - 1) * FullBytes \in Nat
        /\ (c - 1) * FullBytes <= (n - 1) * FullBytes
    BY <1>1, <2>2, FullFragments
  <2> QED BY <1>2, <2>3, TxConstants DEF FragmentBytes, c
<1>3. CASE n - 1 \notin D
  <2>1. D # 0 .. n - 1
    BY <1>1, <1>3
  <2>2. c \in Nat /\ c <= n - 1
    BY <1>1, <2>1
  <2> HIDE DEF c
  <2>3. /\ c * FullBytes \in Nat /\ (n - 1) * FullBytes \in Nat
        /\ c * FullBytes <= (n - 1) * FullBytes
    BY <1>1, <2>2, FullFragments
  <2> QED BY <1>3, <2>3, TxConstants DEF FragmentBytes, c
<1> QED BY <1>2, <1>3

(* The bytes of a frame after one more of its fragments.                    *)
LEMMA AddedBytes ==
  ASSUME NEW d \in Datagrams, NEW f, IsFrameBuf(f), f.frag_count = d.frag_count, OwnBytes(f)
  PROVE  OwnBytes(AddFragment(f, d, Size(d)))
<1> DEFINE n == f.frag_count
           g == AddFragment(f, d, Size(d))
           D == DOMAIN f.frags
           c == Cardinality(D)
<1>1. /\ n \in 1 .. MAX_FRAGS_PER_FRAME /\ D \in SUBSET (0 .. n - 1)
      /\ d.frag_index \in 0 .. n - 1 /\ f.total_bytes \in Nat
  BY PacketConstants DEF IsFrameBuf, Datagrams
<1>2. c \in 0 .. n /\ IsFiniteSet(D) /\ n \in Nat
  BY <1>1, FragmentIndices, PacketConstants
<1>3. CASE d.frag_index \in D
  <2>1. g = f
    BY <1>3 DEF AddFragment
  <2> QED BY <2>1
<1>4. CASE d.frag_index \notin D
  <2>1. /\ DOMAIN g.frags = D \cup {d.frag_index}
        /\ g.total_bytes = f.total_bytes + Size(d)
        /\ g.frag_count = n
    BY <1>4 DEF AddFragment, IsFrameBuf
  <2>2. Cardinality(D \cup {d.frag_index}) = c + 1
    BY <1>2, <1>4, FS_AddElement
  <2>3. /\ c \in Nat /\ c * FullBytes \in Nat /\ FullBytes \in Nat /\ TailBytes \in Nat
        /\ (c + 1) * FullBytes = c * FullBytes + FullBytes
        /\ (c + 1) - 1 = c
    BY <1>2, FullFragments, TxConstants
  <2>4. f.total_bytes <= FragmentBytes(D, n)
    BY DEF OwnBytes
  <2> SUFFICES f.total_bytes + Size(d) <= FragmentBytes(D \cup {d.frag_index}, n)
    BY <2>1 DEF OwnBytes
  <2> HIDE DEF g, c
  <2>5. CASE d.frag_index = n - 1
    <3>1. Size(d) = TailBytes /\ n - 1 \notin D
      BY <1>4, <2>5 DEF Size, IsTail
    <3>2. f.total_bytes <= c * FullBytes
      BY <2>4, <3>1 DEF FragmentBytes, c
    <3>3. FragmentBytes(D \cup {d.frag_index}, n) = c * FullBytes + TailBytes
      BY <2>2, <2>3, <2>5 DEF FragmentBytes
    <3> QED BY <1>1, <2>3, <3>1, <3>2, <3>3
  <2>6. CASE d.frag_index # n - 1 /\ n - 1 \in D
    <3>1. Size(d) = FullBytes
      BY <2>6 DEF Size, IsTail
    <3>2. c # 0
      BY <1>2, <2>6, FS_EmptySet DEF c
    <3>3. c - 1 \in Nat /\ (c - 1) + 1 = c
      BY <2>3, <3>2
    <3>4. c * FullBytes = (c - 1) * FullBytes + FullBytes /\ (c - 1) * FullBytes \in Nat
      BY <3>3, FullFragments
    <3>5. f.total_bytes <= (c - 1) * FullBytes + TailBytes
      BY <2>4, <2>6 DEF FragmentBytes, c
    <3>6. FragmentBytes(D \cup {d.frag_index}, n) = c * FullBytes + TailBytes
      BY <2>2, <2>3, <2>6 DEF FragmentBytes
    <3> QED BY <1>1, <2>3, <3>1, <3>4, <3>5, <3>6
  <2>7. CASE d.frag_index # n - 1 /\ n - 1 \notin D
    <3>1. Size(d) = FullBytes
      BY <2>7 DEF Size, IsTail
    <3>2. f.total_bytes <= c * FullBytes
      BY <2>4, <2>7 DEF FragmentBytes, c
    <3>3. FragmentBytes(D \cup {d.frag_index}, n) = (c + 1) * FullBytes
      BY <2>2, <2>7 DEF FragmentBytes
    <3> QED BY <1>1, <2>3, <3>1, <3>2, <3>3
  <2> QED BY <2>5, <2>6, <2>7
<1> QED BY <1>3, <1>4

(* The first fragment of a frame, likewise.                                 *)
LEMMA FirstBytes ==
  ASSUME NEW d \in Datagrams
  PROVE  OwnBytes(NewBuf(d, Size(d)))
<1> DEFINE g == NewBuf(d, Size(d))
<1>1. DOMAIN g.frags = {d.frag_index} /\ g.total_bytes = Size(d) /\ g.frag_count = d.frag_count
  BY DEF NewBuf
<1>2. Cardinality({d.frag_index}) = 1
  BY FS_Singleton
<1>3. /\ 0 * FullBytes = 0 /\ 1 * FullBytes = FullBytes /\ 1 - 1 = 0
      /\ FullBytes \in Nat /\ TailBytes \in Nat
  BY TxConstants
<1> HIDE DEF g
<1>4. CASE d.frag_index = d.frag_count - 1
  <2>1. FragmentBytes({d.frag_index}, d.frag_count) = TailBytes /\ Size(d) = TailBytes
    BY <1>2, <1>3, <1>4 DEF FragmentBytes, Size, IsTail
  <2> QED BY <1>1, <1>3, <2>1 DEF OwnBytes, g
<1>5. CASE d.frag_index # d.frag_count - 1
  <2>1. FragmentBytes({d.frag_index}, d.frag_count) = FullBytes /\ Size(d) = FullBytes
    BY <1>2, <1>3, <1>5 DEF FragmentBytes, Size, IsTail
  <2> QED BY <1>1, <1>3, <2>1 DEF OwnBytes, g
<1> QED BY <1>4, <1>5

(* A fragment of the buffered frame is a fragment of the newest unit.       *)
LEMMA BufferedFollows ==
  ASSUME LinkInv, NEW d \in net, FragmentOfBuffered(d, Size(d)),
         UNCHANGED <<sent, newest, dropped>>
  PROVE  RxPart' /\ ShowsNewer
<1> DEFINE s == d.frame_seq
           f == AddFragment(frames[s], d, Size(d))
<1>1. /\ TxTypeOK /\ UnitsNumbered /\ InFlight /\ RxFollows /\ RxInv /\ DeliveredWhole
      /\ RxBytes
  BY DEF LinkInv, TxInv
<1>2. /\ d \in Datagrams /\ d.unit \in DOMAIN sent /\ Len(sent) - d.unit <= Window
      /\ s = sent[d.unit].frame_seq
  BY <1>1, SentFragment DEF InFlight, IsSent
<1>3. /\ s \in DOMAIN frames /\ s = max_seq /\ newest > 0
      /\ frames[s].frag_count = d.frag_count
  BY <1>1 DEF FragmentOfBuffered, RxInv, OnlyNewestBuffered, RxFollows
<1>4. d.unit = newest /\ newest \in DOMAIN sent /\ s = sent[newest].frame_seq
  BY <1>1, <1>2, <1>3, SerialOrder DEF RxFollows
<1>5. /\ frames[s].frag_count = sent[newest].frag_count
      /\ \A i \in DOMAIN frames[s].frags : frames[s].frags[i] = newest
      /\ LatestShown < newest
      /\ ~frames[s].drop_counted => dropped < newest
  BY <1>1, <1>3 DEF RxFollows
<1>6. IsFrameBuf(f)
  BY <1>1, <1>2, <1>3, AddFragmentType, DatagramSize DEF RxInv, RxTypeOK, BufferCoherent
<1>6a. OwnBytes(f)
  BY <1>1, <1>2, <1>3, AddedBytes DEF RxInv, RxTypeOK, RxBytes
<1>7. /\ f.frag_count = sent[newest].frag_count
      /\ f.drop_counted = frames[s].drop_counted
      /\ \A i \in DOMAIN f.frags : f.frags[i] = newest
  <2>1. IsFrameBuf(frames[s])
    BY <1>1, <1>3 DEF RxInv, RxTypeOK
  <2>2. CASE d.frag_index \in DOMAIN frames[s].frags
    BY <1>5, <2>2 DEF AddFragment
  <2>3. CASE d.frag_index \notin DOMAIN frames[s].frags
    <3> DEFINE g == frames[s]
               h == [i \in DOMAIN g.frags \cup {d.frag_index} |->
                         IF i = d.frag_index THEN d.unit ELSE g.frags[i]]
    <3>1. f = [frag_count |-> g.frag_count, frags |-> h,
               total_bytes |-> g.total_bytes + Size(d), nacked |-> FALSE,
               drop_counted |-> g.drop_counted, renacks |-> 0]
      BY <2>1, <2>3 DEF AddFragment, IsFrameBuf
    <3>2. \A i \in DOMAIN h : h[i] = newest
      BY <1>4, <1>5
    <3> HIDE DEF h, f, g
    <3>3. f.frag_count = g.frag_count /\ f.frags = h /\ f.drop_counted = g.drop_counted
      BY <3>1
    <3> QED BY <1>5, <3>2, <3>3 DEF g
  <2> QED BY <2>2, <2>3
<1>8. UNCHANGED <<max_seq, sent, newest, dropped>>
  BY DEF FragmentOfBuffered
<1>9. newest \in Nat /\ LatestShown \in Nat
  BY <1>1 DEF InFlight, RxFollows
<1>10. CASE IsComplete(f) /\ ~Oversized(f)
  <2>1. frames' = Without(s) /\ Complete(s, f)
    BY <1>10 DEF FragmentOfBuffered
  <2>2. /\ delivered' # NoUnit
        /\ delivered'.frags[0] = newest
        /\ delivered' = [frame_seq  |-> sent[newest].frame_seq,
                         frag_count |-> sent[newest].frag_count,
                         frags |-> [j \in 0 .. sent[newest].frag_count - 1 |-> newest]]
    <3> HIDE DEF f
    <3> QED BY <1>1, <1>4, <1>6, <1>7, <1>10, <2>1, WholeFrame
  <2>3. DOMAIN frames' = {}
    BY <1>1, <1>3, <2>1 DEF Without, RxInv, OnlyNewestBuffered
  <2>4. LatestShown' = newest
    BY <2>2 DEF LatestShown
  <2>5. RxFollows'
    BY <1>1, <1>8, <1>9, <2>3, <2>4 DEF RxFollows
  <2>6. DeliveredWhole'
    BY <1>4, <1>8, <2>2 DEF DeliveredWhole, WholeUnits
  <2>7. RxBytes'
    BY <2>3 DEF RxBytes
  <2> QED BY <1>5, <2>1, <2>4, <2>5, <2>6, <2>7 DEF RxPart, ShowsNewer, Complete
<1>11. CASE ~IsComplete(f) /\ ~Oversized(f)
  <2>1. frames' = [frames EXCEPT ![s] = f] /\ UNCHANGED <<frames_complete, delivered>>
    BY <1>11 DEF FragmentOfBuffered
  <2> HIDE DEF f
  <2>2. DOMAIN frames' = DOMAIN frames /\ \A t \in DOMAIN frames' : frames'[t] = f
    BY <1>1, <1>3, <2>1 DEF RxInv, OnlyNewestBuffered
  <2>3. LatestShown' = LatestShown
    BY <2>1 DEF LatestShown
  <2>4. RxFollows'
    BY <1>1, <1>3, <1>5, <1>7, <1>8, <2>2, <2>3 DEF RxFollows
  <2>5. DeliveredWhole'
    BY <1>1, <1>8, <2>1 DEF DeliveredWhole, WholeUnits
  <2>6. RxBytes'
    BY <1>6a, <2>2 DEF RxBytes
  <2> QED BY <2>1, <2>3, <2>4, <2>5, <2>6 DEF RxPart, ShowsNewer
<1>12. CASE Oversized(f)
  <2>1. frames' = Without(s) /\ UNCHANGED <<frames_complete, delivered>>
    BY <1>12 DEF FragmentOfBuffered
  <2>2. DOMAIN frames' = {}
    BY <1>1, <1>3, <2>1 DEF Without, RxInv, OnlyNewestBuffered
  <2>3. LatestShown' = LatestShown
    BY <2>1 DEF LatestShown
  <2>4. RxFollows' /\ RxBytes'
    BY <1>1, <1>8, <2>2, <2>3 DEF RxFollows, RxBytes
  <2>5. DeliveredWhole'
    BY <1>1, <1>8, <2>1 DEF DeliveredWhole, WholeUnits
  <2> QED BY <2>1, <2>3, <2>4, <2>5 DEF RxPart, ShowsNewer
<1> QED BY <1>10, <1>11, <1>12

(* A datagram accepted as newer is of a newer unit.                         *)
LEMMA NewerFollows ==
  ASSUME LinkInv, NEW d \in net, FirstOfNewer(d, Size(d)), UNCHANGED sent,
         newest' = d.unit, dropped' = DroppedAfter(FirstDrops(DOMAIN frames))
  PROVE  /\ RxPart'
         /\ ShowsNewer
         /\ newest' > newest
<1> DEFINE s == d.frame_seq
           f == NewBuf(d, Size(d))
<1>1. /\ TxTypeOK /\ UnitsNumbered /\ InFlight /\ RxFollows /\ RxInv /\ DeliveredWhole
  BY DEF LinkInv, TxInv
<1>2. /\ d \in Datagrams /\ d.unit \in DOMAIN sent /\ Len(sent) - d.unit <= Window
      /\ s = sent[d.unit].frame_seq /\ d.frag_count = sent[d.unit].frag_count
  BY <1>1, SentFragment DEF InFlight, IsSent
<1>3. /\ newest \in Nat /\ LatestShown \in 0 .. newest /\ d.unit \in Nat
      /\ dropped \in Nat /\ dropped <= newest
  BY <1>1, <1>2, SentTypes DEF InFlight, RxFollows
<1>4. d.unit > newest
  <2>1. CASE newest = 0
    BY <1>1, <1>2, <2>1, SentTypes
  <2>2. CASE newest > 0
    <3>1. max_seq = sent[newest].frame_seq /\ max_seq # NoSeq
      BY <1>1, <1>3, <2>2 DEF RxFollows
    <3>2. Newer(s, max_seq)
      BY <3>1 DEF FirstOfNewer, Accepts
    <3> QED BY <1>1, <1>2, <2>2, <3>1, <3>2, SerialOrder
  <2> QED BY <1>3, <2>1, <2>2
<1>5. dropped' \in Nat /\ dropped' <= newest
  <2>1. dropped' \in {dropped, newest}
    BY <1>1, DroppedStep
  <2> QED BY <1>3, <2>1
<1>6. IsFrameBuf(f)
  BY <1>2, NewBufType, DatagramSize DEF FirstOfNewer, Accepts
<1>6a. OwnBytes(f)
  BY <1>2, FirstBytes
<1>7. /\ f.frag_count = sent[d.unit].frag_count
      /\ \A i \in DOMAIN f.frags : f.frags[i] = d.unit
  BY <1>2 DEF NewBuf
<1>8. max_seq' = s /\ max_seq' # NoSeq /\ UNCHANGED sent /\ newest' = d.unit
  BY <1>1, <1>2, SentTypes, RxConstants DEF FirstOfNewer
<1>9. CASE IsComplete(f) /\ ~Oversized(f)
  <2>1. DOMAIN frames' = {} /\ Complete(s, f)
    BY <1>9 DEF FirstOfNewer, NoOlder
  <2>2. /\ delivered' # NoUnit
        /\ delivered'.frags[0] = d.unit
        /\ delivered' = [frame_seq  |-> sent[d.unit].frame_seq,
                         frag_count |-> sent[d.unit].frag_count,
                         frags |-> [j \in 0 .. sent[d.unit].frag_count - 1 |-> d.unit]]
    <3> HIDE DEF f
    <3> QED BY <1>1, <1>2, <1>6, <1>7, <1>9, <2>1, WholeFrame
  <2>3. LatestShown' = d.unit
    BY <2>2 DEF LatestShown
  <2>4. RxFollows'
    BY <1>2, <1>3, <1>4, <1>5, <1>8, <2>1, <2>3 DEF RxFollows
  <2>5. DeliveredWhole'
    BY <1>2, <1>8, <2>2 DEF DeliveredWhole, WholeUnits
  <2>6. RxBytes'
    BY <2>1 DEF RxBytes
  <2> QED BY <1>3, <1>4, <1>8, <2>1, <2>3, <2>4, <2>5, <2>6 DEF RxPart, ShowsNewer, Complete
<1>10. CASE ~IsComplete(f) /\ ~Oversized(f)
  <2>1. /\ frames' = [t \in {s} |-> f] /\ UNCHANGED <<frames_complete, delivered>>
    BY <1>10 DEF FirstOfNewer, NoOlder
  <2> HIDE DEF f
  <2>2. DOMAIN frames' = {s} /\ \A t \in DOMAIN frames' : frames'[t] = f
    BY <2>1
  <2>3. LatestShown' = LatestShown
    BY <2>1 DEF LatestShown
  <2>4. RxFollows'
    BY <1>2, <1>3, <1>4, <1>5, <1>7, <1>8, <2>2, <2>3 DEF RxFollows
  <2>5. DeliveredWhole'
    BY <1>1, <1>8, <2>1 DEF DeliveredWhole, WholeUnits
  <2>6. RxBytes'
    BY <1>6a, <2>2 DEF RxBytes
  <2> QED BY <1>4, <1>8, <2>1, <2>3, <2>4, <2>5, <2>6 DEF RxPart, ShowsNewer
<1>11. CASE Oversized(f)
  <2>1. DOMAIN frames' = {} /\ UNCHANGED <<frames_complete, delivered>>
    BY <1>11 DEF FirstOfNewer, NoOlder
  <2>2. LatestShown' = LatestShown
    BY <2>1 DEF LatestShown
  <2>3. RxFollows' /\ RxBytes'
    BY <1>2, <1>3, <1>4, <1>5, <1>8, <2>1, <2>2 DEF RxFollows, RxBytes
  <2>4. DeliveredWhole'
    BY <1>1, <1>8, <2>1 DEF DeliveredWhole, WholeUnits
  <2> QED BY <1>4, <1>8, <2>1, <2>2, <2>3, <2>4 DEF RxPart, ShowsNewer
<1> QED BY <1>9, <1>10, <1>11

(* The timers change the flags of the buffered frame, never its contents.   *)
LEMMA TimersFollow ==
  ASSUME LinkInv,
         NEW timedOut \in SUBSET DOMAIN frames, NEW expired \in SUBSET DOMAIN frames,
         Maintenance(timedOut, expired), UNCHANGED <<sent, newest>>,
         dropped' = DroppedAfter(FirstDrops(timedOut))
  PROVE  RxPart' /\ UNCHANGED LatestShown
<1>1. /\ InFlight /\ RxFollows /\ RxInv /\ RxBytes /\ DeliveredWhole
  BY DEF LinkInv
<1>2. /\ frames' = [s \in DOMAIN frames \ GivenUp(expired) |->
                      Maintained(s, timedOut, expired)]
      /\ UNCHANGED <<max_seq, frames_complete, delivered, sent, newest>>
  BY DEF Maintenance
<1>3. newest \in Nat /\ dropped \in Nat /\ dropped <= newest
  BY <1>1 DEF InFlight, RxFollows
<1>4. dropped' \in 0 .. newest
  <2>1. dropped' \in {dropped, newest}
    BY <1>1, DroppedStep
  <2> QED BY <1>3, <2>1
<1>5. UNCHANGED LatestShown
  BY <1>2 DEF LatestShown
<1>6. ASSUME NEW s \in DOMAIN frames'
      PROVE  /\ s \in DOMAIN frames
             /\ frames'[s].frag_count = frames[s].frag_count
             /\ frames'[s].frags = frames[s].frags
             /\ frames'[s].total_bytes = frames[s].total_bytes
             /\ ~frames'[s].drop_counted => dropped' < newest
  <2>1. s \in DOMAIN frames /\ frames'[s] = Maintained(s, timedOut, expired)
    BY <1>2
  <2>2. IsFrameBuf(frames[s])
    BY <1>1, <2>1 DEF RxInv, RxTypeOK
  <2> DEFINE e == IF s \in timedOut THEN Dropped(frames[s]) ELSE frames[s]
  <2>3. /\ e.frag_count = frames[s].frag_count /\ e.frags = frames[s].frags
        /\ e.total_bytes = frames[s].total_bytes
        /\ e.drop_counted = (frames[s].drop_counted \/ s \in timedOut)
        /\ IsFrameBuf(e)
    BY <2>2 DEF Dropped, IsFrameBuf
  <2>4. frames'[s] = IF s \in expired THEN [e EXCEPT !.renacks = @ + 1] ELSE e
    BY <2>1 DEF Maintained
  <2> HIDE DEF e
  <2>5. /\ frames'[s].frag_count = e.frag_count /\ frames'[s].frags = e.frags
        /\ frames'[s].drop_counted = e.drop_counted
        /\ frames'[s].total_bytes = e.total_bytes
    BY <2>3, <2>4 DEF IsFrameBuf
  <2>6. ASSUME ~frames'[s].drop_counted PROVE dropped' < newest
    <3>1. ~frames[s].drop_counted /\ s \notin timedOut
      BY <2>3, <2>5, <2>6
    <3>2. FirstDrops(timedOut) = {}
      BY <1>1, <2>1, <3>1 DEF FirstDrops, FreshDrops, RxInv, OnlyNewestBuffered
    <3>3. dropped' = dropped
      BY <1>1, <3>2, DroppedStep
    <3> QED BY <1>1, <2>1, <3>1, <3>3 DEF RxFollows
  <2> QED BY <2>1, <2>3, <2>5, <2>6
<1>7. RxFollows'
  BY <1>1, <1>2, <1>4, <1>5, <1>6 DEF RxFollows
<1>8. DeliveredWhole'
  BY <1>1, <1>2 DEF DeliveredWhole, WholeUnits
<1>9. RxBytes'
  BY <1>1, <1>6 DEF RxBytes, OwnBytes
<1> QED BY <1>5, <1>7, <1>8, <1>9 DEF RxPart

LEMMA RxPartUnchanged ==
  ASSUME RxPart, InFlight, SentGrows, UNCHANGED <<newest, dropped, frames, max_seq, delivered>>,
         newest \in DOMAIN sent \/ newest = 0
  PROVE  RxPart' /\ UNCHANGED LatestShown
<1>1. UNCHANGED LatestShown
  BY DEF LatestShown
<1>2. newest > 0 => newest \in DOMAIN sent /\ sent'[newest] = sent[newest]
  BY DEF SentGrows
<1>3. RxFollows'
  BY <1>1, <1>2 DEF RxPart, RxFollows
<1>4. DeliveredWhole'
  BY DEF RxPart, DeliveredWhole, WholeUnits, SentGrows
<1>5. RxBytes'
  BY DEF RxPart, RxBytes
<1> QED BY <1>1, <1>3, <1>4, <1>5 DEF RxPart

-----------------------------------------------------------------------------
(* The whole channel.                                                       *)
LEMMA InitLinkInv == LinkInit => LinkInv
<1> SUFFICES ASSUME LinkInit PROVE LinkInv
  OBVIOUS
<1>1. /\ tx_pc = "idle" /\ sent = << >> /\ next_frag = 0 /\ frame_seq = 0
      /\ ring_order = << >> /\ ring_used = 0 /\ DOMAIN ring = {} /\ net = {}
      /\ frames = [s \in {} |-> NoSeq] /\ max_seq = NoSeq /\ delivered = NoUnit
      /\ newest = 0 /\ dropped = 0
  BY DEF LinkInit, TxInit, RxInit
<1>2. /\ sent \in Seq(UnitHeads) /\ Len(sent) = 0 /\ DOMAIN sent = {}
      /\ DOMAIN ring_order = {} /\ ring_order \in Seq({})
  BY <1>1
<1>3. TxTypeOK
  BY <1>1, <1>2, TxConstants, PacketConstants DEF TxTypeOK, Seqs
<1>4. UnitsNumbered
  BY <1>2 DEF UnitsNumbered
<1>5. RingInv
  <2>1. Range(ring) = {} /\ Range(ring_order) = {}
    BY <1>1, <1>2 DEF Range
  <2>2. RingContents
    BY <1>1, <1>2, <2>1 DEF RingContents
  <2>3. RingHoldsNewest /\ RingSpread
    BY <1>2 DEF RingHoldsNewest, RingSpread
  <2>4. RingBudget
    BY <1>1, <2>1, NoBytes, TxConstants DEF RingBudget
  <2> QED BY <2>2, <2>3, <2>4 DEF RingInv
<1>6. InFlight
  BY <1>1, <1>2, LinkConstants DEF InFlight
<1>7. RxFollows /\ RxBytes /\ DeliveredWhole
  BY <1>1 DEF RxFollows, RxBytes, DeliveredWhole, LatestShown
<1>8. RxInv
  BY InitRxInv DEF LinkInit
<1> QED BY <1>3, <1>4, <1>5, <1>6, <1>7, <1>8 DEF LinkInv, TxInv

LEMMA RxInvUnchanged == ASSUME RxInv, UNCHANGED rxVars PROVE RxInv'
BY StepRxInv

(* What every step does to the two ends, as the theorems below need it.     *)
StepShape ==
  /\ LinkInv'
  /\ \/ Len(sent') = Len(sent) + 1 /\ UNCHANGED <<frames_complete, LatestShown>>
     \/ UNCHANGED <<Len(sent), frames_complete, LatestShown>>
     \/ /\ UNCHANGED Len(sent)
        /\ frames_complete' = frames_complete + 1
        /\ LatestShown' > LatestShown
  /\ frames_dropped' # frames_dropped =>
       frames_dropped' = frames_dropped + 1 /\ dropped' > dropped

LEMMA InFlightTypes ==
  ASSUME TxTypeOK, InFlight
  PROVE  /\ Len(sent) \in Nat /\ newest \in Nat
         /\ newest \in DOMAIN sent \/ newest = 0
         /\ \A d \in net : d.unit \in Nat /\ d.unit \in DOMAIN sent
<1>1. Len(sent) \in Nat /\ DOMAIN sent = 1 .. Len(sent)
  BY SentTypes
<1>2. \A d \in net : d.unit \in 1 .. Len(sent)
  BY SentFragment DEF InFlight
<1> QED BY <1>1, <1>2 DEF InFlight

LEMMA SenderShape ==
  ASSUME LinkInv, Sender
  PROVE  StepShape
<1>1. /\ TxInv /\ TxTypeOK /\ UnitsNumbered /\ InFlight /\ RxPart /\ RxInv
      /\ EncodeLoop
      /\ UNCHANGED <<rxVars, newest, dropped>>
  BY DEF LinkInv, TxInv, Sender, RxPart
<1>2. RxInv'
  BY <1>1, RxInvUnchanged
<1>3. UNCHANGED <<frames, max_seq, frames_dropped, frames_complete, delivered, newest, dropped>>
  BY <1>1 DEF rxVars
<1>4. /\ Len(sent) \in Nat /\ newest \in Nat
      /\ newest \in DOMAIN sent \/ newest = 0
      /\ \A d \in net : d.unit \in Nat /\ d.unit \in DOMAIN sent
  BY <1>1, InFlightTypes
<1>5. CASE \E count \in UnitSizes : BeginUnit(count)
  <2>1. PICK count \in UnitSizes : BeginUnit(count)
    BY <1>5
  <2>2. TxInv'
    BY <1>1, <2>1, BeginStep
  <2>3. SentGrows /\ Len(sent') = Len(sent) + 1
    BY <1>1, <2>1, BeginAppends
  <2>4. RxPart' /\ UNCHANGED LatestShown
    BY <1>1, <1>3, <1>4, <2>3, RxPartUnchanged
  <2>5. UNCHANGED net /\ WithinWindow(Len(sent'))
    BY <1>4, <2>1, <2>3 DEF BeginUnit, Sender
  <2>6. InFlight'
    <3>1. \A d \in net : IsSent(d)' /\ Len(sent') - d.unit <= Window
      BY <1>1, <2>3, <2>5 DEF InFlight, IsSent, Fragment, SentGrows, WithinWindow
    <3>2. newest \in 0 .. Len(sent') /\ Len(sent') - newest <= Window
      BY <1>1, <1>4, <2>3, <2>5 DEF InFlight, WithinWindow
    <3> QED BY <1>3, <2>5, <3>1, <3>2 DEF InFlight
  <2> QED BY <1>2, <1>3, <2>2, <2>3, <2>4, <2>6 DEF StepShape, LinkInv, RxPart
<1>6. ASSUME TxInv', UNCHANGED sent, net' = net \/ (net' = net \cup {NextFragment} /\ tx_pc = "sending")
      PROVE  StepShape
  <2>1. SentGrows
    BY <1>4, <1>6 DEF SentGrows
  <2>2. RxPart' /\ UNCHANGED LatestShown
    BY <1>1, <1>3, <1>4, <2>1, RxPartUnchanged
  <2>3. ASSUME NEW d \in net' PROVE IsSent(d) /\ Len(sent) - d.unit <= Window
    <3>1. CASE d \in net
      BY <1>1, <3>1 DEF InFlight
    <3>2. CASE d = NextFragment /\ tx_pc = "sending"
      BY <1>1, <1>4, <3>2, CurrentFragment, LinkConstants
    <3> QED BY <1>6, <2>3, <3>1, <3>2
  <2>4. InFlight'
    BY <1>1, <1>3, <1>6, <2>3 DEF InFlight, IsSent, Fragment
  <2> QED BY <1>2, <1>3, <1>6, <2>2, <2>4 DEF StepShape, LinkInv, RxPart
<1>7. CASE TakeIdrRequest \/ EndFrame \/ RejectUnit
  <2>1. /\ tx_pc \in {"idle", "encoding", "between"} /\ tx_pc' \in {"idle", "encoding", "dead"}
        /\ UNCHANGED <<sent, next_frag, frame_seq, ringVars, net>>
    BY <1>7 DEF TakeIdrRequest, EndFrame, RejectUnit
  <2> QED BY <1>1, <1>6, <2>1, PauseStep
<1>8. CASE SendFragment \/ SendFails
  <2>1. /\ tx_pc = "sending" /\ UNCHANGED sent
        /\ net' = net \/ net' = net \cup {NextFragment}
    BY <1>8 DEF SendFragment, SendFails
  <2> QED BY <1>1, <1>6, <1>8, <2>1, FragmentStep
<1> QED BY <1>1, <1>5, <1>7, <1>8 DEF EncodeLoop

(* Steps that only move messages.                                           *)
LEMMA MessageShape ==
  ASSUME LinkInv, UNCHANGED <<senderVars, frames, max_seq, delivered, newest, dropped,
                              frames_dropped, frames_complete>>,
         RxInv', \A d \in net' : d \in net \/ d \in Range(ring)
  PROVE  StepShape
<1>1. /\ TxInv /\ TxTypeOK /\ RingInv /\ InFlight /\ RxPart /\ UNCHANGED sent
  BY DEF LinkInv, TxInv, RxPart, senderVars
<1>2. TxInv'
  BY <1>1, TxInvUnchanged
<1>3. /\ Len(sent) \in Nat
      /\ newest \in DOMAIN sent \/ newest = 0
  BY <1>1, InFlightTypes
<1>4. SentGrows
  BY <1>1, <1>3 DEF SentGrows
<1>5. RxPart' /\ UNCHANGED LatestShown
  BY <1>1, <1>3, <1>4, RxPartUnchanged
<1>6. ASSUME NEW d \in net' PROVE IsSent(d) /\ Len(sent) - d.unit <= Window
  <2>1. CASE d \in net
    BY <1>1, <2>1 DEF InFlight
  <2>2. CASE d \in Range(ring)
    <3>1. PICK i \in 1 .. Len(ring_order) : d = Stored(i)
      BY <1>1, <2>2, RingListed DEF RingInv
    <3> QED BY <1>1, <3>1, RingListed, RingWithinWindow DEF RingInv
  <2> QED BY <1>6, <2>1, <2>2
<1>7. InFlight'
  BY <1>1, <1>6 DEF InFlight, IsSent, Fragment
<1> QED BY <1>1, <1>2, <1>5, <1>7 DEF StepShape, LinkInv, RxPart

(* Each step drops at most one frame for the first time.                    *)
LEMMA CountedStep ==
  ASSUME LinkInv, NEW S \in SUBSET DOMAIN frames, NEW kept \in 0 .. drop_times,
         CountDrops(S, kept), dropped' = DroppedAfter(FirstDrops(S)),
         frames_dropped' # frames_dropped
  PROVE  frames_dropped' = frames_dropped + 1 /\ dropped' > dropped
<1>1. RxInv /\ InFlight /\ RxFollows /\ frames_dropped \in Nat
  BY DEF LinkInv, RxInv, RxTypeOK
<1>2. /\ Cardinality(FirstDrops(S)) \in {0, 1}
      /\ frames_dropped' = frames_dropped + Cardinality(FirstDrops(S))
  BY <1>1, FirstDropsCount DEF RxInv, CountDrops
<1>3. FirstDrops(S) # {}
  BY <1>1, <1>2, FS_EmptySet
<1>4. dropped' = newest /\ dropped < newest
  BY <1>1, <1>3, DroppedStep
<1> QED BY <1>1, <1>2, <1>4 DEF InFlight, RxFollows

LEMMA DeliverShape ==
  ASSUME LinkInv, NEW d \in net, Deliver(d)
  PROVE  StepShape
<1>1. /\ TxInv /\ TxTypeOK /\ UnitsNumbered /\ InFlight /\ RxFollows /\ RxInv
      /\ HandleDatagram(d, Size(d)) /\ net' \subseteq net
      /\ UNCHANGED <<tx_pc, sent, next_frag, frame_seq, ringVars>>
      /\ newest' = IF Accepts(d) THEN d.unit ELSE newest
      /\ dropped' = IF Accepts(d) THEN DroppedAfter(FirstDrops(DOMAIN frames)) ELSE dropped
  BY DEF LinkInv, TxInv, Deliver
<1>2. TxInv'
  BY <1>1, TxInvUnchanged DEF senderVars
<1>3. IsSent(d) /\ d \in Datagrams /\ Len(sent) - d.unit <= Window
  BY <1>1, SentFragment DEF InFlight
<1>4. RxInv'
  BY <1>1, <1>3, StepRxInv, DatagramSize DEF RxNext
<1>5. /\ Len(sent) \in Nat /\ newest \in Nat /\ d.unit \in 1 .. Len(sent)
  BY <1>1, <1>3, InFlightTypes, SentFragment
<1>6. InFlight'
  <2>1. newest' \in {newest, d.unit}
    BY <1>1
  <2>2. newest' \in 0 .. Len(sent) /\ Len(sent) - newest' <= Window
    BY <1>1, <1>3, <1>5, <2>1 DEF InFlight
  <2> QED BY <1>1, <2>2 DEF InFlight, IsSent, Fragment
<1>7. CASE FragmentOfBuffered(d, Size(d))
  <2>1. ~Accepts(d)
    BY <1>7 DEF Accepts, FragmentOfBuffered
  <2>2. UNCHANGED <<sent, newest, dropped>>
    BY <1>1, <2>1
  <2>3. RxPart' /\ ShowsNewer
    BY <1>7, <2>2, BufferedFollows
  <2>4. UNCHANGED frames_dropped
    BY <1>7 DEF FragmentOfBuffered
  <2> QED BY <1>1, <1>2, <1>4, <1>6, <2>3, <2>4 DEF StepShape, LinkInv, RxPart, ShowsNewer
<1>8. CASE FirstOfNewer(d, Size(d))
  <2>1. Accepts(d)
    BY <1>8 DEF FirstOfNewer
  <2>2. /\ newest' = d.unit /\ dropped' = DroppedAfter(FirstDrops(DOMAIN frames))
    BY <1>1, <2>1
  <2>3. RxPart' /\ ShowsNewer
    BY <1>1, <1>8, <2>2, NewerFollows
  <2>4. PICK kept \in 0 .. drop_times : CountDrops(DOMAIN frames, kept)
    BY <1>8 DEF FirstOfNewer
  <2>5. frames_dropped' # frames_dropped =>
          frames_dropped' = frames_dropped + 1 /\ dropped' > dropped
    BY <2>2, <2>4, CountedStep
  <2> QED BY <1>1, <1>2, <1>4, <1>6, <2>3, <2>5 DEF StepShape, LinkInv, RxPart, ShowsNewer
<1>9. CASE IgnoredDatagram(d)
  <2>1. /\ ~Accepts(d) /\ UNCHANGED rxVars
    BY <1>9 DEF IgnoredDatagram
  <2>2. UNCHANGED <<senderVars, frames, max_seq, delivered, newest, dropped,
                    frames_dropped, frames_complete>>
    BY <1>1, <2>1 DEF rxVars, senderVars
  <2> QED BY <1>1, <1>4, <2>2, MessageShape
<1> QED BY <1>1, <1>7, <1>8, <1>9 DEF HandleDatagram

LEMMA TimersShape ==
  ASSUME LinkInv,
         NEW timedOut \in SUBSET DOMAIN frames, NEW expired \in SUBSET DOMAIN frames,
         Timers(timedOut, expired)
  PROVE  StepShape
<1>1. /\ TxInv /\ TxTypeOK /\ InFlight /\ RxInv
      /\ Maintenance(timedOut, expired)
      /\ dropped' = DroppedAfter(FirstDrops(timedOut))
      /\ UNCHANGED <<txVars, newest>>
  BY DEF LinkInv, TxInv, Timers
<1>2. UNCHANGED <<tx_pc, sent, next_frag, frame_seq, ringVars, net>>
  BY <1>1 DEF txVars, ringVars
<1>3. TxInv'
  BY <1>1, <1>2, TxInvUnchanged DEF senderVars
<1>4. RxInv'
  BY <1>1, StepRxInv DEF RxNext
<1>5. RxPart' /\ UNCHANGED LatestShown
  BY <1>1, <1>2, TimersFollow
<1>6. InFlight'
  BY <1>1, <1>2 DEF InFlight, IsSent, Fragment
<1>7. PICK kept \in 0 .. drop_times : CountDrops(timedOut, kept)
  BY <1>1 DEF Maintenance
<1>8. frames_dropped' # frames_dropped =>
        frames_dropped' = frames_dropped + 1 /\ dropped' > dropped
  BY <1>1, <1>7, CountedStep
<1>9. UNCHANGED frames_complete
  BY <1>1 DEF Maintenance
<1> QED BY <1>2, <1>3, <1>4, <1>5, <1>6, <1>8, <1>9 DEF StepShape, LinkInv, RxPart

LEMMA LinkStep ==
  ASSUME LinkInv, [LinkNext]_linkVars
  PROVE  StepShape
<1>1. RxInv
  BY DEF LinkInv
<1> DEFINE Moves ==
             /\ UNCHANGED <<senderVars, frames, max_seq, delivered, newest, dropped,
                            frames_dropped, frames_complete>>
             /\ RxInv'
             /\ \A d \in net' : d \in net \/ d \in Range(ring)
<1>2. CASE UNCHANGED linkVars
  <2>1. UNCHANGED rxVars /\ UNCHANGED <<txVars, newest, dropped>>
    BY <1>2 DEF linkVars
  <2>2. Moves
    BY <1>1, <2>1, RxInvUnchanged DEF rxVars, txVars, senderVars, ringVars
  <2> QED BY <2>2, MessageShape
<1>3. CASE Sender
  BY <1>3, SenderShape
<1>4. ASSUME NEW fb \in fbnet, Feedback(fb) PROVE StepShape
  <2>1. /\ UNCHANGED rxVars /\ UNCHANGED <<senderVars, newest, dropped>>
        /\ net' = net \/ net' = net \cup Resend(fb.frame_seq, fb.missing)
    BY <1>4 DEF Feedback, HandleFeedback, senderVars
  <2>2. \A d \in Resend(fb.frame_seq, fb.missing) : d \in Range(ring)
    BY DEF Resend, Range
  <2>3. Moves
    BY <1>1, <2>1, <2>2, RxInvUnchanged DEF rxVars
  <2> QED BY <2>3, MessageShape
<1>5. ASSUME NEW d \in net, Deliver(d) PROVE StepShape
  BY <1>5, DeliverShape
<1>6. CASE FrameTimers
  BY <1>6, TimersShape DEF FrameTimers
<1>7. CASE SendFeedback
  <2>1. TakeFeedback /\ UNCHANGED <<txVars, newest, dropped>>
    BY <1>7 DEF SendFeedback
  <2>2. RxInv'
    BY <1>1, <2>1, StepRxInv DEF RxNext
  <2>3. Moves
    BY <2>1, <2>2 DEF TakeFeedback, txVars, senderVars, ringVars
  <2> QED BY <2>3, MessageShape
<1>8. CASE Lose \/ Expire
  <2>1. /\ UNCHANGED <<senderVars, newest, dropped>> /\ UNCHANGED rxVars
        /\ net' \subseteq net
    BY <1>8 DEF Lose, Expire, senderVars
  <2>2. Moves
    BY <1>1, <2>1, RxInvUnchanged DEF rxVars
  <2> QED BY <2>2, MessageShape
<1> QED BY <1>2, <1>3, <1>4, <1>5, <1>6, <1>7, <1>8 DEF LinkNext

LEMMA StepLinkInv == LinkInv /\ [LinkNext]_linkVars => LinkInv'
BY LinkStep DEF StepShape

LEMMA LinkInvariant == LinkSpec => []LinkInv
BY InitLinkInv, StepLinkInv, PTL DEF LinkSpec

(* In the channel the receiver is the receiver of RxSpec: it is handed only *)
(* well-formed datagrams.  So what is proved of RxSpec holds here.          *)
LEMMA ReceiverInLink == LinkSpec => RxSpec
<1>1. LinkInit => RxInit
  BY DEF LinkInit
<1>2. LinkInv /\ [LinkNext]_linkVars => [RxNext]_rxVars
  <2> SUFFICES ASSUME LinkInv, [LinkNext]_linkVars
               PROVE  RxNext \/ UNCHANGED rxVars
    OBVIOUS
  <2>1. CASE UNCHANGED linkVars
    BY <2>1 DEF linkVars
  <2>2. CASE Sender \/ (\E fb \in fbnet : Feedback(fb)) \/ Lose \/ Expire
    BY <2>2 DEF Sender, Feedback, Lose, Expire
  <2>3. ASSUME NEW d \in net, Deliver(d) PROVE RxNext
    <3>1. d \in Datagrams
      BY SentFragment DEF LinkInv, TxInv, InFlight
    <3> QED BY <2>3, <3>1, DatagramSize DEF Deliver, RxNext
  <2>4. CASE FrameTimers
    BY <2>4 DEF FrameTimers, Timers, RxNext
  <2>5. CASE SendFeedback
    BY <2>5 DEF SendFeedback, RxNext
  <2> QED BY <2>1, <2>2, <2>3, <2>4, <2>5 DEF LinkNext
<1> QED BY LinkInvariant, <1>1, <1>2, PTL DEF LinkSpec, RxSpec

-----------------------------------------------------------------------------
(* handle_datagram's wrapping comparison (video.rs) is the order of sending *)
(* for everything in flight: no stale datagram passes for a new frame, and  *)
(* no new one for stale.                                                    *)
THEOREM SerialOrderHolds == LinkSpec => []SerialOrderIsSendOrder
BY LinkInvariant, SerialInv, PTL

(* What poll returns is one unit as send_unit cut it, never a mixture of    *)
(* two frames with the same sequence number and never one with a hole.      *)
THEOREM UnitsAreWhole == LinkSpec => []WholeUnits
<1>1. LinkInv => WholeUnits
  BY DEF LinkInv, DeliveredWhole, WholeUnits
<1> QED BY LinkInvariant, <1>1, PTL

(* ring_insert's accounting is exact and within the capacity, and the ring  *)
(* holds the newest datagrams sent, whatever their sizes.                   *)
THEOREM RingSoundness == LinkSpec => []RingSound
<1>1. LinkInv => RingSound
  <2> SUFFICES ASSUME LinkInv PROVE RingSound
    OBVIOUS
  <2>1. TxTypeOK /\ RingContents /\ RingHoldsNewest /\ RingBudget
    BY DEF LinkInv, TxInv, RingInv
  <2>2. /\ Len(ring_order) = Cardinality(DOMAIN ring)
        /\ Range(ring_order) = DOMAIN ring
        /\ Range(ring) = {Stored(i) : i \in 1 .. Len(ring_order)}
    BY <2>1, RingListed DEF RingContents
  <2>3. ring_used = OldestBytes(Len(ring_order))
    BY <2>1, <2>2 DEF RingBudget, OldestBytes, Stored
  <2> QED BY <2>1, <2>2, <2>3 DEF RingSound, RingAccounting, RingBudget
<1> QED BY LinkInvariant, <1>1, PTL

(* drop_frame's statistics count a frame once, however often a              *)
(* retransmission revives it.                                               *)
THEOREM DropsCountedOnce == LinkSpec => CountedOnce
<1>1. LinkInv /\ [LinkNext]_linkVars
        => [frames_dropped' # frames_dropped =>
              frames_dropped' = frames_dropped + 1 /\ dropped' > dropped]_linkVars
  BY LinkStep DEF StepShape
<1> QED BY LinkInvariant, <1>1, PTL DEF LinkSpec, CountedOnce

(* The video channel implements FrameDelivery, the promise of SPEC section  *)
(* 5: units are shown in the order they were sent, each at most once.       *)
THEOREM LinkImplementsDelivery == LinkSpec => DeliveryInOrder
<1>1. LinkInit => Abstract!Init
  BY DEF LinkInit, TxInit, RxInit, Abstract!Init, LatestShown
<1>2. LinkInv /\ LinkInv' /\ [LinkNext]_linkVars => [Abstract!Next]_Abstract!vars
  <2> SUFFICES ASSUME LinkInv, LinkInv', [LinkNext]_linkVars
               PROVE  Abstract!Next \/ UNCHANGED <<Len(sent), frames_complete, LatestShown>>
    BY DEF Abstract!vars
  <2>1. StepShape
    BY LinkStep
  <2>2. CASE Len(sent') = Len(sent) + 1 /\ UNCHANGED <<frames_complete, LatestShown>>
    BY <2>2 DEF Abstract!Next, Abstract!Produce
  <2>3. CASE /\ UNCHANGED Len(sent)
             /\ frames_complete' = frames_complete + 1
             /\ LatestShown' > LatestShown
    <3>1. LatestShown \in Nat /\ LatestShown' \in Nat /\ LatestShown' <= Len(sent)
          /\ Len(sent) \in Nat
      <4>1. /\ TxTypeOK /\ LatestShown \in 0 .. newest /\ newest \in 0 .. Len(sent)
            /\ LatestShown' \in 0 .. newest' /\ newest' \in 0 .. Len(sent')
        BY DEF LinkInv, TxInv, RxFollows, InFlight
      <4> QED BY <2>3, <4>1, SentTypes
    <3>2. LatestShown' \in LatestShown + 1 .. Len(sent)
      BY <2>3, <3>1
    <3> QED BY <2>3, <3>2 DEF Abstract!Next, Abstract!Show
  <2> QED BY <2>1, <2>2, <2>3 DEF StepShape
<1> QED BY LinkInvariant, <1>1, <1>2, PTL DEF LinkSpec, DeliveryInOrder, Abstract!Spec

(* A frame that a fragment takes over the cap is of a unit that exceeds it: *)
(* the bytes counted are the unit's own, and none of them twice.            *)
LEMMA OversizedUnit ==
  ASSUME LinkInv, NEW d \in net, FragmentOfBuffered(d, Size(d)),
         Oversized(AddFragment(frames[d.frame_seq], d, Size(d)))
  PROVE  UnitBytes(newest) > MAX_FRAME_BYTES
<1> DEFINE f == frames[d.frame_seq]
           g == AddFragment(f, d, Size(d))
           n == f.frag_count
<1>1. d.frame_seq \in DOMAIN frames /\ n = d.frag_count /\ d \in Datagrams
  BY SentFragment DEF FragmentOfBuffered, LinkInv, TxInv, InFlight
<1>2. IsFrameBuf(f) /\ OwnBytes(f) /\ n = sent[newest].frag_count
  BY <1>1 DEF LinkInv, RxInv, RxTypeOK, RxBytes, RxFollows
<1> HIDE DEF f
<1>3. OwnBytes(g) /\ IsFrameBuf(g)
  <2>1. /\ DOMAIN f.frags # {} /\ f.renacks <= MAX_GRACE_RENACKS
        /\ (f.nacked => f.drop_counted)
        /\ (~f.nacked => f.renacks = 0)
    BY <1>1, <1>2 DEF LinkInv, RxInv, BufferCoherent, f
  <2>2. Size(d) \in PayloadSizes
    BY <1>1, DatagramSize
  <2> QED BY <1>1, <1>2, <2>1, <2>2, AddedBytes, AddFragmentType, DatagramSize
<1>4. g.frag_count = n /\ g.total_bytes > MAX_FRAME_BYTES
  BY <1>2 DEF AddFragment, IsFrameBuf, Oversized, f
<1> HIDE DEF g
<1>5. /\ n \in 1 .. MAX_FRAGS_PER_FRAME /\ DOMAIN g.frags \in SUBSET (0 .. n - 1)
      /\ g.total_bytes \in Nat
  BY <1>3, <1>4 DEF IsFrameBuf
<1>6. /\ FragmentBytes(DOMAIN g.frags, n) \in Int
      /\ FragmentBytes(DOMAIN g.frags, n) <= (n - 1) * FullBytes + TailBytes
  BY <1>5, NoMoreThanTheUnit
<1>7. (n - 1) * FullBytes \in Nat
  <2>1. n - 1 \in Nat
    BY <1>5, PacketConstants
  <2> QED BY <2>1, FullFragments
<1>8. g.total_bytes <= FragmentBytes(DOMAIN g.frags, n)
  BY <1>3, <1>4 DEF OwnBytes
<1>9. (n - 1) * FullBytes + TailBytes > MAX_FRAME_BYTES
  BY <1>4, <1>5, <1>6, <1>7, <1>8, TxConstants, RxConstants
<1> QED BY <1>2, <1>9 DEF UnitBytes, f

(* No frame leaves the receiver's buffer uncounted, unless the unit is over *)
(* the byte cap as a whole, whatever the network does with its fragments.   *)
THEOREM NoSilentLossInLink == LinkSpec => NothingVanishes
<1>1. ASSUME LinkInv, [LinkNext]_linkVars, NEW s \in DOMAIN frames \ DOMAIN frames'
      PROVE  Traced(s) \/ UnitBytes(newest) > MAX_FRAME_BYTES
  <2>1. RxInv
    BY <1>1 DEF LinkInv
  <2>2. CASE UNCHANGED linkVars \/ Sender \/ (\E fb \in fbnet : Feedback(fb)) \/ SendFeedback
              \/ Lose \/ Expire
    BY <1>1, <2>2 DEF linkVars, rxVars, Sender, Feedback, SendFeedback, TakeFeedback, Lose, Expire
  <2>3. ASSUME NEW d \in net, Deliver(d)
        PROVE  Traced(s) \/ UnitBytes(newest) > MAX_FRAME_BYTES
    <3>1. d \in Datagrams /\ Size(d) \in PayloadSizes /\ HandleDatagram(d, Size(d))
      BY <1>1, <2>3, SentFragment, DatagramSize DEF LinkInv, TxInv, InFlight, Deliver
    <3> QED BY <1>1, <2>1, <3>1, HandledTraced, OversizedUnit
  <2>4. CASE FrameTimers
    BY <1>1, <2>1, <2>4, TimedOutTraced DEF FrameTimers, Timers
  <2> QED BY <1>1, <2>2, <2>3, <2>4 DEF LinkNext
<1>2. LinkInv /\ [LinkNext]_linkVars
        => [\A s \in DOMAIN frames \ DOMAIN frames' :
              Traced(s) \/ UnitBytes(newest) > MAX_FRAME_BYTES]_linkVars
  BY <1>1
<1> QED BY LinkInvariant, <1>2, PTL DEF LinkSpec, NothingVanishes

(* BufferSound of the receiver, in the whole channel, where the run checks  *)
(* it.                                                                      *)
THEOREM ReceiverSoundInLink == LinkSpec => []BufferSound
BY ReceiverInLink, BufferSoundness, PTL
================================================================================
