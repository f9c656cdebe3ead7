------------------------------- MODULE VideoRx -------------------------------
(***************************************************************************)
(* The receiver of the video channel, tl-net/src/video.rs `VideoRx`: it     *)
(* reassembles access units from UDP fragments, gives up on incomplete      *)
(* ones, and queues feedback (NACKs and IDR requests) for the sender.       *)
(*                                                                          *)
(* One thread runs poll(), so every handler below is one step.  Time is     *)
(* abstract: the 33 ms and 500 ms timers may be found expired by any        *)
(* maintenance pass, and any number of the earlier drops may still lie in   *)
(* the 500 ms IDR window.  Of a datagram's payload the receiver sees its    *)
(* length, `bytes`, which the cap on the bytes of one frame counts.         *)
(***************************************************************************)
EXTENDS VideoPackets

CONSTANTS
  IDR_DROP_THRESHOLD,    \* drops inside the window that request an IDR
  MAX_GRACE_RENACKS,     \* silent grace windows before a frame is given up
  MAX_FRAME_BYTES,       \* cap on the bytes of one frame: 64 MiB in the code
  PayloadSizes,          \* lengths a datagram's payload may have
  Units,                 \* identities of the access units (ghost payload)
  NoSeq,                 \* max_seq before the first fragment
  NoUnit                 \* nothing returned yet

ASSUME RxConstants ==
  /\ IDR_DROP_THRESHOLD \in Nat \ {0}
  /\ MAX_GRACE_RENACKS \in Nat
  /\ MAX_FRAME_BYTES \in Nat
  /\ PayloadSizes \subseteq Nat
  /\ NoSeq \notin Seqs
  /\ NoUnit \notin [frame_seq : Seqs, frag_count : 1 .. MAX_FRAGS_PER_FRAME,
                    frags : UNION {[0 .. c - 1 -> Units] :
                                     c \in 1 .. MAX_FRAGS_PER_FRAME}]

(* What VideoHeader::decode lets through; `unit` stands for the payload.    *)
Datagrams ==
  {d \in [frame_seq : Seqs, frag_index : 0 .. MAX_FRAGS_PER_FRAME,
          frag_count : 1 .. MAX_FRAGS_PER_FRAME + 1, unit : Units] :
     d.frag_index < d.frag_count}

VARIABLES
  frames,          \* incomplete frames: frame_seq -> FrameBuf
  max_seq,         \* newest frame_seq ever accepted
  pending,         \* feedback waiting for take_feedback
  drop_times,      \* how many recorded drops lie in the IDR window
  frames_dropped,  \* stats.frames_dropped
  frames_complete, \* stats.frames_complete
  delivered        \* the unit poll() returned last

rxVars == <<frames, max_seq, pending, drop_times, frames_dropped,
            frames_complete, delivered>>

-----------------------------------------------------------------------------
(* u32::wrapping_sub, and the test that its i32 reading is positive.        *)
WrappingSub(a, b) == IF a >= b THEN a - b ELSE a - b + SeqSpace

NewerPlain(a, b) == a > b   \* faulty variant: forgets the wraparound

Newer(a, b) == WrappingSub(a, b) > 0 /\ 2 * WrappingSub(a, b) < SeqSpace

-----------------------------------------------------------------------------
(* FrameBuf.  `frags` maps the indices that arrived to their payloads.      *)
NewBuf(d, bytes) ==
  [frag_count |-> d.frag_count,
   frags |-> [i \in {d.frag_index} |-> d.unit],
   total_bytes |-> bytes,
   nacked |-> FALSE, drop_counted |-> FALSE, renacks |-> 0]

MissingButLast(f) ==        \* faulty variant: loop ends one short
  (0 .. f.frag_count - 2) \ DOMAIN f.frags

Missing(f) == (0 .. f.frag_count - 1) \ DOMAIN f.frags

IsComplete(f) == Missing(f) = {}

(* A fresh slot fills and revives a NACKed frame; a filled slot keeps what  *)
(* it has.                                                                  *)
AddFragmentForgetful(f, d, bytes) ==   \* faulty variant: forgets the count, too
  [f EXCEPT !.frags = [i \in DOMAIN @ \cup {d.frag_index} |->
                         IF i = d.frag_index THEN d.unit ELSE @[i]],
            !.nacked = FALSE, !.renacks = 0, !.drop_counted = FALSE]

AddFragment(f, d, bytes) ==
  IF d.frag_index \in DOMAIN f.frags
  THEN f
  ELSE [f EXCEPT !.frags = [i \in DOMAIN @ \cup {d.frag_index} |->
                              IF i = d.frag_index THEN d.unit ELSE @[i]],
                 !.total_bytes = @ + bytes,
                 !.nacked = FALSE, !.renacks = 0]

OversizedAtCap(f) == f.total_bytes >= MAX_FRAME_BYTES   \* faulty variant
Oversized(f) == f.total_bytes > MAX_FRAME_BYTES

-----------------------------------------------------------------------------
(* Feedback.  A NACK lists the missing fragments; the ranges it is encoded  *)
(* in are left out, and so are the periodic reports and their counters,     *)
(* which neither the reassembly nor VideoTx reads.                          *)
Nack(s, f) == [type |-> "Nack", frame_seq |-> s, missing |-> Missing(f)]
IdrRequest == [type |-> "IdrRequest"]

Nacks(S) == {Nack(s, frames[s]) : s \in {t \in S : ~IsComplete(frames[t])}}

(* drop_frame on each frame of S: one already NACKed is passed over, and    *)
(* only the first drop of a frame counts.                                   *)
FreshDropsInverted(S) == {s \in S : frames[s].nacked}   \* faulty variant

FreshDrops(S) == {s \in S : ~frames[s].nacked}

FirstDrops(S) == {s \in FreshDrops(S) : ~frames[s].drop_counted}

WindowAfter(total) == total % IDR_DROP_THRESHOLD

(* The IDR bookkeeping of those drops; `kept` earlier ones are in the       *)
(* window.  Reaching the threshold empties the window and asks for an IDR.  *)
CountDrops(S, kept) ==
  LET first == FirstDrops(S)
      total == kept + Cardinality(first)
  IN /\ frames_dropped' = frames_dropped + Cardinality(first)
     /\ drop_times' = IF first = {} THEN drop_times
                      ELSE WindowAfter(total)

IdrDue(S, kept) ==
  IF FirstDrops(S) # {} /\ kept + Cardinality(FirstDrops(S)) >= IDR_DROP_THRESHOLD
  THEN {IdrRequest} ELSE {}

-----------------------------------------------------------------------------
RxInit ==
  /\ frames = [s \in {} |-> NoSeq]
  /\ max_seq = NoSeq
  /\ pending = {}
  /\ drop_times = 0
  /\ frames_dropped = 0
  /\ frames_complete = 0
  /\ delivered = NoUnit

(* complete: count the frame and return it from poll.                       *)
Complete(s, f) ==
  /\ frames_complete' = frames_complete + 1
  /\ delivered' = [frame_seq |-> s, frag_count |-> f.frag_count, frags |-> f.frags]

Without(s) == [t \in DOMAIN frames \ {s} |-> frames[t]]

(* handle_datagram for a buffered frame; an inconsistent frag_count is      *)
(* ignored.  A fresh fragment that takes the frame over the cap discards it *)
(* as garbage, without a word in the statistics.                            *)
FragmentOfBuffered(d, bytes) ==
  /\ d.frame_seq \in DOMAIN frames
  /\ frames[d.frame_seq].frag_count = d.frag_count
  /\ LET f == AddFragment(frames[d.frame_seq], d, bytes)
     IN IF IsComplete(f) /\ ~Oversized(f)
        THEN /\ frames' = Without(d.frame_seq)
             /\ Complete(d.frame_seq, f)
        ELSE /\ frames' = IF Oversized(f)
                          THEN Without(d.frame_seq)
                          ELSE [frames EXCEPT ![d.frame_seq] = f]
             /\ UNCHANGED <<frames_complete, delivered>>
  /\ UNCHANGED <<max_seq, pending, drop_times, frames_dropped>>

AcceptsAny(d) ==            \* faulty variant: no test for stale frames
  /\ d.frag_count <= MAX_FRAGS_PER_FRAME
  /\ d.frame_seq \notin DOMAIN frames

Accepts(d) ==
  /\ d.frag_count <= MAX_FRAGS_PER_FRAME
  /\ d.frame_seq \notin DOMAIN frames
  /\ max_seq # NoSeq => Newer(d.frame_seq, max_seq)

(* What is left of the older frames once a newer one starts: nothing.       *)
KeepOlder == frames         \* faulty variant
NoOlder == [s \in {} |-> NoSeq]

(* handle_datagram for a strictly newer frame_seq: every older frame is     *)
(* dropped, NACKed once and discarded.  A fragment over the cap by itself   *)
(* is not buffered, but its frame_seq is the newest from now on.            *)
FirstOfNewer(d, bytes) ==
  /\ Accepts(d)
  /\ max_seq' = d.frame_seq
  /\ \E kept \in 0 .. drop_times :
       /\ CountDrops(DOMAIN frames, kept)
       /\ pending' = pending \cup Nacks(FreshDrops(DOMAIN frames))
                             \cup IdrDue(DOMAIN frames, kept)
  /\ LET f == NewBuf(d, bytes)
     IN IF IsComplete(f) /\ ~Oversized(f)
        THEN /\ frames' = NoOlder
             /\ Complete(d.frame_seq, f)
        ELSE /\ frames' = IF Oversized(f)
                          THEN NoOlder
                          ELSE [s \in DOMAIN NoOlder \cup {d.frame_seq} |->
                                  IF s = d.frame_seq THEN f ELSE NoOlder[s]]
             /\ UNCHANGED <<frames_complete, delivered>>

(* Everything else returns early: an absurd or inconsistent frag_count, a   *)
(* stale frame_seq.                                                         *)
IgnoredDatagram(d) ==
  /\ ~Accepts(d)
  /\ d.frame_seq \in DOMAIN frames =>
       frames[d.frame_seq].frag_count # d.frag_count
  /\ UNCHANGED rxVars

HandleDatagram(d, bytes) ==
  \/ FragmentOfBuffered(d, bytes)
  \/ FirstOfNewer(d, bytes)
  \/ IgnoredDatagram(d)

(* maintenance: the frames whose 33 ms are over are dropped but kept; then  *)
(* the NACKed ones whose 500 ms are over, those just dropped included after *)
(* a long stall, are NACKed again or, out of re-NACKs, given up.            *)
GivesUpLate(s) == frames[s].renacks > MAX_GRACE_RENACKS   \* faulty variant
GivesUp(s) == frames[s].renacks + 1 > MAX_GRACE_RENACKS

Dropped(f) == [f EXCEPT !.nacked = TRUE, !.drop_counted = TRUE]

MaintainedUncounted(s, timedOut, expired) ==   \* faulty variant
  IF s \in timedOut THEN Dropped(frames[s]) ELSE frames[s]

Maintained(s, timedOut, expired) ==
  LET f == IF s \in timedOut THEN Dropped(frames[s]) ELSE frames[s]
  IN IF s \in expired THEN [f EXCEPT !.renacks = @ + 1] ELSE f

GivenUp(expired) == {s \in expired : GivesUp(s)}

Maintenance(timedOut, expired) ==
  /\ timedOut \subseteq {s \in DOMAIN frames : ~frames[s].nacked}
  /\ expired \subseteq timedOut \cup {s \in DOMAIN frames : frames[s].nacked}
  /\ \E kept \in 0 .. drop_times :
       /\ CountDrops(timedOut, kept)
       /\ pending' = pending \cup Nacks(timedOut) \cup IdrDue(timedOut, kept)
                       \cup Nacks(expired \ GivenUp(expired))
                       \cup (IF GivenUp(expired) = {} THEN {} ELSE {IdrRequest})
  /\ frames' = [s \in DOMAIN frames \ GivenUp(expired) |->
                  Maintained(s, timedOut, expired)]
  /\ UNCHANGED <<max_seq, frames_complete, delivered>>

TakeFeedback ==
  /\ pending # {}
  /\ pending' = {}
  /\ UNCHANGED <<frames, max_seq, drop_times, frames_dropped, frames_complete,
                 delivered>>

-----------------------------------------------------------------------------
(* The receiver under any datagrams at all, in any order.                   *)
RxNext ==
  \/ \E d \in Datagrams : \E bytes \in PayloadSizes : HandleDatagram(d, bytes)
  \/ \E timedOut, expired \in SUBSET DOMAIN frames : Maintenance(timedOut, expired)
  \/ TakeFeedback

RxSpec == RxInit /\ [][RxNext]_rxVars

-----------------------------------------------------------------------------
IsFrameBuf(f) ==
  /\ f = [frag_count |-> f.frag_count, frags |-> f.frags,
          total_bytes |-> f.total_bytes, nacked |-> f.nacked,
          drop_counted |-> f.drop_counted, renacks |-> f.renacks]
  /\ f.frag_count \in 1 .. MAX_FRAGS_PER_FRAME
  /\ DOMAIN f.frags \subseteq 0 .. f.frag_count - 1
  /\ f.frags \in [DOMAIN f.frags -> Units]
  /\ f.total_bytes \in Nat
  /\ f.nacked \in BOOLEAN
  /\ f.drop_counted \in BOOLEAN
  /\ f.renacks \in Nat

Feedbacks ==
  [type : {"Nack"}, frame_seq : Seqs, missing : SUBSET (0 .. MAX_FRAGS_PER_FRAME - 1)]
    \cup {IdrRequest}

(* The types of the receiver's fields.                                      *)
RxTypeOK ==
  /\ DOMAIN frames \subseteq Seqs
  /\ frames = [s \in DOMAIN frames |-> frames[s]]
  /\ \A s \in DOMAIN frames : IsFrameBuf(frames[s])
  /\ max_seq \in Seqs \cup {NoSeq}
  /\ pending \subseteq Feedbacks
  /\ drop_times \in 0 .. IDR_DROP_THRESHOLD - 1
  /\ frames_dropped \in Nat
  /\ frames_complete \in Nat
  /\ delivered # NoUnit => delivered.frame_seq \in Seqs

(* Latest wins (SPEC section 5): the only frame ever under reassembly is    *)
(* the newest one accepted, so no older frame can complete after it.        *)
OnlyNewestBuffered == DOMAIN frames \subseteq {max_seq}

(* A buffered frame is never complete (a complete one has been returned)    *)
(* and never over the byte cap (such a one has been discarded), its re-NACK *)
(* count stays within the limit, and the flags of the drop policy agree:    *)
(* whatever was NACKed was counted as dropped, and a frame that is not      *)
(* NACKed, fresh or revived, starts its grace rounds afresh.                *)
BufferCoherent ==
  \A s \in DOMAIN frames :
    LET f == frames[s]
    IN /\ ~IsComplete(f)
       /\ ~(f.total_bytes > MAX_FRAME_BYTES)
       /\ DOMAIN f.frags # {}
       /\ f.renacks <= MAX_GRACE_RENACKS
       /\ f.nacked => f.drop_counted
       /\ ~f.nacked => f.renacks = 0

(* What poll_frame keeps between two datagrams: the newest frame and its     *)
(* flags, in agreement.                                                     *)
BufferSound == OnlyNewestBuffered /\ BufferCoherent

(* A buffered frame that goes leaves a trace: this step returns it, or it    *)
(* is counted in frames_dropped, by this step or before it.                 *)
Traced(s) ==
  \/ frames_complete' > frames_complete /\ delivered'.frame_seq = s
  \/ frames[s].drop_counted
  \/ frames_dropped' > frames_dropped

(* One more payload takes the frame over the byte cap, and it goes by       *)
(* itself, not because a newer frame has begun.                             *)
GoesAsGarbage(s) ==
  /\ \E bytes \in PayloadSizes : frames[s].total_bytes + bytes > MAX_FRAME_BYTES
  /\ max_seq' = max_seq

(* Under any datagrams at all, garbage over the byte cap is the one kind of *)
(* frame that leaves the buffer without a trace (video.rs handle_datagram). *)
SilentOnlyOversized ==
  [][\A s \in DOMAIN frames \ DOMAIN frames' : Traced(s) \/ GoesAsGarbage(s)]_rxVars
==============================================================================
