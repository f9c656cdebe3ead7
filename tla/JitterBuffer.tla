----------------------------- MODULE JitterBuffer -----------------------------
(***************************************************************************)
(* The audio receiver's jitter buffer (tl-audio/src/jitter.rs): it reorders *)
(* packets by sequence number, conceals gaps one 10 ms frame at a time and  *)
(* skips ahead after sustained loss.  One thread pushes and pops.           *)
(*                                                                          *)
(* Packets are numbered by sending, from 0; a packet carries its number     *)
(* modulo SeqSpace (2^32 in the code).  The code sees that alone.           *)
(***************************************************************************)
EXTENDS Integers, FiniteSets

CONSTANTS
  SeqSpace,                \* sequence numbers: 2^32 in the code
  DepthFrames,             \* packets held before the first is played: 4
  MAX_CONSECUTIVE_CONCEALS,
  None                     \* Option::None

ASSUME JitterConstants ==
  /\ SeqSpace \in Nat /\ SeqSpace > 1 /\ SeqSpace % 2 = 0
  /\ DepthFrames \in Nat \ {0}
  /\ MAX_CONSECUTIVE_CONCEALS \in Nat
  /\ None \notin Int

VARIABLES
  slots,      \* buffered packets by sequence number: seq -> packet
  started,
  anchor,     \* sequence number of the first packet ever, or None
  next_seq,   \* next to deliver, or None
  consecutive_conceals,
  stats       \* [played, concealed, dropped_late, dropped_gap]

jbVars == <<slots, started, anchor, next_seq, consecutive_conceals, stats>>

JitterInit ==
  /\ slots = <<>>
  /\ started = FALSE /\ anchor = None /\ next_seq = None
  /\ consecutive_conceals = 0
  /\ stats = [played |-> 0, concealed |-> 0, dropped_late |-> 0, dropped_gap |-> 0]

SeqOf(packet) == packet % SeqSpace
WrappingSub(a, b) == (a - b) % SeqSpace
SeqOlder(a, b) == WrappingSub(a, b) > SeqSpace \div 2

(* (s - anchor) as i32                                                      *)
SignedDistance(s, from) ==
  LET d == WrappingSub(s, from) IN IF d >= SeqSpace \div 2 THEN d - SeqSpace ELSE d

LowestSeq(seqs, from) ==
  CHOOSE s \in seqs : \A t \in seqs : SignedDistance(s, from) <= SignedDistance(t, from)
HighestSeq(seqs, from) ==   \* faulty variant
  CHOOSE s \in seqs : \A t \in seqs : SignedDistance(s, from) >= SignedDistance(t, from)

SkipTarget(seqs, from) == LowestSeq(seqs, from)
FirstToPlay(seqs, from) == LowestSeq(seqs, from)

OnlyTheLastIsLate(seq) == next_seq # None /\ seq = WrappingSub(next_seq, 1)  \* faulty variant

IsLate(seq) ==
  /\ next_seq # None
  /\ LET newest_played == WrappingSub(next_seq, 1)
     IN seq = newest_played \/ SeqOlder(seq, newest_played)

JitterPush(packet) ==
  LET seq == SeqOf(packet)
      from == IF anchor = None THEN seq ELSE anchor
      held == [s \in DOMAIN slots \cup {seq} |-> IF s = seq THEN packet ELSE slots[s]]
      starts == ~started /\ Cardinality(DOMAIN held) >= DepthFrames
  IN
  /\ anchor' = from
  /\ IF IsLate(seq)
     THEN /\ stats' = [stats EXCEPT !.dropped_late = @ + 1]
          /\ UNCHANGED <<slots, started, next_seq>>
     ELSE /\ slots' = held
          /\ started' = (started \/ starts)
          /\ next_seq' = IF starts THEN FirstToPlay(DOMAIN held, from) ELSE next_seq
          /\ UNCHANGED stats
  /\ UNCHANGED consecutive_conceals

Without(seq) == [s \in DOMAIN slots \ {seq} |-> slots[s]]

-----------------------------------------------------------------------------
(* pop, one 10 ms tick.  Pre-buffering: nothing yet, ...                    *)
PopBelowDepth ==
  /\ next_seq = None
  /\ UNCHANGED jbVars

(* ... the expected packet, ...                                             *)
PopPlays ==
  /\ next_seq # None /\ next_seq \in DOMAIN slots
  /\ slots' = Without(next_seq)
  /\ next_seq' = WrappingSub(next_seq + 1, 0)
  /\ stats' = [stats EXCEPT !.played = @ + 1]
  /\ consecutive_conceals' = 0
  /\ UNCHANGED <<started, anchor>>

Missing == next_seq # None /\ next_seq \notin DOMAIN slots
Exhausted == consecutive_conceals >= MAX_CONSECUTIVE_CONCEALS

(* ... one frame of concealment, ...                                        *)
PopConceals ==
  /\ Missing
  /\ ~Exhausted
  /\ consecutive_conceals' = consecutive_conceals + 1
  /\ stats' = [stats EXCEPT !.concealed = @ + 1]
  /\ next_seq' = WrappingSub(next_seq + 1, 0)
  /\ UNCHANGED <<slots, started, anchor>>

(* ... after too much of it the oldest packet buffered, ...                 *)
Target == SkipTarget(DOMAIN slots, anchor)

RefilledToDepth == Cardinality(DOMAIN slots) >= DepthFrames   \* faulty variant
CanSkip == slots # <<>>
SkippedSeqs == WrappingSub(Target, next_seq)

PopSkipsAhead ==
  /\ Missing
  /\ Exhausted
  /\ CanSkip
  /\ slots' = Without(Target)
  /\ next_seq' = WrappingSub(Target + 1, 0)
  /\ stats' = [stats EXCEPT !.dropped_gap = @ + SkippedSeqs, !.played = @ + 1]
  /\ consecutive_conceals' = 0
  /\ UNCHANGED <<started, anchor>>

(* ... or nothing: drained dry.                                             *)
PopDry ==
  /\ Missing
  /\ Exhausted
  /\ ~CanSkip
  /\ UNCHANGED jbVars

=============================================================================
