------------------------------ MODULE AudioRing ------------------------------
(***************************************************************************)
(* The sample ring between two audio threads (tl-macos-audio/src/ring.rs    *)
(* SpscRing).  For playback Output::write pushes and the device's render    *)
(* callback pops; for capture the HAL's IO thread pushes and next_pcm pops. *)
(*                                                                          *)
(* The threads share two counters and the slots and take no lock, so every  *)
(* load, store and copied sample is a step of its own.  A full ring makes   *)
(* the producer advance the consumer's counter.  The counters are usize; a  *)
(* difference below zero wraps to a number larger than any other here, as   *)
(* it does in a release build.                                              *)
(***************************************************************************)
EXTENDS Integers, Sequences

CONSTANTS
  Capacity,     \* slots of the ring
  Silence,      \* what a slot holds before the first write
  OverlapBound, \* bound: pushes begun while one pop runs.  A pop is a few
                \* microseconds of a realtime thread, a push comes every 10 ms
  RunAhead      \* bound: how far past tail a pop may start.  Once a race has put
                \* head there, every pop moves it further

ASSUME RingConstants ==
  /\ Capacity \in Nat \ {0}
  /\ OverlapBound \in Nat /\ RunAhead \in Nat

VARIABLES
  data,      \* the slots
  head,      \* samples ever consumed or stolen
  tail,      \* samples ever pushed
  dropped,   \* samples stolen
  w_pc,      \* push: "idle", "stealing", "copying"
  w_chunk,   \* the samples it writes
  w_head,    \* the head it loaded
  w_done,    \* samples copied in
  r_pc,      \* pop: "idle", "loading", "copying"
  r_want,    \* samples asked for
  r_tail,    \* the tail it loaded
  r_head,    \* the head it loaded
  r_avail,   \* samples it takes
  got,       \* samples copied out
  overlaps,  \* pushes begun during this pop
  raced      \* history: a steal has overlapped a pop

pushVars == <<w_pc, w_chunk, w_head, w_done>>
popVars == <<r_pc, r_want, r_tail, r_head, r_avail, got>>
ringVars == <<data, head, tail, dropped, pushVars, popVars, overlaps, raced>>

RingInit ==
  /\ data = [s \in 0 .. Capacity - 1 |-> Silence]
  /\ head = 0 /\ tail = 0 /\ dropped = 0
  /\ w_pc = "idle" /\ w_chunk = <<>> /\ w_head = 0 /\ w_done = 0
  /\ r_pc = "idle" /\ r_want = 0 /\ r_tail = 0 /\ r_head = 0 /\ r_avail = 0
  /\ got = <<>>
  /\ overlaps = 0 /\ raced = FALSE

-----------------------------------------------------------------------------
(* push: keep the newest samples of an oversized chunk and load head.       *)
Newest(chunk) == SubSeq(chunk, Len(chunk) - Capacity + 1, Len(chunk))

PushBegin(chunk) ==
  /\ w_pc = "idle"
  /\ Len(chunk) > 0
  /\ r_pc # "idle" => overlaps < OverlapBound
  /\ overlaps' = IF r_pc # "idle" THEN overlaps + 1 ELSE overlaps
  /\ w_chunk' = IF Len(chunk) > Capacity THEN Newest(chunk) ELSE chunk
  /\ w_head' = head
  /\ w_done' = 0
  /\ w_pc' = "stealing"
  /\ UNCHANGED <<data, head, tail, dropped, popVars, raced>>

(* free = cap - (tail - head); when the distance exceeds cap it wraps to a  *)
(* huge number and nothing is stolen.                                       *)
Free == Capacity - (tail - w_head)
ToSteal == IF Free >= 0 /\ Len(w_chunk) > Free THEN Len(w_chunk) - Free ELSE 0
StealsOneTooFew == IF ToSteal > 0 THEN ToSteal - 1 ELSE 0 \* faulty variant

Stolen == ToSteal

Steal ==
  /\ w_pc = "stealing"
  /\ head' = head + Stolen
  /\ dropped' = dropped + Stolen
  /\ w_pc' = "copying"
  /\ raced' = (raced \/ (Stolen > 0 /\ (r_pc # "idle" \/ head # w_head)))
  /\ UNCHANGED <<data, tail, w_chunk, w_head, w_done, popVars, overlaps>>

Slot(position) == position % Capacity

CopyIn ==
  /\ w_pc = "copying"
  /\ w_done < Len(w_chunk)
  /\ data' = [data EXCEPT ![Slot(tail + w_done)] = w_chunk[w_done + 1]]
  /\ w_done' = w_done + 1
  /\ UNCHANGED <<head, tail, dropped, w_pc, w_chunk, w_head, popVars, overlaps, raced>>

Copied == w_done = Len(w_chunk)

Publish ==
  /\ w_pc = "copying"
  /\ Copied
  /\ tail' = tail + Len(w_chunk)
  /\ w_pc' = "idle" /\ w_chunk' = <<>> /\ w_head' = 0 /\ w_done' = 0
  /\ UNCHANGED <<data, head, dropped, popVars, overlaps, raced>>

-----------------------------------------------------------------------------
(* pop: load tail, ...                                                      *)
PopBegin(want) ==
  /\ r_pc = "idle"
  /\ head - tail <= RunAhead
  /\ r_want' = want
  /\ r_tail' = tail
  /\ got' = <<>>
  /\ r_pc' = "loading"
  /\ overlaps' = 0
  /\ UNCHANGED <<data, head, tail, dropped, pushVars, r_head, r_avail, raced>>

PopReturns ==
  /\ r_pc' = "idle"
  /\ r_want' = 0 /\ r_tail' = 0 /\ r_head' = 0 /\ r_avail' = 0
  /\ got' = <<>>
  /\ overlaps' = 0

(* ... load head; min(tail - head, dst.len()) samples are there ...         *)
Readable == IF r_tail < head \/ r_tail - head > r_want THEN r_want ELSE r_tail - head

PopLoadHead ==
  /\ r_pc = "loading"
  /\ IF Readable = 0
     THEN PopReturns
     ELSE /\ r_head' = head
          /\ r_avail' = Readable
          /\ r_pc' = "copying"
          /\ UNCHANGED <<r_want, r_tail, got, overlaps>>
  /\ UNCHANGED <<data, head, tail, dropped, pushVars, raced>>

CopyOut ==
  /\ r_pc = "copying"
  /\ Len(got) < r_avail
  /\ got' = Append(got, data[Slot(r_head + Len(got))])
  /\ UNCHANGED <<data, head, tail, dropped, pushVars, r_pc, r_want, r_tail, r_head, r_avail, overlaps, raced>>

(* ... and store the new head over whatever the producer made of it.        *)
Consume ==
  /\ r_pc = "copying"
  /\ Len(got) = r_avail
  /\ head' = r_head + r_avail
  /\ PopReturns
  /\ UNCHANGED <<data, tail, dropped, pushVars, raced>>

PushStep == Steal \/ CopyIn \/ Publish
PopStep == PopLoadHead \/ CopyOut \/ Consume

-----------------------------------------------------------------------------
=============================================================================
