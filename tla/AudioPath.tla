------------------------------ MODULE AudioPath ------------------------------
(***************************************************************************)
(* System audio from the initiator's feeder to the target's loudspeaker:    *)
(* the feeder numbers and sends one packet every 10 ms                      *)
(* (thunderlink-engine/src/audio.rs, imp.rs audio_tap_feeder), the network   *)
(* loses, reorders or repeats them, the sink thread (audio.rs               *)
(* run_audio_sink) pushes them into the jitter buffer, pops one frame per    *)
(* tick, decodes it and writes it to the ring, and the device's render      *)
(* callback takes what it wants from the ring.                              *)
(*                                                                          *)
(* A decoded frame is ChunkLen samples, numbered as they are written; only  *)
(* the sink thread touches the jitter buffer, so a datagram may be pushed   *)
(* at any moment that thread is not writing.                                *)
(***************************************************************************)
EXTENDS AudioRing, JitterBuffer

CONSTANTS
  FirstSent,    \* number of the next packet once the sink listens
  MaxSent,      \* bound: packets are numbered below it
  FaultBound,   \* bound: datagrams delivered again and frames not decoded
  ChunkLen,     \* samples in a frame: 960
  Wants         \* samples a render callback may ask for

(* The comments on seq_older and lowest_seq: all numbers in play lie within *)
(* half of the number space.  A frame fits the ring: RING_SAMPLES is 2^15.   *)
ASSUME PathConstants ==
  /\ FirstSent \in Nat /\ MaxSent \in Nat
  /\ MaxSent + MAX_CONSECUTIVE_CONCEALS - FirstSent < SeqSpace \div 2
  /\ FaultBound \in Nat
  /\ ChunkLen \in 1 .. Capacity
  /\ Wants \subseteq Nat \ {0}

VARIABLES
  sent,         \* next packet's number
  net,          \* packets in flight; a lost one stays for ever
  sink,         \* the sink thread: "running", "ended"
  faults,       \* repeated datagrams and decoder errors so far
  written,      \* samples written to the ring
  first,        \* history: number of the first packet due
  due,          \* history: number of the packet due next
  last_played   \* history: number of the packet played last

pathVars == <<sent, net, sink, faults, written, first, due, last_played>>
vars == <<ringVars, jbVars, pathVars>>

Init ==
  /\ RingInit
  /\ JitterInit
  /\ sent = FirstSent
  /\ net = {}
  /\ sink = "running"
  /\ faults = 0
  /\ written = 0
  /\ first = None /\ due = None /\ last_played = None

-----------------------------------------------------------------------------
(* The feeder.  The number advances whether or not a datagram goes out: DTX *)
(* leaves a packet empty, encoding or sending may fail.                     *)
FeederTick ==
  /\ sent < MaxSent
  /\ sent' = sent + 1
  /\ net' = net \/ (sink = "running" /\ net' = net \cup {sent})
  /\ UNCHANGED <<ringVars, jbVars, sink, faults, written, first, due, last_played>>

Fault ==
  /\ faults < FaultBound
  /\ faults' = faults + 1

(* The sink thread: rx.poll hands a datagram to jb.push, ...                *)
Deliver(packet) ==
  /\ sink = "running" /\ w_pc = "idle"
  /\ JitterPush(packet)
  /\ \/ net' = net \ {packet} /\ UNCHANGED faults
     \/ net' = net /\ Fault
  /\ IF started' /\ ~started
     THEN first' = slots'[next_seq'] /\ due' = first'
     ELSE UNCHANGED <<first, due>>
  /\ UNCHANGED <<ringVars, sent, sink, written, last_played>>

(* ... jb.pop yields one frame or none; a frame that decodes is written, a   *)
(* decoder error leaves an empty chunk, which write ignores.                *)
Chunk == [i \in 1 .. ChunkLen |-> written + i]

WriteFrame ==
  \/ /\ PushBegin(Chunk)
     /\ written' = written + ChunkLen
     /\ UNCHANGED faults
  \/ /\ w_pc = "idle"
     /\ Fault
     /\ UNCHANGED <<ringVars, written>>

SinkPlays ==
  /\ sink = "running"
  /\ \/ PopPlays /\ last_played' = slots[next_seq]
     \/ PopSkipsAhead /\ last_played' = slots[Target]
  /\ due' = last_played' + 1
  /\ WriteFrame
  /\ UNCHANGED <<sent, net, sink, first>>

SinkConceals ==
  /\ sink = "running"
  /\ PopConceals
  /\ due' = due + 1
  /\ WriteFrame
  /\ UNCHANGED <<sent, net, sink, first, last_played>>

SinkWaits ==
  /\ sink = "running" /\ w_pc = "idle"
  /\ PopBelowDepth \/ PopDry
  /\ UNCHANGED <<ringVars, pathVars>>

(* The stop flag, or an error of the socket: the Output, whose drop waits   *)
(* for the callback, and the socket go; what the feeder still sends is lost. *)
SinkEnds ==
  /\ sink = "running" /\ w_pc = "idle" /\ r_pc = "idle"
  /\ sink' = "ended"
  /\ net' = {}
  /\ UNCHANGED <<ringVars, jbVars, sent, faults, written, first, due, last_played>>

(* The device.                                                              *)
RenderCallback ==
  /\ sink = "running"
  /\ \E want \in Wants : PopBegin(want)
  /\ UNCHANGED <<jbVars, pathVars>>

PushProceeds ==
  /\ PushStep
  /\ UNCHANGED <<jbVars, pathVars>>

PopProceeds ==
  /\ PopStep
  /\ UNCHANGED <<jbVars, pathVars>>

SinkTick == SinkPlays \/ SinkConceals

Next ==
  \/ FeederTick
  \/ \E packet \in net : Deliver(packet)
  \/ SinkTick \/ SinkWaits \/ SinkEnds
  \/ RenderCallback
  \/ PushProceeds \/ PopProceeds

(* Both threads run: the sink ticks every 10 ms, a push or a pop once begun *)
(* goes on.                                                                 *)
Spec ==
  /\ Init /\ [][Next]_vars
  /\ WF_vars(SinkTick) /\ WF_vars(PushProceeds) /\ WF_vars(PopProceeds)

-----------------------------------------------------------------------------
(* PROPERTIES                                                               *)

(* While no steal has overlapped a pop, the ring is a FIFO that forgets its *)
(* oldest samples: what lies between head and tail, and what a callback has *)
(* copied out, are the samples of those positions (ring.rs push, pop).      *)
FifoUnlessRaced ==
  ~raced =>
    /\ head <= tail /\ tail - head <= Capacity
    /\ \A position \in head .. tail - 1 : data[Slot(position)] = position + 1
    /\ r_pc = "copying" => \A i \in 1 .. Len(got) : got[i] = r_head + i

(* Packets are played in the order they were sent, none twice, whatever the *)
(* network does (jitter.rs push, pop).                                      *)
PlaysForward ==
  [][last_played' # last_played /\ None \notin {last_played, last_played'}
       => last_played' > last_played]_vars

(* What pop keeps agrees with what it did: next_seq is the packet due next; *)
(* nothing buffered lies behind it, where pop would never look (its comment *)
(* "every remaining slot is newer"); every packet since the first one due   *)
(* was played, concealed or skipped, and is counted once.                   *)
NothingStranded ==
  started =>
    /\ next_seq = SeqOf(due)
    /\ \A seq \in DOMAIN slots : slots[seq] >= due
    /\ stats.played + stats.concealed + stats.dropped_gap = due - first

(* Once playing, a packet in the buffer is played unless the sink ends.     *)
BufferedIsPlayed ==
  \A packet \in FirstSent .. MaxSent - 1 :
    (started /\ packet \in {slots[seq] : seq \in DOMAIN slots})
      ~> (last_played = packet \/ sink = "ended")
=============================================================================
