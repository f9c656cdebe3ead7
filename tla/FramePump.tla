------------------------------ MODULE FramePump ------------------------------
(***************************************************************************)
(* The initiator's frame pump: a frame source feeds the encode loop         *)
(* (tl-video/src/lib.rs run_initiator) through the latest-wins channel      *)
(* (tl-video/src/lib.rs mod chan), under the stop flag shared by all        *)
(* workers of the session.                                                  *)
(*                                                                          *)
(* The source is a paced thread (the test pattern on macOS, every source on *)
(* Linux), which closes the channel itself, or the callback of the macOS    *)
(* screen capturer, whose sender is dropped with the capturer.              *)
(*                                                                          *)
(* send() and recv_timeout() hold the slot's mutex; close(), is_closed()    *)
(* and the stop flag do not, so they interleave with every step.  Frames    *)
(* are numbered as they are sent, which is also the channel's generation.   *)
(***************************************************************************)
EXTENDS Naturals

CONSTANTS
  Kinds,        \* the frame sources considered: "paced", "callback"
  Limits,       \* values of --frames considered; NoLimit when it is absent
  NoLimit,
  FrameBound    \* bound: frames the source produces

ASSUME PumpConstants ==
  /\ Kinds \subseteq {"paced", "callback"}
  /\ NoLimit \notin Nat
  /\ Limits \subseteq Nat \cup {NoLimit}
  /\ FrameBound \in Nat

VARIABLES
  kind,          \* chosen at the start
  limit,
  stop,          \* the session's stop flag
  src_pc,        \* "testing", "producing", "closing", "closed"
  gen,           \* frames sent: the channel's generation counter
  slot,          \* the pending frame, 0 for none
  closed,
  loop_pc,       \* encode loop: "testing", "receiving", "encoding", "none",
                 \* "done", "failed", "ended"
  rx_pc,         \* inside recv_timeout: "out", "head", "closure", "deadline",
                 \* "waiting"
  seen,          \* generation received last
  expired,       \* the deadline of this recv_timeout has passed
  result,        \* what recv_timeout returned last: "frame", "timeout", "closed"
  frame,         \* the frame being encoded
  frames_sent    \* frames encoded

chanVars == <<gen, slot, closed>>
rxVars == <<rx_pc, seen, expired, result, frame>>
vars == <<kind, limit, stop, src_pc, chanVars, loop_pc, rxVars, frames_sent>>

Init ==
  /\ kind \in Kinds
  /\ limit \in Limits
  /\ stop = FALSE
  /\ src_pc = IF kind = "paced" THEN "testing" ELSE "producing"
  /\ gen = 0 /\ slot = 0 /\ closed = FALSE
  /\ loop_pc = "testing"
  /\ rx_pc = "out" /\ seen = 0 /\ expired = FALSE /\ result = "timeout"
  /\ frame = 0
  /\ frames_sent = 0

SlotLockedBriefly == rx_pc = "head"   \* faulty variant
SlotLocked == rx_pc \in {"head", "closure", "deadline"}

Reached(count) == limit # NoLimit /\ count >= limit

-----------------------------------------------------------------------------
(* The paced source: test the stop flag and the limit, ...                  *)
SourceTests ==
  /\ src_pc = "testing"
  /\ src_pc' = IF stop \/ Reached(gen) THEN "closing" ELSE "producing"
  /\ UNCHANGED <<kind, limit, stop, chanVars, loop_pc, rxVars, frames_sent>>

(* ... produce a frame and send it, ...                                     *)
KeepPending == IF slot = 0 THEN gen + 1 ELSE slot
Unbumped == gen   \* faulty variant
NextGen == gen + 1
Published == gen + 1

Send ==
  /\ src_pc = "producing"
  /\ ~SlotLocked
  /\ gen < FrameBound
  /\ gen' = NextGen
  /\ slot' = Published
  /\ src_pc' = IF kind = "paced" THEN "testing" ELSE "producing"
  /\ UNCHANGED <<kind, limit, stop, closed, loop_pc, rxVars, frames_sent>>

(* ... or fail to.                                                          *)
SourceFails ==
  /\ kind = "paced"
  /\ src_pc = "producing"
  /\ src_pc' = "closing"
  /\ UNCHANGED <<kind, limit, stop, chanVars, loop_pc, rxVars, frames_sent>>

(* frame_tx.close(); the drop of the only sender closes once more.          *)
Close ==
  /\ src_pc = "closing"
  /\ src_pc' = "closed"
  /\ closed' = TRUE
  /\ UNCHANGED <<kind, limit, stop, gen, slot, loop_pc, rxVars, frames_sent>>

(* The capturer, and with it the callback's sender, is dropped when         *)
(* run_initiator of the engine returns or is torn down.                     *)
DropCapturer ==
  /\ kind = "callback"
  /\ src_pc = "producing"
  /\ loop_pc \in {"ended", "failed"}
  /\ src_pc' = "closing"
  /\ UNCHANGED <<kind, limit, stop, chanVars, loop_pc, rxVars, frames_sent>>

-----------------------------------------------------------------------------
(* run_initiator: while !stop, call recv_timeout.                           *)
LoopTests ==
  /\ loop_pc = "testing"
  /\ IF stop
     THEN /\ loop_pc' = "done"
          /\ UNCHANGED rxVars
     ELSE /\ loop_pc' = "receiving"
          /\ rx_pc' = "head"
          /\ expired' = FALSE
          /\ UNCHANGED <<seen, result, frame>>
  /\ UNCHANGED <<kind, limit, stop, src_pc, chanVars, frames_sent>>

Return(r, next) ==
  /\ rx_pc' = "out"
  /\ result' = r
  /\ loop_pc' = next

(* The loop of recv_timeout: a pending frame that is newer, ...             *)
HasNewer == gen # seen /\ slot # 0

LookForFrame ==
  /\ rx_pc = "head"
  /\ IF HasNewer
     THEN /\ Return("frame", "encoding")
          /\ seen' = gen
          /\ frame' = slot
          /\ slot' = 0
     ELSE /\ rx_pc' = "closure"
          /\ UNCHANGED <<slot, loop_pc, seen, result, frame>>
  /\ UNCHANGED <<kind, limit, stop, src_pc, gen, closed, expired, frames_sent>>

(* ... closure, ...                                                         *)
LookForClosure ==
  /\ rx_pc = "closure"
  /\ IF closed
     THEN Return("closed", "none")
     ELSE rx_pc' = "deadline" /\ UNCHANGED <<result, loop_pc>>
  /\ UNCHANGED <<kind, limit, stop, src_pc, chanVars, seen, expired, frame, frames_sent>>

(* ... the deadline, or wait on the condition variable.                     *)
LookAtDeadline ==
  /\ rx_pc = "deadline"
  /\ IF expired
     THEN Return("timeout", "none")
     ELSE rx_pc' = "waiting" /\ UNCHANGED <<result, loop_pc>>
  /\ UNCHANGED <<kind, limit, stop, src_pc, chanVars, seen, expired, frame, frames_sent>>

(* A notification, the timeout or a spurious wakeup: the lock is retaken.   *)
WakeUp ==
  /\ rx_pc = "waiting"
  /\ rx_pc' = "head"
  /\ UNCHANGED <<kind, limit, stop, src_pc, chanVars, loop_pc, seen, expired,
                 result, frame, frames_sent>>

DeadlinePasses ==
  /\ rx_pc # "out"
  /\ ~expired
  /\ expired' = TRUE
  /\ UNCHANGED <<kind, limit, stop, src_pc, chanVars, loop_pc, rx_pc, seen,
                 result, frame, frames_sent>>

(* recv_timeout returned None: is_closed() ends the loop.                   *)
NeverDone == "testing"   \* faulty variant
AfterNone == IF closed THEN "done" ELSE "testing"

LoopEndsIfClosed ==
  /\ loop_pc = "none"
  /\ loop_pc' = AfterNone
  /\ UNCHANGED <<kind, limit, stop, src_pc, chanVars, rxVars, frames_sent>>

(* The engine's encode closure: at the limit it raises the stop flag, and   *)
(* then encodes the frame all the same.                                     *)
Encode ==
  /\ loop_pc = "encoding"
  /\ stop' = (stop \/ Reached(frames_sent))
  /\ frames_sent' = frames_sent + 1
  /\ loop_pc' = "testing"
  /\ UNCHANGED <<kind, limit, src_pc, chanVars, rxVars>>

(* An error of the encoder or the socket leaves run_initiator by `?`, with  *)
(* the stop flag as it was.                                                 *)
EncodeFails ==
  /\ loop_pc = "encoding"
  /\ loop_pc' = "failed"
  /\ stop' = (stop \/ Reached(frames_sent))
  /\ UNCHANGED <<kind, limit, src_pc, chanVars, rxVars, frames_sent>>

Teardown ==
  /\ loop_pc = "done"
  /\ loop_pc' = "ended"
  /\ stop' = TRUE
  /\ UNCHANGED <<kind, limit, src_pc, chanVars, rxVars, frames_sent>>

(* The control worker or the user ends the session, or the embedder answers *)
(* a role that returned with an error by cancelling it.                     *)
StopRequested ==
  /\ ~stop
  /\ stop' = TRUE
  /\ UNCHANGED <<kind, limit, src_pc, chanVars, loop_pc, rxVars, frames_sent>>

-----------------------------------------------------------------------------
Source == SourceTests \/ Send \/ SourceFails \/ Close \/ DropCapturer

Receive == LookForFrame \/ LookForClosure \/ LookAtDeadline \/ WakeUp

EncodeLoop ==
  LoopTests \/ Receive \/ LoopEndsIfClosed \/ Encode \/ EncodeFails \/ Teardown

Next == Source \/ EncodeLoop \/ DeadlinePasses \/ StopRequested

Spec == Init /\ [][Next]_vars

(* Threads keep running and deadlines pass; a paced source that is out of   *)
(* frames, at the bound, fails.  Nothing obliges the screen to change, nor  *)
(* anyone to stop the session.                                              *)
Fairness ==
  /\ WF_vars(\/ SourceTests
             \/ kind = "paced" /\ Send
             \/ gen = FrameBound /\ SourceFails)
  /\ WF_vars(Close \/ DropCapturer)
  /\ WF_vars(EncodeLoop)
  /\ WF_vars(DeadlinePasses)

FairSpec == Spec /\ Fairness

-----------------------------------------------------------------------------
TypeOK ==
  /\ kind \in {"paced", "callback"}
  /\ limit \in Nat \cup {NoLimit}
  /\ stop \in BOOLEAN
  /\ src_pc \in {"testing", "producing", "closing", "closed"}
  /\ gen \in Nat
  /\ slot \in 0 .. gen
  /\ closed \in BOOLEAN
  /\ loop_pc \in {"testing", "receiving", "encoding", "none", "done", "failed", "ended"}
  /\ rx_pc \in {"out", "head", "closure", "deadline", "waiting"}
  /\ seen \in 0 .. gen
  /\ expired \in BOOLEAN
  /\ result \in {"frame", "timeout", "closed"}
  /\ frame \in 0 .. gen
  /\ frames_sent \in Nat

(* recv_timeout reports closure only once the channel is drained: closed is *)
(* read under the lock under which the slot was found empty, so no last     *)
(* frame can slip in between (chan recv_timeout).                           *)
ClosureIsFinal ==
  result = "closed" /\ loop_pc = "none" => slot = 0 /\ src_pc = "closed"

(* Latest wins: the frame handed to the encoder is the newest one sent, and *)
(* newer than every frame encoded before, so none is encoded twice.         *)
NewestOnce ==
  [][result' = "frame" /\ rx_pc # "out" /\ rx_pc' = "out" =>
       frame' = gen /\ frame' > frame]_vars

(* A pending frame is taken, or the loop is over: neither a wakeup lost     *)
(* between the look at the slot and the wait nor a close() that holds no    *)
(* lock strands it for longer than a timeout.                               *)
PendingIsTaken ==
  slot # 0 ~> (slot = 0 \/ loop_pc \in {"ended", "failed"})

(* Whoever raises the stop flag, and if the source closes instead of that,  *)
(* the encode loop ends, and so does the source.                            *)
PumpStops ==
  (stop \/ closed) ~> (loop_pc \in {"ended", "failed"} /\ src_pc = "closed")

=============================================================================
