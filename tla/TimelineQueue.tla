--------------------------- MODULE TimelineQueue ---------------------------
(***************************************************************************)
(* The queue between a producer that can break its timeline and the one    *)
(* consumer that may drop frames: a StereoRing and an epoch, used by       *)
(* CaptureStream with AudioEngine::renderMix and by OutputBus.             *)
(*                                                                         *)
(* StereoRing is the queue its own module proves it to be, so here it is   *)
(* two counts: frames of timelines that have ended (`old') in front of     *)
(* frames of the current one (`new').  The resampling ratio, frames of     *)
(* input for a frame of output, stays between two bounds: the quotient of  *)
(* the two sides' nominal rates times RateController's kMinRatio and       *)
(* kMaxRatio.  Both bounds are fractions of RatioUnit.                     *)
(***************************************************************************)
EXTENDS Integers

CONSTANTS
  Capacity,        \* frames in the ring
  History,         \* frames the interpolation needs around a position
  RatioLo, RatioHi, RatioUnit    \* bounds of the ratio

VARIABLES
  old, new,        \* the ring
  epoch,           \* timelineEpoch_, or the stream's epoch_
  primed           \* the resampler's kernel is filled

queueVars == <<old, new, epoch, primed>>

QueueInit == old = 0 /\ new = 0 /\ epoch = 0 /\ primed = FALSE

Least(a, b) == IF a < b THEN a ELSE b
Most(a, b) == IF a > b THEN a ELSE b

Depth == old + new

RatioKnown ==
  /\ RatioLo \in Nat /\ RatioHi \in Nat /\ RatioLo <= RatioHi
  /\ RatioUnit \in Nat \ {0}

(* Input for n frames of output: at most n * RatioHi, rounded up, since    *)
(* the read position is less than a frame and one ratio ahead; at least    *)
(* what n - 1 advances take from the position a kernel is left or filled   *)
(* with (starved, the position may be a frame ahead, whatever the ratio).  *)
MaxInput(n) == (n * RatioHi + RatioUnit - 1) \div RatioUnit
MinInput(n) ==
  LET ahead == IF primed THEN Least(RatioLo, RatioUnit) ELSE 0
  IN IF n = 0 THEN 0 ELSE (ahead + (n - 1) * RatioLo) \div RatioUnit
RequiredInput(n) == MaxInput(n) + History

NextTimeline ==
  /\ epoch' = epoch + 1 /\ old' = old + new /\ new' = 0

(* The oldest n frames go away.                                            *)
Consume(n) ==
  /\ old' = Most(0, old - n)
  /\ new' = new - Most(0, n - old)

(* DriftResampler::produce: r(made, taken) for a request of n frames, made *)
(* whole or cut short where the next frame finds the ring empty.           *)
Produced(n) ==
  LET kernel == IF primed THEN 0 ELSE History
      free == Depth - kernel
  IN IF free < 0
     THEN {[made |-> 0, taken |-> 0, primed |-> FALSE]}
     ELSE {[made |-> n, taken |-> kernel + c, primed |-> TRUE] :
             c \in {d \in MinInput(n) .. MaxInput(n) : d <= free}}
          \cup
          IF free < MaxInput(n)
          THEN {[made |-> m, taken |-> Depth, primed |-> TRUE] :
                  m \in {d \in 0 .. n - 1 :
                           MinInput(d) <= free /\ free < MaxInput(d + 1)}}
          ELSE {}
=============================================================================
