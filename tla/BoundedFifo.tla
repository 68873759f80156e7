---------------------------- MODULE BoundedFifo ----------------------------
(***************************************************************************)
(* What a StereoRing promises its two threads: a bounded queue of frames.  *)
(* Frames are numbered in the order they are produced.  The producer adds  *)
(* a run of new frames that fits, never waiting; the consumer takes the    *)
(* oldest frames away and has the values of those it read.                 *)
(***************************************************************************)
EXTENDS Integers, Sequences

CONSTANT Capacity     \* a positive number of frames

VARIABLES
  queue,    \* the frames published and not yet removed, oldest first
  sent,     \* frames published so far
  taken     \* the frames the consumer's last removal had read

fifoVars == <<queue, sent, taken>>

Init == queue = <<>> /\ sent = 0 /\ taken = <<>>

(* `n' new frames become visible at once.                                  *)
Put(n) ==
  /\ Len(queue) + n <= Capacity
  /\ queue' = queue \o [i \in 1 .. n |-> sent + i]
  /\ sent' = sent + n
  /\ UNCHANGED taken

(* The `n' oldest frames go away at once; `m' of them had been read.       *)
Remove(n, m) ==
  /\ n <= Len(queue)
  /\ taken' = SubSeq(queue, 1, m)
  /\ queue' = SubSeq(queue, n + 1, Len(queue))
  /\ UNCHANGED sent

Next ==
  \/ \E n \in 0 .. Capacity : Put(n)
  \/ \E n \in 0 .. Capacity : \E m \in 0 .. n : Remove(n, m)

Spec == Init /\ [][Next]_fifoVars
=============================================================================
