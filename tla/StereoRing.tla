----------------------------- MODULE StereoRing -----------------------------
(***************************************************************************)
(* The lock-free ring between one producer and one consumer thread         *)
(* (StereoRing): capture worker to mix pump, mix pump to render callback,  *)
(* mix pump to the window's visualiser.                                    *)
(*                                                                         *)
(* Both cursors run freely and wrap at CursorSize; a slot is a cursor      *)
(* modulo Capacity.  Each atomic access and each access to a slot is a     *)
(* step, so the two threads interleave inside their batches.  Frames are   *)
(* numbered as they are produced: `sent' and `removed' are the history the *)
(* cursors are the remainders of, and nothing in the code reads them.      *)
(***************************************************************************)
EXTENDS Integers, Sequences

CONSTANTS
  Capacity,     \* capacity_, a power of two (init rounds up)
  CursorSize,   \* 2^32: cursors are uint32_t
  MaxFrames     \* bound: frames produced in all

ASSUME RingAssumption ==
  /\ Capacity \in Nat \ {0}
  /\ CursorSize \in Nat /\ CursorSize > Capacity
  /\ CursorSize % Capacity = 0
  /\ MaxFrames \in Nat

VARIABLES
  data,                      \* slot -> number of the frame it holds
  write, read,               \* write_ and read_
  pPc, pSpace, pCount,       \* producer: its headroom, frames written
  cPc, cAvail, cBuf,         \* consumer: frames available, frames read
  sent, removed, taken       \* history

prodVars == <<pPc, pSpace, pCount>>
consVars == <<cPc, cAvail, cBuf>>
ringVars == <<data, write, read, prodVars, consVars, sent, removed, taken>>

Slots == 0 .. Capacity - 1
Cursors == 0 .. CursorSize - 1
Frames == 0 .. MaxFrames

Wrap(n) == n % CursorSize
Slot(c, i) == (c + i) % Capacity                  \* (c + i) & mask_

Distance(w, r) == Wrap(w + CursorSize - r)        \* w - r in uint32_t

RoomForOneMore == Capacity + 1 - Distance(write, read)     \* mutant
Headroom == Capacity - Distance(write, read)

RingInit ==
  /\ data = [s \in Slots |-> 0]
  /\ write = 0 /\ read = 0
  /\ pPc = "idle" /\ pSpace = 0 /\ pCount = 0
  /\ cPc = "idle" /\ cAvail = 0 /\ cBuf = <<>>
  /\ sent = 0 /\ removed = 0 /\ taken = <<>>

-----------------------------------------------------------------------------
(* Producer.                                                               *)

BeginWrite ==
  /\ pPc = "idle"
  /\ pPc' = "writing" /\ pSpace' = Headroom /\ pCount' = 0
  /\ UNCHANGED <<data, write, read, consVars, sent, removed, taken>>

(* The caller writes no more frames than the headroom it was given.        *)
WriteFrame ==
  /\ pPc = "writing" /\ pCount < pSpace
  /\ sent + pCount < MaxFrames
  /\ data' = [data EXCEPT ![Slot(write, pCount)] = sent + pCount + 1]
  /\ pCount' = pCount + 1
  /\ UNCHANGED <<write, read, pPc, pSpace, consVars, sent, removed, taken>>

Published == pCount

EndWrite ==
  /\ pPc = "writing"
  /\ write' = Wrap(write + Published)
  /\ sent' = sent + Published
  /\ pPc' = "idle" /\ pSpace' = 0 /\ pCount' = 0
  /\ UNCHANGED <<data, read, consVars, removed, taken>>

-----------------------------------------------------------------------------
(* Consumer.                                                               *)

BeginRead ==
  /\ cPc = "idle"
  /\ cPc' = "reading" /\ cAvail' = Distance(write, read) /\ cBuf' = <<>>
  /\ UNCHANGED <<data, write, read, prodVars, sent, removed, taken>>

ReadFrame ==
  /\ cPc = "reading" /\ Len(cBuf) < cAvail
  /\ cBuf' = Append(cBuf, data[Slot(read, Len(cBuf))])
  /\ UNCHANGED <<data, write, read, prodVars, cPc, cAvail, sent, removed,
                 taken>>

(* Consume what was read (the resampler), or part of it, or trim frames    *)
(* without reading them (resetConsumer, handleMixPumpDiscontinuity).       *)
EndRead(n) ==
  /\ cPc = "reading" /\ n <= cAvail
  /\ n <= Len(cBuf) \/ cBuf = <<>>
  /\ read' = Wrap(read + n)
  /\ removed' = removed + n
  /\ taken' = IF cBuf = <<>> THEN <<>> ELSE SubSeq(cBuf, 1, n)
  /\ cPc' = "idle" /\ cAvail' = 0 /\ cBuf' = <<>>
  /\ UNCHANGED <<data, write, prodVars, sent>>

(* dropAllFromConsumer: load write_, then store it to read_.  Frames       *)
(* published in between stay in the ring.                                  *)
DropLoad ==
  /\ cPc = "idle"
  /\ cPc' = "dropping" /\ cAvail' = Distance(write, read) /\ cBuf' = <<>>
  /\ UNCHANGED <<data, write, read, prodVars, sent, removed, taken>>

DropStore ==
  /\ cPc = "dropping"
  /\ read' = Wrap(read + cAvail)      \* the value of write_ that was loaded
  /\ removed' = removed + cAvail
  /\ taken' = <<>>
  /\ cPc' = "idle" /\ cAvail' = 0 /\ cBuf' = <<>>
  /\ UNCHANGED <<data, write, prodVars, sent>>

-----------------------------------------------------------------------------
RingNext ==
  \/ BeginWrite \/ WriteFrame \/ EndWrite
  \/ BeginRead \/ ReadFrame
  \/ \E n \in 0 .. Capacity : EndRead(n)
  \/ DropLoad \/ DropStore

RingSpec == RingInit /\ [][RingNext]_ringVars

-----------------------------------------------------------------------------
RingTypeOK ==
  /\ data \in [Slots -> Frames]
  /\ write \in Cursors /\ read \in Cursors
  /\ pPc \in {"idle", "writing"}
  /\ pSpace \in 0 .. Capacity /\ pCount \in 0 .. Capacity
  /\ cPc \in {"idle", "reading", "dropping"}
  /\ cAvail \in 0 .. Capacity /\ cBuf \in Seq(Frames)
  /\ sent \in Frames /\ removed \in Frames /\ taken \in Seq(Frames)

(* No slot is written while it may be read: the frames a producer may      *)
(* still write in its batch and those a consumer may still read in its     *)
(* batch never share a slot, also when a cursor has wrapped.               *)
NoRace ==
  pPc = "writing" /\ cPc = "reading" =>
    \A i \in pCount .. pSpace - 1, j \in 0 .. cAvail - 1 :
      Slot(write, i) # Slot(read, j)

(* What the consumer has read so far in its batch are the oldest frames of *)
(* the ring, in order, although the producer is free to publish meanwhile. *)
ReadsInOrder ==
  cPc = "reading" => \A i \in 1 .. Len(cBuf) : cBuf[i] = removed + i

(* The ring is a bounded queue of frames (endWrite publishes, endRead      *)
(* removes): the two cursors and the slots between them implement it.      *)
Contents == [i \in 1 .. Distance(write, read) |-> data[Slot(read, i - 1)]]

Fifo == INSTANCE BoundedFifo WITH queue <- Contents

IsFifo == Fifo!Spec
=============================================================================
