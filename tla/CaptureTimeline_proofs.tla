----------------------- MODULE CaptureTimeline_proofs -----------------------
(***************************************************************************)
(* Proofs about CaptureTimeline: its safety properties for every ring,     *)
(* target, block, fade and packet length, and any number of breaks.        *)
(***************************************************************************)
EXTENDS CaptureTimeline, TLAPS

-----------------------------------------------------------------------------
(* The inductive invariant.                                                *)

(* The pump never knows of an epoch that has not begun.                    *)
EpochsLag == lastEpoch <= epoch /\ loaded <= epoch

(* A packet that is cut off keeps its break in reserve.                    *)
BreakReserved ==
  /\ BreaksLeft >= 0
  /\ wCut => wPc \in {"flowing", "publish", "published"}

(* A pending break finds enough frames to fade, in the same block.         *)
BreakFades ==
  breaking => \/ /\ pc \in {"flowing", "state", "depth"}
                 /\ audible /\ Depth >= History
              \/ pc \in {"fade", "reset"}

(* Frames of an ended timeline are there only until the pump has taken     *)
(* note of the end, or while it is about to fade or drop them.             *)
OldKnown == lastEpoch = epoch /\ pc # "drop" /\ ~breaking => old = 0

(* The pump's depth is one that the ring has had, and only grows.          *)
DepthKnown == pc = "prime" => depth <= Depth

(* Frames not yet judged are those of a producer seen to be flowing.       *)
Judged ==
  /\ unjudged => flowing
  /\ wPc = "publish" => flowing
  /\ wPc \in {"none", "starting", "open"} => ~unjudged
  /\ sawUnjudged => sawFlowing

(* Out of a block a channel that is priming is silent; inside it, unless   *)
(* the block has cut audio off, it is so until priming is over.            *)
FadesIn ==
  /\ pc \in {"idle", "gap", "epoch"} => ~(priming /\ audible)
  /\ pc = "reset" => ~audible
  /\ pc = "drop" => ~audible \/ cut
  /\ pc \in {"flowing", "state", "depth", "prime"} =>
       ~(priming /\ audible) \/ cut

(* The type invariant in two parts: the solvers take them differently.     *)
Numbers ==
  /\ old \in Nat /\ new \in Nat /\ Depth <= Capacity
  /\ wPc \in {"flowing", "publish"} => Depth + wFrames <= Capacity
  /\ epoch \in 0 .. MaxEpoch /\ lastEpoch \in Nat /\ loaded \in Nat
  /\ state \in {"Stopped", "Opening", "Running", "Failed"}
  /\ wPc \in {"none", "starting", "open", "loop", "space", "flowing",
              "publish", "published", "closing"}
  /\ wFrames \in Nat
  /\ pc \in {"idle", "epoch", "drop", "flowing", "state", "depth", "prime",
             "play", "fade", "silent", "reset", "gap"}
  /\ lastDepth \in 0 .. Capacity /\ depth \in 0 .. Capacity

Flags ==
  /\ primed \in BOOLEAN /\ flowing \in BOOLEAN /\ wCut \in BOOLEAN
  /\ recent \in BOOLEAN /\ priming \in BOOLEAN /\ breaking \in BOOLEAN
  /\ audible \in BOOLEAN /\ sawFlowing \in BOOLEAN
  /\ sawRunning \in BOOLEAN /\ unjudged \in BOOLEAN
  /\ sawUnjudged \in BOOLEAN /\ cut \in BOOLEAN

Others ==
  /\ EpochsLag /\ BreakReserved /\ BreakFades /\ OldKnown
  /\ DepthKnown /\ FadesIn /\ Judged

IInv == Numbers /\ Flags /\ Others

LEMMA TypeParts == TypeOK <=> Numbers /\ Flags
BY DEF TypeOK, Numbers, Flags

LEMMA Constants ==
  /\ Capacity \in Nat /\ Capacity > 0
  /\ History \in Nat /\ History > 0 /\ History <= Capacity
  /\ Target \in Nat /\ Target >= History /\ Target <= Capacity
  /\ Block \in Nat /\ Block > 0 /\ Fade \in Nat /\ Fade > 0
  /\ MaxEpoch \in Nat
  /\ RatioLo \in Nat /\ RatioHi \in Nat
  /\ RatioUnit \in Nat /\ RatioUnit > 0
  /\ \A n \in Packets : n \in Nat /\ n > 0
BY ChannelAssumption DEF ChannelAssumption, RatioKnown

(* How many frames a block takes is a natural number, at any ratio.        *)
LEMMA Quotient ==
  ASSUME NEW a \in Nat, NEW m \in Nat, m > 0
  PROVE  a \div m \in Nat
<1> DEFINE q == a \div m   r == a % m
<1>1. q \in Int /\ r \in 0 .. m - 1
  BY SMTT(30)
<1>2. a = m * q + r
  BY SMTT(30)
<1>3. q >= 0
  <2> HIDE DEF q, r
  <2> SUFFICES ASSUME q <= -1 PROVE FALSE
    BY <1>1
  <2>1. m * q <= -m
    BY <1>1, SMTT(30)
  <2> QED
    BY <1>1, <1>2, <2>1
<1> QED
  BY <1>1, <1>3

LEMMA Inputs ==
  ASSUME NEW n \in Nat
  PROVE  MaxInput(n) \in Nat /\ MinInput(n) \in Nat /\ RequiredInput(n) \in Nat
<1>1. /\ RatioLo \in Nat /\ RatioHi \in Nat /\ RatioUnit \in Nat
      /\ RatioUnit > 0 /\ History \in Nat
  BY Constants
<1>2. n * RatioHi + RatioUnit - 1 \in Nat
  <2>1. n * RatioHi \in Nat
    BY <1>1, SMTT(30)
  <2> HIDE DEF MaxInput
  <2> QED
    BY <1>1, <2>1
<1>3. MaxInput(n) \in Nat
  BY <1>1, <1>2, Quotient DEF MaxInput
<1>4. MinInput(n) \in Nat
  <2> DEFINE ahead == IF primed THEN Least(RatioLo, RatioUnit) ELSE 0
  <2>1. CASE n = 0
    BY <2>1 DEF MinInput
  <2>2. CASE n # 0
    <3>1. ahead \in Nat
      BY <1>1 DEF Least
    <3>2. (n - 1) * RatioLo \in Nat
      BY <1>1, <2>2, SMTT(30)
    <3>3. ahead + (n - 1) * RatioLo \in Nat
      <4> HIDE DEF ahead
      <4> QED
        BY <3>1, <3>2
    <3>4. (ahead + (n - 1) * RatioLo) \div RatioUnit \in Nat
      <4> HIDE DEF ahead
      <4> QED
        BY <1>1, <3>3, Quotient
    <3>5. MinInput(n) = (ahead + (n - 1) * RatioLo) \div RatioUnit
      BY <2>2 DEF MinInput
    <3> QED
      BY <3>4, <3>5
  <2> QED
    BY <2>1, <2>2
<1> QED
  BY <1>1, <1>3, <1>4 DEF RequiredInput

(* The consumer takes old frames first and never more than there are.      *)
LEMMA ConsumeOk ==
  ASSUME TypeOK, NEW n \in 0 .. Depth, Consume(n)
  PROVE  /\ old' \in Nat /\ new' \in Nat
         /\ \E d \in Nat : old' + new' = d /\ d <= old + new
         /\ \E d \in Nat : old' + new' = d /\ d + n = old + new
         /\ old' <= old
         /\ n = Depth => old' = 0
<1>0. old \in Nat /\ new \in Nat /\ n \in 0 .. (old + new)
  BY DEF TypeOK, Depth
<1>1. /\ old' \in Nat /\ new' \in Nat
      /\ \E d \in Nat : old' + new' = d /\ d <= old + new
      /\ old' <= old
      /\ n = Depth => old' = 0
  BY <1>0 DEF Consume, Depth, Most
<1>2. CASE n <= old
  <2>1. old' = old - n /\ new' = new
    BY <1>0, <1>2 DEF Consume, Depth, Most
  <2> QED
    BY <1>0, <1>1, <2>1 DEF Depth
<1>3. CASE ~(n <= old)
  <2>1. old' = 0 /\ new' = new - (n - old)
    BY <1>0, <1>3 DEF Consume, Depth, Most
  <2> QED
    BY <1>0, <1>1, <2>1 DEF Depth
<1> QED
  BY <1>2, <1>3

(* A produce() call takes what is there and makes what it was asked for   *)
(* or less.                                                               *)
LEMMA ProducedOk ==
  ASSUME TypeOK, NEW n \in Nat, n > 0, NEW r \in Produced(n)
  PROVE  r.taken \in 0 .. Depth /\ r.made \in 0 .. n /\ r.primed \in BOOLEAN
<1> DEFINE kernel == IF primed THEN 0 ELSE History
           free == Depth - kernel
<1>1. Depth \in Nat /\ kernel \in Nat /\ free \in Int /\ kernel + free = Depth
  BY Constants DEF TypeOK, Depth
<1>2. \/ r = [made |-> 0, taken |-> 0, primed |-> FALSE]
      \/ \E c \in {d \in MinInput(n) .. MaxInput(n) : d <= free} :
           r = [made |-> n, taken |-> kernel + c, primed |-> TRUE]
      \/ \E m \in 0 .. n - 1 :
           r = [made |-> m, taken |-> Depth, primed |-> TRUE]
  BY DEF Produced
<1>3. CASE r = [made |-> 0, taken |-> 0, primed |-> FALSE]
  BY <1>1, <1>3
<1>4. ASSUME NEW c \in {d \in MinInput(n) .. MaxInput(n) : d <= free},
             r = [made |-> n, taken |-> kernel + c, primed |-> TRUE]
      PROVE  r.taken \in 0 .. Depth /\ r.made \in 0 .. n /\ r.primed \in BOOLEAN
  <2>1. c \in Nat /\ c <= free
    BY Inputs
  <2>2. kernel + c \in 0 .. Depth
    BY <1>1, <2>1
  <2> HIDE DEF kernel, free
  <2> QED
    BY <1>4, <2>2
<1>5. ASSUME NEW m \in 0 .. n - 1,
             r = [made |-> m, taken |-> Depth, primed |-> TRUE]
      PROVE  r.taken \in 0 .. Depth /\ r.made \in 0 .. n /\ r.primed \in BOOLEAN
  BY <1>1, <1>5
<1> HIDE DEF kernel, free
<1> QED
  BY <1>2, <1>3, <1>4, <1>5

LEMMA ChannelInit == Init => IInv
<1> SUFFICES ASSUME Init PROVE IInv
  OBVIOUS
<1> USE Constants DEF Init, QueueInit
<1>1. Numbers
  BY DEF Numbers, Depth
<1>2. Flags
  BY Zenon DEF Flags
<1>3. Others
  BY DEF Others, EpochsLag, BreakReserved, BreaksLeft, BreakFades, OldKnown,
         DepthKnown, FadesIn, Judged
<1> QED
  BY <1>1, <1>2, <1>3 DEF IInv

-----------------------------------------------------------------------------
(* The steps of the capture worker and of who restarts it.                 *)

LEMMA WorkerKeeps == IInv /\ Worker => IInv'
<1> SUFFICES ASSUME IInv, Worker PROVE IInv'
  OBVIOUS
<1> USE Constants DEF SameQueue, StreamFrame, queueVars, chanVars, loadVars,
                     Others, EpochsLag, BreakReserved, BreakFades, OldKnown,
                     DepthKnown, FadesIn, Judged
<1>0. Numbers /\ Flags /\ Others
  BY DEF IInv
<1>1. CASE Stopped
  <2> USE <1>1 DEF Stopped
  <2>1. Numbers'
    BY <1>0 DEF Numbers, Depth, BreaksLeft
  <2>2. Flags'
    BY <1>0, Zenon DEF Flags
  <2>3. Others'
    BY <1>0 DEF Numbers, Flags, Depth, BreaksLeft
  <2> QED
    BY <2>1, <2>2, <2>3 DEF IInv
<1>2. CASE StartEpoch
  <2> USE <1>2 DEF StartEpoch, BreaksLeft, NextTimeline
  <2>1. Numbers'
    BY <1>0 DEF Numbers, Depth, BreaksLeft
  <2>2. Flags'
    BY <1>0, Zenon DEF Flags
  <2>3. Others'
    BY <1>0 DEF Numbers, Flags, Depth, BreaksLeft
  <2> QED
    BY <2>1, <2>2, <2>3 DEF IInv
<1>3. CASE StartOpening
  <2> USE <1>3 DEF StartOpening
  <2>1. Numbers'
    BY <1>0 DEF Numbers, Depth, BreaksLeft
  <2>2. Flags'
    BY <1>0, Zenon DEF Flags
  <2>3. Others'
    BY <1>0 DEF Numbers, Flags, Depth, BreaksLeft
  <2> QED
    BY <2>1, <2>2, <2>3 DEF IInv
<1>4. CASE Opened
  <2> USE <1>4 DEF Opened
  <2>1. Numbers'
    BY <1>0 DEF Numbers, Depth, BreaksLeft
  <2>2. Flags'
    BY <1>0, Zenon DEF Flags
  <2>3. Others'
    BY <1>0 DEF Numbers, Flags, Depth, BreaksLeft
  <2> QED
    BY <2>1, <2>2, <2>3 DEF IInv
<1>5. CASE \E n \in Packets : \E d \in BOOLEAN : Packet(n, d)
  <2>0. PICK n \in Packets, d \in BOOLEAN : Packet(n, d)
    BY <1>5
  <2> USE <2>0 DEF Packet, BreaksLeft, NextTimeline
  <2>1. Numbers'
    BY <1>0 DEF Numbers, Depth, BreaksLeft
  <2>2. Flags'
    BY <1>0, Zenon DEF Flags
  <2>3. Others'
    BY <1>0 DEF Numbers, Flags, Depth, BreaksLeft
  <2> QED
    BY <2>1, <2>2, <2>3 DEF IInv
<1>6. CASE Space
  <2> USE <1>6 DEF Space, Writable, Least, BreaksLeft
  <2>1. Numbers'
    BY <1>0 DEF Numbers, Depth, BreaksLeft
  <2>2. Flags'
    <3>1. wCut' \in BOOLEAN
      BY <1>0 DEF Numbers, Depth
    <3> QED
      BY <1>0, <3>1, Zenon DEF Flags
  <2>3. Others'
    BY <1>0 DEF Numbers, Flags, Depth, BreaksLeft
  <2> QED
    BY <2>1, <2>2, <2>3 DEF IInv
<1>7. CASE StoreFlowing
  <2> USE <1>7 DEF StoreFlowing, StoreOrder
  <2>1. Numbers'
    BY <1>0 DEF Numbers, Depth, BreaksLeft
  <2>2. Flags'
    BY <1>0, Zenon DEF Flags
  <2>3. Others'
    BY <1>0 DEF Numbers, Flags, Depth, BreaksLeft
  <2> QED
    BY <2>1, <2>2, <2>3 DEF IInv
<1>8. CASE StoreFrames
  <2> USE <1>8 DEF StoreFrames, StoreOrder
  <2>1. Numbers'
    BY <1>0 DEF Numbers, Depth, BreaksLeft
  <2>2. Flags'
    BY <1>0, Zenon DEF Flags
  <2>3. Others'
    BY <1>0 DEF Numbers, Flags, Depth, BreaksLeft
  <2> QED
    BY <2>1, <2>2, <2>3 DEF IInv
<1>9. CASE Published
  <2> USE <1>9 DEF Published, NextTimeline
  <2>1. Numbers'
    BY <1>0 DEF Numbers, Depth, BreaksLeft
  <2>2. Flags'
    BY <1>0, Zenon DEF Flags
  <2>3. Others'
    BY <1>0 DEF Numbers, Flags, Depth, BreaksLeft
  <2> QED
    BY <2>1, <2>2, <2>3 DEF IInv
<1>10. CASE Verdict
  <2> USE <1>10 DEF Verdict
  <2>1. Numbers'
    BY <1>0 DEF Numbers, Depth, BreaksLeft
  <2>2. Flags'
    BY <1>0, Zenon DEF Flags
  <2>3. Others'
    <3>1. (~unjudged \/ flowing)'
      <4>1. PICK v \in {recent, FALSE} :
              flowing' = v /\ unjudged' = (v /\ unjudged)
        BY Zenon
      <4>2. CASE v
        BY <4>1, <4>2
      <4>3. CASE ~v
        BY <4>1, <4>3, Zenon
      <4> QED
        BY <4>2, <4>3
    <3> QED
      BY <1>0, <3>1 DEF Numbers, Flags, Depth, BreaksLeft
  <2> QED
    BY <2>1, <2>2, <2>3 DEF IInv
<1>11. CASE LoopEnds
  <2> USE <1>11 DEF LoopEnds
  <2>1. Numbers'
    BY <1>0 DEF Numbers, Depth, BreaksLeft
  <2>2. Flags'
    BY <1>0, Zenon DEF Flags
  <2>3. Others'
    BY <1>0 DEF Numbers, Flags, Depth, BreaksLeft
  <2> QED
    BY <2>1, <2>2, <2>3 DEF IInv
<1>12. CASE Closed
  <2> USE <1>12 DEF Closed
  <2>1. Numbers'
    BY <1>0 DEF Numbers, Depth, BreaksLeft
  <2>2. Flags'
    BY <1>0, Zenon DEF Flags
  <2>3. Others'
    BY <1>0 DEF Numbers, Flags, Depth, BreaksLeft
  <2> QED
    BY <2>1, <2>2, <2>3 DEF IInv
<1> QED
  BY <1>1, <1>2, <1>3, <1>4, <1>5, <1>6, <1>7, <1>8, <1>9, <1>10, <1>11,
         <1>12 DEF Worker, PacketStep
-----------------------------------------------------------------------------
(* The steps of the mix pump.                                              *)

LEMMA PumpKeeps == IInv /\ (PumpStep \/ LoadGapEpoch) => IInv'
<1> SUFFICES ASSUME IInv, PumpStep \/ LoadGapEpoch PROVE IInv'
  OBVIOUS
<1> USE Constants DEF PumpFrame, queueVars, workVars, chanVars, loadVars,
                     Others, EpochsLag, BreakReserved, BreakFades, OldKnown,
                     DepthKnown, FadesIn, Judged
<1>0. TypeOK /\ Numbers /\ Flags /\ Others
  BY TypeParts DEF IInv
<1>1. CASE LoadEpoch
  <2> USE <1>1 DEF LoadEpoch
  <2>1. Numbers'
    BY <1>0 DEF Numbers, Depth
  <2>2. Flags'
    BY <1>0, Zenon DEF Flags
  <2>3. Others'
    BY <1>0 DEF Numbers, Flags, Depth, BreaksLeft
  <2> QED
    BY <2>1, <2>2, <2>3 DEF IInv
<1>2. CASE CheckEpoch
  <2> USE <1>2 DEF CheckEpoch, CanFade
  <2>1. Numbers'
    BY <1>0 DEF Numbers, Depth
  <2>2. Flags'
    BY <1>0, Zenon DEF Flags
  <2>3. Others'
    BY <1>0 DEF Numbers, Flags, Depth, BreaksLeft
  <2> QED
    BY <2>1, <2>2, <2>3 DEF IInv
<1>3. CASE Drop
  <2>b. Depth \in 0 .. Depth
    BY <1>0 DEF Numbers, Depth
  <2>c. /\ old' \in Nat /\ new' \in Nat /\ old' <= old
        /\ \E d \in Nat : old' + new' = d /\ d <= old + new
        /\ old' = 0
    BY <1>0, <1>3, <2>b, ConsumeOk DEF Drop
  <2>d. \E d \in Nat :
          /\ old' + new' = d /\ d <= Depth /\ d <= Capacity
          /\ wPc \in {"flowing", "publish"} => d + wFrames <= Capacity
    <3>1. PICK d \in Nat : old' + new' = d /\ d <= old + new
      BY <2>c
    <3>2. d <= Depth /\ Depth \in Nat /\ Depth <= Capacity /\ wFrames \in Nat
      BY <1>0, <3>1 DEF Numbers, Depth
    <3>3. wPc \in {"flowing", "publish"} => Depth + wFrames <= Capacity
      BY <1>0 DEF Numbers
    <3>4. d <= Capacity
      BY <3>2
    <3>5. wPc \in {"flowing", "publish"} => d + wFrames <= Capacity
      BY <3>2, <3>3
    <3> QED
      BY <3>1, <3>2, <3>4, <3>5
  <2> USE <1>3 DEF Drop, Reset
  <2>1. Numbers'
    <3>1. old' + new' <= Capacity
      BY <2>d
    <3>2. wPc' \in {"flowing", "publish"} => old' + new' + wFrames' <= Capacity
      BY <2>d
    <3>3. /\ pc' \in {"idle", "epoch", "drop", "flowing", "state", "depth",
                     "prime", "play", "fade", "silent", "reset", "gap"}
          /\ wPc' = wPc /\ wFrames' = wFrames /\ state' = state
          /\ epoch' = epoch /\ loaded' = loaded
          /\ lastEpoch' \in {lastEpoch, loaded}
      BY <1>0 DEF Numbers
    <3>4. lastDepth' \in 0 .. Capacity /\ depth' \in 0 .. Capacity
      BY <1>0 DEF Numbers
    <3> QED
      BY <1>0, <2>c, <3>1, <3>2, <3>3, <3>4 DEF Numbers, Depth
  <2>2. Flags'
    BY <1>0, Zenon DEF Flags
  <2>3. Others'
    BY <1>0, <2>c, <2>d DEF Numbers, Flags, Depth, BreaksLeft
  <2> QED
    BY <2>1, <2>2, <2>3 DEF IInv
<1>4. CASE LoadFlowing
  <2> USE <1>4 DEF LoadFlowing
  <2>1. Numbers'
    BY <1>0 DEF Numbers, Depth
  <2>2. Flags'
    BY <1>0, Zenon DEF Flags
  <2>3. Others'
    BY <1>0 DEF Numbers, Flags, Depth, BreaksLeft
  <2> QED
    BY <2>1, <2>2, <2>3 DEF IInv
<1>5. CASE LoadState
  <2> USE <1>5 DEF LoadState
  <2>1. Numbers'
    BY <1>0 DEF Numbers, Depth
  <2>2. Flags'
    BY <1>0, Zenon DEF Flags
  <2>3. Others'
    BY <1>0 DEF Numbers, Flags, Depth, BreaksLeft
  <2> QED
    BY <2>1, <2>2, <2>3 DEF IInv
<1>6. CASE LoadDepth
  <2> USE <1>6 DEF LoadDepth, StoppingFade, Live
  <2>1. Numbers'
    BY <1>0 DEF Numbers, Depth
  <2>2. Flags'
    BY <1>0, Zenon DEF Flags
  <2>3. Others'
    BY <1>0 DEF Numbers, Flags, Depth, BreaksLeft
  <2> QED
    BY <2>1, <2>2, <2>3 DEF IInv
<1>7. CASE TrimBacklog
  <2>b. Depth - Target \in 0 .. Depth
    BY <1>0, <1>7, Inputs DEF IInv, Numbers, Depth, DepthKnown, TrimBacklog,
           Backlog
  <2>c. /\ old' \in Nat /\ new' \in Nat /\ old' <= old
        /\ \E d \in Nat : old' + new' = d /\ d <= old + new
        /\ Depth - Target = Depth => old' = 0
        /\ \E d \in Nat : old' + new' = d /\ d = Target
    BY <1>0, <1>7, <2>b, ConsumeOk DEF TrimBacklog, Depth, Numbers
  <2>d. \E d \in Nat :
          /\ old' + new' = d /\ d <= Depth /\ d <= Capacity
          /\ wPc \in {"flowing", "publish"} => d + wFrames <= Capacity
    <3>1. PICK d \in Nat : old' + new' = d /\ d <= old + new
      BY <2>c
    <3>2. d <= Depth /\ Depth \in Nat /\ Depth <= Capacity /\ wFrames \in Nat
      BY <1>0, <3>1 DEF Numbers, Depth
    <3>3. wPc \in {"flowing", "publish"} => Depth + wFrames <= Capacity
      BY <1>0 DEF Numbers
    <3>4. d <= Capacity
      BY <3>2
    <3>5. wPc \in {"flowing", "publish"} => d + wFrames <= Capacity
      BY <3>2, <3>3
    <3> QED
      BY <3>1, <3>2, <3>4, <3>5
  <2> USE <1>7 DEF TrimBacklog, Backlog
  <2>1. Numbers'
    <3>1. old' + new' <= Capacity
      BY <2>d
    <3>2. wPc' \in {"flowing", "publish"} => old' + new' + wFrames' <= Capacity
      BY <2>d
    <3>3. /\ pc' \in {"idle", "epoch", "drop", "flowing", "state", "depth",
                     "prime", "play", "fade", "silent", "reset", "gap"}
          /\ wPc' = wPc /\ wFrames' = wFrames /\ state' = state
          /\ epoch' = epoch /\ loaded' = loaded
          /\ lastEpoch' \in {lastEpoch, loaded}
      BY <1>0 DEF Numbers
    <3>4. lastDepth' \in 0 .. Capacity /\ depth' \in 0 .. Capacity
      BY <1>0 DEF Numbers
    <3> QED
      BY <1>0, <2>c, <3>1, <3>2, <3>3, <3>4 DEF Numbers, Depth
  <2>2. Flags'
    BY <1>0, Zenon DEF Flags
  <2>3. Others'
    <3>1. old' + new' = Target /\ depth' = Target
      BY <2>c
    <3>2. OldKnown'
      BY <1>0, <2>c DEF Numbers
    <3> QED
      BY <1>0, <3>1, <3>2 DEF Depth, BreaksLeft
  <2> QED
    BY <2>1, <2>2, <2>3 DEF IInv
<1>8. CASE Prime
  <2> USE <1>8 DEF Prime, Backlog, TargetReached, StableIdleTail
  <2>1. Numbers'
    BY <1>0 DEF Numbers, Depth
  <2>2. Flags'
    BY <1>0, Zenon DEF Flags
  <2>3. Others'
    BY <1>0 DEF Numbers, Flags, Depth, BreaksLeft
  <2> QED
    BY <2>1, <2>2, <2>3 DEF IInv
<1>9. CASE Play
  <2>a. PICK r \in Produced(Block) :
          /\ Consume(r.taken) /\ primed' = r.primed
          /\ audible' = (r.made = Block) /\ priming' = (r.made < Block)
    BY <1>9 DEF Play
  <2>b. /\ r.taken \in 0 .. Depth /\ r.made \in 0 .. Block
        /\ r.primed \in BOOLEAN
    BY <1>0, ProducedOk
  <2>c. /\ old' \in Nat /\ new' \in Nat /\ old' <= old
        /\ \E d \in Nat : old' + new' = d /\ d <= old + new
    BY <1>0, <2>a, <2>b, ConsumeOk
  <2>d. \E d \in Nat :
          /\ old' + new' = d /\ d <= Depth /\ d <= Capacity
          /\ wPc \in {"flowing", "publish"} => d + wFrames <= Capacity
    <3>1. PICK d \in Nat : old' + new' = d /\ d <= old + new
      BY <2>c
    <3>2. d <= Depth /\ Depth \in Nat /\ Depth <= Capacity /\ wFrames \in Nat
      BY <1>0, <3>1 DEF Numbers, Depth
    <3>3. wPc \in {"flowing", "publish"} => Depth + wFrames <= Capacity
      BY <1>0 DEF Numbers
    <3>4. d <= Capacity
      BY <3>2
    <3>5. wPc \in {"flowing", "publish"} => d + wFrames <= Capacity
      BY <3>2, <3>3
    <3> QED
      BY <3>1, <3>2, <3>4, <3>5
  <2> USE <1>9 DEF Play
  <2>1. Numbers'
    <3>1. old' + new' <= Capacity
      BY <2>d
    <3>2. wPc' \in {"flowing", "publish"} => old' + new' + wFrames' <= Capacity
      BY <2>d
    <3>3. /\ pc' \in {"idle", "epoch", "drop", "flowing", "state", "depth",
                     "prime", "play", "fade", "silent", "reset", "gap"}
          /\ wPc' = wPc /\ wFrames' = wFrames /\ state' = state
          /\ epoch' = epoch /\ loaded' = loaded
          /\ lastEpoch' \in {lastEpoch, loaded}
      BY <1>0 DEF Numbers
    <3>4. lastDepth' \in 0 .. Capacity /\ depth' \in 0 .. Capacity
      BY <1>0 DEF Numbers
    <3> QED
      BY <1>0, <2>c, <3>1, <3>2, <3>3, <3>4 DEF Numbers, Depth
  <2>2. Flags'
    <3>1. audible' \in BOOLEAN /\ priming' \in BOOLEAN
      BY <2>a, <2>b
    <3> QED
      BY <1>0, <2>a, <2>b, <3>1, Zenon DEF Flags
  <2>3. Others'
    BY <1>0, <2>c, <2>d DEF Numbers, Flags, Depth, BreaksLeft
  <2> QED
    BY <2>1, <2>2, <2>3 DEF IInv
<1>10. CASE FadeOut
  <2>a. PICK r \in Produced(Fade) :
          /\ Consume(r.taken) /\ primed' = r.primed
    BY <1>10 DEF FadeOut
  <2>b. /\ r.taken \in 0 .. Depth /\ r.made \in 0 .. Fade
        /\ r.primed \in BOOLEAN
    BY <1>0, ProducedOk
  <2>c. /\ old' \in Nat /\ new' \in Nat /\ old' <= old
        /\ \E d \in Nat : old' + new' = d /\ d <= old + new
    BY <1>0, <2>a, <2>b, ConsumeOk
  <2>d. \E d \in Nat :
          /\ old' + new' = d /\ d <= Depth /\ d <= Capacity
          /\ wPc \in {"flowing", "publish"} => d + wFrames <= Capacity
    <3>1. PICK d \in Nat : old' + new' = d /\ d <= old + new
      BY <2>c
    <3>2. d <= Depth /\ Depth \in Nat /\ Depth <= Capacity /\ wFrames \in Nat
      BY <1>0, <3>1 DEF Numbers, Depth
    <3>3. wPc \in {"flowing", "publish"} => Depth + wFrames <= Capacity
      BY <1>0 DEF Numbers
    <3>4. d <= Capacity
      BY <3>2
    <3>5. wPc \in {"flowing", "publish"} => d + wFrames <= Capacity
      BY <3>2, <3>3
    <3> QED
      BY <3>1, <3>2, <3>4, <3>5
  <2> USE <1>10 DEF FadeOut
  <2>1. Numbers'
    <3>1. old' + new' <= Capacity
      BY <2>d
    <3>2. wPc' \in {"flowing", "publish"} => old' + new' + wFrames' <= Capacity
      BY <2>d
    <3>3. /\ pc' \in {"idle", "epoch", "drop", "flowing", "state", "depth",
                     "prime", "play", "fade", "silent", "reset", "gap"}
          /\ wPc' = wPc /\ wFrames' = wFrames /\ state' = state
          /\ epoch' = epoch /\ loaded' = loaded
          /\ lastEpoch' \in {lastEpoch, loaded}
      BY <1>0 DEF Numbers
    <3>4. lastDepth' \in 0 .. Capacity /\ depth' \in 0 .. Capacity
      BY <1>0 DEF Numbers
    <3> QED
      BY <1>0, <2>c, <3>1, <3>2, <3>3, <3>4 DEF Numbers, Depth
  <2>2. Flags'
    BY <1>0, <2>a, <2>b, Zenon DEF Flags
  <2>3. Others'
    BY <1>0, <2>c, <2>d DEF Numbers, Flags, Depth, BreaksLeft
  <2> QED
    BY <2>1, <2>2, <2>3 DEF IInv
<1>11. CASE Silent
  <2> USE <1>11 DEF Silent, DropAtEnd
  <2>1. Numbers'
    BY <1>0 DEF Numbers, Depth
  <2>2. Flags'
    BY <1>0, Zenon DEF Flags
  <2>3. Others'
    BY <1>0 DEF Numbers, Flags, Depth, BreaksLeft
  <2> QED
    BY <2>1, <2>2, <2>3 DEF IInv
<1>12. CASE ResetTimeline
  <2>b. Depth \in 0 .. Depth
    BY <1>0 DEF Numbers, Depth
  <2>c. /\ old' \in Nat /\ new' \in Nat /\ old' <= old
        /\ \E d \in Nat : old' + new' = d /\ d <= old + new
        /\ old' = 0
    BY <1>0, <1>12, <2>b, ConsumeOk DEF ResetTimeline
  <2>d. \E d \in Nat :
          /\ old' + new' = d /\ d <= Depth /\ d <= Capacity
          /\ wPc \in {"flowing", "publish"} => d + wFrames <= Capacity
    <3>1. PICK d \in Nat : old' + new' = d /\ d <= old + new
      BY <2>c
    <3>2. d <= Depth /\ Depth \in Nat /\ Depth <= Capacity /\ wFrames \in Nat
      BY <1>0, <3>1 DEF Numbers, Depth
    <3>3. wPc \in {"flowing", "publish"} => Depth + wFrames <= Capacity
      BY <1>0 DEF Numbers
    <3>4. d <= Capacity
      BY <3>2
    <3>5. wPc \in {"flowing", "publish"} => d + wFrames <= Capacity
      BY <3>2, <3>3
    <3> QED
      BY <3>1, <3>2, <3>4, <3>5
  <2> USE <1>12 DEF ResetTimeline, Reset
  <2>1. Numbers'
    <3>1. old' + new' <= Capacity
      BY <2>d
    <3>2. wPc' \in {"flowing", "publish"} => old' + new' + wFrames' <= Capacity
      BY <2>d
    <3>3. /\ pc' \in {"idle", "epoch", "drop", "flowing", "state", "depth",
                     "prime", "play", "fade", "silent", "reset", "gap"}
          /\ wPc' = wPc /\ wFrames' = wFrames /\ state' = state
          /\ epoch' = epoch /\ loaded' = loaded
          /\ lastEpoch' \in {lastEpoch, loaded}
      BY <1>0 DEF Numbers
    <3>4. lastDepth' \in 0 .. Capacity /\ depth' \in 0 .. Capacity
      BY <1>0 DEF Numbers
    <3> QED
      BY <1>0, <2>c, <3>1, <3>2, <3>3, <3>4 DEF Numbers, Depth
  <2>2. Flags'
    BY <1>0, Zenon DEF Flags
  <2>3. Others'
    BY <1>0, <2>c, <2>d DEF Numbers, Flags, Depth, BreaksLeft
  <2> QED
    BY <2>1, <2>2, <2>3 DEF IInv
<1>13. CASE SkipGap
  <2>b. Depth - GapTail \in 0 .. Depth
    BY <1>0 DEF Numbers, Depth, GapTail, Least
  <2>c. /\ old' \in Nat /\ new' \in Nat /\ old' <= old
        /\ \E d \in Nat : old' + new' = d /\ d <= old + new
        /\ Depth - GapTail = Depth => old' = 0
    BY <1>0, <1>13, <2>b, ConsumeOk DEF SkipGap
  <2>d. \E d \in Nat :
          /\ old' + new' = d /\ d <= Depth /\ d <= Capacity
          /\ wPc \in {"flowing", "publish"} => d + wFrames <= Capacity
    <3>1. PICK d \in Nat : old' + new' = d /\ d <= old + new
      BY <2>c
    <3>2. d <= Depth /\ Depth \in Nat /\ Depth <= Capacity /\ wFrames \in Nat
      BY <1>0, <3>1 DEF Numbers, Depth
    <3>3. wPc \in {"flowing", "publish"} => Depth + wFrames <= Capacity
      BY <1>0 DEF Numbers
    <3>4. d <= Capacity
      BY <3>2
    <3>5. wPc \in {"flowing", "publish"} => d + wFrames <= Capacity
      BY <3>2, <3>3
    <3> QED
      BY <3>1, <3>2, <3>4, <3>5
  <2> USE <1>13 DEF SkipGap, Reset, GapTail, GapPresence, Least
  <2>1. Numbers'
    <3>1. old' + new' <= Capacity
      BY <2>d
    <3>2. wPc' \in {"flowing", "publish"} => old' + new' + wFrames' <= Capacity
      BY <2>d
    <3>3. /\ pc' \in {"idle", "epoch", "drop", "flowing", "state", "depth",
                     "prime", "play", "fade", "silent", "reset", "gap"}
          /\ wPc' = wPc /\ wFrames' = wFrames /\ state' = state
          /\ epoch' = epoch /\ loaded' = loaded
          /\ lastEpoch' \in {lastEpoch, loaded}
      BY <1>0 DEF Numbers
    <3>4. lastDepth' \in 0 .. Capacity /\ depth' \in 0 .. Capacity
      BY <1>0 DEF Numbers
    <3> QED
      BY <1>0, <2>c, <3>1, <3>2, <3>3, <3>4 DEF Numbers, Depth
  <2>2. Flags'
    BY <1>0, Zenon DEF Flags
  <2>3. Others'
    <3>1. OldKnown'
      <4>1. CASE loaded = lastEpoch
        BY <1>0, <2>c, <4>1 DEF Numbers
      <4>2. CASE loaded # lastEpoch
        <5>1. Depth - GapTail = Depth
          BY <1>0, <4>2 DEF Numbers, Depth
        <5> QED
          BY <5>1, <2>c
      <4> QED
        BY <4>1, <4>2
    <3> QED
      BY <1>0, <3>1 DEF Numbers, BreaksLeft
  <2> QED
    BY <2>1, <2>2, <2>3 DEF IInv
<1>14. CASE LoadGapEpoch
  <2> USE <1>14 DEF LoadGapEpoch
  <2>1. Numbers'
    BY <1>0 DEF Numbers, Depth
  <2>2. Flags'
    BY <1>0, Zenon DEF Flags
  <2>3. Others'
    BY <1>0 DEF Numbers, Flags, Depth, BreaksLeft
  <2> QED
    BY <2>1, <2>2, <2>3 DEF IInv
<1> QED
  BY <1>1, <1>2, <1>3, <1>4, <1>5, <1>6, <1>7, <1>8, <1>9, <1>10, <1>11,
         <1>12, <1>13, <1>14 DEF PumpStep

-----------------------------------------------------------------------------
(* The invariant holds, and what it says of the channel.                   *)

LEMMA ChannelInvariant == Spec => []IInv
<1>1. IInv /\ [Next]_vars => IInv'
  <2> SUFFICES ASSUME IInv, [Next]_vars PROVE IInv'
    OBVIOUS
  <2>1. CASE Next
    BY <2>1, WorkerKeeps, PumpKeeps DEF Next
  <2>2. CASE UNCHANGED vars
    <3> USE <2>2 DEF vars, queueVars, workVars, chanVars, loadVars, history
    <3>1. (Numbers /\ Flags)'
      BY DEF IInv, Numbers, Flags, Depth
    <3>2. Others'
      BY DEF IInv, Others, EpochsLag, BreakReserved, BreaksLeft, BreakFades,
             OldKnown, DepthKnown, FadesIn, Judged, Depth
    <3> QED
      BY <3>1, <3>2 DEF IInv
  <2> QED
    BY <2>1, <2>2
<1> QED
  BY ChannelInit, <1>1, PTL DEF Spec

(* Capture side and pump keep their types, and a packet under way always   *)
(* fits: CaptureStream::drainPackets cuts it to the space it has seen.     *)
THEOREM ChannelTypes == Spec => []TypeOK
<1>1. IInv => TypeOK
  BY TypeParts DEF IInv
<1> QED
  BY ChannelInvariant, <1>1, PTL

(* renderMix never plays or keeps a frame from before an epoch it has      *)
(* noted, wherever discontinuities, overflows, restarts and missed periods *)
(* fall between its loads.                                                 *)
THEOREM NoBrokenTimeline == Spec => []BrokenTimelineDropped
<1>1. IInv => BrokenTimelineDropped
  <2> SUFFICES ASSUME IInv, pc \in {"idle", "play"}, lastEpoch = epoch
               PROVE  old = 0
    BY DEF BrokenTimelineDropped
  <2>1. ~breaking
    BY DEF IInv, Others, BreakFades
  <2> QED
    BY <2>1 DEF IInv, Others, OldKnown
<1> QED
  BY ChannelInvariant, <1>1, PTL

(* However a channel was interrupted -- starved, faded, dropped, or reset  *)
(* by handleMixPumpDiscontinuity while it could be heard -- renderMix lets *)
(* it out of priming in silence, so that it fades in, except in the block  *)
(* that has dropped a timeline too short to fade.                          *)
THEOREM FadesInAgain == Spec => FadedInUnlessCut
<1>1. IInv /\ [Next]_vars => [Resumes => ~audible \/ cut]_vars
  BY DEF IInv, Others, FadesIn, Resumes
<1> QED
  BY ChannelInvariant, <1>1, PTL DEF Spec, FadedInUnlessCut

(* The idle bypass of priming (stableIdleTail) is taken only if the pump   *)
(* loaded flowing when no frame was waiting for the worker's judgement.    *)
THEOREM BypassWhenIdle == Spec => BypassOnlyIdle
<1>1. IInv /\ [Next]_vars => [Bypass => ~sawUnjudged]_vars
  <2> SUFFICES ASSUME IInv, Next, Bypass PROVE ~sawUnjudged
    OBVIOUS
  <2>1. Prime
    BY DEF Next, Worker, PacketStep, PumpStep, Bypass, StreamFrame, Stopped,
           StartEpoch, StartOpening, Opened, Packet, Space, StoreFlowing,
           StoreFrames, Published, Verdict, LoopEnds, Closed, LoadEpoch,
           CheckEpoch, Drop, LoadFlowing, LoadState, LoadDepth, TrimBacklog,
           Play, FadeOut, Silent, ResetTimeline, SkipGap, LoadGapEpoch
  <2>2. StableIdleTail
    BY <2>1 DEF Prime, Bypass
  <2> QED
    BY <2>2 DEF StableIdleTail, IInv, Others, Judged
<1> QED
  BY ChannelInvariant, <1>1, PTL DEF Spec, BypassOnlyIdle
=============================================================================
