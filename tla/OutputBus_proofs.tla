-------------------------- MODULE OutputBus_proofs --------------------------
(***************************************************************************)
(* Proofs about one output.  OutputBus, the queue in front of it: its      *)
(* safety properties for every ring capacity, target, block, fade and      *)
(* device period, and any number of breaks.  OutputRecovery (as Worker),   *)
(* its render worker: for any number of events, edits and faults and every *)
(* back-off.                                                               *)
(***************************************************************************)
EXTENDS OutputBus, TLAPS

(* OutputRecovery shares no constant and no variable with OutputBus.       *)
CONSTANTS MaxShift, MaxWait, MaxEvents, MaxEdits, MaxFaults
VARIABLES answers, alive, isDefault, deviceNews, defaultNews, wantExclusive,
          lock, uiPc, wake, supPc, woken, fails, retryIn, state, exclusive,
          wantsRetry, quit, wPc, prefer, allow, held, events, edits, faults
Worker == INSTANCE OutputRecovery

-----------------------------------------------------------------------------
(* The inductive invariant.                                                *)

(* The render thread never knows of an epoch that has not begun.           *)
EpochsLag ==
  /\ seen <= epoch
  /\ loaded <= epoch

(* Frames of an ended timeline are in front of the consumer only while it  *)
(* has not taken note of the end, or is about to drop everything.          *)
OldKnown ==
  seen = epoch => old = 0 \/ (pc \in {"reset", "formatReset"} /\ keep = 0)

(* The bus is silent while it is priming and when a fade is over.          *)
SilentWhen ==
  /\ priming => presence = 0
  /\ pc = "finish" => presence = 0
  /\ pc = "reset" => presence = 0 \/ cut
  /\ pc \notin {"idle", "format", "formatReset", "period"} => frames > 0

(* What the first callback after priming has in front of it.               *)
FirstBlock == pc = "first" => ~priming /\ Depth >= RequiredInput(frames)

(* The bound on epochs leaves room for the overflow of a publish under way.*)
EpochReserved == EpochsLeft >= 0

IInv ==
  /\ TypeOK /\ EpochsLag /\ OldKnown /\ SilentWhen /\ FirstBlock
  /\ EpochReserved

LEMMA Constants ==
  /\ Capacity \in Nat /\ Capacity > 0
  /\ History \in Nat /\ History > 0 /\ History <= Capacity
  /\ Target \in Nat /\ Target >= History /\ Target <= Capacity
  /\ Block \in Nat /\ Block > 0 /\ Fade \in Nat /\ Fade > 0
  /\ MaxEpoch \in Nat
  /\ RatioLo \in Nat /\ RatioHi \in Nat
  /\ RatioUnit \in Nat /\ RatioUnit > 0
  /\ \A b \in Periods : b \in Nat /\ b > 0
BY BusAssumption DEF BusAssumption, RatioKnown

(* How many frames a block takes is a natural number, at any ratio.        *)
LEMMA Quotient ==
  ASSUME NEW a \in Nat, NEW m \in Nat, m > 0
  PROVE  a \div m \in Nat
<1> DEFINE q == a \div m   r == a % m
<1>1. q \in Int /\ r \in 0 .. m - 1
  BY SMTT(30)
<1>2. a = m * q + r
  BY SMTT(30)
<1>3. q >= 0
  <2> HIDE DEF q, r
  <2> SUFFICES ASSUME q <= -1 PROVE FALSE
    BY <1>1
  <2>1. m * q <= -m
    BY <1>1, SMTT(30)
  <2> QED
    BY <1>1, <1>2, <2>1
<1> QED
  BY <1>1, <1>3

LEMMA Inputs ==
  ASSUME NEW n \in Nat
  PROVE  MaxInput(n) \in Nat /\ MinInput(n) \in Nat /\ RequiredInput(n) \in Nat
<1>1. /\ RatioLo \in Nat /\ RatioHi \in Nat /\ RatioUnit \in Nat
      /\ RatioUnit > 0 /\ History \in Nat
  BY Constants
<1>2. n * RatioHi + RatioUnit - 1 \in Nat
  <2>1. n * RatioHi \in Nat
    BY <1>1, SMTT(30)
  <2> HIDE DEF MaxInput
  <2> QED
    BY <1>1, <2>1
<1>3. MaxInput(n) \in Nat
  BY <1>1, <1>2, Quotient DEF MaxInput
<1>4. MinInput(n) \in Nat
  <2> DEFINE ahead == IF primed THEN Least(RatioLo, RatioUnit) ELSE 0
  <2>1. CASE n = 0
    BY <2>1 DEF MinInput
  <2>2. CASE n # 0
    <3>1. ahead \in Nat
      BY <1>1 DEF Least
    <3>2. (n - 1) * RatioLo \in Nat
      BY <1>1, <2>2, SMTT(30)
    <3>3. ahead + (n - 1) * RatioLo \in Nat
      <4> HIDE DEF ahead
      <4> QED
        BY <3>1, <3>2
    <3>4. (ahead + (n - 1) * RatioLo) \div RatioUnit \in Nat
      <4> HIDE DEF ahead
      <4> QED
        BY <1>1, <3>3, Quotient
    <3>5. MinInput(n) = (ahead + (n - 1) * RatioLo) \div RatioUnit
      BY <2>2 DEF MinInput
    <3> QED
      BY <3>4, <3>5
  <2> QED
    BY <2>1, <2>2
<1> QED
  BY <1>1, <1>3, <1>4 DEF RequiredInput

(* The target stays a depth the ring can reach.                            *)
LEMMA TargetFits ==
  ASSUME NEW n \in Nat
  PROVE  CallbackTarget(n) \in 1 .. Capacity
<1>1. Reserve \in Nat /\ Reserve > 0
  BY Constants DEF Reserve, Most
<1>2. Most(RequiredInput(n), Target) \in Nat
  BY Constants, Inputs DEF Most
<1> QED
  BY <1>1, <1>2, Constants DEF CallbackTarget, Least

(* The consumer takes old frames first and never more than there are.      *)
LEMMA ConsumeOk ==
  ASSUME TypeOK, NEW n \in 0 .. Depth, Consume(n)
  PROVE  /\ old' \in Nat /\ new' \in Nat
         /\ \E d \in Nat : old' + new' = d /\ d <= old + new
         /\ old' <= old
         /\ n = Depth => old' = 0
BY Constants DEF TypeOK, Consume, Depth, Most

(* A produce() call takes what is there, and is short only for want of it. *)
LEMMA ProducedOk ==
  ASSUME TypeOK, NEW n \in Nat, n > 0, NEW r \in Produced(n)
  PROVE  /\ r.taken \in 0 .. Depth
         /\ r.made \in 0 .. n
         /\ r.primed \in BOOLEAN
         /\ Depth >= RequiredInput(n) => r.made = n
<1> DEFINE kernel == IF primed THEN 0 ELSE History
           free == Depth - kernel
<1>0. Capacity \in Nat /\ History \in Nat
  BY Constants
<1>1. Depth \in Nat /\ kernel \in Nat /\ kernel <= History /\ free \in Int
  BY Constants DEF TypeOK, Depth
<1>2. CASE free < 0
  <2>1. r = [made |-> 0, taken |-> 0, primed |-> FALSE]
    BY <1>2 DEF Produced
  <2>2. Depth < RequiredInput(n)
    BY <1>1, <1>2, <1>0, Inputs DEF RequiredInput
  <2>3. RequiredInput(n) \in Nat
    BY Inputs
  <2> QED
    BY <2>1, <2>2, <2>3, <1>1
<1>3. CASE ~(free < 0)
  <2>1. \/ \E c \in {d \in MinInput(n) .. MaxInput(n) : d <= free} :
             r = [made |-> n, taken |-> kernel + c, primed |-> TRUE]
        \/ /\ free < MaxInput(n)
           /\ \E m \in 0 .. n - 1 :
                r = [made |-> m, taken |-> Depth, primed |-> TRUE]
    BY <1>3 DEF Produced
  <2>2. ASSUME NEW c \in {d \in MinInput(n) .. MaxInput(n) : d <= free},
               r = [made |-> n, taken |-> kernel + c, primed |-> TRUE]
        PROVE  r.taken \in 0 .. Depth /\ r.made = n /\ r.primed = TRUE
    <3>1. c \in Nat /\ c <= free
      BY Inputs
    <3>2. kernel + c \in 0 .. Depth
      BY <3>1, <1>1
    <3> HIDE DEF kernel, free
    <3> QED
      BY <2>2, <3>2
  <2>3. ASSUME free < MaxInput(n), NEW m \in 0 .. n - 1,
               r = [made |-> m, taken |-> Depth, primed |-> TRUE]
        PROVE  /\ r.taken \in 0 .. Depth /\ r.made \in 0 .. n
               /\ r.primed = TRUE /\ Depth < RequiredInput(n)
    <3>1. Depth < RequiredInput(n)
      BY <2>3, <1>1, <1>0, Inputs DEF RequiredInput
    <3> QED
      BY <2>3, <3>1, <1>1
  <2>4. RequiredInput(n) \in Nat
    BY Inputs
  <2>5. CASE \E c \in {d \in MinInput(n) .. MaxInput(n) : d <= free} :
               r = [made |-> n, taken |-> kernel + c, primed |-> TRUE]
    <3>1. r.taken \in 0 .. Depth /\ r.made = n /\ r.primed = TRUE
      BY <2>2, <2>5
    <3>2. r.primed \in BOOLEAN
      BY <3>1, Zenon
    <3>3. r.made \in 0 .. n
      BY <3>1
    <3> HIDE DEF kernel, free
    <3> QED
      BY <3>1, <3>2, <3>3
  <2>6. CASE /\ free < MaxInput(n)
             /\ \E m \in 0 .. n - 1 :
                  r = [made |-> m, taken |-> Depth, primed |-> TRUE]
    <3>1. /\ r.taken \in 0 .. Depth /\ r.made \in 0 .. n
          /\ r.primed = TRUE /\ Depth < RequiredInput(n)
      BY <2>3, <2>6
    <3>2. r.primed \in BOOLEAN
      BY <3>1, Zenon
    <3>3. ~(Depth >= RequiredInput(n))
      BY <3>1, <2>4, <1>1
    <3> HIDE DEF kernel, free
    <3> QED
      BY <3>1, <3>2, <3>3
  <2> HIDE DEF kernel, free
  <2> QED
    BY <2>1, <2>5, <2>6
<1> QED
  BY <1>2, <1>3

LEMMA BusInit == Init => IInv
<1> SUFFICES ASSUME Init PROVE IInv
  OBVIOUS
<1> USE Constants DEF Init, QueueInit
<1>1. TypeOK
  <2>1. /\ priming \in BOOLEAN /\ breaking \in BOOLEAN /\ trimming \in BOOLEAN
        /\ primed \in BOOLEAN /\ cut \in BOOLEAN /\ crossed \in BOOLEAN
    BY Zenon
  <2>2. target \in 1 .. Capacity /\ buffer \in Periods \cup {0}
    OBVIOUS
  <2> QED
    BY <2>1, <2>2 DEF TypeOK, Depth, MaxLead
<1>2. EpochsLag /\ OldKnown /\ SilentWhen /\ FirstBlock /\ EpochReserved
  BY DEF EpochsLag, OldKnown, SilentWhen, FirstBlock, EpochReserved, EpochsLeft
<1> QED
  BY <1>1, <1>2 DEF IInv

-----------------------------------------------------------------------------
(* The pump's steps touch neither the render thread nor old frames, except *)
(* that an epoch ends.                                                     *)

LEMMA PumpStep ==
  ASSUME IInv,
         \/ PublishBegin \/ PublishFrames \/ PublishOverflow \/ RequestReset
  PROVE  IInv'
<1> USE Constants DEF IInv, TypeOK, EpochsLag, OldKnown, SilentWhen,
        FirstBlock, EpochReserved, EpochsLeft, Depth, ring, pump, settings, flags, dsp, call, history
<1>1. CASE PublishBegin
  BY <1>1 DEF PublishBegin
<1>2. CASE PublishFrames
  <2>1. /\ new' \in Nat /\ new' >= new
        /\ pSpace' \in 0 .. Capacity - (old + new') /\ old + new' <= Capacity
    BY <1>2 DEF PublishFrames, Written, Least
  <2>2. lead' \in 0 .. MaxLead + 1 /\ pPc' \in {"idle", "write", "overflow"}
    BY <1>2 DEF PublishFrames, Least, MaxLead
  <2> QED
    BY <1>2, <2>1, <2>2, Inputs DEF PublishFrames
<1>3. CASE PublishOverflow
  BY <1>3 DEF PublishOverflow, NextTimeline
<1>4. CASE RequestReset
  BY <1>4 DEF RequestReset, NextTimeline
<1> QED
  BY <1>1, <1>2, <1>3, <1>4

-----------------------------------------------------------------------------
(* The render thread's steps.                                              *)

(* Steps that take nothing from the ring.                                  *)
LEMMA LookStep ==
  ASSUME IInv,
         \/ \E b \in Periods : OnRenderFormat(b) \/ OnRenderPeriod(b)
         \/ \E n \in 1 .. buffer : RenderBegin(n)
         \/ FormatEpoch \/ CheckEpoch \/ CheckDepth
         \/ AlreadySilent \/ FinishBreak \/ KeepPriming \/ StopPriming
  PROVE  IInv'
<1> USE Constants DEF IInv, TypeOK, EpochsLag, OldKnown, SilentWhen,
        FirstBlock, EpochReserved, EpochsLeft, Depth, ring, pump, settings,
        flags, dsp, call, history
<1>1. ASSUME NEW b \in Periods, OnRenderFormat(b) PROVE IInv'
  <2>1. target' \in 1 .. Capacity
    BY <1>1, TargetFits DEF OnRenderFormat
  <2> QED
    BY <1>1, <2>1 DEF OnRenderFormat
<1>2. ASSUME NEW b \in Periods, OnRenderPeriod(b) PROVE IInv'
  <2>1. target' \in 1 .. Capacity
    BY <1>2, TargetFits DEF OnRenderPeriod
  <2> QED
    BY <1>2, <2>1 DEF OnRenderPeriod
<1>3. ASSUME NEW n \in 1 .. buffer, RenderBegin(n) PROVE IInv'
  BY <1>3 DEF RenderBegin
<1>4. CASE FormatEpoch
  BY <1>4 DEF FormatEpoch
<1>5. CASE CheckEpoch
  <2>1. CASE /\ pc' = "depth" /\ breaking' \in BOOLEAN
             /\ UNCHANGED <<seen, keep, cut>>
    BY <1>5, <2>1 DEF CheckEpoch
  <2>2. CASE /\ ~CanFade /\ cut' = (Depth < History)
             /\ seen' = loaded /\ pc' = "reset" /\ keep' = 0
             /\ UNCHANGED breaking
    <3>0. cut' = (Depth < History)
      BY <2>2
    <3>1. cut' \in BOOLEAN
      <4>1. cut' = TRUE \/ cut' = FALSE
        BY ONLY <3>0
      <4> QED
        BY ONLY <4>1, Zenon
    <3>2. Depth < History => cut'
      BY <2>2
    <3>3. presence = 0 \/ Depth < History
      BY <2>2 DEF CanFade
    <3> QED
      BY <1>5, <2>2, <3>1, <3>2, <3>3 DEF CheckEpoch
  <2>3. breaking \in BOOLEAN /\ TRUE \in BOOLEAN
    OBVIOUS
  <2> QED
    BY <1>5, <2>1, <2>2, <2>3 DEF CheckEpoch
<1>6. CASE CheckDepth
  <2>1. trimming' \in BOOLEAN /\ breaking' \in BOOLEAN
    BY <1>6, Zenon DEF CheckDepth
  <2>2. pc' \in {"fade", "play"}
    BY <1>6 DEF CheckDepth
  <2> QED
    BY <1>6, <2>1, <2>2 DEF CheckDepth, MaxLead
<1>7. CASE AlreadySilent
  BY <1>7 DEF AlreadySilent, FadeRequest, Least
<1>8. CASE FinishBreak
  <2>1. keep' \in 0 .. Capacity
    BY <1>8 DEF FinishBreak, Tail
  <2>2. old = 0 \/ keep' = 0
    BY <1>8 DEF FinishBreak, Tail
  <2>3. cut' \in BOOLEAN
    BY <1>8, Zenon DEF FinishBreak
  <2> QED
    BY <1>8, <2>1, <2>2, <2>3 DEF FinishBreak
<1>9. CASE KeepPriming
  BY <1>9 DEF KeepPriming
<1>10. CASE StopPriming
  <2>1. Depth >= RequiredInput(frames)
    BY <1>10, Inputs DEF StopPriming, PrimedDepth, Most
  <2> QED
    BY <1>10, <2>1 DEF StopPriming
<1> QED
  BY <1>1, <1>2, <1>3, <1>4, <1>5, <1>6, <1>7, <1>8, <1>9, <1>10

(* Steps that do.                                                          *)
LEMMA TakeStep ==
  ASSUME IInv, FadeProduce \/ ResetConsumer \/ Play
  PROVE  IInv'
<1> USE Constants DEF IInv, EpochsLag, OldKnown, SilentWhen,
        FirstBlock, EpochReserved, EpochsLeft, ring, pump, settings,
        flags, dsp, call, history
<1>t. TypeOK /\ Depth \in Nat /\ old \in Nat /\ new \in Nat
  BY DEF TypeOK, Depth
<1>f. frames \in Nat /\ presence \in Nat /\ presence <= Fade
  BY DEF TypeOK
(* What is left of TypeOK when frames have been taken.                     *)
<1>r. ASSUME NEW d \in Nat, old' + new' = d, d <= old + new, UNCHANGED pump
      PROVE  /\ old' + new' <= Capacity
             /\ pSpace' \in 0 .. Capacity - (old' + new')
             /\ pPc' \in {"idle", "write", "overflow"}
  <2>1. /\ old + new <= Capacity /\ pSpace \in 0 .. Capacity - (old + new)
        /\ pPc \in {"idle", "write", "overflow"}
    BY DEF TypeOK, Depth
  <2>2. pPc' = pPc /\ pSpace' = pSpace /\ Capacity \in Nat
    BY <1>r, Constants
  <2>3. PICK x \in Nat : x = old + new
    BY <1>t
  <2>4. d <= Capacity /\ pSpace \in 0 .. Capacity - d
    BY <1>r, <2>1, <2>2, <2>3
  <2>5. pSpace' \in 0 .. Capacity - d
    BY <2>2, <2>4
  <2> QED
    BY <1>r, <2>1, <2>2, <2>4, <2>5
<1>1. CASE FadeProduce
  <2>1. FadeRequest \in Nat /\ FadeRequest > 0
    BY <1>1, <1>f DEF FadeProduce, FadeRequest, Least
  <2>2. PICK r \in Produced(FadeRequest) :
          /\ Consume(r.taken)
          /\ primed' = r.primed
          /\ presence' = IF r.made < FadeRequest THEN 0
                         ELSE Most(0, presence - frames)
          /\ pc' = IF presence' = 0 THEN "finish" ELSE "idle"
          /\ crossed' = (~trimming /\ old > 0 /\ r.taken > old)
    BY <1>1 DEF FadeProduce, Faded
  <2>3. r.taken \in 0 .. Depth /\ r.primed \in BOOLEAN
    BY <1>t, <2>1, ProducedOk
  <2>4. /\ old' \in Nat /\ new' \in Nat /\ old' <= old
        /\ \E d \in Nat : old' + new' = d /\ d <= old + new
    BY <1>t, <2>2, <2>3, ConsumeOk
  <2>5. presence' \in 0 .. Fade /\ presence' <= presence
    BY <2>2, <1>f DEF Most
  <2>6. crossed' \in BOOLEAN
    BY <2>2, Zenon
  <2>7. /\ pc' \in {"idle", "finish"} /\ (pc' = "finish" => presence' = 0)
        /\ pc = "fade" /\ primed' \in BOOLEAN
        /\ UNCHANGED <<epoch, pump, settings, flags, frames, loaded, keep, cut,
                       lead>>
    BY <1>1, <2>2, <2>3 DEF FadeProduce
  <2>8. TypeOK'
    <3>1. /\ old' + new' <= Capacity
          /\ pSpace' \in 0 .. Capacity - (old' + new')
          /\ pPc' \in {"idle", "write", "overflow"}
      BY <2>4, <2>7, <1>r
    <3> QED
      BY <2>4, <2>5, <2>6, <2>7, <3>1 DEF TypeOK, Depth
  <2>9. priming' => presence' = 0
    BY <2>5, <2>7, <1>f
  <2> QED
    BY <2>4, <2>7, <2>8, <2>9
<1>2. CASE ResetConsumer
  <2> DEFINE n == Depth - Least(Depth, keep)
  <2>1. Consume(n) /\ n \in 0 .. Depth /\ (keep = 0 => n = Depth)
    BY <1>2, <1>t DEF ResetConsumer, Least, TypeOK
  <2> HIDE DEF n
  <2>2. /\ old' \in Nat /\ new' \in Nat
        /\ \E d \in Nat : old' + new' = d /\ d <= old + new
        /\ old' <= old /\ (keep = 0 => old' = 0)
    BY <1>t, <2>1, ConsumeOk DEF Depth
  <2>3. /\ priming' \in BOOLEAN /\ breaking' \in BOOLEAN
        /\ trimming' \in BOOLEAN /\ primed' \in BOOLEAN /\ cut' \in BOOLEAN
    BY <1>2, Zenon DEF ResetConsumer
  <2>4. /\ presence' = 0 /\ pc' \in {"idle", "period"}
        /\ UNCHANGED <<epoch, pump, settings, frames, loaded, keep, crossed,
                       lead>>
    BY <1>2 DEF ResetConsumer
  <2>5. TypeOK'
    <3>1. /\ old' + new' <= Capacity
          /\ pSpace' \in 0 .. Capacity - (old' + new')
          /\ pPc' \in {"idle", "write", "overflow"}
      BY <2>2, <2>4, <1>r
    <3> QED
      <4>1. /\ epoch' \in 0 .. MaxEpoch /\ seen' \in 0 .. MaxEpoch
            /\ target' \in 1 .. Capacity /\ buffer' \in Periods \cup {0}
            /\ presence' \in 0 .. Fade /\ frames' \in Nat
            /\ loaded' \in 0 .. MaxEpoch /\ keep' \in 0 .. Capacity
            /\ lead' \in 0 .. MaxLead + 1
        BY <2>4 DEF TypeOK
      <4>2. crossed' \in BOOLEAN
        BY <2>4 DEF TypeOK
      <4> QED
        BY <2>2, <2>3, <2>4, <3>1, <4>1, <4>2 DEF TypeOK, Depth
  <2> QED
    BY <1>2, <2>2, <2>4, <2>5, <1>t DEF ResetConsumer
<1>3. CASE Play
  <2>1. PICK r \in Produced(frames) :
          /\ Consume(r.taken)
          /\ primed' = r.primed
          /\ IF r.made = frames
             THEN presence' = Least(Fade, presence + frames) /\ pc' = "idle"
             ELSE presence' = 0 /\ pc' = "reset"
    BY <1>3 DEF Play
  <2>2. frames > 0
    BY <1>3 DEF Play
  <2>3. r.taken \in 0 .. Depth /\ r.primed \in BOOLEAN
    BY <1>t, <1>f, <2>2, ProducedOk
  <2>4. /\ old' \in Nat /\ new' \in Nat /\ old' <= old
        /\ \E d \in Nat : old' + new' = d /\ d <= old + new
    BY <1>t, <2>1, <2>3, ConsumeOk
  <2>5. presence' \in 0 .. Fade
    BY <2>1, <1>f DEF Least
  <2>6. ~priming'
    BY <1>3 DEF Play
  <2>7. pc' \in {"idle", "reset"} /\ (pc' = "reset" => presence' = 0)
    BY <2>1
  <2>8. /\ keep' = 0
        /\ UNCHANGED <<epoch, pump, settings, flags, frames, loaded, history>>
    BY <1>3 DEF Play
  <2>9. TypeOK'
    <3>1. /\ old' + new' <= Capacity
          /\ pSpace' \in 0 .. Capacity - (old' + new')
          /\ pPc' \in {"idle", "write", "overflow"}
      BY <2>4, <2>8, <1>r
    <3>2. primed' \in BOOLEAN
      BY <2>1, <2>3
    <3> QED
      <4>1. /\ epoch' \in 0 .. MaxEpoch /\ seen' \in 0 .. MaxEpoch
            /\ target' \in 1 .. Capacity /\ buffer' \in Periods \cup {0}
            /\ frames' \in Nat /\ loaded' \in 0 .. MaxEpoch
            /\ keep' \in 0 .. Capacity /\ lead' \in 0 .. MaxLead + 1
        BY <2>8 DEF TypeOK
      <4>2. /\ priming' \in BOOLEAN /\ breaking' \in BOOLEAN
            /\ trimming' \in BOOLEAN /\ cut' \in BOOLEAN /\ crossed' \in BOOLEAN
        BY <2>8 DEF TypeOK
      <4> QED
        BY <2>4, <2>5, <2>7, <3>1, <3>2, <4>1, <4>2 DEF TypeOK, Depth
  <2> QED
    BY <1>3, <2>4, <2>6, <2>7, <2>8, <2>9 DEF Play
<1> QED
  BY <1>1, <1>2, <1>3

THEOREM BusInvariant == Spec => []IInv
<1>1. IInv /\ [Next]_vars => IInv'
  <2> SUFFICES ASSUME IInv, [Next]_vars PROVE IInv'
    OBVIOUS
  <2>1. CASE Next
    BY <2>1, PumpStep, LookStep, TakeStep DEF Next, Render
  <2>2. CASE UNCHANGED vars
    BY <2>2 DEF vars, IInv, TypeOK, EpochsLag, OldKnown, SilentWhen, FirstBlock,
       EpochReserved, EpochsLeft, Depth, RequiredInput, ring, pump,
       settings, flags, dsp, call, history
  <2> QED
    BY <2>1, <2>2
<1> QED
  BY BusInit, <1>1, PTL DEF Spec

(* Type correctness: the ring never holds more than its capacity, and the  *)
(* headroom a publish was given stays true.                                *)
THEOREM BusTypes == Spec => []TypeOK
<1>1. IInv => TypeOK
  BY DEF IInv
<1> QED
  BY <1>1, BusInvariant, PTL

(* No frame from before an epoch is in the ring once the render thread has *)
(* taken note of that epoch.                                               *)
THEOREM OldTimelineGone == Spec => []BrokenTimelineDropped
<1>1. IInv => BrokenTimelineDropped
  BY DEF IInv, OldKnown, BrokenTimelineDropped
<1> QED
  BY <1>1, BusInvariant, PTL

(* The queue is never cut off while it can be heard, but at a reopening or *)
(* with fewer frames left than the kernel needs.                           *)
THEOREM SilentDrop == Spec => []DropsInSilence
<1>1. IInv => DropsInSilence
  BY DEF IInv, SilentWhen, DropsInSilence
<1> QED
  BY <1>1, BusInvariant, PTL

(* The first callback after priming does not run dry.                      *)
THEOREM FirstBlockWhole == Spec => PrimingSuffices
<1>1. IInv /\ [Next]_vars => [~(pc = "first" /\ pc' = "reset")]_vars
  <2> SUFFICES ASSUME IInv, Next, pc = "first", pc' = "reset"
               PROVE  FALSE
    OBVIOUS
  <2>1. CASE Play
    <3>1. PICK r \in Produced(frames) :
            r.made # frames => pc' = "reset"
      BY <2>1 DEF Play
    <3>2. TypeOK /\ frames \in Nat /\ frames > 0 /\ Depth >= RequiredInput(frames)
      BY DEF IInv, TypeOK, SilentWhen, FirstBlock
    <3>3. \A q \in Produced(frames) : q.made = frames
      BY <3>2, ProducedOk
    <3>4. pc' = "idle"
      BY <2>1, <3>3 DEF Play
    <3> QED
      BY <3>4
  <2>2. CASE \/ PublishBegin \/ PublishFrames \/ PublishOverflow \/ RequestReset
    BY <2>2 DEF PublishBegin, PublishFrames, PublishOverflow, RequestReset, call
  <2>3. CASE Next /\ ~Play
    BY <2>2, <2>3 DEF Next, Render, OnRenderFormat, OnRenderPeriod, RenderBegin,
       FormatEpoch, CheckEpoch, CheckDepth, AlreadySilent, FadeProduce,
       FinishBreak, ResetConsumer, KeepPriming, StopPriming
  <2> QED
    BY <2>1, <2>3
<1> QED
  BY BusInvariant, <1>1, PTL DEF Spec, PrimingSuffices

-----------------------------------------------------------------------------
(* OutputRecovery: the worker of one output.                               *)

(* The state a stream shows at each step of its worker, and why it ends.   *)
Shown ==
  /\ wPc \in {"none", "open", "gate", "exclusive", "shared", "failed",
              "start", "loop", "close", "ended"}
  /\ wPc \notin {"none", "loop", "close", "ended"} => state = "Opening"
  /\ wPc = "loop" => state = "Running"
  /\ wPc \in {"close", "ended"} =>
       state = "Failed" \/ (state = "Running" /\ (wantsRetry \/ quit))
  /\ wPc = "none" => state = "Failed" \/ (state = "Stopped" /\ quit)

(* A client is held from its opening to its closing, in the mode that the  *)
(* flag says.                                                              *)
Held ==
  /\ held \in {"none", "shared", "exclusive"}
  /\ held # "none" => /\ wPc \in {"start", "loop", "close"}
                      /\ exclusive <=> held = "exclusive"
  /\ wPc \in {"start", "loop"} => held # "none"
  /\ wPc = "close" /\ state = "Running" => held # "none"

(* A worker is asked to stop by a thread that has the lock and joins it.   *)
Asked ==
  /\ quit => uiPc = "join" \/ supPc \in {"yield", "restart"}
  /\ uiPc = "join" => lock = "ui"
  /\ supPc \in {"yield", "retry", "restart"} => lock = "sup"

WorkerInv == Shown /\ Held /\ Asked

LEMMA WorkerInvInit == Worker!Init => WorkerInv
  BY DEF Worker!Init, WorkerInv, Shown, Held, Asked

LEMMA WorkerInvStep == WorkerInv /\ [Worker!Next]_Worker!vars => WorkerInv'
<1> SUFFICES ASSUME WorkerInv, [Worker!Next]_Worker!vars PROVE WorkerInv'
  OBVIOUS
<1> USE DEF WorkerInv, Shown, Held, Asked
<1>1. ASSUME UNCHANGED <<state, exclusive, wantsRetry, quit, wPc, held, lock,
                         uiPc, supPc>>
      PROVE  WorkerInv'
  BY <1>1
<1>2. CASE Worker!DevicesChange \/ Worker!DefaultChanges \/ Worker!Notify
  BY <1>1, <1>2 DEF Worker!DevicesChange, Worker!DefaultChanges,
     Worker!Notify, Worker!NotifyDevices, Worker!NotifyDefault,
     Worker!WinFrame, Worker!uiVars, Worker!supVars, Worker!streamVars,
     Worker!workVars
<1>3. CASE Worker!UiCall
  BY <1>3 DEF Worker!UiCall, Worker!SetExclusiveOutput,
     Worker!SetOutputDevice, Worker!Edit, Worker!AskStop, Worker!supVars,
     Worker!streamVars, Worker!workVars
<1>4. CASE Worker!UiRestart
  BY <1>4 DEF Worker!UiRestart, Worker!StartWorker, Worker!Joined,
     Worker!supVars
<1>5. CASE Worker!SupStep \/ Worker!SupPoll
  <2> USE DEF Worker!SupFrame, Worker!StreamAlone, Worker!uiVars,
              Worker!streamVars, Worker!workVars
  <2>1. CASE Worker!SupWake \/ Worker!SupPoll \/ Worker!SupSettled
    BY <2>1 DEF Worker!SupWake, Worker!SupPoll, Worker!SupSettled
  <2>2. CASE Worker!SupPassivity \/ Worker!SupRetry
    BY <2>2 DEF Worker!SupPassivity, Worker!SupRetry, Worker!AskStop
  <2>3. CASE Worker!SupYield \/ Worker!SupRestart
    BY <2>3 DEF Worker!SupYield, Worker!SupRestart, Worker!StartWorker,
       Worker!Joined
  <2> QED
    BY <1>5, <2>1, <2>2, <2>3 DEF Worker!SupStep
<1>6. CASE Worker!WorkerStep \/ Worker!WError
  <2> USE DEF Worker!WorkFrame, Worker!uiVars, Worker!supVars
  <2>1. CASE Worker!WResolve \/ Worker!WGate
    BY <2>1 DEF Worker!WResolve, Worker!WGate
  <2>2. CASE Worker!WExclusive \/ Worker!WShared
    BY <2>2 DEF Worker!WExclusive, Worker!WShared
  <2>3. CASE Worker!WFailed \/ Worker!WStart
    BY <2>3 DEF Worker!WFailed, Worker!WStart
  <2>4. CASE Worker!WQuit \/ Worker!WGone \/ Worker!WError
    BY <2>4 DEF Worker!WQuit, Worker!WGone, Worker!WError, Worker!LoopFails
  <2>5. CASE Worker!WClose \/ Worker!WEnd
    BY <2>5 DEF Worker!WClose, Worker!WEnd
  <2> QED
    BY <1>6, <2>1, <2>2, <2>3, <2>4, <2>5 DEF Worker!WorkerStep
<1>7. CASE UNCHANGED Worker!vars
  BY <1>1, <1>7 DEF Worker!vars, Worker!uiVars, Worker!supVars,
     Worker!streamVars, Worker!workVars
<1> QED
  BY <1>2, <1>3, <1>4, <1>5, <1>6, <1>7 DEF Worker!Next

THEOREM WorkerInvariant == Worker!Spec => []WorkerInv
  BY WorkerInvInit, WorkerInvStep, PTL DEF Worker!Spec

(* The passivity check never yields a shared stream, and never overlooks   *)
(* an exclusive one that plays, although it reads the flags of a worker    *)
(* that runs; at most it stops a worker that has just closed its client.   *)
THEOREM HoldsAreKnown == Worker!Spec => []Worker!HoldIsKnown
<1>1. WorkerInv => Worker!HoldIsKnown
  BY DEF WorkerInv, Shown, Held, Worker!HoldIsKnown
<1> QED
  BY <1>1, WorkerInvariant, PTL

(* A dead stream always shows the state that ShouldRestart looks for:      *)
(* whichever error ended the worker, and whenever it was asked to stop,    *)
(* no output is left Stopped, Opening or Running without a worker.         *)
THEOREM NoWorkerEndsUnseen == Worker!Spec => []Worker!EndsAreFailures
<1>1. WorkerInv => Worker!EndsAreFailures
  BY DEF WorkerInv, Shown, Asked, Worker!EndsAreFailures
<1> QED
  BY <1>1, WorkerInvariant, PTL
=============================================================================
