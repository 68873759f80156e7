----------------------------- MODULE OutputBus -----------------------------
(***************************************************************************)
(* One output's queue between the mix pump and a render device             *)
(* (OutputBus): the timeline epoch, the fade that ends a broken timeline,  *)
(* priming, the latency trim and starvation.                               *)
(*                                                                         *)
(* Every load of a variable another thread writes -- the epoch, the        *)
(* cursors -- is a step of its own.  presence_ is counted in FadeEnvelope's *)
(* steps of 1/fade.                                                        *)
(***************************************************************************)
EXTENDS TimelineQueue

CONSTANTS
  Target,          \* targetFrames_
  Block,           \* kProducerBlockFrames
  Fade,            \* frames of a full fade
  Periods,         \* buffer and period lengths a device may announce
  MaxEpoch         \* bound: timeline breaks

ASSUME BusAssumption ==
  /\ Capacity \in Nat \ {0} /\ History \in 1 .. Capacity
  /\ Target \in History .. Capacity                       \* usableTarget
  /\ Block \in Nat \ {0} /\ Fade \in Nat \ {0} /\ MaxEpoch \in Nat
  /\ Periods \subseteq Nat \ {0}
  /\ RatioKnown

VARIABLES
  pPc, pSpace,     \* the pump inside publish()
  seen,            \* seenEpoch_
  target,          \* effectiveTargetFrames_
  buffer,          \* the device's buffer; 0 before it is opened
  priming,         \* priming_
  breaking,        \* timelineBreakPending_
  trimming,        \* latencyTrimPending_
  presence,        \* presence_.value()
  pc, frames,      \* the render thread inside renderMix(frames)
  loaded,          \* the epoch it loaded
  keep,            \* argument of resetConsumer
  cut,             \* history: this reset may cut audio off (see below)
  crossed,         \* history: a fade ran into the next timeline
  lead             \* history: blocks published since the last depth check

ring == <<old, new>>
pump == <<pPc, pSpace>>
settings == <<seen, target, buffer>>
flags == <<priming, breaking, trimming>>
dsp == <<presence, primed>>
call == <<pc, frames, loaded, keep>>
history == <<cut, crossed, lead>>
vars == <<ring, epoch, pump, settings, flags, dsp, call, history>>

MaxPeriods == 3        \* a device's buffer holds no more periods than that

Reserve == Most(1, Target \div 4)
Unclamped(n) == Most(RequiredInput(n), Target) + Reserve       \* mutant
CallbackTarget(n) ==                       \* setCallbackTarget
  Least(Most(RequiredInput(n), Target) + Reserve, Capacity)

HighWater == Least(Capacity, target + Most(target, 2 * Block))

ReadyToFade == FALSE                       \* mutant: drop at once
CanFade == ~priming /\ presence > 0 /\ Depth >= History

ExactDepth(n) == target                    \* mutant: ignores the callback
PrimedDepth(n) == Most(target, RequiredInput(n))

Init ==
  /\ QueueInit /\ pPc = "idle" /\ pSpace = 0
  /\ seen = 0 /\ target = Target /\ buffer = 0
  /\ priming = TRUE /\ breaking = FALSE /\ trimming = FALSE
  /\ presence = 0
  /\ pc = "idle" /\ frames = 0 /\ loaded = 0 /\ keep = 0
  /\ cut = FALSE /\ crossed = FALSE /\ lead = 0

-----------------------------------------------------------------------------
(* The mix pump.                                                           *)

(* The epochs left, less the one a publish under way will need.            *)
EpochsLeft ==
  MaxEpoch - epoch - (IF pPc = "overflow" \/ (pPc = "write" /\ pSpace < Block)
                      THEN 1 ELSE 0)

PublishBegin ==
  /\ pPc = "idle"
  /\ Capacity - Depth < Block => EpochsLeft > 0
  /\ pPc' = "write" /\ pSpace' = Capacity - Depth
  /\ UNCHANGED <<ring, epoch, settings, flags, dsp, call, history>>

(* A block that does not fit is cut off; only then is the break announced. *)
MaxLead == 2                               \* see PrimingEnds

Written == Least(pSpace, Block)

PublishFrames ==
  /\ pPc = "write"
  /\ new' = new + Written
  /\ pPc' = IF pSpace < Block THEN "overflow" ELSE "idle"
  /\ pSpace' = 0
  /\ lead' = Least(lead + 1, MaxLead + 1)
  /\ UNCHANGED <<old, epoch, settings, flags, dsp, call, cut, crossed>>

PublishOverflow ==
  /\ pPc = "overflow"
  /\ NextTimeline
  /\ pPc' = "idle"
  /\ UNCHANGED <<pSpace, settings, flags, dsp, call, history>>

(* requestReset: by the pump, the supervisor or a device change.           *)
RequestReset ==
  /\ EpochsLeft > 0
  /\ NextTimeline
  /\ UNCHANGED <<pump, settings, flags, dsp, call, history>>

-----------------------------------------------------------------------------
(* The render thread.                                                      *)

(* The device is (re)opened: its buffer sets the target, the queue is      *)
(* dropped, and then the period it announces sets the target again.        *)
OnRenderFormat(b) ==
  /\ pc = "idle"
  /\ target' = CallbackTarget(b) /\ buffer' = b
  /\ pc' = "format"
  /\ UNCHANGED <<ring, epoch, pump, seen, flags, dsp, frames, loaded, keep,
                 history>>

FormatEpoch ==
  /\ pc = "format"
  /\ seen' = epoch /\ pc' = "formatReset" /\ keep' = 0 /\ cut' = TRUE
  /\ UNCHANGED <<ring, epoch, pump, target, buffer, flags, dsp, frames, loaded,
                 crossed, lead>>

OnRenderPeriod(b) ==
  /\ pc = "period" /\ b <= buffer /\ buffer <= MaxPeriods * b
  /\ target' = CallbackTarget(b) /\ pc' = "idle"
  /\ UNCHANGED <<ring, epoch, pump, seen, buffer, flags, dsp, frames, loaded,
                 keep, history>>

RenderBegin(n) ==
  /\ pc = "idle" /\ n <= buffer
  /\ pc' = "epoch" /\ frames' = n /\ loaded' = epoch
  /\ UNCHANGED <<ring, epoch, pump, settings, flags, dsp, keep, history>>

(* A new epoch: fade on what is queued, or drop it when that cannot be     *)
(* heard or is too short to interpolate.                                   *)
CheckEpoch ==
  /\ pc = "epoch"
  /\ \/ /\ loaded = seen \/ breaking
        /\ pc' = "depth"
        /\ UNCHANGED <<seen, breaking, keep, cut>>
     \/ /\ loaded # seen /\ ~breaking /\ CanFade
        /\ breaking' = TRUE /\ pc' = "depth"
        /\ UNCHANGED <<seen, keep, cut>>
     \/ /\ loaded # seen /\ ~breaking /\ ~CanFade
        /\ seen' = loaded /\ pc' = "reset" /\ keep' = 0
        /\ cut' = (Depth < History)
        /\ UNCHANGED breaking
  /\ UNCHANGED <<ring, epoch, pump, target, buffer, priming, trimming, dsp, frames,
                 loaded, crossed, lead>>

NeverTooDeep == FALSE                      \* mutant: no latency trim
TooDeep == Depth > HighWater

CheckDepth ==
  /\ pc = "depth"
  /\ trimming' = (trimming \/ (~breaking /\ TooDeep))
  /\ breaking' = (breaking \/ TooDeep)
  /\ pc' = IF breaking' THEN "fade" ELSE "play"
  /\ lead' = 0
  /\ UNCHANGED <<ring, epoch, pump, settings, priming, dsp, frames, loaded,
                 keep, cut, crossed>>

-----------------------------------------------------------------------------
(* Fading out, over several callbacks when they are short.                 *)

FadeRequest == Least(frames, presence)

AlreadySilent ==
  /\ pc = "fade" /\ FadeRequest = 0
  /\ pc' = "finish"
  /\ UNCHANGED <<ring, epoch, pump, settings, flags, dsp, frames, loaded,
                 keep, history>>

(* The taper holds its slope when the queue lasts, and lands on the last   *)
(* frame when it does not.                                                 *)
Faded(made) == IF made < FadeRequest THEN 0 ELSE Most(0, presence - frames)

FadeProduce ==
  /\ pc = "fade" /\ FadeRequest > 0
  /\ \E r \in Produced(FadeRequest) :
       /\ Consume(r.taken)
       /\ primed' = r.primed
       /\ presence' = Faded(r.made)
       /\ pc' = IF presence' = 0 THEN "finish" ELSE "idle"
       /\ crossed' = (~trimming /\ old > 0 /\ r.taken > old)
  /\ UNCHANGED <<epoch, pump, settings, flags, frames, loaded, keep, cut, lead>>

TailKept(e) == IF trimming THEN target ELSE 0      \* mutant: of any timeline
Tail(e) == IF trimming /\ e = seen THEN target ELSE 0

(* finishTimelineBreak: only an intact timeline keeps its newest frames.   *)
FinishBreak ==
  /\ pc = "finish"
  /\ keep' = Tail(epoch)
  /\ seen' = epoch
  /\ pc' = "reset" /\ cut' = FALSE
  /\ UNCHANGED <<ring, epoch, pump, target, buffer, flags, dsp, frames,
                 loaded, crossed, lead>>

ResetConsumer ==
  /\ pc \in {"reset", "formatReset"}
  /\ Consume(Depth - Least(Depth, keep))
  /\ primed' = FALSE /\ presence' = 0
  /\ priming' = TRUE /\ breaking' = FALSE /\ trimming' = FALSE
  /\ pc' = IF pc = "reset" THEN "idle" ELSE "period"
  /\ cut' = FALSE
  /\ UNCHANGED <<epoch, pump, settings, frames, loaded, keep, crossed,
                 lead>>

-----------------------------------------------------------------------------
(* Playing.                                                                *)

KeepPriming ==
  /\ pc = "play" /\ priming
  /\ RequiredInput(frames) > Capacity \/ Depth < PrimedDepth(frames)
  /\ pc' = "idle"
  /\ UNCHANGED <<ring, epoch, pump, settings, flags, dsp, frames, loaded,
                 keep, history>>

StopPriming ==
  /\ pc = "play" /\ priming
  /\ RequiredInput(frames) <= Capacity /\ Depth >= PrimedDepth(frames)
  /\ priming' = FALSE /\ pc' = "first"
  /\ UNCHANGED <<ring, epoch, pump, settings, breaking, trimming, dsp, frames,
                 loaded, keep, history>>

(* Short of input, the block ends in silence and the queue starts over.    *)
Play ==
  /\ pc = "first" \/ (pc = "play" /\ ~priming)
  /\ \E r \in Produced(frames) :
       /\ Consume(r.taken)
       /\ primed' = r.primed
       /\ IF r.made = frames
          THEN presence' = Least(Fade, presence + frames) /\ pc' = "idle"
          ELSE presence' = 0 /\ pc' = "reset"
  /\ keep' = 0
  /\ UNCHANGED <<epoch, pump, settings, flags, frames, loaded, history>>

Render ==
  \/ \E n \in 1 .. buffer : RenderBegin(n)
  \/ \E b \in Periods : OnRenderPeriod(b)
  \/ FormatEpoch \/ CheckEpoch \/ CheckDepth
  \/ AlreadySilent \/ FadeProduce \/ FinishBreak \/ ResetConsumer
  \/ KeepPriming \/ StopPriming \/ Play

Next ==
  \/ PublishBegin \/ PublishFrames \/ PublishOverflow \/ RequestReset
  \/ \E b \in Periods : OnRenderFormat(b)
  \/ Render

Spec == Init /\ [][Next]_vars

(* The pump publishes and the device calls back for ever; nothing has to   *)
(* be reset or reopened.                                                   *)
FairSpec ==
  /\ Spec
  /\ WF_vars(PublishBegin \/ PublishFrames \/ PublishOverflow)
  /\ WF_vars(Render)

-----------------------------------------------------------------------------
TypeOK ==
  /\ old \in Nat /\ new \in Nat /\ Depth <= Capacity
  /\ epoch \in 0 .. MaxEpoch /\ seen \in 0 .. MaxEpoch
  /\ pPc \in {"idle", "write", "overflow"} /\ pSpace \in 0 .. Capacity - Depth
  /\ target \in 1 .. Capacity /\ buffer \in Periods \cup {0}
  /\ priming \in BOOLEAN /\ breaking \in BOOLEAN /\ trimming \in BOOLEAN
  /\ presence \in 0 .. Fade /\ primed \in BOOLEAN
  /\ pc \in {"idle", "format", "formatReset", "period", "epoch", "depth",
             "fade", "finish", "reset", "play", "first"}
  /\ frames \in Nat /\ loaded \in 0 .. MaxEpoch
  /\ keep \in 0 .. Capacity
  /\ cut \in BOOLEAN /\ crossed \in BOOLEAN /\ lead \in 0 .. MaxLead + 1

(* Once the render thread has taken note of an epoch, no frame published   *)
(* before that epoch is left in the ring, wherever the pump was in its     *)
(* block and whatever a latency trim wanted to keep: publish() announces a *)
(* break after the frames, renderMix() loads the epoch before it drops.    *)
BrokenTimelineDropped ==
  seen = epoch /\ pc \notin {"formatReset", "reset"} => old = 0

(* The queue is only dropped in silence: after a fade, after running dry,  *)
(* or (`cut') when the device was reopened or had too few frames left to   *)
(* interpolate.                                                            *)
DropsInSilence == pc = "reset" => presence = 0 \/ cut

(* The callback that leaves priming has input for all its frames, at any   *)
(* ratio the rate controller may choose between its bounds.                *)
PrimingSuffices == [][~(pc = "first" /\ pc' = "reset")]_vars

(* A branch that is priming starts to play, as long as the pump publishes  *)
(* and is not, from one callback to the next, more than two blocks faster: *)
(* its threshold, the latency trim and the ring's capacity never hold each *)
(* other up.                                                               *)
PrimingEnds ==
  <>[](lead <= MaxLead) =>
    (buffer > 0 /\ priming ~> ~priming \/ pc = "format")

(* A backlog left by a late render thread is fetched in.                   *)
BacklogTrimmed ==
  buffer > 0 /\ Depth > HighWater ~> Depth <= HighWater \/ pc = "format"

(* What the comments of renderMix say of the fade: it is spent on the old  *)
(* timeline and lands on its end when that runs out.  It does not hold.    *)
FadeStaysOnTimeline == ~crossed
=============================================================================
