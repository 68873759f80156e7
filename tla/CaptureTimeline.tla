-------------------------- MODULE CaptureTimeline --------------------------
(***************************************************************************)
(* One capture channel, from the packets of its device to the mix: the     *)
(* capture worker (CaptureStream::drainPackets and the life around it)     *)
(* fills a ring that the mix pump (AudioEngine::renderMix, and             *)
(* handleMixPumpDiscontinuity after missed periods) empties.               *)
(*                                                                         *)
(* The pump learns what the worker is doing from four variables it loads   *)
(* one after the other -- epoch, flowing, state and the ring's depth --    *)
(* while the worker goes on; each load, and each store of the worker, is   *)
(* a step.  The restarting thread (supervisor or UI) is abstracted to the  *)
(* order of its stores; who restarts when is CaptureRecovery.              *)
(*                                                                         *)
(* A fade is no longer than a pump block, so between blocks the channel is *)
(* either silent or at full presence.  The nominal rate of the capture     *)
(* device and the buffer setting do not change.                            *)
(***************************************************************************)
EXTENDS TimelineQueue

CONSTANTS
  Target,          \* targetDepth, of the buffer setting
  Block,           \* kMixBlockFrames
  Fade,            \* frames of a full fade
  Packets,         \* lengths of the device's packets
  MaxEpoch         \* bound: timeline breaks

ASSUME ChannelAssumption ==
  /\ Capacity \in Nat \ {0} /\ History \in 1 .. Capacity
  /\ Target \in History .. Capacity
  /\ Block \in Nat \ {0}
  /\ Fade \in 1 .. Block                \* 5 ms of a block of 10 ms
  /\ Packets \subseteq Nat \ {0}
  /\ MaxEpoch \in Nat
  /\ RatioKnown

VARIABLES
  state, flowing,  \* CaptureStream atomics
  wPc, wFrames,    \* capture worker: its packet, or what it may write of it
  wCut,            \* the packet does not fit
  recent,          \* the last packet, or the opening, is not long ago
  pc,              \* mix pump inside a block
  lastEpoch,       \* the channel's: epoch it has taken note of,
  priming,         \*   waiting for the target depth,
  breaking,        \*   timelineBreakPending,
  audible,         \*   presence is not zero,
  lastDepth,       \*   lastObservedDepth
  loaded,          \* what this block has loaded: the epoch,
  sawFlowing, sawRunning, depth,  \* flowing, state = Running, the depth
  unjudged,        \* history: frames since the last idle verdict ...
  sawUnjudged,     \* ... when the pump loaded flowing
  cut              \* history: this block has cut audio off

workVars == <<state, flowing, wPc, wFrames, wCut, recent>>
chanVars == <<lastEpoch, priming, breaking, audible, lastDepth>>
loadVars == <<loaded, sawFlowing, sawRunning, depth>>
history  == <<unjudged, sawUnjudged, cut>>
vars == <<queueVars, workVars, pc, chanVars, loadVars, history>>

Init ==
  /\ QueueInit
  /\ state = "Stopped" /\ flowing = FALSE
  /\ wPc = "none" /\ wFrames = 0 /\ wCut = FALSE /\ recent = FALSE
  /\ pc = "idle" /\ lastEpoch = 0
  /\ priming = TRUE /\ breaking = FALSE /\ audible = FALSE /\ lastDepth = 0
  /\ loaded = 0 /\ sawFlowing = FALSE /\ sawRunning = FALSE /\ depth = 0
  /\ unjudged = FALSE /\ sawUnjudged = FALSE /\ cut = FALSE

-----------------------------------------------------------------------------
(* Starting and stopping the capture: stopLocked's store after the join,   *)
(* then start's new epoch, and only then Opening.                          *)

StreamFrame == UNCHANGED <<pc, chanVars, loadVars, sawUnjudged, cut>>
SameQueue == UNCHANGED queueVars

(* The breaks left, less the one that a packet under way will need.        *)
BreaksLeft == MaxEpoch - epoch - (IF wCut THEN 1 ELSE 0)

Stopped ==
  /\ wPc = "none" /\ state # "Stopped"
  /\ state' = "Stopped" /\ flowing' = FALSE
  /\ UNCHANGED <<wPc, wFrames, wCut, recent, unjudged>>
  /\ SameQueue /\ StreamFrame

StartEpoch ==
  /\ wPc = "none" /\ state = "Stopped" /\ BreaksLeft > 0
  /\ NextTimeline
  /\ wPc' = "starting"
  /\ UNCHANGED <<primed, state, flowing, wFrames, wCut, recent, unjudged>>
  /\ StreamFrame

StartOpening ==
  /\ wPc = "starting" /\ wPc' = "open" /\ state' = "Opening"
  /\ UNCHANGED <<flowing, wFrames, wCut, recent, unjudged>>
  /\ SameQueue /\ StreamFrame

(* openDevice succeeds, or fails.                                          *)
Opened ==
  /\ wPc = "open"
  /\ \/ state' = "Running" /\ wPc' = "loop" /\ recent' = TRUE
     \/ state' = "Failed" /\ wPc' = "closing" /\ UNCHANGED recent
  /\ UNCHANGED <<flowing, wFrames, wCut, unjudged>>
  /\ SameQueue /\ StreamFrame

-----------------------------------------------------------------------------
(* The capture worker's packet loop.                                       *)

(* A packet of n frames, which may not follow the previous one.            *)
Packet(n, discontinuity) ==
  /\ wPc = "loop" /\ wPc' = "space" /\ wFrames' = n
  /\ IF discontinuity
     THEN BreaksLeft > 0 /\ NextTimeline /\ UNCHANGED primed
     ELSE SameQueue
  /\ UNCHANGED <<state, flowing, wCut, recent, unjudged>>
  /\ StreamFrame

Writable(n) == Least(Capacity - Depth, n)

Space ==
  /\ wPc = "space" /\ wPc' = "flowing"
  /\ wCut' = (Capacity - Depth < wFrames)
  /\ wCut' => BreaksLeft > 0
  /\ wFrames' = Writable(wFrames)
  /\ UNCHANGED <<state, flowing, recent, unjudged>>
  /\ SameQueue /\ StreamFrame

(* The two stores of a packet: liveness first, then the frames.            *)
FramesFirst == [flowing |-> "publish", publish |-> "flowing"]    \* mutant
StoreOrder  == [flowing |-> "flowing", publish |-> "publish"]

StoreFlowing ==
  /\ wPc \in {"flowing", "publish"} /\ StoreOrder[wPc] = "flowing"
  /\ wPc' = IF wPc = "flowing" THEN "publish" ELSE "published"
  /\ flowing' = TRUE /\ recent' = TRUE
  /\ UNCHANGED <<state, wFrames, wCut, unjudged>>
  /\ SameQueue /\ StreamFrame

StoreFrames ==
  /\ wPc \in {"flowing", "publish"} /\ StoreOrder[wPc] = "publish"
  /\ wPc' = IF wPc = "flowing" THEN "publish" ELSE "published"
  /\ new' = new + wFrames
  /\ unjudged' = TRUE
  /\ UNCHANGED <<old, epoch, primed, state, flowing, wFrames, wCut, recent>>
  /\ StreamFrame

(* What did not fit is lost, and the timeline with it.                     *)
Published ==
  /\ wPc = "published" /\ wPc' = "loop" /\ wFrames' = 0 /\ wCut' = FALSE
  /\ IF wCut THEN NextTimeline /\ UNCHANGED primed ELSE SameQueue
  /\ UNCHANGED <<state, flowing, recent, unjudged>>
  /\ StreamFrame

(* After the packets: has kIdleAfterSeconds passed since the last of them? *)
Verdict ==
  /\ wPc = "loop"
  /\ \E v \in {recent, FALSE} :
       /\ flowing' = v /\ recent' = v /\ unjudged' = (v /\ unjudged)
  /\ UNCHANGED <<state, wPc, wFrames, wCut>>
  /\ SameQueue /\ StreamFrame

(* The loop ends, on an error or told to stop.                             *)
LoopEnds ==
  /\ wPc = "loop" /\ wPc' = "closing"
  /\ state' \in {state, "Failed"}
  /\ UNCHANGED <<flowing, wFrames, wCut, recent, unjudged>>
  /\ SameQueue /\ StreamFrame

Closed ==
  /\ wPc = "closing" /\ wPc' = "none"
  /\ flowing' = FALSE /\ recent' = FALSE /\ unjudged' = FALSE
  /\ UNCHANGED <<state, wFrames, wCut>>
  /\ SameQueue /\ StreamFrame

PacketStep == Space \/ StoreFlowing \/ StoreFrames \/ Published
Worker ==
  \/ Stopped \/ StartEpoch \/ StartOpening \/ Opened
  \/ \E n \in Packets : \E d \in BOOLEAN : Packet(n, d)
  \/ PacketStep \/ Verdict \/ LoopEnds \/ Closed

-----------------------------------------------------------------------------
(* The mix pump, one block.                                                *)

PumpFrame == UNCHANGED <<workVars, unjudged, sawUnjudged>>

(* resetTimeline's effect on the channel, once the ring is dropped.        *)
Reset == priming' = TRUE /\ breaking' = FALSE /\ lastDepth' = 0

LoadEpoch ==
  /\ pc = "idle" /\ pc' = "epoch" /\ loaded' = epoch /\ cut' = FALSE
  /\ UNCHANGED <<sawFlowing, sawRunning, depth, chanVars, queueVars>>
  /\ PumpFrame

CanFade == audible /\ Depth >= History

CheckEpoch ==
  /\ pc = "epoch"
  /\ lastEpoch' = loaded
  /\ pc' = IF loaded = lastEpoch \/ CanFade THEN "flowing" ELSE "drop"
  /\ breaking' = (breaking \/ (loaded # lastEpoch /\ CanFade))
  /\ cut' = (pc' = "drop" /\ audible)
  /\ UNCHANGED <<priming, audible, lastDepth, loadVars, queueVars>>
  /\ PumpFrame

(* A broken timeline that nobody hears, or too short to fade.              *)
Drop ==
  /\ pc = "drop" /\ pc' = "flowing"
  /\ Consume(Depth) /\ primed' = FALSE
  /\ Reset
  /\ UNCHANGED <<epoch, lastEpoch, audible, loadVars, cut>>
  /\ PumpFrame

LoadFlowing ==
  /\ pc = "flowing" /\ pc' = "state"
  /\ sawFlowing' = flowing /\ sawUnjudged' = unjudged
  /\ UNCHANGED <<loaded, sawRunning, depth, chanVars, cut, queueVars,
                 workVars, unjudged>>

LoadState ==
  /\ pc = "state" /\ pc' = "depth"
  /\ sawRunning' = (state = "Running")
  /\ UNCHANGED <<loaded, sawFlowing, depth, chanVars, cut, queueVars>>
  /\ PumpFrame

StoppingFade == (breaking \/ ~sawRunning) /\ audible /\ Depth >= History
Live == ~breaking /\ sawRunning /\ (sawFlowing \/ Depth > 0)

LoadDepth ==
  /\ pc = "depth"
  /\ depth' = Depth
  /\ pc' = IF StoppingFade THEN "fade" ELSE IF Live THEN "prime" ELSE "silent"
  /\ IF pc' = "silent" THEN lastDepth' = Depth /\ priming' = TRUE
                       ELSE UNCHANGED <<lastDepth, priming>>
  /\ UNCHANGED <<loaded, sawFlowing, sawRunning, lastEpoch, breaking, audible,
                 cut, queueVars>>
  /\ PumpFrame

(* Out of silence, a backlog is not played from its oldest frame.          *)
Backlog == depth > Target + RequiredInput(Block)

TrimBacklog ==
  /\ pc = "prime" /\ priming /\ ~audible /\ Backlog
  /\ Consume(Depth - Target) /\ primed' = FALSE
  /\ depth' = Target
  /\ UNCHANGED <<epoch, pc, chanVars, loaded, sawFlowing, sawRunning, cut>>
  /\ PumpFrame

NoTail == FALSE                           \* mutant: waits for more
StableIdleTail == ~sawFlowing /\ depth >= History /\ depth = lastDepth
DeeperThanTrim == depth > Target + RequiredInput(Block)     \* mutant
TargetReached == depth >= Target

Prime ==
  /\ pc = "prime" /\ ~(priming /\ ~audible /\ Backlog)
  /\ lastDepth' = depth
  /\ priming' = (priming /\ ~TargetReached /\ ~StableIdleTail)
  /\ pc' = IF priming' THEN "silent" ELSE "play"
  /\ UNCHANGED <<lastEpoch, breaking, audible, loadVars, cut, queueVars>>
  /\ PumpFrame

(* A whole block, or the end of what there is with the fade landing on it. *)
Play ==
  /\ pc = "play" /\ pc' = "idle"
  /\ \E r \in Produced(Block) :
       /\ Consume(r.taken) /\ primed' = r.primed
       /\ audible' = (r.made = Block) /\ priming' = (r.made < Block)
  /\ UNCHANGED <<epoch, lastEpoch, breaking, lastDepth, loadVars, cut>>
  /\ PumpFrame

(* The last frames of a timeline or a source, as many as a fade takes.     *)
FadeOut ==
  /\ pc = "fade" /\ pc' = "reset"
  /\ \E r \in Produced(Fade) : Consume(r.taken) /\ primed' = r.primed
  /\ audible' = FALSE
  /\ UNCHANGED <<epoch, lastEpoch, priming, breaking, lastDepth, loadVars,
                 cut>>
  /\ PumpFrame

OnlyBroken == breaking                    \* mutant: a dead source keeps frames
DropAtEnd == breaking \/ ~sawRunning

Silent ==
  /\ pc = "silent" /\ audible' = FALSE
  /\ pc' = IF DropAtEnd THEN "reset" ELSE "idle"
  /\ UNCHANGED <<lastEpoch, priming, breaking, lastDepth, loadVars, cut,
                 queueVars>>
  /\ PumpFrame

ResetTimeline ==
  /\ pc = "reset" /\ pc' = "idle"
  /\ Consume(Depth) /\ primed' = FALSE
  /\ Reset
  /\ UNCHANGED <<epoch, lastEpoch, audible, loadVars, cut>>
  /\ PumpFrame

-----------------------------------------------------------------------------
(* handleMixPumpDiscontinuity, before a block that is late by periods.     *)

LoadGapEpoch ==
  /\ pc = "idle" /\ pc' = "gap" /\ loaded' = epoch
  /\ UNCHANGED <<sawFlowing, sawRunning, depth, chanVars, cut, queueVars>>
  /\ PumpFrame

PresenceKept == audible                   \* mutant: no presence.reset
TailOfAnything == Least(Depth, Target)    \* mutant: epoch not compared
GapTail == IF loaded = lastEpoch THEN Least(Depth, Target) ELSE 0

GapPresence == FALSE                      \* presence.reset(0)

SkipGap ==
  /\ pc = "gap" /\ pc' = "idle"
  /\ Consume(Depth - GapTail) /\ primed' = FALSE
  /\ Reset /\ audible' = GapPresence /\ lastEpoch' = loaded
  /\ UNCHANGED <<epoch, loadVars, cut>>
  /\ PumpFrame

PumpStep ==
  \/ LoadEpoch \/ CheckEpoch \/ Drop \/ LoadFlowing \/ LoadState \/ LoadDepth
  \/ TrimBacklog \/ Prime \/ Play \/ FadeOut \/ Silent \/ ResetTimeline
  \/ SkipGap

Next == Worker \/ PumpStep \/ LoadGapEpoch

Spec == Init /\ [][Next]_vars

(* The pump has a deadline every 10 ms and the worker finishes what it has *)
(* begun; no packet, verdict, failure or restart has to come.  The machine *)
(* keeps up in the end: a pump that is late for every block resets the     *)
(* channel every time.                                                     *)
OnTime == <>[](pc # "gap")
FairSpec == Spec /\ WF_vars(PumpStep) /\ WF_vars(PacketStep) /\ OnTime

-----------------------------------------------------------------------------
TypeOK ==
  /\ old \in Nat /\ new \in Nat /\ Depth <= Capacity
  /\ wPc \in {"flowing", "publish"} => Depth + wFrames <= Capacity
  /\ epoch \in 0 .. MaxEpoch /\ lastEpoch \in Nat /\ loaded \in Nat
  /\ state \in {"Stopped", "Opening", "Running", "Failed"}
  /\ wPc \in {"none", "starting", "open", "loop", "space", "flowing",
              "publish", "published", "closing"}
  /\ wFrames \in Nat
  /\ pc \in {"idle", "epoch", "drop", "flowing", "state", "depth", "prime",
             "play", "fade", "silent", "reset", "gap"}
  /\ lastDepth \in 0 .. Capacity /\ depth \in 0 .. Capacity
  /\ primed \in BOOLEAN /\ flowing \in BOOLEAN /\ wCut \in BOOLEAN
  /\ recent \in BOOLEAN /\ priming \in BOOLEAN /\ breaking \in BOOLEAN
  /\ audible \in BOOLEAN /\ sawFlowing \in BOOLEAN
  /\ sawRunning \in BOOLEAN /\ unjudged \in BOOLEAN
  /\ sawUnjudged \in BOOLEAN /\ cut \in BOOLEAN

(* Once the pump has taken note of an epoch, no frame from before it is    *)
(* mixed or kept, whether it was announced before its packet (a            *)
(* discontinuity), after it (an overflow) or between two threads (a        *)
(* restart), and whatever a late pump wanted to keep.                      *)
BrokenTimelineDropped ==
  pc \in {"idle", "play"} /\ lastEpoch = epoch => old = 0

(* A channel that was interrupted -- starved, faded out, dropped, or       *)
(* skipped by a late pump while it could be heard -- comes back with a     *)
(* fade-in: it leaves priming in silence.  Except in the block (`cut') that*)
(* has dropped a broken timeline too short to fade: renderMix leaves its   *)
(* presence up, and packets that arrive between the drop and the load of   *)
(* the depth can end priming at once.                                      *)
Resumes == pc = "prime" /\ pc' = "play" /\ priming
FadedInUnlessCut == [][Resumes => ~audible \/ cut]_vars

(* Without the exception it does not hold, although AudioEngine.cpp:505    *)
(* means a gap not to click at either edge.                                *)
AlwaysFadedIn == [][Resumes => ~audible]_vars

(* Priming is cut short only for what the worker has declared to be the    *)
(* end of a sound: if frames that it has not judged were there when the    *)
(* pump loaded flowing, the pump saw it flowing, since drainPackets stores *)
(* flowing before it publishes.                                            *)
Bypass == pc = "prime" /\ pc' = "play" /\ priming /\ ~TargetReached
BypassOnlyIdle == [][Bypass => ~sawUnjudged]_vars

(* A sound that ends is played to its end, even one shorter than the       *)
(* target depth: the frames that stay behind cannot be interpolated.       *)
TailPlayed ==
  <>[](wPc = "loop" /\ ~flowing) => <>[](Depth < History)

(* While packets keep coming the channel keeps coming out of priming: the  *)
(* trim, the threshold and the reset never hold each other up.             *)
PrimingEnds ==
  <>[](state = "Running") /\ []<>(wPc = "published") => []<>~priming

(* A source that is gone leaves nothing behind that a later one could      *)
(* replay, and no channel at full presence.                                *)
DeadIsSilent ==
  <>[](state \notin {"Running", "Opening"}) => <>[](~audible /\ Depth = 0)
=============================================================================
