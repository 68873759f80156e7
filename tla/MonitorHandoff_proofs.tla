------------------------ MODULE MonitorHandoff_proofs ------------------------
(***************************************************************************)
(* Proofs about MonitorHandoff, for any number of outputs, any bus size    *)
(* and any number of calls and failures.                                   *)
(***************************************************************************)
EXTENDS MonitorHandoff, TLAPS

-----------------------------------------------------------------------------
(* Type correctness.                                                       *)

LEMMA StateType ==
  /\ NoState \in MonState
  /\ \A s \in MonState, b \in BOOLEAN : NextState(s, b) \in MonState
  /\ \A s \in MonState : Paused(s) \in MonState
<1>1. NoState \in MonState
  BY DEF MonState, NoState
<1>2. ASSUME NEW s \in MonState, NEW b \in BOOLEAN
      PROVE  NextState(s, b) \in MonState
  BY DEF MonState, NextState
<1>3. ASSUME NEW s \in MonState PROVE Paused(s) \in MonState
  BY DEF MonState, Paused
<1> QED
  BY <1>1, <1>2, <1>3

LEMMA InitType == Init => TypeOK
<1> SUFFICES ASSUME Init PROVE TypeOK
  OBVIOUS
<1> USE HandoffAssumption, StateType DEF Init
<1>1. /\ \A o \in Outputs : Len(bus[o]) <= BusBlocks
      /\ bus \in [Outputs -> Seq(Nat)]
  OBVIOUS
<1>2. /\ wPc \in [Outputs -> WorkerPcs] /\ wBuf \in [Outputs -> SUBSET Nat]
      /\ wanted \in [Outputs -> MonState]
      /\ rState \in [Outputs -> StreamState]
  BY DEF WorkerPcs, StreamState
<1> QED
  BY <1>1, <1>2 DEF TypeOK, UiPcs, SupPcs, PumpPcs

LEMMA UiType == TypeOK /\ (UiCall \/ UiStep) => TypeOK'
<1> USE HandoffAssumption, StateType
    DEF engineVars, wakeVars, supVars, pumpVars, streamVars, workVars, UiFrame, UiUnchangedButMon, TypeOK, UiPcs
<1> SUFFICES ASSUME TypeOK, UiCall \/ UiStep PROVE TypeOK'
  OBVIOUS
<1>1. ASSUME NEW enabled \in BOOLEAN, UiToggle(enabled) PROVE TypeOK'
  BY <1>1 DEF UiToggle, Call
<1>2. ASSUME NEW o \in Outputs, UiPick(o) PROVE TypeOK'
  <2>1. uiOut' \in Nat /\ calls' \in Nat
    BY <1>2 DEF UiPick, Call, Outputs
  <2>2. rQuit' \in [Outputs -> BOOLEAN]
    BY <1>2 DEF UiPick, AskStop
  <2>3. uiPc' \in UiPcs /\ configLock' \in {"free", "ui", "sup"}
    BY <1>2 DEF UiPick, Call
  <2> QED
    BY <1>2, <2>1, <2>2, <2>3 DEF UiPick
<1>3. ASSUME NEW goal \in {"stop", "on", "off"}, UiStop(goal) PROVE TypeOK'
  <2>1. uiOut' \in Nat /\ calls' \in Nat
    BY <1>3 DEF UiStop, Call
  <2> QED
    BY <1>3, <2>1 DEF UiStop
<1>4. CASE UiExchange
  BY <1>4 DEF UiExchange
<1>5. CASE UiNotify
  BY <1>5 DEF UiNotify, RaiseMonitoringWake
<1>6. CASE UiPickStart
  BY <1>6 DEF UiPickStart, StartWorker, StreamState, WorkerPcs
<1>7. CASE UiStopClear
  BY <1>7 DEF UiStopClear, AfterStop
<1>8. CASE UiStopSignal
  BY <1>8 DEF UiStopSignal
<1>9. CASE UiJoinSup
  BY <1>9 DEF UiJoinSup, SupPcs
<1>10. CASE UiJoinPump
  BY <1>10 DEF UiJoinPump, PumpPcs
<1>11. CASE UiStopRender
  BY <1>11 DEF UiStopRender, AskStop, AfterStop
<1>12. CASE UiStopJoin
  <2>1. uiOut' \in Nat
    BY <1>12 DEF UiStopJoin
  <2>2. rState' \in [Outputs -> StreamState]
    BY <1>12 DEF UiStopJoin, StreamState
  <2> QED
    BY <1>12, <2>1, <2>2 DEF UiStopJoin
<1>13. CASE UiOpen
  <2>1. faults' \in Nat
    BY <1>13 DEF UiOpen, Fault, NoFault
  <2>2. mon' \in MonState /\ observed' \in MonState
    BY <1>13 DEF UiOpen
  <2> QED
    BY <1>13, <2>1, <2>2 DEF UiOpen
<1>14. CASE UiStartFails
  <2>1. faults' \in Nat
    BY <1>14 DEF UiStartFails, Fault
  <2> QED
    BY <1>14, <2>1 DEF UiStartFails
<1>15. CASE UiSpawnPump
  BY <1>15 DEF UiSpawnPump, PumpPcs
<1>16. CASE UiSpawnSup
  BY <1>16 DEF UiSpawnSup, SupPcs, RaiseMonitoringWake
<1> QED
  BY <1>1, <1>2, <1>3, <1>4, <1>5, <1>6, <1>7, <1>8, <1>9, <1>10, <1>11,
     <1>12, <1>13, <1>14, <1>15, <1>16 DEF UiCall, UiStep
LEMMA SupType == TypeOK /\ (SupStep \/ SupPoll \/ Notification) => TypeOK'
<1> USE HandoffAssumption, StateType
    DEF engineVars, wakeVars, uiVars, pumpVars, streamVars, workVars, SupFrame, UiUnchangedButMon, TypeOK, SupPcs
<1> SUFFICES ASSUME TypeOK, SupStep \/ SupPoll \/ Notification
             PROVE  TypeOK'
  OBVIOUS
<1>1. CASE SupLeaveWait
  BY <1>1 DEF SupLeaveWait, SupGoto
<1>2. CASE SupDebounce
  BY <1>2 DEF SupDebounce, SupGoto
<1>3. CASE SupLoad
  BY <1>3 DEF SupLoad
<1>4. CASE SyncClear
  <2>1. supOut' \in Nat
    BY <1>4 DEF SyncClear
  <2>2. ready' \in [Outputs -> MonState]
    BY <1>4 DEF SyncClear
  <2> QED
    BY <1>4, <2>1, <2>2 DEF SyncClear
<1>5. CASE SyncAck
  BY <1>5 DEF SyncAck, SupGoto, SupAgain
<1>6. CASE SyncCheck
  <2>1. rQuit' \in [Outputs -> BOOLEAN]
    BY <1>6 DEF SyncCheck, AskStop
  <2>2. /\ supPc' \in SupPcs /\ supState' \in MonState
        /\ supOut' \in Nat /\ handled' \in MonState
    BY <1>6 DEF SyncCheck, SupGoto, SupAgain
  <2> QED
    BY <1>6, <2>1, <2>2 DEF SyncCheck
<1>7. CASE SyncStopped
  <2>1. supOut' \in Nat
    BY <1>7 DEF SyncStopped
  <2>2. ready' \in [Outputs -> MonState]
    BY <1>7 DEF SyncStopped, ReadyState
  <2>3. rState' \in [Outputs -> StreamState]
    BY <1>7 DEF SyncStopped, StreamState
  <2> QED
    BY <1>7, <2>1, <2>2, <2>3 DEF SyncStopped
<1>8. CASE SyncStart
  <2>1. supOut' \in Nat
    BY <1>8 DEF SyncStart
  <2>2. /\ rState' \in [Outputs -> StreamState]
        /\ rQuit' \in [Outputs -> BOOLEAN]
        /\ wPc' \in [Outputs -> WorkerPcs]
    BY <1>8 DEF SyncStart, StartWorker, StreamState, WorkerPcs
  <2> QED
    BY <1>8, <2>1, <2>2 DEF SyncStart
<1>9. CASE SyncStartThrows
  <2>1. faults' \in Nat
    BY <1>9 DEF SyncStartThrows, Fault
  <2>2. /\ rState' \in [Outputs -> StreamState]
        /\ rQuit' \in [Outputs -> BOOLEAN]
    BY <1>9 DEF SyncStartThrows, StreamState
  <2> QED
    BY <1>9, <2>1, <2>2 DEF SyncStartThrows, SupGoto, SupAgain
<1>10. CASE SyncRevert
  <2>1. mon' \in MonState
    BY <1>10 DEF SyncRevert
  <2>2. /\ supPc' \in SupPcs /\ supState' \in MonState
        /\ supOut' \in Nat /\ handled' \in MonState
    <3>1. CASE SupGoto("revertNotify")
      BY <3>1 DEF SupGoto
    <3>2. CASE SupAgain
      BY <3>2 DEF SupAgain
    <3> QED
      BY <1>10, <3>1, <3>2 DEF SyncRevert
  <2> QED
    BY <1>10, <2>1, <2>2 DEF SyncRevert
<1>11. CASE SyncRevertNotify
  BY <1>11 DEF SyncRevertNotify, SupAgain, RaiseMonitoringWake
<1>12. CASE SupCaptures
  <2>1. faults' \in Nat
    BY <1>12 DEF SupCaptures, Fault, NoFault
  <2>2. supPc' \in SupPcs /\ supState' \in MonState /\ handled' \in MonState
    BY <1>12 DEF SupCaptures, SupGoto, SupAgain
  <2>3. supOut' \in Nat
    BY <1>12 DEF SupCaptures, SupGoto, SupAgain
  <2> QED
    BY <1>12, <2>1, <2>2, <2>3 DEF SupCaptures
<1>13. CASE SupPass
  <2>1. supOut' \in Nat
    BY <1>13 DEF SupPass, SupAgain, SupGoto
  <2>2. rQuit' \in [Outputs -> BOOLEAN]
    BY <1>13 DEF SupPass, AskStop
  <2> QED
    BY <1>13, <2>1, <2>2 DEF SupPass, SupAgain, SupGoto
<1>14. CASE SupRestart
  <2>1. faults' \in Nat /\ supOut' \in Nat
    BY <1>14 DEF SupRestart, Fault, NoFault
  <2>2. /\ rState' \in [Outputs -> StreamState]
        /\ rQuit' \in [Outputs -> BOOLEAN]
        /\ wPc' \in [Outputs -> WorkerPcs]
    BY <1>14 DEF SupRestart, StartWorker, StreamState, WorkerPcs
  <2> QED
    BY <1>14, <2>1, <2>2 DEF SupRestart
<1>15. CASE SupFail
  BY <1>15 DEF SupFail, SupGoto
<1>16. CASE SupFailBits
  BY <1>16 DEF SupFailBits, SupGoto
<1>17. CASE SupFailLock
  <2>1. rQuit' \in [Outputs -> BOOLEAN]
    BY <1>17 DEF SupFailLock
  <2> QED
    BY <1>17, <2>1 DEF SupFailLock
<1>18. CASE SupFailStop
  <2>1. supOut' \in Nat
    <3>1. supOut' = supOut + 1 \/ supOut' = supOut
      BY <1>18 DEF SupFailStop
    <3> QED
      BY <3>1
  <2>2. rState' \in [Outputs -> StreamState]
    BY <1>18 DEF SupFailStop, StreamState
  <2>3. rQuit' \in [Outputs -> BOOLEAN]
    BY <1>18 DEF SupFailStop
  <2> QED
    BY <1>18, <2>1, <2>2, <2>3 DEF SupFailStop
<1>19. CASE Notification
  BY <1>19 DEF Notification, supVars
<1> QED
  BY <1>1, <1>2, <1>3, <1>4, <1>5, <1>6, <1>7, <1>8, <1>9, <1>10, <1>11,
     <1>12, <1>13, <1>14, <1>15, <1>16, <1>17, <1>18, <1>19
  DEF SupStep, SupWoken, SupPoll

LEMMA PumpType == TypeOK /\ PumpStep => TypeOK'
<1> USE HandoffAssumption, StateType
    DEF engineVars, wakeVars, uiVars, supVars, streamVars, workVars,
        PumpFrame, TypeOK, PumpPcs
<1> SUFFICES ASSUME TypeOK, PumpStep PROVE TypeOK'
  OBVIOUS
<1>1. CASE PumpMix
  <2>1. pumpMix' \in Nat
    BY <1>1 DEF PumpMix, MonState
  <2> QED
    BY <1>1, <2>1 DEF PumpMix
<1>2. CASE PumpLoad
  BY <1>2 DEF PumpLoad
<1>3. CASE PumpCheck
  <2>1. pumpOut' \in Nat
    BY <1>3 DEF PumpCheck
  <2> QED
    BY <1>3, <2>1 DEF PumpCheck
<1>4. CASE PumpPublish
  <2>1. pumpOut' \in Nat
    BY <1>4 DEF PumpPublish
  <2>2. ASSUME NEW o \in Outputs
        PROVE  bus'[o] \in Seq(Nat) /\ Len(bus'[o]) <= BusBlocks
    BY <1>4 DEF PumpPublish, Fits
  <2>3. bus' \in [Outputs -> Seq(Nat)]
    BY <1>4, <2>2 DEF PumpPublish
  <2> QED
    BY <1>4, <2>1, <2>2, <2>3 DEF PumpPublish
<1>5. CASE PumpObserve
  BY <1>5 DEF PumpObserve
<1>6. CASE PumpWait
  BY <1>6 DEF PumpWait
<1> QED
  BY <1>1, <1>2, <1>3, <1>4, <1>5, <1>6 DEF PumpStep

LEMMA WorkerType ==
  ASSUME NEW o \in Outputs, TypeOK, WorkerStep(o)
  PROVE  TypeOK'
<1> USE HandoffAssumption, StateType
    DEF engineVars, wakeVars, uiVars, supVars, pumpVars,
        WorkerOnly, WorkerGoto, TypeOK
<1>1. CASE WOpen(o)
  <2>1. faults' \in Nat
    BY <1>1 DEF WOpen, Fault, NoFault
  <2>2. wPc' \in [Outputs -> WorkerPcs] /\ rState' \in [Outputs -> StreamState]
    BY <1>1 DEF WOpen, WorkerPcs, StreamState
  <2>3. /\ bus' \in [Outputs -> Seq(Nat)]
        /\ \A p \in Outputs : Len(bus'[p]) <= BusBlocks
    <3>1. CASE bus' = [bus EXCEPT ![o] = <<>>]
      BY <3>1
    <3>2. CASE bus' = bus
      BY <3>2
    <3> QED
      BY <1>1, <3>1, <3>2 DEF WOpen
  <2> QED
    BY <1>1, <2>1, <2>2, <2>3 DEF WOpen
<1>2. CASE WStart(o)
  <2>1. faults' \in Nat
    BY <1>2 DEF WStart, Fault, NoFault
  <2>2. wPc' \in [Outputs -> WorkerPcs] /\ rState' \in [Outputs -> StreamState]
    BY <1>2 DEF WStart, WorkerPcs, StreamState
  <2> QED
    BY <1>2, <2>1, <2>2 DEF WStart
<1>3. CASE WLoopExit(o)
  <2>1. faults' \in Nat
    BY <1>3 DEF WLoopExit, Fault, NoFault
  <2>2. wPc' \in [Outputs -> WorkerPcs]
    BY <1>3 DEF WLoopExit, WorkerPcs
  <2> QED
    BY <1>3, <2>1, <2>2 DEF WLoopExit
<1>4. CASE WCallback(o)
  <2>1. /\ wPc' \in [Outputs -> WorkerPcs] /\ wState' \in [Outputs -> MonState]
    BY <1>4 DEF WCallback, WorkerPcs
  <2> QED
    BY <1>4, <2>1 DEF WCallback
<1>5. CASE WGate(o)
  <2>1. wPc' \in [Outputs -> WorkerPcs] /\ wState' \in [Outputs -> MonState]
    BY <1>5 DEF WGate, WorkerPcs, CallbackDone
  <2> QED
    BY <1>5, <2>1 DEF WGate
<1>6. CASE WMix(o)
  <2>1. PICK n \in 0 .. Len(bus[o]) :
          /\ wBuf' = [wBuf EXCEPT ![o] = {bus[o][i] : i \in 1 .. n}]
          /\ \E rest \in {SubSeq(bus[o], n + 1, Len(bus[o])), <<>>} :
               bus' = [bus EXCEPT ![o] = rest]
    BY <1>6 DEF WMix
  <2>2. {bus[o][i] : i \in 1 .. n} \subseteq Nat
    OBVIOUS
  <2>3. wBuf' \in [Outputs -> SUBSET Nat] /\ wPc' \in [Outputs -> WorkerPcs]
    BY <1>6, <2>1, <2>2 DEF WMix, WorkerPcs
  <2>4. ASSUME NEW rest \in {SubSeq(bus[o], n + 1, Len(bus[o])), <<>>}
        PROVE  rest \in Seq(Nat) /\ Len(rest) <= BusBlocks
    <3>1. bus[o] \in Seq(Nat) /\ Len(bus[o]) \in Nat
          /\ Len(bus[o]) <= BusBlocks
      OBVIOUS
    <3>2. CASE rest = SubSeq(bus[o], n + 1, Len(bus[o]))
      BY <3>1, <3>2
    <3>3. CASE rest = <<>>
      BY <3>3
    <3> QED
      BY <3>2, <3>3
  <2>5. /\ bus' \in [Outputs -> Seq(Nat)]
        /\ \A p \in Outputs : Len(bus'[p]) <= BusBlocks
    BY <2>1, <2>4
  <2> QED
    BY <1>6, <2>3, <2>5 DEF WMix
<1>7. CASE WRecheck(o)
  <2>1. /\ wPc' \in [Outputs -> WorkerPcs] /\ wState' \in [Outputs -> MonState]
    BY <1>7 DEF WRecheck, WorkerPcs, CallbackDone
  <2>2. wBuf' \in [Outputs -> SUBSET Nat] /\ wanted' \in [Outputs -> MonState]
    BY <1>7 DEF WRecheck
  <2> QED
    BY <1>7, <2>1, <2>2 DEF WRecheck
<1>8. CASE WRelease(o)
  <2>1. faults' \in Nat
    BY <1>8 DEF WRelease, Fault, NoFault
  <2>2. wPc' \in [Outputs -> WorkerPcs]
    BY <1>8 DEF WRelease, WorkerPcs
  <2>3. wBuf' \in [Outputs -> SUBSET Nat] /\ wanted' \in [Outputs -> MonState]
    BY <1>8 DEF WRelease
  <2> QED
    BY <1>8, <2>1, <2>2, <2>3 DEF WRelease
<1>9. CASE WClose(o)
  <2>1. /\ wPc' \in [Outputs -> WorkerPcs]
        /\ rState' \in [Outputs -> StreamState]
    BY <1>9 DEF WClose, WorkerPcs, StreamState, StateAfter
  <2> QED
    BY <1>9, <2>1 DEF WClose
<1> QED
  BY <1>1, <1>2, <1>3, <1>4, <1>5, <1>6, <1>7, <1>8, <1>9
  DEF WorkerStep

LEMMA NextType == TypeOK /\ [Next]_vars => TypeOK'
<1> SUFFICES ASSUME TypeOK, [Next]_vars PROVE TypeOK'
  OBVIOUS
<1>1. CASE UNCHANGED vars
  BY <1>1 DEF TypeOK, vars, engineVars, wakeVars, uiVars, supVars, pumpVars,
              streamVars, workVars
<1> QED
  BY <1>1, UiType, SupType, PumpType, WorkerType DEF Next

(* Every variable keeps its type, and no bus ever holds more blocks than   *)
(* its capacity, for any number of outputs, calls and failures.            *)
THEOREM TypeCorrect == Spec => []TypeOK
  BY InitType, NextType, PTL DEF Spec

-----------------------------------------------------------------------------
(* The inductive invariant: what the generations say about each other.     *)

InBlock == pumpPc \in {"load", "out", "publish"}   \* pumpMix is meaningful
Attached(o) ==
  wPc[o] \in {"start", "loop", "gate", "mix", "recheck", "release"}
Holds(o, gen) == \A i \in 1 .. Len(bus[o]) : bus[o][i] = gen

(* No thread has seen a generation that was not requested yet.             *)
Ordered ==
  /\ observed.gen <= mon.gen /\ supState.gen <= mon.gen
  /\ \A o \in Outputs : ready[o].gen <= mon.gen /\ wState[o].gen <= mon.gen
  /\ InBlock => pumpMix <= mon.gen
  /\ pumpPc \in {"out", "publish"} =>
       pumpMix <= pumpState.gen /\ pumpState.gen <= mon.gen

(* The block in the pump was mixed no earlier than the generation ...      *)
FreshForAck == InBlock => observed.gen <= pumpMix        \* acknowledged
FreshForSync ==                                          \* being installed
  InBlock /\ supPc \in {"outCheck", "outStop", "outStart"} =>
    supState.gen <= pumpMix
FreshForReady ==                                         \* of an output
  InBlock => \A o \in Outputs : ready[o] # NoState => ready[o].gen <= pumpMix
FreshForMix ==                                           \* of a callback
  InBlock => \A o \in Outputs : wPc[o] = "mix" => wState[o].gen <= pumpMix

(* While the supervisor installs a generation, nothing newer is ready or   *)
(* about to be published.                                                  *)
SyncIsNewest ==
  supPc \in {"clear", "ack", "outCheck", "outStop", "outStart"} =>
    /\ \A o \in Outputs : ready[o].gen <= supState.gen
    /\ pumpPc = "publish" => pumpState.gen <= supState.gen

(* An output that is ready is ready for the generation being published to  *)
(* it, for the one its callback runs for, and for all its bus holds.       *)
PublishTarget ==
  pumpPc = "publish" =>
    /\ pumpState.on /\ pumpOut \in Outputs
    /\ ready[pumpOut] # NoState => ready[pumpOut] = pumpState
    /\ wPc[pumpOut] = "mix" => wState[pumpOut] = pumpState
MixTarget ==
  \A o \in Outputs :
    /\ wPc[o] \in {"mix", "recheck"} => wState[o].on
    /\ wPc[o] = "mix" /\ ready[o] # NoState => ready[o] = wState[o]
    /\ wPc[o] = "mix" => Holds(o, wState[o].gen)
    /\ wPc[o] = "recheck" => wBuf[o] \subseteq {wState[o].gen}
BusTarget ==
  \A o \in Outputs :
    Attached(o) /\ ready[o] # NoState => Holds(o, ready[o].gen)

(* What synchronizeOutputs has withdrawn and what it has installed.        *)
SyncTarget ==
  /\ supPc = "clear" => \A o \in Outputs : o < supOut => ready[o] = NoState
  /\ supPc = "ack" => \A o \in Outputs : ready[o] = NoState
  /\ supPc \in {"outCheck", "outStop", "outStart"} =>
       \A o \in Outputs : ready[o] \in {NoState, supState}
  /\ supPc \in {"clear", "ack", "outCheck", "outStop", "outStart"} =>
       supOut >= 1

Generations ==
  /\ Ordered
  /\ FreshForAck /\ FreshForSync /\ FreshForReady /\ FreshForMix
  /\ SyncIsNewest /\ PublishTarget /\ MixTarget /\ BusTarget
  /\ SyncTarget /\ OneGenerationReady

IInv == TypeOK /\ Generations

SyncPcs == {"clear", "ack", "outCheck", "outStop", "outStart"}

(* Most steps only let generations pass, leave synchronizeOutputs, end a   *)
(* pump block or a callback, or do nothing of this at all.                 *)
Harmless ==
  /\ mon.gen <= mon'.gen
  /\ supState' = supState \/ supState' = NoState
  /\ supPc' \in SyncPcs => UNCHANGED <<supPc, supState, supOut>>
  /\ UNCHANGED <<observed, ready, wState, wBuf, bus>>
  /\ UNCHANGED <<pumpMix, pumpState, pumpOut>>
  /\ pumpPc' = pumpPc \/ ~InBlock'
  /\ \A o \in Outputs : wPc'[o] # wPc[o] =>
       /\ wPc'[o] \notin {"mix", "recheck"}
       /\ Attached(o)' => Attached(o)

LEMMA TypedGenerations ==
  ASSUME TypeOK
  PROVE  /\ mon.gen \in Nat /\ observed.gen \in Nat
         /\ supState.gen \in Nat /\ pumpState.gen \in Nat /\ pumpMix \in Nat
         /\ \A o \in Outputs : ready[o].gen \in Nat /\ wState[o].gen \in Nat
  BY DEF TypeOK, MonState

LEMMA SameState ==
  \A s, t \in MonState : s.gen = t.gen /\ s.on = t.on => s = t
<1> SUFFICES ASSUME NEW s \in MonState, NEW t \in MonState,
                    s.gen = t.gen, s.on = t.on
             PROVE  s = t
  OBVIOUS
<1>1. s = [gen |-> s.gen, on |-> s.on] /\ t = [gen |-> t.gen, on |-> t.on]
  BY DEF MonState
<1> QED
  BY <1>1

LEMMA HarmlessStep ==
  ASSUME IInv, TypeOK', Harmless PROVE Generations'
<1> USE DEF IInv, Generations, Harmless
<1>0. NoState.gen = 0 /\ ~NoState.on
  BY DEF NoState
<1>1. Ordered'
  <2>1. mon'.gen \in Nat
    BY DEF TypeOK, MonState
  <2>2. Ordered
    OBVIOUS
  <2>3. /\ observed'.gen <= mon'.gen /\ supState'.gen <= mon'.gen
        /\ InBlock' => pumpMix' <= mon'.gen
        /\ pumpPc' \in {"out", "publish"} =>
             pumpMix' <= pumpState'.gen /\ pumpState'.gen <= mon'.gen
    BY <1>0, <2>1, <2>2, TypedGenerations DEF Ordered, InBlock
  <2>4. ASSUME NEW o \in Outputs
        PROVE  ready'[o].gen <= mon'.gen /\ wState'[o].gen <= mon'.gen
    BY <2>1, <2>2, TypedGenerations DEF Ordered
  <2> QED
    BY <2>3, <2>4 DEF Ordered
<1>2. FreshForAck' /\ FreshForSync' /\ FreshForReady' /\ FreshForMix'
  BY DEF FreshForAck, FreshForSync, FreshForReady, FreshForMix, InBlock,
         SyncPcs
<1>3. SyncIsNewest'
  BY DEF SyncIsNewest, SyncPcs, InBlock
<1>4. PublishTarget'
  BY DEF PublishTarget, InBlock
<1>5. MixTarget' /\ BusTarget'
  BY DEF MixTarget, BusTarget, Holds, Attached
<1>6. SyncTarget' /\ OneGenerationReady'
  BY DEF SyncTarget, SyncPcs, OneGenerationReady
<1> QED
  BY <1>1, <1>2, <1>3, <1>4, <1>5, <1>6

-----------------------------------------------------------------------------
(* The steps of the UI thread.                                             *)

LEMMA UiGenerations ==
  ASSUME IInv, TypeOK', UiCall \/ UiStep PROVE Generations'
<1> USE DEF engineVars, wakeVars, supVars, pumpVars, streamVars, workVars, UiFrame, UiUnchangedButMon, IInv
<1>0. mon.gen \in Nat /\ TypeOK
  BY TypedGenerations
<1>1. CASE UiOpen
  <2> USE <1>1 DEF UiOpen
  <2>1. /\ \A o \in Outputs : ready'[o] = NoState
        /\ UNCHANGED <<supPc, supState, supOut, pumpPc, pumpMix, pumpState,
                      pumpOut, wPc, wState, wBuf, bus>>
    OBVIOUS
  <2>2. mon.gen <= mon'.gen
    BY <1>0 DEF NextState
  <2>3. observed' = observed \/ observed' = NoState
    OBVIOUS
  <2>4. NoState.gen = 0
    BY DEF NoState
  <2> HIDE <1>1 DEF UiOpen
  <2>5. Ordered'
    <3>1. mon'.gen \in Nat
      BY DEF TypeOK, MonState
    <3>2. /\ observed'.gen <= mon'.gen /\ supState'.gen <= mon'.gen
          /\ InBlock' => pumpMix' <= mon'.gen
          /\ pumpPc' \in {"out", "publish"} =>
               pumpMix' <= pumpState'.gen /\ pumpState'.gen <= mon'.gen
      BY <2>1, <2>2, <2>3, <2>4, <3>1, TypedGenerations
      DEF Generations, Ordered, InBlock
    <3>3. ASSUME NEW o \in Outputs
          PROVE  ready'[o].gen <= mon'.gen /\ wState'[o].gen <= mon'.gen
      BY <2>1, <2>2, <2>4, <3>1, TypedGenerations DEF Generations, Ordered
    <3> QED
      BY <3>2, <3>3 DEF Ordered
  <2>6. FreshForAck' /\ FreshForSync' /\ FreshForReady' /\ FreshForMix'
    BY <2>1, <2>3, <2>4, TypedGenerations
    DEF Generations, FreshForAck, FreshForSync, FreshForReady, FreshForMix,
        InBlock
  <2>7. SyncIsNewest' /\ PublishTarget'
    BY <2>1, <2>4, TypedGenerations
    DEF Generations, SyncIsNewest, PublishTarget
  <2>8. MixTarget' /\ BusTarget'
    BY <2>1 DEF Generations, MixTarget, BusTarget, Holds
  <2>9. SyncTarget' /\ OneGenerationReady'
    BY <2>1 DEF Generations, SyncTarget, OneGenerationReady
  <2> QED
    BY <2>5, <2>6, <2>7, <2>8, <2>9 DEF Generations
<1>2. CASE UiExchange
  BY <1>0, <1>2, HarmlessStep DEF UiExchange, NextState, Harmless
<1>3. CASE UiStopClear
  BY <1>0, <1>3, HarmlessStep DEF UiStopClear, Paused, Harmless
<1>4. CASE UiPickStart
  <2>1. Harmless
    BY <1>0, <1>4 DEF UiPickStart, StartWorker, Harmless, Attached, TypeOK
  <2> QED
    BY <2>1, HarmlessStep
<1>5. CASE UiJoinSup \/ UiSpawnSup
  BY <1>0, <1>5, HarmlessStep DEF UiJoinSup, UiSpawnSup, Harmless, SyncPcs
<1>6. CASE UiJoinPump \/ UiSpawnPump
  BY <1>0, <1>6, HarmlessStep
  DEF UiJoinPump, UiSpawnPump, Harmless, InBlock
<1>7. ASSUME UNCHANGED <<mon, observed, ready, supVars, pumpVars, wPc, wState,
                         wBuf, bus>>
      PROVE  Generations'
  BY <1>0, <1>7, HarmlessStep DEF Harmless
<1>8. ASSUME NEW enabled \in BOOLEAN, UiToggle(enabled) PROVE Generations'
  BY <1>7, <1>8 DEF UiToggle
<1>9. ASSUME NEW o \in Outputs, UiPick(o) PROVE Generations'
  BY <1>7, <1>9 DEF UiPick
<1>10. ASSUME NEW goal \in {"stop", "on", "off"}, UiStop(goal)
       PROVE  Generations'
  BY <1>7, <1>10 DEF UiStop
<1>11. CASE UiNotify
  BY <1>7, <1>11 DEF UiNotify
<1>12. CASE UiStopSignal \/ UiStopRender \/ UiStopJoin
  BY <1>7, <1>12 DEF UiStopSignal, UiStopRender, UiStopJoin
<1>13. CASE UiStartFails
  BY <1>7, <1>13 DEF UiStartFails
<1> QED
  BY <1>1, <1>2, <1>3, <1>4, <1>5, <1>6, <1>8, <1>9, <1>10, <1>11, <1>12,
     <1>13 DEF UiCall, UiStep

-----------------------------------------------------------------------------
(* The steps of the supervisor.                                            *)

LEMMA LoadGenerations ==
  ASSUME IInv, TypeOK', SupLoad PROVE Generations'
<1> USE DEF IInv, Generations
<1>1. /\ UNCHANGED <<mon, observed, ready, pumpPc, pumpMix, pumpState, pumpOut,
                    wPc, wState, wBuf, bus>>
      /\ supState' = mon /\ supOut' = 1 /\ supPc' \in {"clear", "captures"}
  BY DEF SupLoad, engineVars, SupFrame, pumpVars
<1>2. Ordered'
  BY <1>1, TypedGenerations DEF Ordered, InBlock
<1>3. FreshForAck' /\ FreshForSync' /\ FreshForReady' /\ FreshForMix'
  BY <1>1
  DEF FreshForAck, FreshForSync, FreshForReady, FreshForMix, InBlock
<1>4. SyncIsNewest' /\ PublishTarget'
  BY <1>1, TypedGenerations DEF Ordered, SyncIsNewest, PublishTarget
<1>5. MixTarget' /\ BusTarget' /\ OneGenerationReady'
  BY <1>1 DEF MixTarget, BusTarget, Holds, Attached, OneGenerationReady
<1>6. SyncTarget'
  BY <1>1, HandoffAssumption DEF SyncTarget, Outputs
<1> QED
  BY <1>2, <1>3, <1>4, <1>5, <1>6

LEMMA ClearGenerations ==
  ASSUME IInv, TypeOK', SyncClear PROVE Generations'
<1> USE DEF IInv, Generations
<1>1. /\ UNCHANGED <<mon, observed, supState, pumpPc, pumpMix, pumpState,
                    pumpOut, wPc, wState, wBuf, bus>>
      /\ supPc = "clear" /\ supPc' \in {"clear", "ack", "captures"}
  BY DEF SyncClear, engineVars, SupFrame, pumpVars
<1>2. \A o \in Outputs : ready'[o] = ready[o] \/ ready'[o] = NoState
  BY DEF SyncClear, TypeOK
<1>3. NoState.gen = 0
  BY DEF NoState
<1>4. Ordered'
  BY <1>1, <1>2, <1>3, TypedGenerations DEF Ordered, InBlock
<1>5. FreshForAck' /\ FreshForSync' /\ FreshForReady' /\ FreshForMix'
  BY <1>1, <1>2
  DEF FreshForAck, FreshForSync, FreshForReady, FreshForMix, InBlock
<1>6. SyncIsNewest'
  BY <1>1, <1>2, <1>3, TypedGenerations DEF SyncIsNewest
<1>7. PublishTarget'
  BY <1>1, <1>2 DEF PublishTarget
<1>8. MixTarget' /\ BusTarget' /\ OneGenerationReady'
  BY <1>1, <1>2 DEF MixTarget, BusTarget, Holds, Attached, OneGenerationReady
<1>9. SyncTarget'
  <2>1. supOut \in Nat /\ supOut >= 1
        /\ \A o \in Outputs : o < supOut => ready[o] = NoState
    BY <1>1 DEF TypeOK, SyncTarget
  <2>2. CASE supOut \in Outputs
    <3>1. /\ ready' = [ready EXCEPT ![supOut] = NoState]
          /\ supOut' = supOut + 1 /\ supPc' = "clear"
      BY <1>1, <2>2 DEF SyncClear
    <3>2. ASSUME NEW o \in Outputs, o < supOut' PROVE ready'[o] = NoState
      <4>1. o < supOut \/ o = supOut
        BY <2>1, <3>1, <3>2, HandoffAssumption DEF Outputs
      <4> QED
        BY <2>1, <3>1, <4>1 DEF TypeOK
    <3> QED
      BY <2>1, <3>1, <3>2 DEF SyncTarget
  <2>3. CASE supOut \notin Outputs
    <3>1. \A o \in Outputs : ready[o] = NoState
      BY <2>1, <2>3, HandoffAssumption DEF Outputs
    <3>2. ready' = ready /\ supOut' = 1 /\ supPc' \in {"ack", "captures"}
      BY <2>3 DEF SyncClear
    <3> QED
      BY <3>1, <3>2 DEF SyncTarget
  <2> QED
    BY <2>2, <2>3
<1> QED
  BY <1>4, <1>5, <1>6, <1>7, <1>8, <1>9

(* The pump is past every block of an older generation.                    *)
LEMMA AckGenerations ==
  ASSUME IInv, TypeOK', SyncAck, Acked PROVE Generations'
<1> USE DEF IInv, Generations
<1>1. CASE SupGoto("outCheck")
  <2>1. /\ UNCHANGED <<mon, observed, ready, supState, supOut, pumpPc, pumpMix,
                      pumpState, pumpOut, wPc, wState, wBuf, bus>>
        /\ supPc = "ack" /\ supPc' = "outCheck" /\ observed = supState
    BY <1>1 DEF SyncAck, Acked, SupGoto, engineVars, pumpVars,
                workVars
  <2>2. Ordered' /\ PublishTarget'
    BY <2>1 DEF Ordered, InBlock, PublishTarget
  <2>3. FreshForAck' /\ FreshForSync' /\ FreshForReady' /\ FreshForMix'
    BY <2>1
    DEF FreshForAck, FreshForSync, FreshForReady, FreshForMix, InBlock
  <2>4. SyncIsNewest' /\ SyncTarget'
    BY <2>1 DEF SyncIsNewest, SyncTarget
  <2>5. MixTarget' /\ BusTarget' /\ OneGenerationReady'
    BY <2>1 DEF MixTarget, BusTarget, Holds, Attached, OneGenerationReady
  <2> QED
    BY <2>2, <2>3, <2>4, <2>5
<1> QED
  BY <1>1 DEF SyncAck

(* The supervisor moves on to an output, or to the next one.               *)
LEMMA NextOutputGenerations ==
  ASSUME IInv, TypeOK',
         supPc \in {"outCheck", "outStop", "outStart"},
         supPc' \in {"outCheck", "outStop", "outStart", "captures"},
         UNCHANGED <<mon, observed, ready, supState, pumpPc, pumpMix,
                     pumpState, pumpOut, wState, wBuf, bus>>,
         supOut' >= supOut,
         \A o \in Outputs : wPc'[o] = wPc[o] \/ wPc'[o] = "open"
  PROVE  Generations'
<1> USE DEF IInv, Generations
<1>1. Ordered' /\ PublishTarget'
  BY DEF Ordered, InBlock, PublishTarget
<1>2. FreshForAck' /\ FreshForSync' /\ FreshForReady' /\ FreshForMix'
  BY DEF FreshForAck, FreshForSync, FreshForReady, FreshForMix, InBlock
<1>3. SyncIsNewest'
  BY DEF SyncIsNewest
<1>4. SyncTarget'
  BY DEF SyncTarget, TypeOK
<1>5. MixTarget' /\ BusTarget' /\ OneGenerationReady'
  BY DEF MixTarget, BusTarget, Holds, Attached, OneGenerationReady
<1> QED
  BY <1>1, <1>2, <1>3, <1>4, <1>5

(* The step that declares an output ready: no block of an older generation *)
(* is in the pump, and the worker that could still hold one was joined.    *)
LEMMA ReadyGenerations ==
  ASSUME IInv, TypeOK', SyncStopped, supState.on PROVE Generations'
<1> USE DEF IInv, Generations
<1>1. /\ UNCHANGED <<mon, observed, supState, supOut, pumpPc, pumpMix,
                    pumpState, pumpOut, wPc, wState, wBuf, bus>>
      /\ supPc = "outStop" /\ supPc' = "outStart"
      /\ ready' = [ready EXCEPT ![supOut] = supState]
      /\ wPc[supOut] = "none"
  BY DEF SyncStopped, Joined, ReadyState, engineVars, SupFrame, pumpVars
<1>2. ASSUME NEW o \in Outputs
      PROVE  \/ o = supOut /\ ready'[o] = supState /\ wPc[o] = "none"
             \/ ready'[o] = ready[o]
  BY <1>1 DEF TypeOK
<1>3. Ordered'
  BY <1>1, <1>2, TypedGenerations DEF Ordered, InBlock
<1>4. FreshForAck' /\ FreshForSync' /\ FreshForMix'
  BY <1>1 DEF FreshForAck, FreshForSync, FreshForMix, InBlock
<1>5. FreshForReady'
  BY <1>1, <1>2 DEF FreshForReady, FreshForSync, InBlock
<1>6. SyncIsNewest'
  BY <1>1, <1>2, TypedGenerations DEF SyncIsNewest
<1>7. PublishTarget'
  <2> SUFFICES ASSUME pumpPc = "publish", pumpOut = supOut
               PROVE  pumpState = supState
    BY <1>1, <1>2 DEF PublishTarget
  <2>1. pumpState.gen = supState.gen
    BY <1>1, TypedGenerations
    DEF FreshForSync, SyncIsNewest, Ordered, InBlock
  <2>2. pumpState.on = supState.on
    BY DEF PublishTarget, TypeOK, MonState
  <2> QED
    BY <2>1, <2>2, SameState DEF TypeOK
<1>8. MixTarget' /\ BusTarget'
  BY <1>1, <1>2 DEF MixTarget, BusTarget, Holds, Attached
<1>9. SyncTarget' /\ OneGenerationReady'
  BY <1>1, <1>2 DEF SyncTarget, OneGenerationReady
<1> QED
  BY <1>3, <1>4, <1>5, <1>6, <1>7, <1>8, <1>9

LEMMA SupGenerations ==
  ASSUME IInv, TypeOK', SupStep \/ SupPoll \/ Notification
  PROVE  Generations'
<1> USE DEF engineVars, wakeVars, uiVars, pumpVars, streamVars, workVars, SupFrame, UiUnchangedButMon, IInv
<1>0. mon.gen \in Nat /\ TypeOK
  BY TypedGenerations
<1>1. ASSUME supPc' \notin SyncPcs,
             supState' = supState \/ supState' = NoState,
             mon.gen <= mon'.gen,
             UNCHANGED <<observed, ready, pumpVars, wState, wBuf, bus>>,
             \A o \in Outputs : wPc'[o] = wPc[o] \/ wPc'[o] = "open"
      PROVE  Generations'
  <2>1. Harmless
    BY <1>1 DEF Harmless, Attached
  <2> QED
    BY <2>1, HarmlessStep
<1>2. CASE SupLeaveWait \/ SupDebounce
  BY <1>0, <1>1, <1>2 DEF SupLeaveWait, SupDebounce, SupGoto, SyncPcs
<1>3. CASE SupLoad
  BY <1>3, LoadGenerations
<1>4. CASE SyncClear
  BY <1>4, ClearGenerations
<1>5. CASE SyncAck
  <2>1. CASE Acked
    BY <1>5, <2>1, AckGenerations
  <2>2. CASE ~Acked
    BY <1>0, <1>1, <1>5, <2>2 DEF SyncAck, SupAgain, SyncPcs
  <2> QED
    BY <2>1, <2>2
<1>6. CASE SyncCheck
  <2>1. CASE supPc' = "outStop"
    BY <1>0, <1>6, <2>1, NextOutputGenerations
    DEF SyncCheck, SupGoto, SupAgain, TypeOK
  <2>2. CASE supPc' # "outStop"
    BY <1>0, <1>1, <1>6, <2>2 DEF SyncCheck, SupGoto, SupAgain, SyncPcs
  <2> QED
    BY <2>1, <2>2
<1>7. CASE SyncStopped
  <2>1. CASE supState.on
    BY <1>7, <2>1, ReadyGenerations
  <2>2. CASE ~supState.on
    BY <1>0, <1>7, <2>2, NextOutputGenerations DEF SyncStopped, TypeOK
  <2> QED
    BY <2>1, <2>2
<1>8. CASE SyncStart
  BY <1>0, <1>8, NextOutputGenerations DEF SyncStart, StartWorker, TypeOK
<1>9. CASE SyncStartThrows
  BY <1>0, <1>1, <1>9 DEF SyncStartThrows, SupGoto, SupAgain, SyncPcs
<1>10. CASE SyncRevert
  <2>1. mon.gen <= mon'.gen
    BY <1>0, <1>10 DEF SyncRevert, NextState
  <2>2. supPc' \notin SyncPcs /\ (supState' = supState \/ supState' = NoState)
    BY <1>10 DEF SyncRevert, SupGoto, SupAgain, SyncPcs
  <2> QED
    BY <1>1, <1>10, <2>1, <2>2 DEF SyncRevert
<1>11. CASE SyncRevertNotify
  BY <1>0, <1>1, <1>11 DEF SyncRevertNotify, SupAgain, SyncPcs
<1>12. CASE SupCaptures
  BY <1>0, <1>1, <1>12 DEF SupCaptures, SupGoto, SupAgain, SyncPcs
<1>13. CASE SupPass
  BY <1>0, <1>1, <1>13 DEF SupPass, SupGoto, SupAgain, SyncPcs
<1>14. CASE SupRestart
  BY <1>0, <1>1, <1>14 DEF SupRestart, StartWorker, SyncPcs, TypeOK
<1>15. CASE SupFail \/ SupFailBits
  BY <1>0, <1>1, <1>15 DEF SupFail, SupFailBits, SupGoto, Paused, SyncPcs
<1>16. CASE SupFailLock \/ SupFailStop
  <2>1. supPc' \in {"failStop", "done"} /\ supState' = supState
    BY <1>16 DEF SupFailLock, SupFailStop
  <2>2. UNCHANGED <<mon, observed, ready, pumpVars, wPc, wState, wBuf, bus>>
    BY <1>16 DEF SupFailLock, SupFailStop
  <2> QED
    BY <1>0, <1>1, <2>1, <2>2 DEF SyncPcs
<1>17. CASE Notification
  BY <1>0, <1>17, HarmlessStep DEF Notification, supVars, Harmless
<1> QED
  BY <1>2, <1>3, <1>4, <1>5, <1>6, <1>7, <1>8, <1>9, <1>10, <1>11, <1>12,
     <1>13, <1>14, <1>15, <1>16, <1>17 DEF SupStep, SupWoken, SupPoll

-----------------------------------------------------------------------------
(* The steps of the pump.                                                  *)

(* A block that starts now is newer than anything seen so far.             *)
LEMMA BlockGenerations ==
  ASSUME IInv, TypeOK', PumpMix, pumpPc' = "load" PROVE Generations'
<1> USE DEF IInv, Generations
<1>1. /\ UNCHANGED <<mon, observed, ready, supPc, supState, supOut, pumpState,
                    pumpOut, wPc, wState, wBuf, bus>>
      /\ pumpMix' = mon.gen
  BY DEF PumpMix, engineVars, PumpFrame, supVars, workVars
<1>2. Ordered' /\ FreshForAck' /\ FreshForSync'
  BY <1>1, TypedGenerations DEF Ordered, InBlock, FreshForAck, FreshForSync
<1>3. FreshForReady' /\ FreshForMix'
  BY <1>1, TypedGenerations DEF Ordered, FreshForReady, FreshForMix
<1>4. SyncIsNewest' /\ PublishTarget' /\ SyncTarget' /\ OneGenerationReady'
  BY <1>1 DEF SyncIsNewest, PublishTarget, SyncTarget, OneGenerationReady
<1>5. MixTarget' /\ BusTarget'
  BY <1>1 DEF MixTarget, BusTarget, Holds, Attached
<1> QED
  BY <1>2, <1>3, <1>4, <1>5

(* The block goes from one output to the next.                             *)
LEMMA BlockMovesOn ==
  ASSUME IInv, TypeOK',
         InBlock, pumpPc' \in {"out", "publish"},
         UNCHANGED <<mon, observed, ready, supPc, supState, supOut, pumpMix,
                     wPc, wState, wBuf>>,
         pumpMix <= pumpState'.gen, pumpState'.gen <= mon.gen,
         pumpPc' = "publish" =>
           /\ pumpOut' \in Outputs /\ pumpState'.on
           /\ ready[pumpOut'] = pumpState' /\ pumpState' # NoState
           /\ bus' = bus,
         \A o \in Outputs :
           /\ wPc[o] = "mix" /\ Holds(o, wState[o].gen) =>
                Holds(o, wState[o].gen)'
           /\ Attached(o) /\ ready[o] # NoState /\ Holds(o, ready[o].gen) =>
                Holds(o, ready[o].gen)'
  PROVE  Generations'
<1> USE DEF IInv, Generations
<1>1. Ordered' /\ FreshForAck' /\ FreshForSync'
  BY DEF Ordered, InBlock, FreshForAck, FreshForSync
<1>2. FreshForReady' /\ FreshForMix'
  BY DEF FreshForReady, FreshForMix, InBlock
<1>3. SyncIsNewest'
  BY DEF SyncIsNewest
<1>4. SyncTarget' /\ OneGenerationReady'
  BY DEF SyncTarget, OneGenerationReady
<1>5. PublishTarget'
  BY DEF PublishTarget, MixTarget
<1>6. MixTarget'
  BY DEF MixTarget
<1>7. BusTarget'
  BY DEF BusTarget, Attached
<1> QED
  BY <1>1, <1>2, <1>3, <1>4, <1>5, <1>6, <1>7

LEMMA PublishGenerations ==
  ASSUME IInv, TypeOK', PumpPublish PROVE Generations'
<1> USE DEF IInv, Generations
<1>1. /\ UNCHANGED <<mon, observed, ready, supPc, supState, supOut, pumpMix,
                    pumpState, wPc, wState, wBuf>>
      /\ pumpPc = "publish" /\ pumpPc' = "out" /\ InBlock
      /\ bus' = [bus EXCEPT ![pumpOut] =
                   IF Fits(@) THEN Append(@, pumpMix) ELSE @]
  BY DEF PumpPublish, engineVars, PumpFrame, supVars, workVars, InBlock
<1>2. pumpMix <= pumpState.gen /\ pumpState.gen <= mon.gen
  BY <1>1 DEF Ordered
<1>3. ASSUME NEW o \in Outputs, NEW gen \in Nat, Holds(o, gen),
             o = pumpOut => gen = pumpMix
      PROVE  \A i \in 1 .. Len(bus'[o]) : bus'[o][i] = gen
  <2>1. bus[o] \in Seq(Nat) /\ pumpMix \in Nat
    BY DEF TypeOK
  <2>2. CASE bus'[o] = bus[o]
    BY <1>3, <2>2 DEF Holds
  <2>3. CASE o = pumpOut /\ bus'[o] = Append(bus[o], pumpMix)
    BY <1>3, <2>1, <2>3 DEF Holds
  <2> QED
    BY <1>1, <2>2, <2>3 DEF TypeOK
<1>4. ASSUME NEW o \in Outputs, wPc[o] = "mix", Holds(o, wState[o].gen)
      PROVE  Holds(o, wState[o].gen)'
  <2>1. o = pumpOut => wState[o].gen = pumpMix
    BY <1>1, <1>2, <1>4, TypedGenerations DEF PublishTarget, FreshForMix
  <2> QED
    BY <1>1, <1>3, <1>4, <2>1, TypedGenerations DEF Holds
<1>5. ASSUME NEW o \in Outputs, Attached(o), ready[o] # NoState,
             Holds(o, ready[o].gen)
      PROVE  Holds(o, ready[o].gen)'
  <2>1. o = pumpOut => ready[o].gen = pumpMix
    BY <1>1, <1>2, <1>5, TypedGenerations DEF PublishTarget, FreshForReady
  <2> QED
    BY <1>1, <1>3, <1>5, <2>1, TypedGenerations DEF Holds
<1> QED
  BY <1>1, <1>2, <1>4, <1>5, BlockMovesOn

LEMMA ObserveGenerations ==
  ASSUME IInv, TypeOK', PumpObserve PROVE Generations'
<1> USE DEF IInv, Generations
<1>1. /\ UNCHANGED <<mon, ready, supPc, supState, supOut, wPc, wState, wBuf,
                    bus>>
      /\ pumpPc = "out" /\ pumpPc' = "wait" /\ observed' = pumpState
  BY DEF PumpObserve, PumpFrame, supVars, workVars
<1>2. Ordered'
  BY <1>1 DEF Ordered, InBlock
<1>3. FreshForAck' /\ FreshForSync' /\ FreshForReady' /\ FreshForMix'
  BY <1>1
  DEF FreshForAck, FreshForSync, FreshForReady, FreshForMix, InBlock
<1>4. SyncIsNewest' /\ PublishTarget' /\ SyncTarget' /\ OneGenerationReady'
  BY <1>1 DEF SyncIsNewest, PublishTarget, SyncTarget, OneGenerationReady
<1>5. MixTarget' /\ BusTarget'
  BY <1>1 DEF MixTarget, BusTarget, Holds, Attached
<1> QED
  BY <1>2, <1>3, <1>4, <1>5

LEMMA PumpGenerations ==
  ASSUME IInv, TypeOK', PumpStep PROVE Generations'
<1> USE DEF engineVars, supVars, workVars, PumpFrame, IInv
<1>0. mon.gen \in Nat /\ TypeOK
  BY TypedGenerations
<1>1. CASE PumpMix
  <2>1. CASE pumpPc' = "load"
    BY <1>1, <2>1, BlockGenerations
  <2>2. CASE pumpPc' # "load"
    BY <1>0, <1>1, <2>2, HarmlessStep DEF PumpMix, Harmless, InBlock
  <2> QED
    BY <2>1, <2>2
<1>2. CASE PumpLoad
  <2>1. InBlock /\ pumpMix <= mon.gen
    BY <1>2 DEF PumpLoad, InBlock, Generations, Ordered
  <2>2. \A o \in Outputs : Holds(o, wState[o].gen) => Holds(o, wState[o].gen)'
    BY <1>2 DEF PumpLoad, Holds
  <2>3. \A o \in Outputs : Holds(o, ready[o].gen) => Holds(o, ready[o].gen)'
    BY <1>2 DEF PumpLoad, Holds
  <2> QED
    BY <1>0, <1>2, <2>1, <2>2, <2>3, BlockMovesOn DEF PumpLoad
<1>3. CASE PumpCheck
  <2>1. /\ InBlock /\ pumpMix <= pumpState.gen /\ pumpState.gen <= mon.gen
        /\ ~NoState.on
    BY <1>3 DEF PumpCheck, InBlock, Generations, Ordered, NoState
  <2>2. pumpPc' = "publish" =>
          /\ pumpOut' \in Outputs /\ pumpState'.on
          /\ ready[pumpOut'] = pumpState' /\ bus' = bus
    BY <1>3 DEF PumpCheck, Publishable
  <2>3. \A o \in Outputs : Holds(o, wState[o].gen) => Holds(o, wState[o].gen)'
    BY <1>3 DEF PumpCheck, Holds
  <2>4. \A o \in Outputs : Holds(o, ready[o].gen) => Holds(o, ready[o].gen)'
    BY <1>3 DEF PumpCheck, Holds
  <2> QED
    BY <1>3, <2>1, <2>2, <2>3, <2>4, BlockMovesOn DEF PumpCheck
<1>4. CASE PumpPublish
  BY <1>4, PublishGenerations
<1>5. CASE PumpObserve
  BY <1>5, ObserveGenerations
<1>6. CASE PumpWait
  BY <1>0, <1>6, HarmlessStep DEF PumpWait, Harmless, InBlock
<1> QED
  BY <1>1, <1>2, <1>3, <1>4, <1>5, <1>6 DEF PumpStep

-----------------------------------------------------------------------------
(* The steps of a render worker.                                           *)

(* A step of worker o touches nothing but what belongs to output o.        *)
OnlyWorker(o) ==
  /\ UNCHANGED <<mon, observed, ready, supPc, supState, supOut, pumpPc,
                 pumpMix, pumpState, pumpOut>>
  /\ \A p \in Outputs \ {o} :
       /\ wPc'[p] = wPc[p] /\ wState'[p] = wState[p]
       /\ wBuf'[p] = wBuf[p] /\ bus'[p] = bus[p]

LEMMA WorkerFrame ==
  ASSUME NEW o \in Outputs, IInv, TypeOK', OnlyWorker(o),
         wState'[o].gen <= mon.gen,
         InBlock /\ wPc'[o] = "mix" => wState'[o].gen <= pumpMix,
         pumpPc = "publish" /\ pumpOut = o /\ wPc'[o] = "mix" =>
           wState'[o] = pumpState,
         wPc'[o] \in {"mix", "recheck"} => wState'[o].on,
         wPc'[o] = "mix" /\ ready[o] # NoState => ready[o] = wState'[o],
         wPc'[o] = "mix" => Holds(o, wState[o].gen)',
         wPc'[o] = "recheck" => wBuf'[o] \subseteq {wState'[o].gen},
         Attached(o)' /\ ready[o] # NoState => Holds(o, ready[o].gen)'
  PROVE  Generations'
<1> USE DEF IInv, Generations, OnlyWorker
<1>1. Ordered'
  BY DEF Ordered, InBlock
<1>2. FreshForAck' /\ FreshForSync' /\ FreshForReady' /\ FreshForMix'
  BY DEF FreshForAck, FreshForSync, FreshForReady, FreshForMix, InBlock
<1>3. SyncIsNewest' /\ SyncTarget' /\ OneGenerationReady'
  BY DEF SyncIsNewest, SyncTarget, OneGenerationReady
<1>4. PublishTarget'
  BY DEF PublishTarget
<1>5. MixTarget'
  BY DEF MixTarget, Holds
<1>6. BusTarget'
  BY DEF BusTarget, Holds, Attached
<1> QED
  BY <1>1, <1>2, <1>3, <1>4, <1>5, <1>6

LEMMA WorkerGenerations ==
  ASSUME NEW o \in Outputs, IInv, TypeOK', WorkerStep(o) PROVE Generations'
<1> USE DEF engineVars, supVars, pumpVars, WorkerOnly, WorkerGoto,
            IInv
<1>0. TypeOK /\ mon.gen \in Nat /\ wState[o].gen <= mon.gen
  BY TypedGenerations DEF Generations, Ordered
<1>1. CASE WOpen(o)
  <2>1. OnlyWorker(o) /\ wState' = wState
    BY <1>0, <1>1 DEF WOpen, OnlyWorker, TypeOK
  <2>2. Attached(o)' => bus' = [bus EXCEPT ![o] = <<>>]
    <3>1. CASE wPc' = [wPc EXCEPT ![o] = "closed"]
      BY <1>0, <3>1 DEF Attached, TypeOK
    <3> QED
      BY <1>1, <3>1 DEF WOpen
  <2>3. Attached(o)' => bus'[o] = <<>> /\ wPc'[o] = "start"
    BY <1>0, <1>1, <2>2 DEF WOpen, Attached, TypeOK
  <2>4. Attached(o)' => Holds(o, ready[o].gen)'
    BY <2>3 DEF Holds
  <2>5. wPc'[o] \in {"start", "closed"}
    BY <1>0, <1>1 DEF WOpen, TypeOK
  <2> QED
    BY <1>0, <2>1, <2>4, <2>5, WorkerFrame
<1>2. CASE WStart(o) \/ WLoopExit(o)
  <2>1. Harmless
    BY <1>0, <1>2 DEF WStart, WLoopExit, Harmless, Attached, TypeOK
  <2> QED
    BY <2>1, HarmlessStep
<1>3. CASE WCallback(o)
  <2>1. /\ OnlyWorker(o) /\ wState'[o] = mon /\ wPc'[o] = "gate"
        /\ bus' = bus /\ Attached(o)
    BY <1>0, <1>3 DEF WCallback, OnlyWorker, TypeOK, Attached
  <2>2. ready[o] # NoState => Holds(o, ready[o].gen)'
    BY <2>1 DEF Generations, BusTarget, OnlyWorker, Holds
  <2> QED
    BY <1>0, <2>1, <2>2, WorkerFrame
<1>4. CASE WGate(o)
  <2>1. OnlyWorker(o) /\ bus' = bus /\ Attached(o)
    BY <1>0, <1>4 DEF WGate, CallbackDone, OnlyWorker, TypeOK, Attached
  <2>2. ready[o] # NoState => Holds(o, ready[o].gen) /\ Holds(o, ready[o].gen)'
    BY <2>1 DEF Generations, BusTarget, OnlyWorker, Holds
  <2>3. CASE GateOpen(o)
    <3>1. /\ wState'[o] = wState[o] /\ wPc'[o] = "mix"
          /\ wState[o].on /\ ready[o] = wState[o] /\ ready[o] # NoState
      BY <1>0, <1>4, <2>3 DEF WGate, GateOpen, TypeOK, NoState
    <3>2. InBlock => wState'[o].gen <= pumpMix
      BY <3>1 DEF Generations, FreshForReady
    <3>3. pumpPc = "publish" /\ pumpOut = o => wState'[o] = pumpState
      BY <3>1 DEF Generations, PublishTarget
    <3>4. Holds(o, wState[o].gen)'
      BY <2>1, <2>2, <3>1 DEF OnlyWorker, Holds
    <3> QED
      BY <1>0, <2>1, <2>2, <3>1, <3>2, <3>3, <3>4, WorkerFrame
  <2>4. CASE ~GateOpen(o)
    <3>1. wState'[o].gen = 0 /\ wPc'[o] = "loop"
      BY <1>0, <1>4, <2>4 DEF WGate, CallbackDone, TypeOK, NoState
    <3> QED
      BY <1>0, <2>1, <2>2, <3>1, WorkerFrame
  <2> QED
    BY <2>3, <2>4
<1>5. CASE WMix(o)
  <2>1. /\ OnlyWorker(o) /\ wState' = wState /\ wPc'[o] = "recheck"
        /\ Attached(o) /\ wPc[o] = "mix" /\ wState[o].on
    BY <1>0, <1>5
    DEF WMix, OnlyWorker, TypeOK, Attached, Generations, MixTarget
  <2>2. PICK n \in 0 .. Len(bus[o]) :
          /\ wBuf' = [wBuf EXCEPT ![o] = {bus[o][i] : i \in 1 .. n}]
          /\ \E rest \in {SubSeq(bus[o], n + 1, Len(bus[o])), <<>>} :
               bus' = [bus EXCEPT ![o] = rest]
    BY <1>5 DEF WMix
  <2>3. Holds(o, wState[o].gen) /\ bus[o] \in Seq(Nat)
    BY <1>0, <2>1 DEF Generations, MixTarget, TypeOK
  <2>4. wBuf'[o] \subseteq {wState[o].gen}
    <3>1. wBuf'[o] = {bus[o][i] : i \in 1 .. n}
      BY <1>0, <2>2 DEF TypeOK
    <3>2. \A i \in 1 .. n : bus[o][i] = wState[o].gen
      BY <2>3 DEF Holds
    <3> QED
      BY <3>1, <3>2
  <2>5. ASSUME NEW gen, Holds(o, gen)
        PROVE  \A i \in 1 .. Len(bus'[o]) : bus'[o][i] = gen
    <3>1. CASE bus'[o] = <<>>
      BY <3>1
    <3>2. CASE bus'[o] = SubSeq(bus[o], n + 1, Len(bus[o]))
      BY <2>3, <2>5, <3>2 DEF Holds
    <3> QED
      BY <1>0, <2>2, <3>1, <3>2 DEF TypeOK
  <2>6. ready[o] # NoState => Holds(o, ready[o].gen)'
    <3>1. ready[o] # NoState => Holds(o, ready[o].gen)
      BY <2>1 DEF Generations, BusTarget
    <3> QED
      BY <2>1, <2>5, <3>1 DEF OnlyWorker, Holds
  <2> QED
    BY <1>0, <2>1, <2>4, <2>6, WorkerFrame
<1>6. CASE WRecheck(o)
  <2>1. /\ OnlyWorker(o) /\ wState'[o].gen = 0 /\ wPc'[o] \in {"loop", "release"}
        /\ Attached(o) /\ bus' = bus
    BY <1>0, <1>6
    DEF WRecheck, CallbackDone, OnlyWorker, TypeOK, Attached, NoState
  <2>2. ready[o] # NoState => Holds(o, ready[o].gen)'
    BY <2>1 DEF Generations, BusTarget, OnlyWorker, Holds
  <2> QED
    BY <1>0, <2>1, <2>2, WorkerFrame
<1>7. CASE WRelease(o)
  <2>1. /\ OnlyWorker(o) /\ wState' = wState /\ wPc'[o] \in {"loop", "failing"}
        /\ Attached(o) /\ bus' = bus
    BY <1>0, <1>7 DEF WRelease, OnlyWorker, TypeOK, Attached
  <2>2. ready[o] # NoState => Holds(o, ready[o].gen)'
    BY <2>1 DEF Generations, BusTarget, OnlyWorker, Holds
  <2> QED
    BY <1>0, <2>1, <2>2, WorkerFrame
<1>8. CASE WClose(o)
  <2>1. Harmless
    BY <1>0, <1>8 DEF WClose, Harmless, Attached, TypeOK
  <2> QED
    BY <2>1, HarmlessStep
<1> QED
  BY <1>1, <1>2, <1>3, <1>4, <1>5, <1>6, <1>7, <1>8 DEF WorkerStep

-----------------------------------------------------------------------------
LEMMA InitInv == Init => IInv
<1> SUFFICES ASSUME Init PROVE Generations
  BY InitType DEF IInv
<1> USE DEF Init
<1>1. NoState.gen = 0
  BY DEF NoState
<1>2. Ordered
  BY <1>1 DEF Ordered, InBlock
<1>3. FreshForAck /\ FreshForSync /\ FreshForReady /\ FreshForMix
  BY DEF FreshForAck, FreshForSync, FreshForReady, FreshForMix, InBlock
<1>4. SyncIsNewest /\ PublishTarget /\ SyncTarget /\ OneGenerationReady
  BY DEF SyncIsNewest, PublishTarget, SyncTarget, OneGenerationReady
<1>5. MixTarget /\ BusTarget
  BY DEF MixTarget, BusTarget, Attached
<1> QED
  BY <1>2, <1>3, <1>4, <1>5 DEF Generations

LEMMA NextInv == IInv /\ [Next]_vars => IInv'
<1> SUFFICES ASSUME IInv, [Next]_vars PROVE IInv'
  OBVIOUS
<1>1. TypeOK'
  BY NextType DEF IInv
<1>2. CASE UNCHANGED vars
  <2>1. Harmless
    BY <1>2, TypedGenerations
    DEF vars, engineVars, supVars, pumpVars, workVars, Harmless,
        IInv
  <2> QED
    BY <1>1, <2>1, HarmlessStep DEF IInv
<1>3. CASE Next
  BY <1>1, <1>3, UiGenerations, SupGenerations, PumpGenerations,
     WorkerGenerations DEF Next, IInv
<1> QED
  BY <1>2, <1>3

THEOREM Invariant == Spec => []IInv
  BY InitInv, NextInv, PTL DEF Spec

(* After a pause and a resume no block mixed before the resume reaches a   *)
(* callback, however many outputs, blocks and requests there are.          *)
THEOREM StaleReplayFree == Spec => []NoStaleReplay
<1>1. IInv => NoStaleReplay
  BY DEF IInv, Generations, MixTarget, NoStaleReplay
<1> QED
  BY <1>1, Invariant, PTL

(* However a resume is abandoned half-way, two outputs are never ready for *)
(* different generations.                                                  *)
THEOREM SingleReadyGeneration == Spec => []OneGenerationReady
<1>1. IInv => OneGenerationReady
  BY DEF IInv, Generations
<1> QED
  BY <1>1, Invariant, PTL

-----------------------------------------------------------------------------
(* The second inductive invariant: who owns which worker.                  *)

AllClosed == \A o \in Outputs : wPc[o] = "none"
ClosedBelow(n) == \A o \in Outputs : o < n => wPc[o] = "none"

(* Who holds configMutex_.                                                 *)
SupLockPcs == {"outStop", "outStart", "revert", "revertNotify", "restart",
               "failStop"}
LockOwner ==
  /\ configLock = "ui" <=> uiPc = "pick"
  /\ configLock = "sup" <=> supPc \in SupLockPcs

(* Which threads exist while the UI thread starts or stops the engine, and *)
(* what the flags say of them.                                             *)
StopPcs == {"stopClear", "stopSignal", "joinSup", "joinPump", "stopRender",
            "stopJoin", "open"}
SpawnPcs == {"spawnPump", "spawnSup"}
DownPcs == {"failBits", "failLock", "failStop", "done"}
Lifecycle ==
  /\ running => ~quit /\ sched = "open"
  /\ uiPc \in StopPcs => ~running
  /\ uiPc \in SpawnPcs => running /\ mon.gen > 0
  /\ supPc \in DownPcs => ~running
  /\ supPc # "none" => sched # "closed"
  /\ running /\ uiPc \notin SpawnPcs => supPc # "none"
  /\ uiPc \in {"joinPump", "stopRender", "stopJoin", "open"} \cup SpawnPcs =>
       supPc = "none"
  /\ uiPc \in {"stopRender", "stopJoin", "open"} => sched = "closed"
  /\ quit /\ supPc \notin {"none", "failLock", "failStop", "done"} =>
       uiPc = "joinSup"

(* setOutputDevice holds the lock only while the engine forwards, or       *)
(* until failSupervisor gets it.                                           *)
PickHolds ==
  uiPc = "pick" =>
    /\ uiOut \in Outputs
    /\ supPc \notin {"none", "failStop", "done"}
    /\ mon.on \/ supPc = "failLock"

(* Where a stop, or a failure, has joined every worker.                    *)
StoppedQuiet ==
  /\ sched = "closed" /\ uiPc \notin {"stopRender", "stopJoin"} => AllClosed
  /\ uiPc \in {"stopRender", "stopJoin"} => uiOut >= 1 /\ ClosedBelow(uiOut)
FailedQuiet ==
  /\ supPc = "failStop" => supOut >= 1 /\ ClosedBelow(supOut)
  /\ supPc = "done" /\ uiPc # "joinSup" => AllClosed

(* Requests are handled in the order in which they were made: within one   *)
(* generation the bit is only ever withdrawn.                              *)
UpTo(s, t) == s.gen < t.gen \/ (s.gen = t.gen /\ (t.on => s.on))
Requests ==
  /\ UpTo(handled, mon)
  /\ supPc \in SyncPcs \cup {"revert", "revertNotify"} =>
       UpTo(handled, supState) /\ handled # supState /\ UpTo(supState, mon)
  /\ supPc \in {"captures", "pass", "restart"} => supState = handled
  /\ supPc \in {"pass", "restart", "outStart"} => supState.on
  /\ supPc = "ack" => supOut = 1
  /\ supPc \in {"outStop", "outStart", "restart"} => supOut \in Outputs
  /\ supPc = "outStart" =>
       ready[supOut] = supState /\ wPc[supOut] = "none"

(* A worker told to stop is being waited for.                              *)
Joining(o) ==
  \/ uiPc = "pick" /\ uiOut = o
  \/ supPc \in {"outStop", "restart"} /\ supOut = o
JoinedOrJoining ==
  \A o \in Outputs :
    /\ wPc[o] = "closing" => rQuit[o]
    /\ running /\ rQuit[o] /\ wPc[o] # "none" => Joining(o)

(* What the supervisor has done for the request it installs ...            *)
Recoverable(o) ==
  wPc[o] # "none" \/ rState[o] = "Failed" \/ Joining(o)
Forwarding(s, o) == ready[o] = s /\ Recoverable(o)
PausedSoFar ==
  supPc \in {"outCheck", "outStop"} /\ supState = mon /\ ~mon.on =>
    ClosedBelow(supOut)
ResumedSoFar ==
  supPc \in {"outCheck", "outStop", "outStart"} /\ supState = mon
    /\ Monitoring =>
      \A o \in Outputs : o < supOut => Forwarding(mon, o)

(* ... and for the one it has handled.                                     *)
RestPcs == {"wait", "debounce", "load", "captures"}
PausedHandled ==
  supPc \in RestPcs /\ handled = mon /\ ~mon.on => AllClosed
ResumedHandled ==
  supPc \in RestPcs \cup {"pass", "restart"} /\ handled = mon /\ Monitoring =>
    \A o \in Outputs : Forwarding(mon, o)

Ownership ==
  /\ LockOwner /\ Lifecycle /\ PickHolds /\ StoppedQuiet /\ FailedQuiet
  /\ Requests /\ JoinedOrJoining
  /\ PausedSoFar /\ ResumedSoFar /\ PausedHandled /\ ResumedHandled

-----------------------------------------------------------------------------
LEMMA RequestOrder ==
  /\ \A s \in MonState : UpTo(s, s) /\ UpTo(s, Paused(s))
  /\ \A s \in MonState, b \in BOOLEAN : UpTo(s, NextState(s, b))
  /\ \A s, t, u \in MonState : UpTo(s, t) /\ UpTo(t, u) => UpTo(s, u)
  /\ \A s, t \in MonState : UpTo(s, t) /\ UpTo(t, s) => s = t
<1>1. \A s \in MonState : UpTo(s, s) /\ UpTo(s, Paused(s))
  BY DEF MonState, UpTo, Paused
<1>2. \A s \in MonState, b \in BOOLEAN : UpTo(s, NextState(s, b))
  BY DEF MonState, UpTo, NextState
<1>3. \A s, t, u \in MonState : UpTo(s, t) /\ UpTo(t, u) => UpTo(s, u)
  BY DEF MonState, UpTo
<1>4. ASSUME NEW s \in MonState, NEW t \in MonState, UpTo(s, t), UpTo(t, s)
      PROVE  s = t
  <2>1. s.gen \in Nat /\ t.gen \in Nat /\ s.on \in BOOLEAN /\ t.on \in BOOLEAN
    BY DEF MonState
  <2>2. s.gen = t.gen
    BY <1>4, <2>1 DEF UpTo
  <2>3. s.on = t.on
    <3>1. ~(s.gen < t.gen) /\ ~(t.gen < s.gen)
      BY <2>1, <2>2
    <3>2. (t.on => s.on) /\ (s.on => t.on)
      BY <1>4, <3>1, Zenon DEF UpTo
    <3>3. CASE s.on
      BY <2>1, <3>2, <3>3, Zenon
    <3>4. CASE ~s.on
      BY <2>1, <3>2, <3>4, Zenon
    <3> QED
      BY <3>3, <3>4
  <2> QED
    BY <2>2, <2>3, SameState
<1> QED
  BY <1>1, <1>2, <1>3, <1>4

(* A request seen before a pause is the paused one only if nothing changed.*)
LEMMA PausedLast ==
  \A s, t \in MonState : UpTo(s, t) /\ s = Paused(t) => s = t
<1> SUFFICES ASSUME NEW s \in MonState, NEW t \in MonState, UpTo(s, t),
                    s = Paused(t)
             PROVE  s = t
  OBVIOUS
<1>1. s.gen = t.gen /\ ~s.on /\ s.gen \in Nat /\ t.on \in BOOLEAN
  BY DEF Paused, MonState
<1>2. ~(s.gen < t.gen)
  BY <1>1
<1>3. ~t.on
  BY <1>1, <1>2, Zenon DEF UpTo
<1>4. UpTo(t, s)
  BY <1>1, <1>3, Zenon DEF UpTo
<1> QED
  BY <1>4, RequestOrder

(* The steps that move the requested generation.                           *)
LEMMA UiMon ==
  ASSUME TypeOK, UiCall \/ UiStep
  PROVE  /\ UpTo(mon, mon')
         /\ mon' = mon \/ ~mon'.on \/ mon'.gen > mon.gen
<1> USE DEF TypeOK
<1>1. mon \in MonState /\ mon.gen \in Nat
  BY DEF MonState
<1>2. CASE mon' = mon
  BY <1>1, <1>2, RequestOrder
<1>3. CASE \E b \in BOOLEAN : mon' = NextState(mon, b)
  BY <1>1, <1>3, RequestOrder DEF NextState
<1>4. CASE mon' = Paused(mon)
  BY <1>1, <1>4, RequestOrder DEF Paused
<1>5. mon' = mon \/ (\E b \in BOOLEAN : mon' = NextState(mon, b))
        \/ mon' = Paused(mon)
  BY DEF UiCall, UiStep, UiToggle, UiPick, UiStop, UiExchange, UiNotify,
         UiPickStart, UiStopClear, UiStopSignal, UiJoinSup, UiJoinPump,
         UiStopRender, UiStopJoin, UiOpen, UiStartFails, UiSpawnPump,
         UiSpawnSup, engineVars, UiUnchangedButMon
<1> QED
  BY <1>2, <1>3, <1>4, <1>5

LEMMA UiControl ==
  ASSUME IInv, TypeOK', Ownership, UiCall \/ UiStep
  PROVE  (LockOwner /\ Lifecycle /\ PickHolds)'
<1> USE DEF engineVars, wakeVars, supVars, pumpVars, streamVars, workVars, UiFrame, UiUnchangedButMon, LockOwner, Lifecycle,
            PickHolds, StopPcs, SpawnPcs, DownPcs, SupLockPcs
<1>0. /\ LockOwner /\ Lifecycle /\ PickHolds
      /\ mon.gen \in Nat /\ running \in BOOLEAN /\ quit \in BOOLEAN
  BY TypedGenerations DEF Ownership, IInv, TypeOK
<1>1. ASSUME NEW enabled \in BOOLEAN, UiToggle(enabled)
      PROVE  (LockOwner /\ Lifecycle /\ PickHolds)'
  BY <1>0, <1>1 DEF UiToggle, Call
<1>2. ASSUME NEW o \in Outputs, UiPick(o)
      PROVE  (LockOwner /\ Lifecycle /\ PickHolds)'
  BY <1>0, <1>2 DEF UiPick, Call, LockFree, Monitoring
<1>3. ASSUME NEW goal \in {"stop", "on", "off"}, UiStop(goal)
      PROVE  (LockOwner /\ Lifecycle /\ PickHolds)'
  BY <1>0, <1>3 DEF UiStop, Call
<1>4. CASE UiExchange
  BY <1>0, <1>4 DEF UiExchange, NextState
<1>5. CASE UiNotify
  BY <1>0, <1>5 DEF UiNotify
<1>6. CASE UiPickStart
  BY <1>0, <1>6 DEF UiPickStart
<1>7. CASE UiStopClear
  BY <1>0, <1>7 DEF UiStopClear, AfterStop, Paused
<1>8. CASE UiStopSignal
  BY <1>0, <1>8 DEF UiStopSignal
<1>9. CASE UiJoinSup
  BY <1>0, <1>9 DEF UiJoinSup
<1>10. CASE UiJoinPump
  BY <1>0, <1>10 DEF UiJoinPump
<1>11. CASE UiStopRender
  BY <1>0, <1>11 DEF UiStopRender, AfterStop
<1>12. CASE UiStopJoin
  BY <1>0, <1>12 DEF UiStopJoin
<1>13. CASE UiOpen
  BY <1>0, <1>13 DEF UiOpen, NextState
<1>14. CASE UiStartFails
  BY <1>0, <1>14 DEF UiStartFails
<1>15. CASE UiSpawnPump
  BY <1>0, <1>15 DEF UiSpawnPump
<1>16. CASE UiSpawnSup
  BY <1>0, <1>16 DEF UiSpawnSup
<1> QED
  BY <1>1, <1>2, <1>3, <1>4, <1>5, <1>6, <1>7, <1>8, <1>9, <1>10, <1>11,
     <1>12, <1>13, <1>14, <1>15, <1>16 DEF UiCall, UiStep

(* What a UI step may do to the workers: start the one that was picked, or *)
(* note that one has ended.                                                *)
LEMMA UiRequests ==
  ASSUME IInv, TypeOK', Ownership, UiCall \/ UiStep
  PROVE  Requests'
<1> USE DEF engineVars, wakeVars, supVars, pumpVars, streamVars, workVars, UiFrame, UiUnchangedButMon
<1>0. /\ mon \in MonState /\ mon' \in MonState /\ UpTo(mon, mon')
      /\ handled \in MonState /\ supState \in MonState
  BY UiMon DEF IInv, TypeOK
<1>1. CASE UiSpawnSup
  <2>1. handled' = NoState /\ mon' = mon /\ mon.gen > 0 /\ supPc' = "wait"
    BY <1>1 DEF UiSpawnSup, Ownership, Lifecycle, SpawnPcs
  <2>2. UpTo(handled', mon')
    BY <2>1, TypedGenerations DEF UpTo, NoState, IInv
  <2> QED
    BY <2>1, <2>2 DEF Requests, SyncPcs
<1>2. CASE UiJoinSup
  BY <1>2 DEF UiJoinSup, Requests, Ownership, SyncPcs
<1>3. ASSUME UNCHANGED supVars, UNCHANGED ready,
             \A o \in Outputs : wPc'[o] # wPc[o] => configLock = "ui"
      PROVE  Requests'
  <2>1. Requests /\ LockOwner
    BY DEF Ownership
  <2>2. supPc = "outStart" => wPc'[supOut] = "none"
    BY <1>3, <2>1 DEF Requests, LockOwner, SupLockPcs
  <2>3. UpTo(handled, mon')
    BY <1>0, <2>1, RequestOrder DEF Requests
  <2>4. UpTo(supState, mon) => UpTo(supState, mon')
    BY <1>0, RequestOrder
  <2> QED
    BY <1>3, <2>1, <2>2, <2>3, <2>4 DEF Requests
<1>4. CASE UiPickStart
  <2>1. configLock = "ui"
    BY <1>4 DEF UiPickStart, Ownership, LockOwner
  <2> QED
    BY <1>3, <1>4, <2>1 DEF UiPickStart
<1>5. CASE UiOpen
  <2>1. supPc' = "none"
    BY <1>5 DEF UiOpen, Ownership, Lifecycle
  <2>2. UpTo(handled', mon')
    BY <1>0, <1>5, RequestOrder DEF UiOpen, Ownership, Requests
  <2> QED
    BY <2>1, <2>2 DEF Requests, SyncPcs
<1>6. CASE UNCHANGED <<supVars, ready, wPc>>
  BY <1>3, <1>6
<1> QED
  BY <1>1, <1>2, <1>4, <1>5, <1>6
  DEF UiCall, UiStep, UiToggle, UiPick, UiStop, UiExchange, UiNotify,
      UiStopClear, UiStopSignal, UiJoinPump, UiStopRender, UiStopJoin,
      UiStartFails, UiSpawnPump

LEMMA UiQuiet ==
  ASSUME IInv, TypeOK', Ownership, UiCall \/ UiStep
  PROVE  (StoppedQuiet /\ FailedQuiet)'
<1> USE DEF engineVars, wakeVars, supVars, pumpVars, streamVars, workVars, UiFrame, UiUnchangedButMon, StoppedQuiet, FailedQuiet,
            AllClosed, ClosedBelow
<1>0. /\ StoppedQuiet /\ FailedQuiet /\ Lifecycle /\ LockOwner /\ PickHolds
      /\ uiOut \in Nat /\ NumOutputs \in Nat /\ wPc \in [Outputs -> WorkerPcs]
  BY HandoffAssumption DEF Ownership, IInv, TypeOK
<1>1. CASE UiPickStart
  BY <1>0, <1>1
  DEF UiPickStart, Lifecycle, LockOwner, PickHolds, SupLockPcs
<1>2. CASE UiJoinSup
  BY <1>0, <1>2 DEF UiJoinSup, Lifecycle
<1>3. CASE UiJoinPump
  <2>1. \A o \in Outputs : ~(o < 1)
    BY DEF Outputs
  <2> QED
    BY <1>0, <1>3, <2>1 DEF UiJoinPump, Lifecycle
<1>4. CASE UiStopRender
  <2>1. uiOut \notin Outputs /\ uiOut >= 1 => \A o \in Outputs : o < uiOut
    BY <1>0 DEF Outputs
  <2> QED
    BY <1>0, <1>4, <2>1 DEF UiStopRender, AfterStop, Lifecycle
<1>5. CASE UiStopJoin
  <2>1. \A o \in Outputs : o < uiOut + 1 => o < uiOut \/ o = uiOut
    BY <1>0 DEF Outputs
  <2> QED
    BY <1>0, <1>5, <2>1 DEF UiStopJoin, Joined, Lifecycle
<1>6. CASE UiOpen
  BY <1>0, <1>6 DEF UiOpen, Lifecycle
<1>7. CASE UiSpawnSup
  BY <1>0, <1>7 DEF UiSpawnSup
<1>8. CASE UiStopClear
  BY <1>0, <1>8 DEF UiStopClear, AfterStop
<1>9. CASE UiStopSignal
  BY <1>0, <1>9 DEF UiStopSignal
<1>10. CASE UiStartFails \/ UiSpawnPump
  BY <1>0, <1>10 DEF UiStartFails, UiSpawnPump, Lifecycle, SpawnPcs
<1>11. ASSUME UNCHANGED <<sched, supPc, supOut, wPc>>,
              uiPc \in {"idle", "toggle", "notify"},
              uiPc' \in {"idle", "toggle", "notify", "pick", "stopClear"}
       PROVE  (StoppedQuiet /\ FailedQuiet)'
  BY <1>0, <1>11
<1>12. CASE UiCall \/ UiExchange \/ UiNotify
  BY <1>11, <1>12
  DEF UiCall, UiToggle, UiPick, UiStop, Call, UiExchange, UiNotify
<1> QED
  BY <1>1, <1>2, <1>3, <1>4, <1>5, <1>6, <1>7, <1>8, <1>9, <1>10, <1>12
  DEF UiStep

LEMMA UiJoins ==
  ASSUME IInv, TypeOK', Ownership, UiCall \/ UiStep
  PROVE  JoinedOrJoining'
<1> USE DEF engineVars, wakeVars, supVars, pumpVars, streamVars, workVars, UiFrame, UiUnchangedButMon, JoinedOrJoining, Joining
<1>0. /\ JoinedOrJoining /\ LockOwner /\ Lifecycle /\ StoppedQuiet
      /\ wPc \in [Outputs -> WorkerPcs] /\ rQuit \in [Outputs -> BOOLEAN]
  BY DEF Ownership, IInv, TypeOK
<1>1. CASE UiPickStart
  BY <1>0, <1>1 DEF UiPickStart, StartWorker, Joined
<1>2. CASE UiOpen
  BY <1>0, <1>2 DEF UiOpen, StoppedQuiet, AllClosed, Lifecycle
<1>3. CASE UiStopRender
  BY <1>0, <1>3 DEF UiStopRender, AskStop, Lifecycle, StopPcs
<1>4. ASSUME NEW o \in Outputs, UiPick(o) PROVE JoinedOrJoining'
  BY <1>0, <1>4 DEF UiPick, AskStop, Call
<1>5. CASE UiJoinSup
  BY <1>0, <1>5 DEF UiJoinSup, Lifecycle, StopPcs
<1>7. CASE UiSpawnSup
  BY <1>0, <1>7 DEF UiSpawnSup, Lifecycle, SpawnPcs
<1>6. ASSUME UNCHANGED <<rQuit, wPc, supPc, supOut>>, running' => running,
             uiPc # "pick"
      PROVE  JoinedOrJoining'
  BY <1>0, <1>6
<1> QED
  BY <1>1, <1>2, <1>3, <1>4, <1>5, <1>6, <1>7
  DEF UiCall, UiStep, UiToggle, UiStop, Call, UiExchange, UiNotify,
      UiStopClear, UiStopSignal, UiJoinPump, UiStopJoin, UiStartFails,
      UiSpawnPump

(* What the supervisor did for a request still holds after a UI step, or   *)
(* the request has been replaced by a newer one.                           *)
LEMMA UiServed ==
  ASSUME IInv, TypeOK', Ownership, UiCall \/ UiStep
  PROVE  (PausedSoFar /\ ResumedSoFar /\ PausedHandled /\ ResumedHandled)'
<1> USE DEF engineVars, wakeVars, supVars, pumpVars, streamVars, workVars, UiFrame, UiUnchangedButMon, PausedSoFar, ResumedSoFar,
            PausedHandled, ResumedHandled, AllClosed, ClosedBelow,
            Forwarding, Recoverable, Joining, RestPcs
<1>0. /\ PausedSoFar /\ ResumedSoFar /\ PausedHandled /\ ResumedHandled
      /\ Requests /\ PickHolds /\ Lifecycle /\ LockOwner
      /\ wPc \in [Outputs -> WorkerPcs]
      /\ mon.gen \in Nat /\ handled.gen \in Nat /\ supState.gen \in Nat
  BY TypedGenerations DEF Ownership, IInv, TypeOK, MonState
<1>1. CASE UiPickStart
  <2>1. /\ UNCHANGED <<mon, ready, running, handled, supPc, supState, supOut>>
        /\ mon.on \/ supPc = "failLock"
        /\ \A o \in Outputs :
             \/ wPc'[o] # "none"
             \/ o # uiOut /\ wPc'[o] = wPc[o] /\ rState'[o] = rState[o]
    BY <1>0, <1>1 DEF UiPickStart, StartWorker, PickHolds, IInv, TypeOK
  <2>2. PausedSoFar' /\ PausedHandled'
    BY <2>1
  <2>3. ResumedSoFar' /\ ResumedHandled'
    BY <1>0, <2>1 DEF Monitoring
  <2> QED
    BY <2>2, <2>3
<1>2. CASE UiJoinSup
  BY <1>0, <1>2 DEF UiJoinSup
<1>3. CASE UiSpawnSup
  BY <1>0, <1>3 DEF UiSpawnSup, Lifecycle, SpawnPcs, NoState
<1>4. CASE UiOpen \/ UiJoinPump \/ UiStopRender \/ UiStopJoin
  BY <1>0, <1>4 DEF UiOpen, UiJoinPump, UiStopRender, UiStopJoin, Lifecycle
<1>5. CASE UiStopClear
  <2>1. /\ UNCHANGED <<ready, running, handled, supPc, supState, supOut, wPc>>
        /\ ~running /\ mon' = Paused(mon)
    BY <1>0, <1>5 DEF UiStopClear, Lifecycle, StopPcs
  <2>2. PausedHandled' /\ PausedSoFar'
    <3>1. mon \in MonState /\ handled \in MonState /\ supState \in MonState
      BY DEF IInv, TypeOK
    <3>2. handled = Paused(mon) => handled = mon
      BY <1>0, <3>1, PausedLast DEF Requests
    <3>3. supPc \in SyncPcs /\ supState = Paused(mon) => supState = mon
      BY <1>0, <3>1, PausedLast DEF Requests
    <3> QED
      BY <1>0, <2>1, <3>2, <3>3 DEF SyncPcs
  <2>3. ResumedSoFar' /\ ResumedHandled'
    BY <2>1 DEF Monitoring
  <2> QED
    BY <2>2, <2>3
<1>6. CASE UiExchange
  BY <1>0, <1>6 DEF UiExchange, NextState, Requests, UpTo, SyncPcs,
                    Monitoring
<1>7. ASSUME UNCHANGED <<mon, ready, supPc, supState, supOut, handled, wPc,
                         rState>>,
             running' => running, uiPc = "pick" => FALSE
      PROVE  (PausedSoFar /\ ResumedSoFar /\ PausedHandled /\ ResumedHandled)'
  BY <1>0, <1>7 DEF Monitoring
<1> QED
  BY <1>1, <1>2, <1>3, <1>4, <1>5, <1>6, <1>7
  DEF UiCall, UiStep, UiToggle, UiPick, UiStop, Call, UiNotify,
      UiStopSignal, UiStartFails, UiSpawnPump

-----------------------------------------------------------------------------
(* The same for the steps of the supervisor.                               *)

LEMMA SupControl ==
  ASSUME IInv, TypeOK', Ownership, SupStep \/ SupPoll
  PROVE  (LockOwner /\ Lifecycle /\ PickHolds)'
<1> USE DEF engineVars, wakeVars, uiVars, pumpVars, streamVars, workVars, SupFrame, UiUnchangedButMon, LockOwner, Lifecycle,
            PickHolds, StopPcs, SpawnPcs, DownPcs, SupLockPcs
<1>0. /\ LockOwner /\ Lifecycle /\ PickHolds
      /\ mon.gen \in Nat /\ running \in BOOLEAN /\ quit \in BOOLEAN
  BY TypedGenerations DEF Ownership, IInv, TypeOK
<1>1. CASE SupLeaveWait
  BY <1>0, <1>1 DEF SupLeaveWait, SupGoto
<1>2. CASE SupDebounce
  BY <1>0, <1>2 DEF SupDebounce, SupGoto
<1>3. CASE SupLoad
  BY <1>0, <1>3 DEF SupLoad
<1>4. CASE SyncClear
  BY <1>0, <1>4 DEF SyncClear
<1>5. CASE SyncAck
  BY <1>0, <1>5 DEF SyncAck, SupGoto, SupAgain
<1>6. CASE SyncCheck
  BY <1>0, <1>6 DEF SyncCheck, SupGoto, SupAgain, LockFree
<1>7. CASE SyncStopped
  BY <1>0, <1>7 DEF SyncStopped
<1>8. CASE SyncStart
  BY <1>0, <1>8 DEF SyncStart
<1>9. CASE SyncStartThrows
  BY <1>0, <1>9 DEF SyncStartThrows, SupGoto, SupAgain
<1>10. CASE SyncRevert
  BY <1>0, <1>10 DEF SyncRevert, SupGoto, SupAgain, NextState
<1>11. CASE SyncRevertNotify
  BY <1>0, <1>11 DEF SyncRevertNotify, SupAgain
<1>12. CASE SupCaptures
  BY <1>0, <1>12 DEF SupCaptures, SupGoto, SupAgain
<1>13. CASE SupPass
  BY <1>0, <1>13 DEF SupPass, SupGoto, SupAgain, LockFree
<1>14. CASE SupRestart
  BY <1>0, <1>14 DEF SupRestart
<1>15. CASE SupFail
  BY <1>0, <1>15 DEF SupFail, SupGoto
<1>16. CASE SupFailBits
  BY <1>0, <1>16 DEF SupFailBits, SupGoto, Paused
<1>17. CASE SupFailLock
  BY <1>0, <1>17 DEF SupFailLock, LockFree
<1>18. CASE SupFailStop
  BY <1>0, <1>18 DEF SupFailStop
<1> QED
  BY <1>1, <1>2, <1>3, <1>4, <1>5, <1>6, <1>7, <1>8, <1>9,
     <1>10, <1>11, <1>12, <1>13, <1>14, <1>15, <1>16, <1>17, <1>18
  DEF SupStep, SupWoken, SupPoll

LEMMA SupRequests ==
  ASSUME IInv, TypeOK', Ownership, SupStep \/ SupPoll
  PROVE  Requests'
<1> USE DEF engineVars, wakeVars, uiVars, pumpVars, streamVars, workVars, SupFrame, UiUnchangedButMon, Requests, SyncPcs
<1>0. /\ Requests
      /\ mon \in MonState /\ handled \in MonState /\ supState \in MonState
      /\ ready \in [Outputs -> MonState] /\ wPc \in [Outputs -> WorkerPcs]
  BY DEF Ownership, IInv, TypeOK
<1>1. CASE SupLeaveWait
  BY <1>0, <1>1 DEF SupLeaveWait, SupGoto
<1>2. CASE SupDebounce
  BY <1>0, <1>2 DEF SupDebounce, SupGoto
<1>3. CASE SupLoad
  BY <1>0, <1>3, RequestOrder DEF SupLoad
<1>4. CASE SyncClear
  BY <1>0, <1>4 DEF SyncClear
<1>5. CASE SyncAck
  BY <1>0, <1>5 DEF SyncAck, SupGoto, SupAgain
<1>6. CASE SyncCheck
  BY <1>0, <1>6 DEF SyncCheck, SupGoto, SupAgain
<1>7. CASE SyncStopped
  BY <1>0, <1>7 DEF SyncStopped, ReadyState, Joined
<1>8. CASE SyncStart
  BY <1>0, <1>8 DEF SyncStart
<1>9. CASE SyncStartThrows
  BY <1>0, <1>9 DEF SyncStartThrows, SupGoto, SupAgain
<1>10. CASE SyncRevert
  <2> DEFINE n == NextState(mon, FALSE)
  <2>1. UpTo(mon, n) /\ n \in MonState
    BY <1>0, RequestOrder, StateType
  <2>2. mon' = n \/ mon' = mon
    BY <1>10 DEF SyncRevert
  <2> HIDE DEF n
  <2>3. UpTo(handled, n) /\ (UpTo(supState, mon) => UpTo(supState, n))
    BY <1>0, <2>1, RequestOrder
  <2> QED
    BY <1>0, <1>10, <2>2, <2>3 DEF SyncRevert, SupGoto, SupAgain
<1>11. CASE SyncRevertNotify
  BY <1>0, <1>11 DEF SyncRevertNotify, SupAgain
<1>12. CASE SupCaptures
  BY <1>0, <1>12 DEF SupCaptures, SupGoto, SupAgain
<1>13. CASE SupPass
  BY <1>0, <1>13 DEF SupPass, SupGoto, SupAgain
<1>14. CASE SupRestart
  BY <1>0, <1>14 DEF SupRestart
<1>15. CASE SupFail
  BY <1>0, <1>15 DEF SupFail, SupGoto
<1>16. CASE SupFailBits
  <2>1. UpTo(mon, Paused(mon)) /\ Paused(mon) \in MonState
    BY <1>0, RequestOrder, StateType
  <2>2. UpTo(handled, Paused(mon))
    BY <1>0, <2>1, RequestOrder
  <2> QED
    BY <1>0, <1>16, <2>2 DEF SupFailBits, SupGoto
<1>17. CASE SupFailLock
  BY <1>0, <1>17 DEF SupFailLock
<1>18. CASE SupFailStop
  BY <1>0, <1>18 DEF SupFailStop
<1> QED
  BY <1>1, <1>2, <1>3, <1>4, <1>5, <1>6, <1>7, <1>8, <1>9, <1>10, <1>11,
     <1>12, <1>13, <1>14, <1>15, <1>16, <1>17, <1>18
  DEF SupStep, SupWoken, SupPoll

LEMMA SupQuiet ==
  ASSUME IInv, TypeOK', Ownership, SupStep \/ SupPoll
  PROVE  (StoppedQuiet /\ FailedQuiet)'
<1> USE DEF engineVars, wakeVars, uiVars, pumpVars, streamVars, workVars, SupFrame, UiUnchangedButMon, StoppedQuiet, FailedQuiet,
            AllClosed, ClosedBelow, Lifecycle
<1>0. /\ StoppedQuiet /\ FailedQuiet /\ Lifecycle
      /\ supOut \in Nat /\ NumOutputs \in Nat /\ wPc \in [Outputs -> WorkerPcs]
  BY HandoffAssumption DEF Ownership, IInv, TypeOK
<1>1. CASE SupLeaveWait
  BY <1>0, <1>1 DEF SupLeaveWait, SupGoto
<1>2. CASE SupDebounce
  BY <1>0, <1>2 DEF SupDebounce, SupGoto
<1>3. CASE SupCaptures
  BY <1>0, <1>3 DEF SupCaptures, SupGoto, SupAgain
<1>4. CASE SupFailLock
  <2>1. \A o \in Outputs : ~(o < 1)
    BY DEF Outputs
  <2> QED
    BY <1>0, <1>4, <2>1 DEF SupFailLock
<1>5. CASE SupFailStop
  <2>1. \A o \in Outputs : o < supOut + 1 => o < supOut \/ o = supOut
    BY <1>0 DEF Outputs
  <2>2. supOut \notin Outputs /\ supOut >= 1 => \A o \in Outputs : o < supOut
    BY <1>0 DEF Outputs
  <2>3. CASE supOut \in Outputs
    BY <1>0, <1>5, <2>1, <2>3 DEF SupFailStop, Joined
  <2>4. CASE supOut \notin Outputs
    BY <1>0, <1>5, <2>2, <2>4 DEF SupFailStop
  <2> QED
    BY <2>3, <2>4
<1>6. CASE SyncStart \/ SupRestart
  BY <1>0, <1>6 DEF SyncStart, SupRestart
<1>7. CASE SupFailBits
  BY <1>0, <1>7 DEF SupFailBits, SupGoto
<1>8. ASSUME UNCHANGED <<sched, uiPc, uiOut, wPc>>,
             supPc' \notin {"failStop", "done"}
      PROVE  (StoppedQuiet /\ FailedQuiet)'
  BY <1>0, <1>8
<1>9. CASE SupLoad \/ SyncClear \/ SyncAck \/ SyncCheck \/ SyncStopped
  BY <1>8, <1>9 DEF SupLoad, SyncClear, SyncAck, SyncCheck, SyncStopped,
                    SupGoto, SupAgain
<1>10. CASE SyncStartThrows \/ SyncRevert \/ SyncRevertNotify \/ SupPass
              \/ SupFail
  BY <1>8, <1>10 DEF SyncStartThrows, SyncRevert, SyncRevertNotify, SupPass,
                     SupFail, SupGoto, SupAgain
<1> QED
  BY <1>1, <1>2, <1>3, <1>4, <1>5, <1>6, <1>7, <1>9, <1>10
  DEF SupStep, SupWoken, SupPoll

LEMMA SupJoins ==
  ASSUME IInv, TypeOK', Ownership, SupStep \/ SupPoll
  PROVE  JoinedOrJoining'
<1> USE DEF engineVars, wakeVars, uiVars, pumpVars, streamVars, workVars, SupFrame, UiUnchangedButMon, JoinedOrJoining, Joining
<1>0. /\ JoinedOrJoining /\ Lifecycle /\ Requests
      /\ wPc \in [Outputs -> WorkerPcs] /\ rQuit \in [Outputs -> BOOLEAN]
  BY DEF Ownership, IInv, TypeOK
<1>1. CASE SyncCheck
  BY <1>0, <1>1 DEF SyncCheck, AskStop, SupGoto, SupAgain
<1>2. CASE SyncStopped
  BY <1>0, <1>2 DEF SyncStopped, Joined
<1>3. CASE SyncStart
  BY <1>0, <1>3 DEF SyncStart, StartWorker
<1>4. CASE SyncStartThrows
  BY <1>0, <1>4 DEF SyncStartThrows, SupGoto, SupAgain, Requests
<1>5. CASE SupPass
  BY <1>0, <1>5 DEF SupPass, AskStop, SupGoto, SupAgain
<1>6. CASE SupRestart
  BY <1>0, <1>6 DEF SupRestart, StartWorker, Joined
<1>7. CASE SupFailLock \/ SupFailStop
  BY <1>0, <1>7 DEF SupFailLock, SupFailStop, Lifecycle, DownPcs
<1>8. ASSUME UNCHANGED <<rQuit, wPc, uiPc, uiOut>>, running' => running,
             supPc \notin {"outStop", "restart"}
      PROVE  JoinedOrJoining'
  BY <1>0, <1>8
<1>9. CASE SupLeaveWait \/ SupDebounce \/ SupLoad \/ SyncClear \/ SyncAck
  BY <1>8, <1>9 DEF SupLeaveWait, SupDebounce, SupLoad, SyncClear, SyncAck
<1>10. CASE SyncRevert \/ SyncRevertNotify \/ SupCaptures \/ SupFail
              \/ SupFailBits
  BY <1>8, <1>10 DEF SyncRevert, SyncRevertNotify, SupCaptures, SupFail,
                     SupFailBits
<1> QED
  BY <1>1, <1>2, <1>3, <1>4, <1>5, <1>6, <1>7, <1>9, <1>10
  DEF SupStep, SupWoken, SupPoll

(* What synchronizeOutputs achieves, output by output.                     *)
LEMMA SupInstalls ==
  ASSUME IInv, TypeOK', Ownership, SupStep \/ SupPoll
  PROVE  (PausedSoFar /\ ResumedSoFar)'
<1> USE DEF engineVars, wakeVars, uiVars, pumpVars, streamVars, workVars, SupFrame, UiUnchangedButMon, PausedSoFar, ResumedSoFar,
            ClosedBelow, Forwarding, Recoverable, Joining
<1>0. /\ PausedSoFar /\ ResumedSoFar /\ Requests
      /\ supOut \in Nat /\ NumOutputs \in Nat
      /\ wPc \in [Outputs -> WorkerPcs] /\ rState \in [Outputs -> StreamState]
      /\ ready \in [Outputs -> MonState]
  BY HandoffAssumption DEF Ownership, IInv, TypeOK
<1>1. /\ \A o \in Outputs : ~(o < 1)
      /\ \A o \in Outputs : o < supOut + 1 <=> o < supOut \/ o = supOut
  BY <1>0 DEF Outputs
<1>2. CASE SyncAck
  BY <1>0, <1>1, <1>2 DEF SyncAck, SupGoto, SupAgain, Requests
<1>3. CASE SyncCheck
  <2>1. CASE supPc' = "outStop"
    <3>1. UNCHANGED <<mon, running, ready, supState, supOut, rState, wPc, uiPc,
                      uiOut>>
      BY <1>3, <2>1 DEF SyncCheck, SupGoto, SupAgain
    <3>2. supPc = "outCheck"
      BY <1>3 DEF SyncCheck
    <3> QED
      BY <1>0, <2>1, <3>1, <3>2 DEF Monitoring
  <2>2. CASE supPc' \in {"captures", "wait"}
    BY <2>2
  <2> QED
    BY <1>3, <2>1, <2>2 DEF SyncCheck, SupGoto, SupAgain
<1>4. CASE SyncStopped
  <2>1. /\ UNCHANGED <<mon, running, supState, wPc, uiPc, uiOut>>
        /\ supPc = "outStop" /\ wPc[supOut] = "none"
        /\ \A o \in Outputs : o # supOut => UNCHANGED <<ready[o], rState[o]>>
    BY <1>0, <1>4 DEF SyncStopped, Joined
  <2>2. CASE supState.on
    <3>1. supPc' = "outStart" /\ supOut' = supOut
      BY <1>4, <2>2 DEF SyncStopped
    <3> QED
      BY <1>0, <2>1, <3>1 DEF Monitoring, Outputs
  <2>3. CASE ~supState.on
    <3>1. supPc' = "outCheck" /\ supOut' = supOut + 1
      BY <1>4, <2>3 DEF SyncStopped
    <3> QED
      BY <1>0, <1>1, <2>1, <2>3, <3>1 DEF Monitoring
  <2> QED
    BY <2>2, <2>3
<1>5. CASE SyncStart
  <2>1. /\ UNCHANGED <<mon, running, supState, ready, uiPc, uiOut>>
        /\ supPc = "outStart" /\ supPc' = "outCheck" /\ supOut' = supOut + 1
        /\ supState.on /\ ready[supOut] = supState
        /\ wPc' = [wPc EXCEPT ![supOut] = "open"]
        /\ rState' = [rState EXCEPT ![supOut] = "Opening"]
    BY <1>0, <1>5 DEF SyncStart, StartWorker, Requests
  <2>2. PausedSoFar'
    BY <2>1
  <2>3. ASSUME ResumedSoFar, supState = mon, Monitoring, NEW o \in Outputs,
               o < supOut + 1
        PROVE  ready[o] = mon /\ Recoverable(o)'
    BY <1>0, <1>1, <2>1, <2>3
  <2>4. ResumedSoFar'
    BY <1>0, <2>1, <2>3 DEF Monitoring
  <2> QED
    BY <2>2, <2>4
<1>6. ASSUME supPc' \notin {"outCheck", "outStop", "outStart"}
      PROVE  (PausedSoFar /\ ResumedSoFar)'
  BY <1>6
<1>7. CASE SupLeaveWait \/ SupDebounce \/ SupLoad \/ SyncClear
             \/ SyncStartThrows \/ SyncRevert \/ SyncRevertNotify
  BY <1>6, <1>7
  DEF SupLeaveWait, SupDebounce, SupLoad, SyncClear, SyncStartThrows,
      SyncRevert, SyncRevertNotify, SupGoto, SupAgain
<1>8. CASE SupCaptures \/ SupPass \/ SupRestart \/ SupFail \/ SupFailBits
             \/ SupFailLock \/ SupFailStop
  BY <1>6, <1>8
  DEF SupCaptures, SupPass, SupRestart, SupFail, SupFailBits, SupFailLock,
      SupFailStop, SupGoto, SupAgain
<1> QED
  BY <1>2, <1>3, <1>4, <1>5, <1>7, <1>8 DEF SupStep, SupWoken, SupPoll

LEMMA SupHandles ==
  ASSUME IInv, TypeOK', Ownership, SupStep \/ SupPoll
  PROVE  (PausedHandled /\ ResumedHandled)'
<1> USE DEF engineVars, wakeVars, uiVars, pumpVars, streamVars, workVars, SupFrame, UiUnchangedButMon, PausedHandled,
            ResumedHandled, AllClosed, Forwarding, Recoverable, Joining,
            RestPcs
<1>0. /\ PausedHandled /\ ResumedHandled /\ PausedSoFar /\ ResumedSoFar
      /\ Requests /\ Lifecycle /\ SyncTarget
      /\ supOut \in Nat /\ NumOutputs \in Nat
      /\ wPc \in [Outputs -> WorkerPcs] /\ rState \in [Outputs -> StreamState]
      /\ mon \in MonState /\ handled \in MonState /\ supState \in MonState
  BY HandoffAssumption DEF Ownership, IInv, TypeOK, Generations
<1>1. supOut \notin Outputs /\ supOut >= 1 => \A o \in Outputs : o < supOut
  BY <1>0 DEF Outputs
<1>2. supPc \in SyncPcs \cup {"revert", "revertNotify"} => handled # mon
  BY <1>0, RequestOrder DEF Requests
<1>3. CASE SupLeaveWait
  BY <1>0, <1>3 DEF SupLeaveWait, SupGoto, Monitoring
<1>4. CASE SupDebounce
  BY <1>0, <1>4 DEF SupDebounce, SupGoto, Monitoring
<1>5. CASE SupLoad
  BY <1>0, <1>5 DEF SupLoad, Monitoring
<1>6. CASE SyncClear
  BY <1>0, <1>6 DEF SyncClear, Outputs
<1>7. CASE SyncAck
  BY <1>2, <1>7 DEF SyncAck, SupGoto, SupAgain, SyncPcs
<1>8. CASE SyncCheck
  <2>1. CASE supOut \notin Outputs
    BY <1>0, <1>1, <1>8, <2>1
    DEF SyncCheck, SyncTarget, PausedSoFar, ResumedSoFar, ClosedBelow,
        Monitoring
  <2>2. CASE supOut \in Outputs
    BY <1>2, <1>8, <2>2 DEF SyncCheck, SupGoto, SupAgain, SyncPcs
  <2> QED
    BY <2>1, <2>2
<1>9. CASE SyncStopped \/ SyncStart \/ SupFailLock \/ SupFailStop
  BY <1>9 DEF SyncStopped, SyncStart, SupFailLock, SupFailStop
<1>10. CASE SyncStartThrows
  BY <1>2, <1>10 DEF SyncStartThrows, SupGoto, SupAgain, SyncPcs
<1>11. CASE SyncRevert
  BY <1>2, <1>11 DEF SyncRevert, SupGoto, SupAgain
<1>12. CASE SyncRevertNotify
  BY <1>2, <1>12 DEF SyncRevertNotify, SupAgain
<1>13. CASE SupCaptures
  BY <1>0, <1>13 DEF SupCaptures, SupGoto, SupAgain, Monitoring
<1>14. CASE SupPass
  <2>1. handled = mon /\ ~mon.on => FALSE
    BY <1>0, <1>14 DEF SupPass, Requests
  <2>2. UNCHANGED <<mon, handled, running, ready, rState, wPc, uiPc, uiOut>>
    BY <1>14 DEF SupPass, SupGoto, SupAgain
  <2> QED
    BY <1>0, <1>14, <2>1, <2>2 DEF SupPass, Monitoring
<1>15. CASE SupRestart
  <2>1. CASE supPc' = "pass"
    BY <1>0, <1>15, <2>1 DEF SupRestart, StartWorker, Monitoring
  <2>2. CASE supPc' = "fail"
    BY <2>2
  <2> QED
    BY <1>15, <2>1, <2>2 DEF SupRestart
<1>16. CASE SupFail \/ SupFailBits
  BY <1>16 DEF SupFail, SupFailBits, SupGoto
<1> QED
  BY <1>3, <1>4, <1>5, <1>6, <1>7, <1>8, <1>9, <1>10, <1>11, <1>12, <1>13,
     <1>14, <1>15, <1>16 DEF SupStep, SupWoken, SupPoll

-----------------------------------------------------------------------------
(* The steps of the other threads.                                         *)

(* A render worker only ever ends by itself, failed unless it was told to  *)
(* stop; nobody but the threads that hold configMutex_ starts one.         *)
LEMMA WorkerMoves ==
  ASSUME TypeOK, NEW o \in Outputs, WorkerStep(o)
  PROVE  /\ UNCHANGED <<engineVars, wakeVars, configLock, uiVars, supVars,
                        rQuit>>
         /\ \A p \in Outputs :
              /\ wPc[p] = "none" => wPc'[p] = "none" /\ rState'[p] = rState[p]
              /\ wPc'[p] = "closing" => wPc[p] = "closing" \/ rQuit[p]
              /\ wPc'[p] = "none" /\ wPc[p] # "none" =>
                   wPc[p] = "closing" \/ rState'[p] = "Failed"
<1> USE DEF TypeOK, WorkerOnly, WorkerGoto
<1>1. CASE WOpen(o)
  BY <1>1 DEF WOpen
<1>2. CASE WStart(o)
  BY <1>2 DEF WStart
<1>3. CASE WLoopExit(o)
  BY <1>3 DEF WLoopExit
<1>4. CASE WCallback(o) \/ WGate(o)
  BY <1>4 DEF WCallback, WGate
<1>5. CASE WMix(o) \/ WRecheck(o) \/ WRelease(o)
  BY <1>5 DEF WMix, WRecheck, WRelease
<1>6. CASE WClose(o)
  BY <1>6 DEF WClose, StateAfter
<1> QED
  BY <1>1, <1>2, <1>3, <1>4, <1>5, <1>6 DEF WorkerStep

LEMMA WorkerOwnership ==
  ASSUME IInv, Ownership, NEW o \in Outputs, WorkerStep(o)
  PROVE  Ownership'
<1>0. /\ Ownership /\ TypeOK
      /\ UNCHANGED <<engineVars, wakeVars, configLock, uiVars, supVars, rQuit>>
      /\ \A p \in Outputs :
           /\ wPc[p] = "none" => wPc'[p] = "none" /\ rState'[p] = rState[p]
           /\ wPc'[p] = "closing" => wPc[p] = "closing" \/ rQuit[p]
           /\ wPc'[p] = "none" /\ wPc[p] # "none" =>
                wPc[p] = "closing" \/ rState'[p] = "Failed"
  BY WorkerMoves DEF IInv
<1> USE DEF Ownership, engineVars, wakeVars, uiVars, supVars
<1>1. LockOwner' /\ Lifecycle' /\ PickHolds'
  BY <1>0 DEF LockOwner, Lifecycle, PickHolds
<1>2. StoppedQuiet' /\ FailedQuiet'
  BY <1>0 DEF StoppedQuiet, FailedQuiet, AllClosed, ClosedBelow
<1>3. Requests'
  BY <1>0 DEF Requests
<1>4. JoinedOrJoining'
  BY <1>0 DEF JoinedOrJoining, Joining
<1>5. PausedSoFar' /\ PausedHandled'
  BY <1>0 DEF PausedSoFar, PausedHandled, ClosedBelow, AllClosed
<1>6. ASSUME running, NEW p \in Outputs, Recoverable(p)
      PROVE  Recoverable(p)'
  BY <1>0, <1>6 DEF Recoverable, Joining, JoinedOrJoining
<1>7. ResumedSoFar' /\ ResumedHandled'
  BY <1>0, <1>6 DEF ResumedSoFar, ResumedHandled, Forwarding, Monitoring
<1> QED
  BY <1>1, <1>2, <1>3, <1>4, <1>5, <1>7

LEMMA OtherOwnership ==
  ASSUME Ownership, PumpStep \/ Notification \/ UNCHANGED vars
  PROVE  Ownership'
<1>1. UNCHANGED <<running, quit, mon, ready, sched, configLock, uiVars,
                  supVars, streamVars, wPc>>
  BY DEF PumpStep, Notification, PumpMix, PumpLoad, PumpCheck, PumpPublish,
         PumpObserve, PumpWait, PumpFrame, vars, engineVars, workVars
<1> QED
  BY <1>1
  DEF Ownership, LockOwner, Lifecycle, PickHolds, StoppedQuiet, FailedQuiet,
      Requests, JoinedOrJoining, Joining, PausedSoFar, ResumedSoFar,
      PausedHandled, ResumedHandled, Forwarding, Recoverable, AllClosed,
      ClosedBelow, Monitoring, uiVars, supVars, streamVars

LEMMA InitOwnership == Init => Ownership
<1> SUFFICES ASSUME Init PROVE Ownership
  OBVIOUS
<1> USE DEF Init
<1>1. LockOwner /\ Lifecycle /\ PickHolds
  BY DEF LockOwner, Lifecycle, PickHolds, SupLockPcs, StopPcs, SpawnPcs,
         DownPcs
<1>2. StoppedQuiet /\ FailedQuiet
  BY DEF StoppedQuiet, FailedQuiet, AllClosed
<1>3. Requests
  BY StateType, RequestOrder DEF Requests, SyncPcs
<1>4. JoinedOrJoining /\ PausedSoFar /\ ResumedSoFar
  BY DEF JoinedOrJoining, PausedSoFar, ResumedSoFar
<1>5. PausedHandled /\ ResumedHandled
  BY DEF PausedHandled, ResumedHandled, RestPcs
<1> QED
  BY <1>1, <1>2, <1>3, <1>4, <1>5 DEF Ownership

LEMMA NextOwnership == IInv /\ Ownership /\ [Next]_vars => Ownership'
<1> SUFFICES ASSUME IInv, Ownership, [Next]_vars PROVE Ownership'
  OBVIOUS
<1>1. TypeOK'
  BY NextType DEF IInv
<1>2. CASE UiCall \/ UiStep
  BY <1>1, <1>2, UiControl, UiRequests, UiQuiet, UiJoins, UiServed
  DEF Ownership
<1>3. CASE SupStep \/ SupPoll
  BY <1>1, <1>3, SupControl, SupRequests, SupQuiet, SupJoins, SupInstalls,
     SupHandles DEF Ownership
<1> QED
  BY <1>2, <1>3, WorkerOwnership, OtherOwnership DEF Next

(* Who holds configMutex_, who is joining which worker, and what the       *)
(* supervisor has done for which request, in every reachable state.        *)
THEOREM OwnershipInvariant == Spec => []Ownership
<1>1. Init => Ownership
  BY InitOwnership
<1>2. IInv /\ Ownership /\ [Next]_vars => Ownership'
  BY NextOwnership
<1> QED
  BY <1>1, <1>2, Invariant, PTL DEF Spec

(* However clicks, setOutputDevice, failures and supervisor interleave,    *)
(* between a handled pause and the next request no output holds a device.  *)
THEOREM PauseReleasesDevices == Spec => []PausedHoldsNoDevice
<1>1. Ownership => PausedHoldsNoDevice
  BY DEF Ownership, PausedHandled, RestPcs, AllClosed, PausedHoldsNoDevice
<1> QED
  BY <1>1, OwnershipInvariant, PTL

(* Once a resume is handled every output is ready for it and has a worker, *)
(* is Failed, or is being restarted by setOutputDevice.                    *)
THEOREM ResumeLeavesNoneWedged == Spec => []ForwardingIsRecoverable
<1>1. Ownership => ForwardingIsRecoverable
  BY DEF Ownership, ResumedHandled, RestPcs, Forwarding, Recoverable,
         Joining, ForwardingIsRecoverable
<1> QED
  BY <1>1, OwnershipInvariant, PTL

(* An engine whose supervisor has ended, and that nobody is stopping,      *)
(* holds no output device.                                                 *)
THEOREM FailureReleasesDevices == Spec => []FailedHoldsNoDevice
<1>1. Ownership => FailedHoldsNoDevice
  BY DEF Ownership, FailedQuiet, AllClosed, FailedHoldsNoDevice
<1> QED
  BY <1>1, OwnershipInvariant, PTL

-----------------------------------------------------------------------------
(* The blocks on their way to a device.                                    *)

(* The request a callback runs for: what it loaded, or, once the gate has  *)
(* let its block pass, what was asked for at that moment.                  *)
Carrying(o) == wPc[o] \in {"gate", "mix", "recheck", "release"}
RunsFor(o) == IF wPc[o] = "release" THEN wanted[o] ELSE wState[o]

(* A callback whose request is no longer the current one has not been      *)
(* joined for the current one: the supervisor has neither handled that     *)
(* nor, while it installs it, got past this output.                        *)
NotYetJoined(o, s) ==
  mon # s =>
    /\ handled # mon
    /\ supPc \in {"outCheck", "outStop", "outStart"} /\ supState = mon =>
         o >= supOut
Carried ==
  \A o \in Outputs :
    /\ Carrying(o) => UpTo(RunsFor(o), mon) /\ NotYetJoined(o, RunsFor(o))
    /\ wPc[o] = "release" => wanted[o].on /\ wBuf[o] = {wanted[o].gen}

(* A thread that makes a request makes a newer one.                        *)
LEMMA NewerCarried ==
  ASSUME IInv, Ownership, Carried, TypeOK', UpTo(mon, mon'), mon' # mon,
         UNCHANGED <<wPc, wState, wBuf, wanted, handled>>,
         supPc' \in SyncPcs => UNCHANGED <<supPc, supState>>
  PROVE  Carried'
<1>1. /\ TypeOK /\ Requests /\ mon \in MonState /\ mon' \in MonState
      /\ handled \in MonState /\ supState \in MonState
      /\ wState \in [Outputs -> MonState] /\ wanted \in [Outputs -> MonState]
  BY DEF IInv, Ownership, TypeOK
<1>2. handled' # mon'
  BY <1>1, RequestOrder DEF Requests
<1>3. ~(supPc' \in SyncPcs /\ supState' = mon')
  BY <1>1, RequestOrder DEF Requests
<1>4. ASSUME NEW o \in Outputs, Carrying(o)'
      PROVE  UpTo(RunsFor(o), mon)' /\ NotYetJoined(o, RunsFor(o))'
  <2>1. /\ RunsFor(o) \in MonState /\ UpTo(RunsFor(o), mon)
        /\ RunsFor(o)' = RunsFor(o)
    BY <1>1, <1>4 DEF Carried, Carrying, RunsFor
  <2>2. UpTo(RunsFor(o), mon')
    BY <1>1, <2>1, RequestOrder
  <2>3. NotYetJoined(o, RunsFor(o))'
    BY <1>2, <1>3 DEF NotYetJoined, SyncPcs
  <2> QED
    BY <2>1, <2>2, <2>3 DEF UpTo
<1> QED
  BY <1>4 DEF Carried

(* Between two requests it is enough to look at the supervisor's progress. *)
LEMMA SameCarried ==
  ASSUME Carried,
         UNCHANGED <<mon, wState, wBuf, wanted>>,
         \A o \in Outputs : wPc'[o] = wPc[o] \/ wPc'[o] = "open",
         \A o \in Outputs : Carrying(o) /\ Carrying(o)' =>
           (NotYetJoined(o, RunsFor(o)) => NotYetJoined(o, RunsFor(o))')
  PROVE  Carried'
<1>1. ASSUME NEW o \in Outputs, Carrying(o)'
      PROVE  /\ UpTo(RunsFor(o), mon)' /\ NotYetJoined(o, RunsFor(o))'
             /\ wPc[o] = wPc'[o]
  <2>1. wPc'[o] = wPc[o]
    BY <1>1 DEF Carrying
  <2>2. Carrying(o) /\ RunsFor(o)' = RunsFor(o)
    BY <1>1, <2>1 DEF Carrying, RunsFor
  <2> QED
    BY <1>1, <2>1, <2>2 DEF Carried, UpTo
<1> QED
  BY <1>1 DEF Carried, Carrying

LEMMA UiCarried ==
  ASSUME IInv, Ownership, Carried, TypeOK', UiCall \/ UiStep
  PROVE  Carried'
<1> USE DEF engineVars, wakeVars, supVars, streamVars, workVars, UiFrame,
            UiUnchangedButMon
<1>0. /\ mon \in MonState /\ wPc \in [Outputs -> WorkerPcs]
      /\ Requests /\ Lifecycle
  BY DEF IInv, TypeOK, Ownership
<1>1. CASE UiExchange \/ UiStopClear \/ UiOpen
  <2>1. /\ UpTo(mon, mon')
        /\ UNCHANGED <<wPc, wState, wBuf, wanted, handled, supPc, supState,
                       supOut>>
    BY <1>0, <1>1, RequestOrder DEF UiExchange, UiStopClear, UiOpen
  <2>2. CASE mon' = mon
    <3>1. \A o \in Outputs :
            NotYetJoined(o, RunsFor(o)) => NotYetJoined(o, RunsFor(o))'
      BY <2>1, <2>2 DEF NotYetJoined, RunsFor
    <3> QED
      BY <2>1, <2>2, <3>1, SameCarried
  <2> QED
    BY <2>1, <2>2, NewerCarried
<1>2. CASE UiSpawnSup
  <2>1. /\ UNCHANGED <<mon, wPc, wState, wBuf, wanted>>
        /\ handled' = NoState /\ supPc' = "wait" /\ mon.gen > 0
    BY <1>0, <1>2 DEF UiSpawnSup, Lifecycle, SpawnPcs
  <2>2. \A o \in Outputs : NotYetJoined(o, RunsFor(o))'
    BY <2>1 DEF NotYetJoined, NoState
  <2> QED
    BY <2>1, <2>2, SameCarried
<1>3. ASSUME UNCHANGED <<mon, wState, wBuf, wanted, handled, supState, supOut>>,
             supPc' \in {supPc, "none"},
             \A o \in Outputs : wPc'[o] = wPc[o] \/ wPc'[o] = "open"
      PROVE  Carried'
  <2>1. ASSUME NEW o \in Outputs, Carrying(o), Carrying(o)',
               NotYetJoined(o, RunsFor(o))
        PROVE  NotYetJoined(o, RunsFor(o))'
    BY <1>3, <2>1 DEF NotYetJoined, RunsFor, Carrying
  <2> QED
    BY <1>3, <2>1, SameCarried
<1>4. CASE UiPickStart
  BY <1>0, <1>3, <1>4 DEF UiPickStart, StartWorker
<1>5. CASE UiCall
  BY <1>3, <1>5 DEF UiCall, UiToggle, UiPick, UiStop
<1>6. CASE \/ UiNotify \/ UiStopSignal \/ UiJoinSup \/ UiJoinPump
           \/ UiStopRender \/ UiStopJoin \/ UiStartFails \/ UiSpawnPump
  BY <1>3, <1>6
  DEF UiNotify, UiStopSignal, UiJoinSup, UiJoinPump, UiStopRender,
      UiStopJoin, UiStartFails, UiSpawnPump
<1> QED
  BY <1>1, <1>2, <1>4, <1>5, <1>6 DEF UiStep

LEMMA SupCarried ==
  ASSUME IInv, Ownership, Carried, TypeOK', SupStep \/ SupPoll
  PROVE  Carried'
<1> USE DEF engineVars, wakeVars, uiVars, streamVars, workVars, SupFrame,
            SupGoto, SupAgain, UiUnchangedButMon
<1>0. /\ mon \in MonState /\ wPc \in [Outputs -> WorkerPcs] /\ supOut \in Nat
      /\ NumOutputs \in Nat /\ Requests /\ SyncTarget
  BY HandoffAssumption DEF IInv, TypeOK, Ownership, Generations
<1>1. CASE SyncRevert \/ SupFailBits
  <2>1. /\ UpTo(mon, mon') /\ supPc' \notin SyncPcs
        /\ UNCHANGED <<wPc, wState, wBuf, wanted, handled>>
    BY <1>0, <1>1, RequestOrder DEF SyncRevert, SupFailBits, SyncPcs
  <2>2. CASE mon' = mon
    <3>1. \A o \in Outputs :
            NotYetJoined(o, RunsFor(o)) => NotYetJoined(o, RunsFor(o))'
      BY <2>1, <2>2 DEF NotYetJoined, RunsFor, SyncPcs
    <3> QED
      BY <2>1, <2>2, <3>1, SameCarried
  <2> QED
    BY <2>1, <2>2, NewerCarried
<1>2. ASSUME UNCHANGED <<mon, wState, wBuf, wanted>>,
             \A o \in Outputs : wPc'[o] = wPc[o] \/ wPc'[o] = "open",
             \A o \in Outputs : Carrying(o) /\ Carrying(o)' =>
               \/ /\ handled' = handled
                  /\ supPc' \in {"outCheck", "outStop", "outStart"} =>
                       \/ o >= supOut'
                       \/ /\ supPc \in {"outCheck", "outStop", "outStart"}
                          /\ supState' = supState
                          /\ o >= supOut => o >= supOut'
               \/ /\ handled' = supState /\ supPc = "outCheck" /\ ~(o >= supOut)
                  /\ supPc' = "captures"
      PROVE  Carried'
  <2>1. ASSUME NEW o \in Outputs, Carrying(o), Carrying(o)',
               NotYetJoined(o, RunsFor(o))
        PROVE  NotYetJoined(o, RunsFor(o))'
    <3>1. wPc'[o] = wPc[o] /\ RunsFor(o)' = RunsFor(o)
      BY <1>2, <2>1 DEF RunsFor, Carrying
    <3> QED
      BY <1>2, <2>1, <3>1 DEF NotYetJoined
  <2> QED
    BY <1>2, <2>1, SameCarried
<1>3. CASE SyncAck
  BY <1>0, <1>2, <1>3 DEF SyncAck, Requests, Outputs
<1>4. CASE SyncCheck
  <2>1. /\ UNCHANGED <<mon, wPc, wState, wBuf, wanted>> /\ supPc = "outCheck"
        /\ supOut >= 1
    BY <1>0, <1>4 DEF SyncCheck, SyncTarget
  <2>2. CASE supOut \notin Outputs
    BY <1>0, <1>2, <1>4, <2>1, <2>2 DEF SyncCheck, Outputs
  <2>3. CASE supOut \in Outputs
    BY <1>2, <1>4, <2>1, <2>3 DEF SyncCheck
  <2> QED
    BY <2>2, <2>3
<1>5. CASE SyncStopped
  <2>1. /\ UNCHANGED <<mon, wPc, wState, wBuf, wanted, handled, supState>>
        /\ supPc = "outStop" /\ wPc[supOut] = "none"
        /\ \/ supPc' = "outStart" /\ supOut' = supOut
           \/ supPc' = "outCheck" /\ supOut' = supOut + 1
    BY <1>5 DEF SyncStopped, Joined
  <2>2. CASE supPc' = "outStart"
    BY <1>2, <2>1, <2>2
  <2>3. CASE supPc' = "outCheck" /\ supOut' = supOut + 1
    <3>1. ASSUME NEW o \in Outputs, Carrying(o), o >= supOut
          PROVE  o >= supOut'
      BY <1>0, <2>1, <2>3, <3>1 DEF Carrying, Outputs
    <3> QED
      BY <1>2, <2>1, <2>3, <3>1
  <2> QED
    BY <2>1, <2>2, <2>3
<1>6. CASE SyncStart
  <2>1. /\ UNCHANGED <<mon, wState, wBuf, wanted, handled, supState>>
        /\ \A o \in Outputs : wPc'[o] = wPc[o] \/ wPc'[o] = "open"
        /\ supPc = "outStart" /\ wPc[supOut] = "none"
        /\ supPc' = "outCheck" /\ supOut' = supOut + 1
    BY <1>0, <1>6 DEF SyncStart, StartWorker, Requests
  <2>2. ASSUME NEW o \in Outputs, Carrying(o), o >= supOut
        PROVE  o >= supOut'
    BY <1>0, <2>1, <2>2 DEF Carrying, Outputs
  <2> QED
    BY <1>2, <2>1, <2>2
<1>7. ASSUME UNCHANGED <<mon, wState, wBuf, wanted>>,
             \A o \in Outputs : wPc'[o] = wPc[o] \/ wPc'[o] = "open",
             handled' = handled \/ Outputs = {},
             supPc' \notin {"outCheck", "outStop", "outStart"}
      PROVE  Carried'
  BY <1>2, <1>7
<1>8. CASE SyncClear
  BY <1>0, <1>7, <1>8 DEF SyncClear, Outputs
<1>9. CASE SupLeaveWait \/ SupDebounce \/ SupLoad \/ SyncStartThrows
  BY <1>7, <1>9 DEF SupLeaveWait, SupDebounce, SupLoad, SyncStartThrows
<1>10. CASE SyncRevertNotify \/ SupCaptures \/ SupPass \/ SupFail
  BY <1>7, <1>10 DEF SyncRevertNotify, SupCaptures, SupPass, SupFail
<1>11. CASE SupRestart
  BY <1>0, <1>7, <1>11 DEF SupRestart, StartWorker
<1>12. CASE SupFailLock \/ SupFailStop
  BY <1>7, <1>12 DEF SupFailLock, SupFailStop
<1> QED
  BY <1>1, <1>3, <1>4, <1>5, <1>6, <1>8, <1>9, <1>10, <1>11, <1>12
  DEF SupStep, SupPoll, SupWoken

LEMMA WorkerCarried ==
  ASSUME IInv, Carried, TypeOK', NEW o \in Outputs, WorkerStep(o)
  PROVE  Carried'
<1>0. /\ TypeOK /\ MixTarget /\ mon \in MonState
      /\ UNCHANGED <<mon, handled, supPc, supState, supOut>>
      /\ \A p \in Outputs \ {o} :
           /\ wPc'[p] = wPc[p] /\ wState'[p] = wState[p]
           /\ wBuf'[p] = wBuf[p] /\ wanted'[p] = wanted[p]
  <2> USE DEF IInv, TypeOK, Generations, WorkerOnly, WorkerGoto, engineVars,
              supVars
  <2>1. CASE WOpen(o) \/ WStart(o) \/ WLoopExit(o) \/ WClose(o)
    BY <2>1 DEF WOpen, WStart, WLoopExit, WClose
  <2>2. CASE WCallback(o) \/ WGate(o)
    BY <2>2 DEF WCallback, WGate, CallbackDone
  <2>3. CASE WMix(o) \/ WRecheck(o) \/ WRelease(o)
    BY <2>3 DEF WMix, WRecheck, WRelease, CallbackDone
  <2> QED
    BY <2>1, <2>2, <2>3 DEF WorkerStep
<1>1. ASSUME NEW s, UpTo(s, mon), NotYetJoined(o, s)
      PROVE  UpTo(s, mon)' /\ NotYetJoined(o, s)'
  BY <1>0, <1>1 DEF UpTo, NotYetJoined
<1>2. UpTo(mon, mon) /\ NotYetJoined(o, mon)
  BY <1>0, RequestOrder DEF NotYetJoined
<1>3. ASSUME /\ Carrying(o)' =>
                  \/ RunsFor(o)' = mon
                  \/ Carrying(o) /\ RunsFor(o)' = RunsFor(o)
             /\ wPc'[o] = "release" =>
                  wanted'[o].on /\ wBuf'[o] = {wanted'[o].gen}
      PROVE  Carried'
  <2>1. Carrying(o)' =>
          UpTo(RunsFor(o), mon)' /\ NotYetJoined(o, RunsFor(o))'
    <3>1. CASE RunsFor(o)' = mon
      BY <1>0, <1>1, <1>2, <3>1 DEF UpTo, NotYetJoined
    <3>2. CASE Carrying(o) /\ RunsFor(o)' = RunsFor(o)
      BY <1>0, <3>2 DEF Carried, UpTo, NotYetJoined
    <3> QED
      BY <1>3, <3>1, <3>2
  <2>2. ASSUME NEW p \in Outputs \ {o}
        PROVE  /\ Carrying(p)' =>
                    UpTo(RunsFor(p), mon)' /\ NotYetJoined(p, RunsFor(p))'
               /\ wPc'[p] = "release" =>
                    wanted'[p].on /\ wBuf'[p] = {wanted'[p].gen}
    <3>1. Carrying(p)' = Carrying(p) /\ RunsFor(p)' = RunsFor(p)
      BY <1>0 DEF Carrying, RunsFor
    <3> QED
      BY <1>0, <3>1 DEF Carried, UpTo, NotYetJoined
  <2> QED
    BY <1>3, <2>1, <2>2 DEF Carried
<1> USE DEF TypeOK, WorkerGoto
<1>4. CASE \/ WOpen(o) \/ WStart(o) \/ WLoopExit(o) \/ WRelease(o)
           \/ WClose(o)
  <2>1. ~Carrying(o)' /\ wPc'[o] # "release"
    BY <1>0, <1>4
    DEF WOpen, WStart, WLoopExit, WRelease, WClose, Carrying
  <2> QED
    BY <1>3, <2>1
<1>5. CASE WCallback(o)
  <2>1. wPc'[o] = "gate" /\ RunsFor(o)' = mon
    BY <1>0, <1>5 DEF WCallback, RunsFor
  <2> QED
    BY <1>3, <2>1
<1>6. CASE WGate(o) \/ WMix(o)
  <2>1. wPc'[o] # "release"
        /\ (Carrying(o)' => Carrying(o) /\ RunsFor(o)' = RunsFor(o))
    BY <1>0, <1>6 DEF WGate, WMix, CallbackDone, RunsFor, Carrying
  <2> QED
    BY <1>3, <2>1
<1>7. CASE WRecheck(o)
  <2>1. CASE wBuf'[o] = {}
    <3>1. wPc'[o] = "loop"
      BY <1>0, <1>7, <2>1 DEF WRecheck
    <3> QED
      BY <1>3, <3>1 DEF Carrying
  <2>2. CASE wBuf'[o] # {}
    <3>1. GateStillOpen(o) /\ wBuf'[o] = wBuf[o]
      BY <1>0, <1>7, <2>2 DEF WRecheck
    <3>2. wanted'[o] = mon /\ wPc'[o] = "release"
      BY <1>0, <1>7, <2>2, <3>1 DEF WRecheck, GateStillOpen
    <3>3. mon.on /\ wBuf[o] \subseteq {mon.gen}
      BY <1>0, <1>7, <3>1 DEF WRecheck, GateStillOpen, MixTarget
    <3> QED
      BY <1>3, <2>2, <3>1, <3>2, <3>3 DEF RunsFor
  <2> QED
    BY <2>1, <2>2
<1> QED
  BY <1>4, <1>5, <1>6, <1>7 DEF WorkerStep

LEMMA NextCarried ==
  IInv /\ Ownership /\ Carried /\ [Next]_vars => Carried'
<1> SUFFICES ASSUME IInv, Ownership, Carried, [Next]_vars PROVE Carried'
  OBVIOUS
<1>1. TypeOK'
  BY NextType DEF IInv
<1>2. CASE PumpStep \/ Notification \/ UNCHANGED vars
  <2>1. UNCHANGED <<mon, wPc, wState, wBuf, wanted, handled, supPc, supState,
                   supOut>>
    BY <1>2
    DEF PumpStep, PumpMix, PumpLoad, PumpCheck, PumpPublish, PumpObserve,
        PumpWait, PumpFrame, Notification, vars, engineVars, supVars, workVars
  <2> QED
    BY <2>1 DEF Carried, Carrying, RunsFor, UpTo, NotYetJoined
<1> QED
  BY <1>1, <1>2, UiCarried, SupCarried, WorkerCarried DEF Next

(* What a device is handed was wanted when the gate last looked, and a     *)
(* block that a click overtakes on its way from the gate to the device     *)
(* gets there before the supervisor has handled that click.                *)
THEOREM OnlyWantedAudio == Spec => []HeardWasWanted
<1>1. Init => Carried
  BY DEF Init, Carried, Carrying
<1>2. Carried => HeardWasWanted
  BY DEF Carried, Carrying, RunsFor, NotYetJoined, HeardWasWanted
<1> QED
  BY <1>1, <1>2, NextCarried, Invariant, OwnershipInvariant, PTL DEF Spec

-----------------------------------------------------------------------------
(* The joins.                                                              *)

(* A thread that is being joined has been told to end: a render worker by  *)
(* its quit_, the supervisor and the pump by quit_ and the scheduler.      *)
WaitedFor(o) ==
  \/ uiPc \in {"pick", "stopJoin"} /\ uiOut = o
  \/ supPc \in {"outStop", "restart", "failStop"} /\ supOut = o
WorkersTold == \A o \in Outputs : WaitedFor(o) => rQuit[o]
ThreadsTold ==
  uiPc \in {"joinSup", "joinPump"} => quit /\ sched # "open"

(* Nor can it be waiting for the thread that joins it: workers and pump    *)
(* take no lock, and stop() holds none while it joins the supervisor.      *)
JoinsAnswered ==
  /\ WorkersTold /\ ThreadsTold
  /\ uiPc = "joinSup" => configLock # "ui"
  /\ configLock = "sup" => uiPc \notin {"joinPump", "stopJoin", "pick"}

Told == WorkersTold /\ ThreadsTold

LEMMA UiTold ==
  ASSUME IInv, Ownership, Told, UiCall \/ UiStep
  PROVE  Told'
<1> USE DEF engineVars, supVars, pumpVars, streamVars, workVars,
            UiFrame, UiUnchangedButMon, Told, WorkersTold, ThreadsTold,
            WaitedFor
<1>0. /\ rQuit \in [Outputs -> BOOLEAN] /\ LockOwner /\ Lifecycle /\ PickHolds
      /\ WorkersTold /\ ThreadsTold
  BY DEF IInv, TypeOK, Ownership
<1>1. CASE UiCall
  BY <1>0, <1>1
  DEF UiCall, UiToggle, UiPick, UiStop, Call, AskStop, LockFree, LockOwner
<1>2. CASE UiExchange \/ UiNotify \/ UiStopClear \/ UiJoinSup
  BY <1>0, <1>2
  DEF UiExchange, UiNotify, UiStopClear, UiJoinSup, AfterStop
<1>3. CASE UiStopSignal \/ UiJoinPump
  BY <1>0, <1>3 DEF UiStopSignal, UiJoinPump
<1>4. CASE UiPickStart
  BY <1>0, <1>4
  DEF UiPickStart, StartWorker, LockOwner, Lifecycle, PickHolds, SupLockPcs
<1>5. CASE UiStopRender \/ UiStopJoin
  BY <1>0, <1>5 DEF UiStopRender, UiStopJoin, AskStop, AfterStop, Lifecycle
<1>6. CASE UiOpen \/ UiStartFails \/ UiSpawnPump \/ UiSpawnSup
  BY <1>0, <1>6 DEF UiOpen, UiStartFails, UiSpawnPump, UiSpawnSup, Lifecycle
<1> QED
  BY <1>1, <1>2, <1>3, <1>4, <1>5, <1>6 DEF UiStep

LEMMA SupTold ==
  ASSUME IInv, Ownership, Told, SupStep \/ SupPoll
  PROVE  Told'
<1> USE DEF engineVars, uiVars, pumpVars, streamVars, workVars,
            SupFrame, SupGoto, SupAgain, UiUnchangedButMon, Told, WorkersTold,
            ThreadsTold, WaitedFor
<1>0. /\ rQuit \in [Outputs -> BOOLEAN] /\ LockOwner /\ Lifecycle /\ PickHolds
      /\ WorkersTold /\ ThreadsTold
  BY DEF IInv, TypeOK, Ownership
<1>1. CASE SupLeaveWait \/ SupDebounce \/ SupLoad \/ SyncClear \/ SyncAck
  BY <1>0, <1>1
  DEF SupLeaveWait, SupDebounce, SupLoad, SyncClear, SyncAck
<1>2. CASE SyncCheck \/ SupPass
  BY <1>0, <1>2 DEF SyncCheck, SupPass, AskStop
<1>3. CASE SyncStopped \/ SyncRevert \/ SyncRevertNotify \/ SupCaptures
  BY <1>0, <1>3 DEF SyncStopped, SyncRevert, SyncRevertNotify, SupCaptures
<1>4. CASE SyncStart \/ SyncStartThrows \/ SupRestart
  BY <1>0, <1>4
  DEF SyncStart, SyncStartThrows, SupRestart, StartWorker, LockOwner,
      Lifecycle, SupLockPcs
<1>5. CASE SupFail \/ SupFailBits
  BY <1>0, <1>5 DEF SupFail, SupFailBits
<1>6. CASE SupFailLock \/ SupFailStop
  BY <1>0, <1>6 DEF SupFailLock, SupFailStop
<1> QED
  BY <1>1, <1>2, <1>3, <1>4, <1>5, <1>6 DEF SupStep, SupPoll, SupWoken

LEMMA NextTold == IInv /\ Ownership /\ Told /\ [Next]_vars => Told'
<1> SUFFICES ASSUME IInv, Ownership, Told, [Next]_vars PROVE Told'
  OBVIOUS
<1>1. CASE UNCHANGED <<quit, sched, uiVars, supVars, rQuit>>
  BY <1>1 DEF Told, WorkersTold, ThreadsTold, WaitedFor, uiVars, supVars
<1>2. CASE PumpStep
  BY <1>1, <1>2
  DEF PumpStep, PumpMix, PumpLoad, PumpCheck, PumpPublish, PumpObserve,
      PumpWait, PumpFrame, engineVars, streamVars
<1>3. CASE Notification \/ UNCHANGED vars
  BY <1>1, <1>3 DEF Notification, vars, engineVars, streamVars
<1>4. CASE \E o \in Outputs : WorkerStep(o)
  BY <1>1, <1>4
  DEF WorkerStep, WOpen, WStart, WLoopExit, WCallback, WGate, WMix, WRecheck,
      WRelease, WClose, WorkerOnly, engineVars
<1> QED
  BY <1>2, <1>3, <1>4, UiTold, SupTold DEF Next

(* start(), stop(), setOutputDevice and the supervisor only join threads   *)
(* that have been told to end and do not wait for them in turn, whatever   *)
(* clicks and failures come in between.                                    *)
THEOREM JoinsAreAnswered == Spec => []JoinsAnswered
<1>1. Init => Told
  BY DEF Init, Told, WorkersTold, ThreadsTold, WaitedFor
<1>2. Ownership /\ Told => JoinsAnswered
  BY DEF Ownership, LockOwner, Lifecycle, SupLockPcs, Told, JoinsAnswered
<1> QED
  BY <1>1, <1>2, NextTold, Invariant, OwnershipInvariant, PTL DEF Spec
=============================================================================
