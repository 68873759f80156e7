--------------------------- MODULE MonitorHandoff ---------------------------
(***************************************************************************)
(* Pausing and resuming the forwarded mix (AudioEngine::setMonitoring).    *)
(*                                                                         *)
(* Four kinds of thread share the engine: the UI thread (start, stop,      *)
(* setMonitoring, setOutputDevice), the supervisor (supervisorMain), the   *)
(* mix pump (mixPumpMain) and one render worker per output (RenderStream   *)
(* plus OutputGate).  A click never joins a thread: it only moves          *)
(* monitoringState to a new generation.  The pump acknowledges that        *)
(* generation, and only then does the supervisor reopen the outputs.       *)
(*                                                                         *)
(* A bus is a queue of blocks, and a block is the generation during which  *)
(* the pump mixed it.  What happens inside a bus (epochs, fades, trims) is *)
(* module OutputBus; here a callback takes any prefix of the queue and may *)
(* drop the rest, which covers each of its resets.  Captures, retry        *)
(* policy and diagnostics are abstracted to the locks they take and the    *)
(* exceptions they throw.                                                  *)
(***************************************************************************)
EXTENDS Naturals, Sequences

CONSTANTS
  NumOutputs,     \* outputCount_
  BusBlocks,      \* capacity of an output bus, in pump blocks
  MaxCalls,       \* bound: calls made by the UI thread
  MaxFaults       \* bound: device failures and exceptions explored

ASSUME HandoffAssumption ==
  /\ NumOutputs \in Nat
  /\ BusBlocks \in Nat \ {0}
  /\ MaxCalls \in Nat
  /\ MaxFaults \in Nat

Outputs == 1 .. NumOutputs

VARIABLES
  running, quit, mon, observed, ready,    \* atomics of the engine
  sched,                                  \* the pump's timer and stop event
  superWake, monWake, configLock,         \* under superMutex_ / configMutex_
  uiPc, uiGoal, uiOut, calls,             \* UI thread
  supPc, supState, supOut, handled,       \* supervisor thread
  pumpPc, pumpMix, pumpState, pumpOut,    \* mix pump thread
  rState, rQuit,                          \* RenderStream state_ and quit_
  wPc, wState, wBuf,                      \* render workers
  wanted,                                 \* history: see WRecheck
  bus,                                    \* contents of the output buses
  faults                                  \* failures so far (see Fault)

engineVars == <<running, quit, mon, observed, ready, sched>>
wakeVars   == <<superWake, monWake>>
uiVars     == <<uiPc, uiGoal, uiOut, calls>>
supVars    == <<supPc, supState, supOut, handled>>
pumpVars   == <<pumpPc, pumpMix, pumpState, pumpOut>>
streamVars == <<rState, rQuit>>
workVars   == <<wPc, wState, wBuf, wanted>>
vars == <<engineVars, wakeVars, configLock, uiVars, supVars, pumpVars,
          streamVars, workVars, bus, faults>>

-----------------------------------------------------------------------------
(* monitoringState_: bit 0 is `on', the other bits are the generation.     *)

MonState == [gen : Nat, on : BOOLEAN]
NoState  == [gen |-> 0, on |-> FALSE]

NextState(s, enabled) == [gen |-> s.gen + 1, on |-> enabled]
Paused(s)             == [gen |-> s.gen, on |-> FALSE]

MonitoringIgnoresBit == running             \* mutant: low bit not tested
Monitoring == running /\ mon.on

LockIgnored == TRUE                         \* mutant: no configMutex_
LockFree == configLock = "free"

NoWake == UNCHANGED monWake                 \* mutant: flag not set
RaiseMonitoringWake == monWake' = TRUE

(* Device failures surface as Failed; see StreamTypes.h.                   *)
StreamState == {"Stopped", "Opening", "Running", "Failed"}

UiPcs == {"idle", "toggle", "notify", "pick", "stopClear", "stopSignal",
          "joinSup", "joinPump", "stopRender", "stopJoin", "open",
          "spawnPump", "spawnSup"}
SupPcs == {"none", "wait", "debounce", "load", "clear", "ack",
           "outCheck", "outStop", "outStart", "revert", "revertNotify",
           "captures", "pass", "restart", "fail", "failBits", "failLock",
           "failStop", "done"}
PumpPcs == {"none", "top", "load", "out", "publish", "wait",
            "done"}
WorkerPcs == {"none", "open", "start", "loop", "gate", "mix",
              "recheck", "release", "failing", "closing", "closed"}

-----------------------------------------------------------------------------
Init ==
  /\ running = FALSE /\ quit = FALSE
  /\ mon = NoState /\ observed = NoState
  /\ ready = [o \in Outputs |-> NoState]
  /\ sched = "closed"
  /\ superWake = FALSE /\ monWake = FALSE /\ configLock = "free"
  /\ uiPc = "idle" /\ uiGoal = "stop" /\ uiOut = 1 /\ calls = 0
  /\ supPc = "none" /\ supState = NoState /\ supOut = 1 /\ handled = NoState
  /\ pumpPc = "none" /\ pumpMix = 0 /\ pumpState = NoState /\ pumpOut = 1
  /\ rState = [o \in Outputs |-> "Stopped"]
  /\ rQuit = [o \in Outputs |-> FALSE]
  /\ wPc = [o \in Outputs |-> "none"]
  /\ wState = [o \in Outputs |-> NoState]
  /\ wBuf = [o \in Outputs |-> {}]
  /\ wanted = [o \in Outputs |-> NoState]
  /\ bus = [o \in Outputs |-> <<>>]
  /\ faults = 0

-----------------------------------------------------------------------------
(* RenderStream::stop and start, from the thread that calls them.          *)

AskStop(o)  == rQuit' = [rQuit EXCEPT ![o] = TRUE]
Joined(o)   == wPc[o] = "none"

StartWorker(o) ==
  /\ rState' = [rState EXCEPT ![o] = "Opening"]
  /\ rQuit' = [rQuit EXCEPT ![o] = FALSE]
  /\ wPc' = [wPc EXCEPT ![o] = "open"]

-----------------------------------------------------------------------------
(* A call into a device or a std::thread constructor fails.                *)

Fault   == faults < MaxFaults /\ faults' = faults + 1
NoFault == UNCHANGED faults

-----------------------------------------------------------------------------
(* What the steps of each thread never write.                              *)

UiFrame   == UNCHANGED <<supVars, pumpVars, wState, wBuf, wanted, bus>>
SupFrame  == UNCHANGED <<uiVars, pumpVars, wState, wBuf, wanted, bus>>
PumpFrame == UNCHANGED <<wakeVars, configLock, uiVars, supVars, streamVars,
                         workVars, faults>>

-----------------------------------------------------------------------------
(* UI thread.                                                              *)

Call == uiPc = "idle" /\ calls < MaxCalls /\ calls' = calls + 1

UiUnchangedButMon == UNCHANGED <<running, quit, observed, ready, sched>>

(* setMonitoring: the running() check, the compare-exchange loop (atomic   *)
(* at its last iteration), then the flag under superMutex_.                *)
UiToggle(enabled) ==
  /\ Call /\ running
  /\ uiPc' = "toggle"
  /\ uiGoal' = IF enabled /\ NumOutputs > 0 THEN "on" ELSE "off"
  /\ UNCHANGED <<engineVars, wakeVars, configLock, uiOut, streamVars, wPc,
                 faults>>
  /\ UiFrame

UiExchange ==
  /\ uiPc = "toggle"
  /\ LET enabled == uiGoal = "on"
     IN IF mon.on = enabled
        THEN uiPc' = "idle" /\ UNCHANGED mon
        ELSE uiPc' = "notify" /\ mon' = NextState(mon, enabled)
  /\ UiUnchangedButMon
  /\ UNCHANGED <<wakeVars, configLock, uiGoal, uiOut, calls, streamVars, wPc,
                 faults>>
  /\ UiFrame

UiNotify ==
  /\ uiPc = "notify"
  /\ uiPc' = "idle" /\ RaiseMonitoringWake
  /\ UNCHANGED <<engineVars, superWake, configLock, uiGoal, uiOut, calls,
                 streamVars, wPc, faults>>
  /\ UiFrame

(* setOutputDevice: everything happens under configMutex_, including the   *)
(* join of the old worker.                                                 *)
UiPick(o) ==
  /\ Call
  /\ LockFree
  /\ IF Monitoring
     THEN uiPc' = "pick" /\ uiOut' = o /\ configLock' = "ui" /\ AskStop(o)
     ELSE UNCHANGED <<uiPc, uiOut, configLock, rQuit>>
  /\ UNCHANGED <<engineVars, wakeVars, uiGoal, rState, wPc, faults>>
  /\ UiFrame

UiPickStart ==
  /\ uiPc = "pick" /\ Joined(uiOut)
  /\ StartWorker(uiOut)
  /\ uiPc' = "idle" /\ configLock' = "free"
  /\ UNCHANGED <<engineVars, wakeVars, uiGoal, uiOut, calls, faults>>
  /\ UiFrame

(* start and stop both begin with stopLocked().                            *)
UiStop(goal) ==
  /\ Call
  /\ uiPc' = "stopClear" /\ uiGoal' = goal
  /\ running' = FALSE
  /\ uiOut' = IF running THEN 1 ELSE 0    \* wasRunning
  /\ UNCHANGED <<quit, mon, observed, ready, sched, wakeVars, configLock,
                 streamVars, wPc, faults>>
  /\ UiFrame

AfterStop == IF uiGoal = "stop" THEN "idle" ELSE "open"

UiStopClear ==
  /\ uiPc = "stopClear"
  /\ mon' = Paused(mon)
  /\ uiPc' = IF uiOut = 0 /\ supPc = "none" /\ pumpPc = "none"
                /\ sched = "closed"
             THEN AfterStop ELSE "stopSignal"
  /\ UiUnchangedButMon
  /\ UNCHANGED <<wakeVars, configLock, uiGoal, uiOut, calls, streamVars, wPc,
                 faults>>
  /\ UiFrame

UiStopSignal ==
  /\ uiPc = "stopSignal"
  /\ quit' = TRUE
  /\ sched' = IF sched = "closed" THEN "closed" ELSE "stop"
  /\ superWake' = TRUE
  /\ uiPc' = "joinSup"
  /\ UNCHANGED <<running, mon, observed, ready, monWake, configLock, uiGoal,
                 uiOut, calls, streamVars, wPc, faults>>
  /\ UiFrame

UiJoinSup ==
  /\ uiPc = "joinSup" /\ supPc \in {"none", "done"}
  /\ supPc' = "none" /\ uiPc' = "joinPump"
  /\ UNCHANGED <<engineVars, wakeVars, configLock, uiGoal, uiOut, calls,
                 supState, supOut, handled, pumpVars, streamVars, workVars,
                 bus, faults>>

UiJoinPump ==
  /\ uiPc = "joinPump" /\ pumpPc \in {"none", "done"}
  /\ pumpPc' = "none" /\ sched' = "closed"
  /\ uiPc' = "stopRender" /\ uiOut' = 1
  /\ UNCHANGED <<running, quit, mon, observed, ready, wakeVars, configLock,
                 uiGoal, calls, supVars, pumpMix, pumpState, pumpOut,
                 streamVars, workVars, bus, faults>>

UiStopRender ==
  /\ uiPc = "stopRender"
  /\ IF uiOut \in Outputs
     THEN AskStop(uiOut) /\ uiPc' = "stopJoin" /\ UNCHANGED wakeVars
     ELSE /\ uiPc' = AfterStop
          /\ superWake' = FALSE /\ monWake' = FALSE
          /\ UNCHANGED rQuit
  /\ UNCHANGED <<engineVars, configLock, uiGoal, uiOut, calls, rState, wPc,
                 faults>>
  /\ UiFrame

UiStopJoin ==
  /\ uiPc = "stopJoin" /\ Joined(uiOut)
  /\ rState' = [rState EXCEPT ![uiOut] = "Stopped"]
  /\ uiPc' = "stopRender" /\ uiOut' = uiOut + 1
  /\ UNCHANGED <<engineVars, wakeVars, configLock, uiGoal, calls, rQuit, wPc,
                 faults>>
  /\ UiFrame

(* start after stopLocked.  No other engine thread exists until spawnPump, *)
(* so the whole set-up is one step.  The scheduler may not open (start     *)
(* then returns with nothing to undo).                                     *)
UiOpen ==
  /\ uiPc = "open"
  /\ ready' = [o \in Outputs |-> NoState]
  /\ \/ /\ uiPc' = "idle" /\ Fault
        /\ UNCHANGED <<running, quit, mon, observed, sched>>
     \/ /\ uiPc' = "spawnPump" /\ NoFault
        /\ sched' = "open" /\ quit' = FALSE
        /\ mon' = NextState(mon, uiGoal = "on" /\ NumOutputs > 0)
        /\ observed' = NoState /\ running' = TRUE
  /\ UNCHANGED <<wakeVars, configLock, uiGoal, uiOut, calls, streamVars, wPc>>
  /\ UiFrame

(* devices_.start, a capture's start or a std::thread may fail: start      *)
(* undoes everything with stopLocked() and returns false.                  *)
UiStartFails ==
  /\ uiPc \in {"spawnPump", "spawnSup"} /\ Fault
  /\ uiPc' = "stopClear" /\ uiGoal' = "stop" /\ uiOut' = 1
  /\ running' = FALSE
  /\ UNCHANGED <<quit, mon, observed, ready, sched, wakeVars, configLock,
                 calls, streamVars, wPc>>
  /\ UiFrame

UiSpawnPump ==
  /\ uiPc = "spawnPump"
  /\ pumpPc' = "top" /\ uiPc' = "spawnSup"
  /\ UNCHANGED <<engineVars, wakeVars, configLock, uiGoal, uiOut, calls,
                 supVars, pumpMix, pumpState, pumpOut, streamVars, workVars,
                 bus, faults>>

UiSpawnSup ==
  /\ uiPc = "spawnSup"
  /\ RaiseMonitoringWake
  /\ supPc' = "wait" /\ handled' = NoState
  /\ uiPc' = "idle"
  /\ UNCHANGED <<engineVars, superWake, configLock, uiGoal, uiOut, calls,
                 supState, supOut, pumpVars, streamVars, workVars, bus,
                 faults>>

UiCall ==
  \/ \E enabled \in BOOLEAN : UiToggle(enabled)
  \/ \E o \in Outputs : UiPick(o)
  \/ \E goal \in {"stop", "on", "off"} : UiStop(goal)

UiStep ==
  \/ UiExchange \/ UiNotify \/ UiPickStart
  \/ UiStopClear \/ UiStopSignal \/ UiJoinSup \/ UiJoinPump
  \/ UiStopRender \/ UiStopJoin
  \/ UiOpen \/ UiStartFails \/ UiSpawnPump \/ UiSpawnSup

-----------------------------------------------------------------------------
(* Supervisor thread.                                                      *)

SupGoto(pc) ==
  /\ supPc' = pc
  /\ UNCHANGED <<supState, supOut, handled>>

(* The next iteration; the locals of this one go out of scope.  (The loop  *)
(* condition is subsumed by the wait, whose predicate includes quit.)      *)
SupAgain ==
  /\ supPc' = "wait" /\ supState' = NoState /\ supOut' = 1
  /\ UNCHANGED handled

(* The wait ends because its predicate holds, or at the 2 s poll.          *)
SupLeaveWait ==
  /\ supPc = "wait"
  /\ superWake' = FALSE /\ monWake' = FALSE
  /\ SupGoto(CASE quit -> "done"
               [] ~quit /\ superWake /\ ~monWake -> "debounce"
               [] OTHER -> "load")
  /\ UNCHANGED <<engineVars, configLock, streamVars, wPc, faults>>
  /\ SupFrame

SupWoken == (superWake \/ monWake \/ quit) /\ SupLeaveWait
SupPoll  == ~(superWake \/ monWake \/ quit) /\ SupLeaveWait

(* 750 ms to coalesce notifications; a monitoring request ends it early.   *)
SupDebounce ==
  /\ supPc = "debounce"
  /\ superWake' = FALSE /\ monWake' = FALSE
  /\ SupGoto(IF quit THEN "done" ELSE "load")
  /\ UNCHANGED <<engineVars, configLock, streamVars, wPc, faults>>
  /\ SupFrame

SupLoad ==
  /\ supPc = "load"
  /\ supState' = mon /\ supOut' = 1
  /\ supPc' = IF mon # handled THEN "clear" ELSE "captures"
  /\ UNCHANGED <<handled, engineVars, wakeVars, configLock, streamVars, wPc,
                 faults>>
  /\ SupFrame

(* synchronizeOutputs: withdraw every output, one store at a time.         *)
SyncClear ==
  /\ supPc = "clear"
  /\ IF supOut \in Outputs
     THEN /\ ready' = [ready EXCEPT ![supOut] = NoState]
          /\ supOut' = supOut + 1 /\ UNCHANGED <<supPc, handled>>
     ELSE /\ supOut' = 1 /\ UNCHANGED ready
          /\ IF NumOutputs = 0
             THEN supPc' = "captures" /\ handled' = supState
             ELSE supPc' = "ack" /\ UNCHANGED handled
  /\ UNCHANGED <<supState, running, quit, mon, observed, sched, wakeVars,
                 configLock, streamVars, wPc, faults>>
  /\ SupFrame

(* Wait until the pump has finished a block that saw this generation; give *)
(* up on quit or on a newer request.  2 ms polls only evaluate this again. *)
AlreadyAcked == TRUE                        \* mutant: pump not awaited
Acked == observed = supState

NewerRequest == mon # supState              \* mutant: quit not tested
Abandoned == quit \/ mon # supState

SyncAck ==
  /\ supPc = "ack"
  /\ \/ Acked /\ SupGoto("outCheck")
     \/ ~Acked /\ Abandoned /\ SupAgain
  /\ UNCHANGED <<engineVars, wakeVars, configLock, uiVars, pumpVars,
                 streamVars, workVars, bus, faults>>

(* The loop over the outputs: re-check, take configMutex_, stop the stream.*)
SyncCheck ==
  /\ supPc = "outCheck"
  /\ IF supOut \notin Outputs
     THEN /\ supPc' = "captures" /\ handled' = supState
          /\ UNCHANGED <<configLock, rQuit>>
          /\ UNCHANGED <<supState, supOut>>
     ELSE IF Abandoned
     THEN SupAgain /\ UNCHANGED <<configLock, rQuit>>
     ELSE /\ LockFree /\ configLock' = "sup"
          /\ AskStop(supOut)
          /\ SupGoto("outStop")
  /\ UNCHANGED <<engineVars, wakeVars, rState, wPc, faults>>
  /\ SupFrame

(* The worker has been joined; when forwarding, the output is declared     *)
(* ready before its stream is started again.                               *)
ReloadedState == mon                        \* mutant: the atomic read again
ReadyState == supState

SyncStopped ==
  /\ supPc = "outStop" /\ Joined(supOut)
  /\ rState' = [rState EXCEPT ![supOut] = "Stopped"]
  /\ IF supState.on
     THEN /\ ready' = [ready EXCEPT ![supOut] = ReadyState]
          /\ supPc' = "outStart" /\ UNCHANGED <<supOut, configLock>>
     ELSE /\ supPc' = "outCheck" /\ supOut' = supOut + 1
          /\ configLock' = "free" /\ UNCHANGED ready
  /\ UNCHANGED <<supState, handled, running, quit, mon, observed, sched,
                 wakeVars, rQuit, wPc, faults>>
  /\ SupFrame

SyncStart ==
  /\ supPc = "outStart"
  /\ StartWorker(supOut)
  /\ supPc' = "outCheck" /\ supOut' = supOut + 1 /\ configLock' = "free"
  /\ UNCHANGED <<supState, handled, engineVars, wakeVars, faults>>
  /\ SupFrame

(* std::thread throws: the stream stays Opening without a worker, and the  *)
(* supervisor itself calls setMonitoring(false), still under configMutex_. *)
SyncStartThrows ==
  /\ supPc = "outStart" /\ Fault
  /\ rState' = [rState EXCEPT ![supOut] = "Opening"]
  /\ rQuit' = [rQuit EXCEPT ![supOut] = FALSE]
  /\ IF running
     THEN SupGoto("revert") /\ UNCHANGED configLock
     ELSE SupAgain /\ configLock' = "free"
  /\ UNCHANGED <<engineVars, wakeVars, wPc>>
  /\ SupFrame

SyncRevert ==
  /\ supPc = "revert"
  /\ IF mon.on
     THEN /\ mon' = NextState(mon, FALSE) /\ SupGoto("revertNotify")
          /\ UNCHANGED configLock
     ELSE UNCHANGED mon /\ SupAgain /\ configLock' = "free"
  /\ UiUnchangedButMon
  /\ UNCHANGED <<wakeVars, streamVars, wPc, faults>>
  /\ SupFrame

SyncRevertNotify ==
  /\ supPc = "revertNotify"
  /\ RaiseMonitoringWake /\ configLock' = "free"
  /\ SupAgain
  /\ UNCHANGED <<engineVars, superWake, streamVars, wPc, faults>>
  /\ SupFrame

(* The capture pass takes and releases configMutex_ and may throw.         *)
SupCaptures ==
  /\ supPc = "captures" /\ LockFree
  /\ \/ supPc' = "pass" /\ ~quit /\ supState.on
        /\ supOut' = 1 /\ UNCHANGED <<supState, handled>> /\ NoFault
     \/ ~quit /\ ~supState.on /\ SupAgain /\ NoFault
     \/ quit /\ SupGoto("done") /\ NoFault
     \/ SupGoto("fail") /\ Fault
  /\ UNCHANGED <<engineVars, wakeVars, configLock, streamVars, wPc>>
  /\ SupFrame

(* The output pass: a newer request ends it.  An output is restarted when  *)
(* it failed, or when the endpoint it holds exclusively became a default.  *)
SupPass ==
  /\ supPc = "pass"
  /\ IF supOut \notin Outputs \/ mon # supState
     THEN SupAgain /\ UNCHANGED <<configLock, rQuit>>
     ELSE /\ LockFree
          /\ \/ /\ supOut' = supOut + 1
                /\ UNCHANGED <<supPc, supState, handled, configLock, rQuit>>
             \/ /\ rState[supOut] \in {"Failed", "Running"}
                /\ AskStop(supOut) /\ configLock' = "sup"
                /\ SupGoto("restart")
  /\ UNCHANGED <<engineVars, wakeVars, rState, wPc, faults>>
  /\ SupFrame

SupRestart ==
  /\ supPc = "restart" /\ Joined(supOut)
  /\ configLock' = "free"
  /\ \/ /\ StartWorker(supOut) /\ NoFault
        /\ supPc' = "pass" /\ supOut' = supOut + 1
     \/ /\ Fault
        /\ rState' = [rState EXCEPT ![supOut] = "Opening"]
        /\ rQuit' = [rQuit EXCEPT ![supOut] = FALSE]
        /\ supPc' = "fail" /\ UNCHANGED <<supOut, wPc>>
  /\ UNCHANGED <<supState, handled, engineVars, wakeVars>>
  /\ SupFrame

(* failSupervisor: silence first, then the cleanup under configMutex_.     *)
SupFail ==
  /\ supPc = "fail"
  /\ running' = FALSE
  /\ SupGoto("failBits")
  /\ UNCHANGED <<quit, mon, observed, ready, sched, wakeVars, configLock,
                 streamVars, wPc, faults>>
  /\ SupFrame

SupFailBits ==
  /\ supPc = "failBits"
  /\ mon' = Paused(mon) /\ quit' = TRUE /\ sched' = "stop"
  /\ SupGoto("failLock")
  /\ UNCHANGED <<running, observed, ready, wakeVars, configLock, streamVars,
                 wPc, faults>>
  /\ SupFrame

SupFailLock ==
  /\ supPc = "failLock" /\ LockFree
  /\ configLock' = "sup"
  /\ supPc' = "failStop" /\ supOut' = 1
  /\ rQuit' = [o \in Outputs |-> IF o = 1 THEN TRUE ELSE rQuit[o]]
  /\ UNCHANGED <<supState, handled, engineVars, wakeVars, rState, wPc, faults>>
  /\ SupFrame

SupFailStop ==
  /\ supPc = "failStop"
  /\ IF supOut \in Outputs
     THEN /\ Joined(supOut)
          /\ rState' = [rState EXCEPT ![supOut] = "Stopped"]
          /\ rQuit' = [o \in Outputs |->
                         IF o = supOut + 1 THEN TRUE ELSE rQuit[o]]
          /\ supOut' = supOut + 1
          /\ UNCHANGED <<supPc, configLock>>
     ELSE /\ supPc' = "done" /\ configLock' = "free"
          /\ UNCHANGED <<supOut, streamVars>>
  /\ UNCHANGED <<supState, handled, engineVars, wakeVars, wPc, faults>>
  /\ SupFrame

SupStep ==
  \/ SupWoken \/ SupDebounce \/ SupLoad
  \/ SyncClear \/ SyncAck \/ SyncCheck \/ SyncStopped
  \/ SyncStart \/ SyncStartThrows \/ SyncRevert \/ SyncRevertNotify
  \/ SupCaptures \/ SupPass \/ SupRestart
  \/ SupFail \/ SupFailBits \/ SupFailLock \/ SupFailStop

(* requestRebuild, from the WASAPI notification thread: registered as long *)
(* as the scheduler is open.  (stopLocked unregisters it a little later,   *)
(* but clears the flag once it has.)                                       *)
Notification ==
  /\ sched # "closed" /\ ~superWake
  /\ superWake' = TRUE
  /\ UNCHANGED <<engineVars, monWake, configLock, uiVars, supVars, pumpVars,
                 streamVars, workVars, bus, faults>>

-----------------------------------------------------------------------------
(* Mix pump thread.                                                        *)

(* The quit check and renderMix: the block's content is of this moment.    *)
PumpMix ==
  /\ pumpPc = "top"
  /\ IF quit THEN pumpPc' = "done" /\ UNCHANGED pumpMix
             ELSE pumpPc' = "load" /\ pumpMix' = mon.gen
  /\ UNCHANGED <<pumpState, pumpOut, engineVars, bus>>
  /\ PumpFrame

PumpLoad ==
  /\ pumpPc = "load"
  /\ pumpState' = mon /\ pumpPc' = "out"
  /\ UNCHANGED <<pumpMix, pumpOut, engineVars, bus>>
  /\ PumpFrame

Publishable(o) ==
  pumpState.on /\ ready[o] = pumpState /\ rState[o] = "Running"

PumpCheck ==
  /\ pumpPc = "out" /\ pumpOut \in Outputs
  /\ IF Publishable(pumpOut)
     THEN pumpPc' = "publish" /\ UNCHANGED pumpOut
     ELSE pumpOut' = pumpOut + 1 /\ UNCHANGED pumpPc
  /\ UNCHANGED <<pumpMix, pumpState, engineVars, bus>>
  /\ PumpFrame

Fits(q) == Len(q) < BusBlocks

(* OutputBus::publish never waits: what does not fit is dropped.           *)
PumpPublish ==
  /\ pumpPc = "publish"
  /\ bus' = [bus EXCEPT ![pumpOut] =
               IF Fits(@) THEN Append(@, pumpMix) ELSE @]
  /\ pumpOut' = pumpOut + 1 /\ pumpPc' = "out"
  /\ UNCHANGED <<pumpMix, pumpState, engineVars>>
  /\ PumpFrame

(* The block is finished: acknowledge its generation.                      *)
PumpObserve ==
  /\ pumpPc = "out" /\ pumpOut \notin Outputs
  /\ observed' = pumpState /\ pumpPc' = "wait"
  /\ pumpMix' = 0 /\ pumpState' = NoState /\ pumpOut' = 1
  /\ UNCHANGED <<running, quit, mon, ready, sched, bus>>
  /\ PumpFrame

(* MixPumpScheduler::waitFor: Stop, or the deadline (an overdue deadline   *)
(* returns without looking at the stop event).                             *)
PumpWait ==
  /\ pumpPc = "wait"
  /\ pumpPc' \in IF sched = "stop" THEN {"done", "top"} ELSE {"top"}
  /\ UNCHANGED <<pumpMix, pumpState, pumpOut, engineVars, bus>>
  /\ PumpFrame

PumpStep ==
  \/ PumpMix \/ PumpLoad \/ PumpCheck \/ PumpPublish \/ PumpObserve
  \/ PumpWait

-----------------------------------------------------------------------------
(* Render worker of output o.                                              *)

WorkerOnly == UNCHANGED <<engineVars, wakeVars, configLock, uiVars, supVars,
                          pumpVars, rQuit>>
WorkerGoto(o, pc) == wPc' = [wPc EXCEPT ![o] = pc]

(* openDevice, then onRenderFormat: the consumer drops its whole ring.     *)
WOpen(o) ==
  /\ wPc[o] = "open"
  /\ \/ /\ WorkerGoto(o, "start") /\ NoFault
        /\ bus' = [bus EXCEPT ![o] = <<>>] /\ UNCHANGED rState
     \/ /\ WorkerGoto(o, "closed") /\ Fault
        /\ rState' = [rState EXCEPT ![o] = "Failed"] /\ UNCHANGED bus
  /\ WorkerOnly /\ UNCHANGED <<wState, wBuf, wanted>>

WStart(o) ==
  /\ wPc[o] = "start"
  /\ \/ /\ WorkerGoto(o, "loop") /\ NoFault
        /\ rState' = [rState EXCEPT ![o] = "Running"]
     \/ /\ WorkerGoto(o, "closed") /\ Fault
        /\ rState' = [rState EXCEPT ![o] = "Failed"]
  /\ WorkerOnly /\ UNCHANGED <<wState, wBuf, wanted, bus>>

(* Stop event, a device failure, or the next device period.                *)
WLoopExit(o) ==
  /\ wPc[o] = "loop"
  /\ \/ rQuit[o] /\ WorkerGoto(o, "closing") /\ NoFault
     \/ ~rQuit[o] /\ WorkerGoto(o, "failing") /\ Fault
  /\ WorkerOnly /\ UNCHANGED <<rState, wState, wBuf, wanted, bus>>

(* OutputGate::renderMix: load the generation ...                          *)
WCallback(o) ==
  /\ wPc[o] = "loop" /\ ~rQuit[o]
  /\ wState' = [wState EXCEPT ![o] = mon]
  /\ WorkerGoto(o, "gate")
  /\ WorkerOnly /\ UNCHANGED <<rState, wBuf, wanted, bus, faults>>

(* ... test it ...                                                         *)
CallbackDone(o) == wState' = [wState EXCEPT ![o] = NoState]
GateOpen(o) == running /\ wState[o].on /\ ready[o] = wState[o]

WGate(o) ==
  /\ wPc[o] = "gate"
  /\ IF GateOpen(o)
     THEN WorkerGoto(o, "mix") /\ UNCHANGED wState
     ELSE WorkerGoto(o, "loop") /\ CallbackDone(o)
  /\ WorkerOnly /\ UNCHANGED <<rState, wBuf, wanted, bus, faults>>

(* ... let the bus render: some oldest blocks, then perhaps a reset ...    *)
WMix(o) ==
  /\ wPc[o] = "mix"
  /\ \E n \in 0 .. Len(bus[o]) :
       /\ wBuf' = [wBuf EXCEPT ![o] = {bus[o][i] : i \in 1 .. n}]
       /\ \E rest \in {SubSeq(bus[o], n + 1, Len(bus[o])), <<>>} :
            bus' = [bus EXCEPT ![o] = rest]
  /\ WorkerGoto(o, "recheck")
  /\ WorkerOnly /\ UNCHANGED <<rState, wState, wanted, faults>>

(* ... and keep the block only if nothing was paused meanwhile.  (The two  *)
(* loads are one step: `running' never becomes TRUE while a worker lives.) *)
(* `wanted' remembers what was asked for when the gate let a block pass.   *)
(* A callback that ends in silence, here or at WGate, is back in the loop: *)
(* a failure to release that silence is the failure WLoopExit has.         *)
NotRechecked(o) == TRUE                     \* mutant: pause missed
GateStillOpen(o) == mon = wState[o] /\ running

WRecheck(o) ==
  /\ wPc[o] = "recheck"
  /\ wBuf' = [wBuf EXCEPT ![o] = IF GateStillOpen(o) THEN @ ELSE {}]
  /\ wanted' = [wanted EXCEPT ![o] =
                  IF running /\ wBuf'[o] # {} THEN mon ELSE NoState]
  /\ WorkerGoto(o, IF wBuf'[o] = {} THEN "loop" ELSE "release")
  /\ CallbackDone(o)
  /\ WorkerOnly /\ UNCHANGED <<rState, bus, faults>>

(* renderLoop converts the block and hands it to the device with           *)
(* ReleaseBuffer, which may fail.  Nothing is checked again here: a click  *)
(* since the last look no longer stops this one block.                     *)
WRelease(o) ==
  /\ wPc[o] = "release"
  /\ \/ WorkerGoto(o, "loop") /\ NoFault
     \/ WorkerGoto(o, "failing") /\ Fault
  /\ wBuf' = [wBuf EXCEPT ![o] = {}]
  /\ wanted' = [wanted EXCEPT ![o] = NoState]
  /\ WorkerOnly /\ UNCHANGED <<rState, wState, bus>>

(* closeDevice; then a stream still Running becomes Failed if its loop     *)
(* asked for a retry, and Stopped if it was told to stop.                  *)
RetryForgotten(pc) ==                       \* mutant: wantsRetry_ not set
  IF pc = "closed" THEN "Failed" ELSE "Stopped"
StateAfter(pc) == IF pc = "closing" THEN "Stopped" ELSE "Failed"

WClose(o) ==
  /\ wPc[o] \in {"failing", "closing", "closed"}
  /\ rState' = [rState EXCEPT ![o] = StateAfter(wPc[o])]
  /\ WorkerGoto(o, "none")
  /\ WorkerOnly /\ UNCHANGED <<wState, wBuf, wanted, bus, faults>>

WorkerStep(o) ==
  \/ WOpen(o) \/ WStart(o) \/ WLoopExit(o)
  \/ WCallback(o) \/ WGate(o) \/ WMix(o) \/ WRecheck(o) \/ WRelease(o)
  \/ WClose(o)

-----------------------------------------------------------------------------
Next ==
  \/ UiCall \/ UiStep
  \/ SupStep \/ SupPoll \/ Notification
  \/ PumpStep
  \/ \E o \in Outputs : WorkerStep(o)

Spec == Init /\ [][Next]_vars

(* Every thread that can run eventually runs.  No fairness for what users  *)
(* and devices do (UiCall, Notification), nor for the 2 s poll: a request  *)
(* is served by the wake-up it sends.  A callback that keeps being due     *)
(* does not hide a stop request, hence the fairness of WLoopExit.          *)
Fairness ==
  /\ WF_vars(UiStep)
  /\ WF_vars(SupStep)
  /\ WF_vars(PumpStep)
  /\ \A o \in Outputs : WF_vars(WorkerStep(o))

FairSpec == Spec /\ Fairness

-----------------------------------------------------------------------------
TypeOK ==
  /\ running \in BOOLEAN /\ quit \in BOOLEAN
  /\ mon \in MonState /\ observed \in MonState
  /\ ready \in [Outputs -> MonState]
  /\ sched \in {"closed", "open", "stop"}
  /\ superWake \in BOOLEAN /\ monWake \in BOOLEAN
  /\ configLock \in {"free", "ui", "sup"}
  /\ uiPc \in UiPcs /\ uiGoal \in {"stop", "on", "off"}
  /\ uiOut \in Nat /\ calls \in Nat
  /\ supPc \in SupPcs /\ supState \in MonState /\ supOut \in Nat
  /\ handled \in MonState
  /\ pumpPc \in PumpPcs /\ pumpMix \in Nat /\ pumpState \in MonState
  /\ pumpOut \in Nat
  /\ rState \in [Outputs -> StreamState] /\ rQuit \in [Outputs -> BOOLEAN]
  /\ wPc \in [Outputs -> WorkerPcs]
  /\ wState \in [Outputs -> MonState]
  /\ wBuf \in [Outputs -> SUBSET Nat]
  /\ wanted \in [Outputs -> MonState]
  /\ bus \in [Outputs -> Seq(Nat)]
  /\ \A o \in Outputs : Len(bus[o]) <= BusBlocks
  /\ faults \in Nat

(* What a render callback took from its bus was mixed in the generation    *)
(* the callback runs for: after a pause and a resume no block of the       *)
(* earlier session, and none mixed during the pause, is replayed           *)
(* (synchronizeOutputs waits for the pump for exactly this reason).        *)
NoStaleReplay ==
  \A o \in Outputs : wPc[o] = "recheck" => wBuf[o] \subseteq {wState[o].gen}

(* No two outputs are ever ready for different generations: a resume that  *)
(* is abandoned half-way, some outputs restarted and others not, leaves    *)
(* nothing behind that the next one could take for its own work            *)
(* (synchronizeOutputs withdraws every output first, and marks each ready  *)
(* for the generation it works on, not for a newer one).                   *)
OneGenerationReady ==
  \A o, p \in Outputs :
    ready[o] # NoState /\ ready[p] # NoState => ready[o] = ready[p]

(* A block on its way to the device is of a generation that was current,   *)
(* with monitoring on and the engine running, at the gate's last look: a   *)
(* click that comes while the bus renders is never missed                  *)
(* (OutputGate::renderMix).  A click after that look does not recall the   *)
(* block, but the block then reaches the device before the supervisor has  *)
(* handled the click, never after it: the supervisor first joins the       *)
(* worker that carries it.                                                 *)
HeardWasWanted ==
  \A o \in Outputs :
    wPc[o] = "release" =>
      /\ wanted[o].on /\ wBuf[o] = {wanted[o].gen}
      /\ mon # wanted[o] => handled # mon

(* Between a handled pause and the next request no output device is held:  *)
(* the supervisor has joined every render worker, and setOutputDevice      *)
(* cannot have slipped a new one in.                                       *)
PausedHoldsNoDevice ==
  supPc \in {"wait", "captures"} /\ handled = mon /\ ~mon.on =>
    \A o \in Outputs : wPc[o] = "none"

(* Once a resume is handled no output is wedged: each is ready for this    *)
(* generation, and has a worker or is Failed -- the only state from which  *)
(* the supervisor restarts it (shouldRestart).                             *)
ForwardingIsRecoverable ==
  supPc = "wait" /\ handled = mon /\ Monitoring =>
    \A o \in Outputs :
      /\ ready[o] = mon
      /\ wPc[o] # "none" \/ rState[o] = "Failed"
           \/ (uiPc = "pick" /\ uiOut = o)

(* Once the supervisor has given up (failSupervisor) or been told to quit  *)
(* and the engine is at rest, a failed engine holds no output device, even *)
(* if setOutputDevice raced with the failure.                              *)
FailedHoldsNoDevice ==
  supPc = "done" /\ ~running /\ uiPc = "idle" =>
    \A o \in Outputs : wPc[o] = "none"

(* Each request is eventually served: a running engine keeps returning to  *)
(* a state where the supervisor has handled the requested generation,      *)
(* without relying on the 2 s poll (no wake-up is lost).                   *)
RequestsHandled == []<>(handled = mon \/ ~running)

(* start() and stop() return: the joins of the supervisor, of the pump and *)
(* of the workers never wait for each other in a circle.                   *)
CallsReturn == []<>(uiPc = "idle")
=============================================================================
