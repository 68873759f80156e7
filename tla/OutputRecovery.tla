--------------------------- MODULE OutputRecovery ---------------------------
(***************************************************************************)
(* One output while forwarding is on: taking an endpoint exclusively,      *)
(* giving it up when it becomes a system default, and retrying.            *)
(*                                                                         *)
(* Windows, the UI thread, the supervisor and the render worker            *)
(* (RenderStream::threadMain) run freely.  The gate that refuses exclusive *)
(* mode looks at the defaults once, before the endpoint is opened; the     *)
(* supervisor looks again in each of its passes, and only at a stream that *)
(* is Running.  The audio is module OutputBus, pausing and resuming and a  *)
(* failing supervisor are MonitorHandoff.                                  *)
(***************************************************************************)
EXTENDS RetryPolicy

CONSTANTS
  MaxEvents,        \* bound: changes of endpoints and defaults
  MaxEdits,         \* bound: calls of the UI thread
  MaxFaults         \* bound: device errors

ASSUME OutputAssumption ==
  MaxEvents \in Nat /\ MaxEdits \in Nat /\ MaxFaults \in Nat

VARIABLES
  answers, alive,   \* endpoints that answer to the selection; the worker's
                    \* one is still active
  isDefault,        \* the answering endpoint is a default for some role
  deviceNews, defaultNews,          \* changes Windows has yet to announce
  wantExclusive,                    \* config_.exclusiveOutput
  lock, uiPc,                       \* configMutex_; UI thread
  wake, supPc, woken, fails, retryIn,   \* supervisor
  state, exclusive, wantsRetry, quit,   \* RenderStream
  wPc, prefer, allow, held,         \* worker; what its client holds
  events, edits, faults             \* what happened so far (bounds)

winVars    == <<answers, alive, isDefault, deviceNews, defaultNews>>
uiVars     == <<wantExclusive, uiPc>>
supVars    == <<supPc, woken, fails, retryIn>>
streamVars == <<state, exclusive, wantsRetry, quit>>
workVars   == <<wPc, prefer, allow, held>>
vars == <<winVars, uiVars, lock, wake, supVars, streamVars, workVars, events,
          edits, faults>>

Answers == {"none", "one", "many"}

(* The supervisor has just resumed forwarding and started the stream.      *)
Init ==
  /\ answers \in Answers /\ alive = FALSE /\ isDefault \in BOOLEAN
  /\ deviceNews = FALSE /\ defaultNews = FALSE
  /\ wantExclusive \in BOOLEAN
  /\ lock = "free" /\ uiPc = "idle"
  /\ wake = FALSE /\ supPc = "wait" /\ woken = FALSE
  /\ fails = 0 /\ retryIn = 0
  /\ state = "Opening" /\ exclusive = FALSE /\ wantsRetry = FALSE
  /\ quit = FALSE
  /\ wPc = "open" /\ prefer = wantExclusive /\ allow = FALSE /\ held = "none"
  /\ events = 0 /\ edits = 0 /\ faults = 0

-----------------------------------------------------------------------------
(* Windows: a change, and some time later its notification.                *)

WinFrame == UNCHANGED <<uiVars, lock, supVars, streamVars, workVars, edits,
                        faults>>
Event == events < MaxEvents /\ events' = events + 1

(* Endpoints come and go, and the defaults with them.                      *)
DevicesChange ==
  /\ Event
  /\ answers' \in Answers \ {answers}
  /\ alive' \in IF answers' = "none" THEN {FALSE} ELSE {alive, FALSE}
  /\ isDefault' \in BOOLEAN
  /\ deviceNews' = TRUE
  /\ defaultNews' = (defaultNews \/ isDefault' # isDefault)
  /\ UNCHANGED wake
  /\ WinFrame

DefaultChanges ==
  /\ Event
  /\ isDefault' = ~isDefault /\ defaultNews' = TRUE
  /\ UNCHANGED <<answers, alive, deviceNews, wake>>
  /\ WinFrame

(* OnDeviceStateChanged, OnDeviceAdded, OnDeviceRemoved                    *)
NotifyDevices ==
  /\ deviceNews /\ deviceNews' = FALSE
  /\ wake' = TRUE
  /\ UNCHANGED <<answers, alive, isDefault, defaultNews, events>>
  /\ WinFrame

(* OnDefaultDeviceChanged                                                  *)
NotifyDefault ==
  /\ defaultNews /\ defaultNews' = FALSE
  /\ wake' = TRUE
  /\ UNCHANGED <<answers, alive, isDefault, deviceNews, events>>
  /\ WinFrame

-----------------------------------------------------------------------------
(* RenderStream::stop and start, under configMutex_.                       *)

AskStop == quit' = TRUE
Joined  == wPc = "none"

StartWorker ==
  /\ state' = "Opening" /\ wantsRetry' = FALSE /\ quit' = FALSE
  /\ wPc' = "open" /\ prefer' = wantExclusive /\ allow' = FALSE
  /\ UNCHANGED <<exclusive, held>>

-----------------------------------------------------------------------------
(* UI thread: setExclusiveOutput, and setOutputDevice with this endpoint.  *)

Edit == uiPc = "idle" /\ lock = "free" /\ edits < MaxEdits
          /\ edits' = edits + 1

SetExclusiveOutput ==
  /\ Edit /\ wantExclusive' = ~wantExclusive
  /\ UNCHANGED <<winVars, uiPc, lock, wake, supVars, streamVars, workVars,
                 events, faults>>

SetOutputDevice ==
  /\ Edit
  /\ AskStop /\ uiPc' = "join" /\ lock' = "ui"
  /\ UNCHANGED <<winVars, wantExclusive, wake, supVars, state, exclusive,
                 wantsRetry, workVars, events, faults>>

UiRestart ==
  /\ uiPc = "join" /\ Joined
  /\ StartWorker
  /\ uiPc' = "idle" /\ lock' = "free"
  /\ UNCHANGED <<winVars, wantExclusive, wake, supVars, events, edits, faults>>

-----------------------------------------------------------------------------
(* Supervisor.                                                             *)

SupFrame == UNCHANGED <<winVars, uiVars, events, edits, faults>>
StreamAlone == UNCHANGED <<streamVars, workVars>>
Fresh == fails' = 0 /\ retryIn' = 0

(* A notification: debounced, and the back-off forgotten.                  *)
SupWake ==
  /\ supPc = "wait" /\ wake
  /\ wake' = FALSE /\ woken' = TRUE /\ supPc' = "passivity"
  /\ Fresh
  /\ UNCHANGED lock
  /\ StreamAlone /\ SupFrame

SupPoll ==
  /\ supPc = "wait" /\ ~wake
  /\ woken' = FALSE /\ supPc' = "passivity"
  /\ retryIn' = Later(retryIn)
  /\ UNCHANGED <<fails, wake, lock>>
  /\ StreamAlone /\ SupFrame

(* The passivity check: a default endpoint is not held exclusively.        *)
YieldsWhenWoken ==                        \* mutant: trusts the notification
  woken /\ state = "Running" /\ exclusive /\ isDefault
MustYield == state = "Running" /\ exclusive /\ isDefault

SupPassivity ==
  /\ supPc = "passivity" /\ lock = "free"
  /\ lock' = "sup"
  /\ IF MustYield THEN AskStop /\ supPc' = "yield"
                  ELSE UNCHANGED quit /\ supPc' = "retry"
  /\ UNCHANGED <<woken, fails, retryIn, wake, state, exclusive, wantsRetry,
                 workVars>>
  /\ SupFrame

SupYield ==
  /\ supPc = "yield" /\ Joined
  /\ StartWorker /\ Fresh
  /\ supPc' = "retry"
  /\ UNCHANGED <<woken, wake, lock>>
  /\ SupFrame

(* Then, still under the same lock, the retry of a failed stream.          *)
Due == ShouldRestart(state, wantsRetry, woken) /\ (woken \/ retryIn = 0)

SupSettled ==
  /\ supPc = "retry" /\ ~Due
  /\ IF state = "Running" THEN Fresh ELSE UNCHANGED <<fails, retryIn>>
  /\ supPc' = "wait" /\ woken' = FALSE /\ lock' = "free"
  /\ UNCHANGED wake
  /\ StreamAlone /\ SupFrame

SupRetry ==
  /\ supPc = "retry" /\ Due
  /\ AskStop /\ supPc' = "restart"
  /\ UNCHANGED <<lock, woken, fails, retryIn, wake, state, exclusive, wantsRetry,
                 workVars>>
  /\ SupFrame

SupRestart ==
  /\ supPc = "restart" /\ Joined
  /\ StartWorker
  /\ fails' = OneMore(fails) /\ retryIn' = RetryBackoff(fails')
  /\ supPc' = "wait" /\ woken' = FALSE /\ lock' = "free"
  /\ UNCHANGED wake
  /\ SupFrame

SupStep ==
  SupWake \/ SupPassivity \/ SupYield \/ SupSettled \/ SupRetry \/ SupRestart

-----------------------------------------------------------------------------
(* Render worker.                                                          *)

WorkFrame == UNCHANGED <<answers, isDefault, deviceNews, defaultNews, uiVars, 
                         lock, wake, supVars, quit, prefer, events, edits>>
Fault == faults < MaxFaults /\ faults' = faults + 1

(* resolve: ambiguous is final, not found is expected to change.           *)
WResolve ==
  /\ wPc = "open"
  /\ wPc' = IF answers = "one" THEN "gate" ELSE "failed"
  /\ alive' = (answers = "one")
  /\ wantsRetry' = (answers = "none")
  /\ UNCHANGED <<state, exclusive, allow, held, faults>>
  /\ WorkFrame

(* isDefaultForAnyRole, asked once                                         *)
WGate ==
  /\ wPc = "gate"
  /\ allow' = (prefer /\ ~isDefault)
  /\ wPc' = IF allow' THEN "exclusive" ELSE "shared"
  /\ UNCHANGED <<alive, state, exclusive, wantsRetry, held, faults>>
  /\ WorkFrame

(* tryExclusive: no candidate format may be accepted, the endpoint may be  *)
(* in use or forbid exclusive control; then shared mode is tried.          *)
WExclusive ==
  /\ wPc = "exclusive"
  /\ \/ alive /\ wPc' = "start" /\ exclusive' = TRUE /\ held' = "exclusive"
     \/ wPc' = "shared" /\ UNCHANGED <<exclusive, held>>
  /\ UNCHANGED <<alive, state, wantsRetry, allow, faults>>
  /\ WorkFrame

WShared ==
  /\ wPc = "shared"
  /\ \/ /\ alive /\ wPc' = "start" /\ exclusive' = FALSE
        /\ held' = "shared" /\ UNCHANGED <<wantsRetry, faults>>
     \/ /\ ~alive \/ Fault
        /\ alive \/ UNCHANGED faults
        /\ wPc' = "failed" /\ wantsRetry' = TRUE
        /\ UNCHANGED <<exclusive, held>>
  /\ UNCHANGED <<alive, state, allow>>
  /\ WorkFrame

(* openDevice returned false                                               *)
WFailed ==
  /\ wPc = "failed"
  /\ state' = "Failed" /\ wPc' = "close"
  /\ UNCHANGED <<alive, exclusive, wantsRetry, allow, held, faults>>
  /\ WorkFrame

(* SetEventHandle, pre-roll and Start                                      *)
WStart ==
  /\ wPc = "start"
  /\ \/ /\ state' = "Running" /\ wPc' = "loop"
        /\ UNCHANGED <<wantsRetry, faults>>
     \/ /\ Fault
        /\ state' = "Failed" /\ wantsRetry' = TRUE /\ wPc' = "close"
  /\ UNCHANGED <<alive, exclusive, allow, held>>
  /\ WorkFrame

WQuit ==
  /\ wPc = "loop" /\ quit /\ wPc' = "close"
  /\ UNCHANGED <<alive, state, exclusive, wantsRetry, allow, held, faults>>
  /\ WorkFrame

(* The loop notices that the device is gone or stalled, or meets an error. *)
RetryForgotten ==                         \* mutant: wantsRetry_ not set
  /\ wPc = "loop" /\ wPc' = "close"
  /\ UNCHANGED <<alive, state, exclusive, wantsRetry, allow, held>>
  /\ WorkFrame
LoopFails ==
  /\ wPc = "loop" /\ wPc' = "close" /\ wantsRetry' = TRUE
  /\ UNCHANGED <<alive, state, exclusive, allow, held>>
  /\ WorkFrame

WGone  == ~alive /\ LoopFails /\ UNCHANGED faults
WError == Fault /\ LoopFails

(* closeDevice; only then does the worker leave Running, and return.       *)
WClose ==
  /\ wPc = "close"
  /\ held' = "none" /\ alive' = FALSE /\ wPc' = "ended"
  /\ UNCHANGED <<state, exclusive, wantsRetry, allow, faults>>
  /\ WorkFrame

WEnd ==
  /\ wPc = "ended"
  /\ wPc' = "none"
  /\ state' = IF state # "Running" THEN state
              ELSE IF wantsRetry THEN "Failed" ELSE "Stopped"
  /\ UNCHANGED <<alive, exclusive, wantsRetry, allow, held, faults>>
  /\ WorkFrame

WorkerStep ==
  \/ WResolve \/ WGate \/ WExclusive \/ WShared \/ WFailed \/ WStart
  \/ WQuit \/ WGone \/ WClose \/ WEnd

-----------------------------------------------------------------------------
Notify == NotifyDevices \/ NotifyDefault
UiCall == SetExclusiveOutput \/ SetOutputDevice

Next ==
  \/ DevicesChange \/ DefaultChanges \/ Notify
  \/ UiCall \/ UiRestart
  \/ SupStep \/ SupPoll
  \/ WorkerStep \/ WError

Spec == Init /\ [][Next]_vars

(* Threads run, waits time out, and Windows announces what it did.         *)
FairSpec ==
  /\ Spec
  /\ WF_vars(Notify) /\ WF_vars(UiRestart)
  /\ WF_vars(SupStep) /\ WF_vars(SupPoll) /\ WF_vars(WorkerStep)

-----------------------------------------------------------------------------
TypeOK ==
  /\ answers \in Answers
  /\ {alive, isDefault, deviceNews, defaultNews} \subseteq BOOLEAN
  /\ wantExclusive \in BOOLEAN
  /\ lock \in {"free", "ui", "sup"} /\ uiPc \in {"idle", "join"}
  /\ wake \in BOOLEAN /\ woken \in BOOLEAN
  /\ supPc \in {"wait", "passivity", "yield", "retry", "restart"}
  /\ fails \in 0 .. MaxShift + 1 /\ retryIn \in 0 .. MaxWait
  /\ state \in StreamState
  /\ {exclusive, wantsRetry, quit, prefer, allow} \subseteq BOOLEAN
  /\ wPc \in {"none", "open", "gate", "exclusive", "shared", "failed",
              "start", "loop", "close", "ended"}
  /\ held \in {"none", "shared", "exclusive"}
  /\ events \in Nat /\ edits \in Nat /\ faults \in Nat

(* Exclusive control of a default endpoint is always given up, also when   *)
(* the endpoint became a default after the gate was asked and its          *)
(* notification was served before the stream was Running (supervisorMain). *)
DefaultIsYielded == []<>~(isDefault /\ held = "exclusive")

(* An output that is there to stay plays again, whatever failed before,    *)
(* unless its last failure was one that waits for a notification.          *)
PluggedInIsHeard ==
  <>[](answers = "one" /\ (state = "Failed" => wantsRetry)) =>
    []<>(state = "Running")

(* The supervisor reads state and isExclusive() while the worker runs: of a *)
(* Running stream they say what its client holds, however stale the flag   *)
(* that an earlier client left (the passivity check of supervisorMain), or *)
(* the worker has closed the client and has only its last store of the     *)
(* state and its return before it.                                         *)
HoldIsKnown ==
  state = "Running" =>
    \/ held # "none" /\ (exclusive <=> held = "exclusive")
    \/ held = "none" /\ wPc = "ended"

(* A worker that nobody stopped ends in Failed, the one state the supervisor *)
(* restarts from (the last store of RenderStream::threadMain).             *)
EndsAreFailures == wPc = "none" /\ lock = "free" => state = "Failed"

(* README.md and DeviceManager.h say that the change of a default device   *)
(* does nothing; it does not hold of the code.                             *)
DefaultChangeIsInert == [][NotifyDefault => UNCHANGED wake]_vars
=============================================================================
