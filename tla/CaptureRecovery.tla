-------------------------- MODULE CaptureRecovery --------------------------
(***************************************************************************)
(* Keeping the captures alive while endpoints come and go.                 *)
(*                                                                         *)
(* Four actors: Windows (endpoints appear and disappear, and a             *)
(* notification follows), the UI thread (setChannelDevice, setEnabled and  *)
(* the saving of resolved ids), the supervisor (supervisorMain's pass over *)
(* the captures, with its back-off) and one capture worker per source      *)
(* (CaptureStream::threadMain).  The engine is running throughout; its     *)
(* start, its stop and a supervisor that fails are module MonitorHandoff,  *)
(* and the frames a worker writes are StereoRing.                          *)
(*                                                                         *)
(* Time is counted in supervisor polls (see RetryPolicy).                  *)
(***************************************************************************)
EXTENDS RetryPolicy, FiniteSets

CONSTANTS
  NumSources,       \* sourceCount_
  Endpoints,        \* audio endpoints of the machine
  Names,            \* names a configuration may ask for
  FullName,         \* the endpoints whose whole name is that name ...
  PartName,         \* ... and those whose name only contains it
  NoEndpoint,       \* an empty id
  NoName,           \* an empty nameMatch
  Refs,             \* device selections explored
  MaxPlugs,         \* bound: endpoints plugged or unplugged
  MaxEdits,         \* bound: calls of the UI thread
  MaxClicks,        \* bound: monitoring clicks
  MaxFaults         \* bound: device errors

Sources == 1 .. NumSources
NoRef == [id |-> NoEndpoint, name |-> NoName]
Ref == [id : Endpoints \cup {NoEndpoint}, name : Names \cup {NoName}]

ASSUME RecoveryAssumption ==
  /\ NumSources \in Nat
  /\ NoEndpoint \notin Endpoints /\ NoName \notin Names
  /\ FullName \in [Names -> SUBSET Endpoints]
  /\ PartName \in [Names -> SUBSET Endpoints]
  /\ Refs \subseteq Ref /\ Refs # {}
  /\ MaxPlugs \in Nat /\ MaxEdits \in Nat
  /\ MaxClicks \in Nat /\ MaxFaults \in Nat

VARIABLES
  present, unannounced,           \* active endpoints; a change to announce
  wanted, enabled, saved,         \* config_ of the engine; ids of the UI's
  lock,                           \* holder of configMutex_
  uiPc, uiSrc,                    \* UI thread
  wake, monWake, gen,             \* superWake_, monitoringWake_, generation
  supPc, woken, supGen, handled, supSrc, supRef, fails, retryIn,
  state, retryable, quit, resolved,  \* CaptureStream atomics and resolvedId_
  wPc, wRef, wFound,              \* worker: thread, its ref and its endpoint
  plugs, edits, clicks, faults    \* what happened so far (bounds)

winVars    == <<present, unannounced>>
configVars == <<wanted, enabled, saved>>
uiVars     == <<uiPc, uiSrc>>
wakeVars   == <<wake, monWake, gen>>
supVars    == <<supPc, woken, supGen, handled, supSrc, supRef, fails,
                retryIn>>
streamVars == <<state, retryable, quit, resolved>>
workVars   == <<wPc, wRef, wFound>>
countVars  == <<plugs, edits, clicks, faults>>
vars == <<winVars, configVars, lock, uiVars, wakeVars, supVars, streamVars,
          workVars, countVars>>

Init ==
  /\ present \in SUBSET Endpoints /\ unannounced = FALSE
  /\ wanted \in [Sources -> Refs]
  /\ enabled = [s \in Sources |-> TRUE]
  /\ saved = [s \in Sources |-> wanted[s].id]
  /\ lock = "free" /\ uiPc = "idle" /\ uiSrc = 0
  /\ wake = FALSE /\ monWake = TRUE /\ gen = 1      \* start()'s last step
  /\ supPc = "wait" /\ woken = FALSE /\ supGen = 0 /\ handled = 0
  /\ supSrc = 0 /\ supRef = NoRef
  /\ fails = [s \in Sources |-> 0] /\ retryIn = [s \in Sources |-> 0]
  /\ state = [s \in Sources |-> "Opening"]
  /\ retryable = [s \in Sources |-> TRUE]
  /\ quit = [s \in Sources |-> FALSE]
  /\ resolved = [s \in Sources |-> NoEndpoint]
  /\ wPc = [s \in Sources |-> "open"] /\ wRef = wanted
  /\ wFound = [s \in Sources |-> NoEndpoint]
  /\ plugs = 0 /\ edits = 0 /\ clicks = 0 /\ faults = 0

-----------------------------------------------------------------------------
(* DeviceManager::resolve: the id if it is active, else the only endpoint  *)
(* of that full name, else the only one whose name contains it.            *)

NameMatches(name) ==
  IF name = NoName THEN {}
  ELSE LET full == FullName[name] \cap present
       IN IF full # {} THEN full ELSE PartName[name] \cap present

OrAnything(ref) ==                        \* mutant: follows the default
  IF ref.id \in present THEN {ref.id}
  ELSE IF NameMatches(ref.name) = {} THEN present ELSE NameMatches(ref.name)

ById(ref)      == ref.id \in present
Candidates(ref) == IF ById(ref) THEN {ref.id} ELSE NameMatches(ref.name)

Ambiguous(ref) == Cardinality(Candidates(ref)) > 1
Resolves(ref)  == Cardinality(Candidates(ref)) = 1
Match(ref)     == CHOOSE e \in Candidates(ref) : TRUE

-----------------------------------------------------------------------------
(* Windows.  A change is announced some time after it happened.            *)

WinFrame == UNCHANGED <<configVars, lock, uiVars, supVars, streamVars,
                        workVars>>

Plug(e) ==
  /\ plugs < MaxPlugs /\ plugs' = plugs + 1
  /\ present' = IF e \in present THEN present \ {e} ELSE present \cup {e}
  /\ unannounced' = TRUE
  /\ UNCHANGED <<wakeVars, edits, clicks, faults>>
  /\ WinFrame

(* OnDeviceAdded, Removed or StateChanged, then requestRebuild.            *)
Notify ==
  /\ unannounced /\ unannounced' = FALSE
  /\ wake' = TRUE
  /\ UNCHANGED <<present, monWake, gen, countVars>>
  /\ WinFrame

-----------------------------------------------------------------------------
(* CaptureStream::start and stop, for the thread that holds configMutex_.  *)

AskStop(s) == quit' = [quit EXCEPT ![s] = TRUE]
Joined(s)  == wPc[s] = "none"

Forget(s) == resolved' = [resolved EXCEPT ![s] = NoEndpoint]

StartWorker(s, ref) ==
  /\ Forget(s)
  /\ retryable' = [retryable EXCEPT ![s] = TRUE]
  /\ quit' = [quit EXCEPT ![s] = FALSE]
  /\ state' = [state EXCEPT ![s] = "Opening"]
  /\ wPc' = [wPc EXCEPT ![s] = "open"]
  /\ wRef' = [wRef EXCEPT ![s] = ref]
  /\ wFound' = [wFound EXCEPT ![s] = NoEndpoint]

StopWorker(s) ==
  /\ state' = [state EXCEPT ![s] = "Stopped"]
  /\ Forget(s)
  /\ UNCHANGED <<retryable, quit, workVars>>

LockIgnored == TRUE                       \* mutant: the lock is not taken
LockFree == lock = "free"

-----------------------------------------------------------------------------
(* UI thread.                                                              *)

UiFrame == UNCHANGED <<winVars, supVars, plugs, faults>>
Edit == uiPc = "idle" /\ edits < MaxEdits /\ edits' = edits + 1

SetChannelDevice(s, ref) ==
  /\ Edit /\ LockFree
  /\ wanted' = [wanted EXCEPT ![s] = ref]
  /\ saved' = [saved EXCEPT ![s] = ref.id]      \* the window's own copy
  /\ IF enabled[s]
     THEN uiPc' = "restart" /\ uiSrc' = s /\ lock' = "ui" /\ AskStop(s)
     ELSE UNCHANGED <<uiVars, lock, quit>>
  /\ UNCHANGED <<enabled, wakeVars, state, retryable, resolved, workVars,
                 clicks>>
  /\ UiFrame

SetEnabled(s, on) ==
  /\ Edit /\ LockFree
  /\ enabled' = [enabled EXCEPT ![s] = on]
  /\ uiPc' = (IF on THEN "restart" ELSE "stop") /\ uiSrc' = s
  /\ lock' = "ui" /\ AskStop(s)
  /\ UNCHANGED <<wanted, saved, wakeVars, state, retryable, resolved,
                 workVars, clicks>>
  /\ UiFrame

UiRestart ==
  /\ uiPc = "restart" /\ Joined(uiSrc)
  /\ StartWorker(uiSrc, wanted[uiSrc])
  /\ uiPc' = "idle" /\ uiSrc' = 0 /\ lock' = "free"
  /\ UNCHANGED <<configVars, wakeVars, edits, clicks>>
  /\ UiFrame

UiStop ==
  /\ uiPc = "stop" /\ Joined(uiSrc)
  /\ StopWorker(uiSrc)
  /\ uiPc' = "idle" /\ uiSrc' = 0 /\ lock' = "free"
  /\ UNCHANGED <<configVars, wakeVars, edits, clicks>>
  /\ UiFrame

(* updateConfigFromRuntime: the state, then the id, with no lock held.     *)
UiSave(s) ==
  /\ uiPc = "idle" /\ state[s] = "Running"
  /\ uiPc' = "save" /\ uiSrc' = s
  /\ UNCHANGED <<configVars, lock, wakeVars, streamVars, workVars, edits,
                 clicks>>
  /\ UiFrame

Refreshed(s) == IF resolved[s] = NoEndpoint THEN saved[s] ELSE resolved[s]

UiSaveId ==
  /\ uiPc = "save"
  /\ saved' = [saved EXCEPT ![uiSrc] = Refreshed(uiSrc)]
  /\ uiPc' = "idle" /\ uiSrc' = 0
  /\ UNCHANGED <<wanted, enabled, lock, wakeVars, streamVars, workVars, edits,
                 clicks>>
  /\ UiFrame

(* setMonitoring: a new generation for the supervisor.                     *)
Click ==
  /\ uiPc = "idle" /\ clicks < MaxClicks /\ clicks' = clicks + 1
  /\ gen' = gen + 1 /\ monWake' = TRUE
  /\ UNCHANGED <<configVars, lock, uiVars, wake, streamVars, workVars, edits>>
  /\ UiFrame

UiStep == UiRestart \/ UiStop \/ UiSaveId
UiCall ==
  \/ \E s \in Sources :
       \/ \E ref \in Refs : SetChannelDevice(s, ref)
       \/ \E on \in BOOLEAN : SetEnabled(s, on)
       \/ UiSave(s)
  \/ Click

-----------------------------------------------------------------------------
(* Supervisor.                                                             *)

SupFrame == UNCHANGED <<winVars, configVars, uiVars, countVars>>
StreamsAlone == UNCHANGED <<streamVars, workVars>>

SupWake ==
  /\ supPc = "wait" /\ (wake \/ monWake)
  /\ woken' = wake
  /\ supPc' = IF wake /\ ~monWake THEN "debounce" ELSE "begin"
  /\ wake' = FALSE /\ monWake' = FALSE
  /\ UNCHANGED <<supGen, handled, supSrc, supRef, fails, retryIn, gen, lock>>
  /\ StreamsAlone /\ SupFrame

(* Nothing for kSupervisorPollMs.                                          *)
SupPoll ==
  /\ supPc = "wait" /\ ~wake /\ ~monWake
  /\ woken' = FALSE /\ supPc' = "begin"
  /\ retryIn' = [s \in Sources |-> Later(retryIn[s])]
  /\ UNCHANGED <<supGen, handled, supSrc, supRef, fails, wakeVars, lock>>
  /\ StreamsAlone /\ SupFrame

(* kRebuildDebounceMs later: whatever came meanwhile is merged.            *)
SupDebounce ==
  /\ supPc = "debounce" /\ supPc' = "begin"
  /\ wake' = FALSE /\ monWake' = FALSE
  /\ UNCHANGED <<woken, supGen, handled, supSrc, supRef, fails, retryIn, gen,
                 lock>>
  /\ StreamsAlone /\ SupFrame

SupBegin ==
  /\ supPc = "begin"
  /\ IF woken THEN /\ fails' = [s \in Sources |-> 0]
                   /\ retryIn' = [s \in Sources |-> 0]
              ELSE UNCHANGED <<fails, retryIn>>
  /\ supGen' = gen
  /\ IF gen # handled THEN supPc' = "sync" /\ UNCHANGED supSrc
                      ELSE supPc' = "pass" /\ supSrc' = 1
  /\ UNCHANGED <<woken, handled, supRef, wakeVars, lock>>
  /\ StreamsAlone /\ SupFrame

(* synchronizeOutputs, abstracted: it succeeds, or a newer click ends it.  *)
SupSync ==
  /\ supPc = "sync"
  /\ \/ /\ handled' = supGen /\ supPc' = "pass" /\ supSrc' = 1
        /\ UNCHANGED woken
     \/ /\ gen # supGen
        /\ supPc' = "wait" /\ woken' = FALSE
        /\ UNCHANGED <<handled, supSrc>>
  /\ UNCHANGED <<supGen, supRef, fails, retryIn, wakeVars, lock>>
  /\ StreamsAlone /\ SupFrame

Settled(s) == ~enabled[s] \/ state[s] = "Running"
Restartable(s) == ShouldRestart(state[s], retryable[s], woken)
DueWhenWoken(s) == Restartable(s) /\ woken    \* mutant: no timer
Due(s) == Restartable(s) /\ (woken \/ retryIn[s] = 0)

SupSkip ==
  /\ supPc = "pass" /\ supSrc \in Sources /\ LockFree
  /\ Settled(supSrc) \/ ~Due(supSrc)
  /\ IF Settled(supSrc)
     THEN /\ fails' = [fails EXCEPT ![supSrc] = 0]
          /\ retryIn' = [retryIn EXCEPT ![supSrc] = 0]
     ELSE UNCHANGED <<fails, retryIn>>
  /\ supSrc' = supSrc + 1
  /\ UNCHANGED <<supPc, woken, supGen, handled, supRef, wakeVars, lock>>
  /\ StreamsAlone /\ SupFrame

SupStop ==
  /\ supPc = "pass" /\ supSrc \in Sources /\ LockFree
  /\ ~Settled(supSrc) /\ Due(supSrc)
  /\ AskStop(supSrc)
  /\ lock' = "sup" /\ supPc' = "join" /\ supRef' = wanted[supSrc]
  /\ UNCHANGED <<woken, supGen, handled, supSrc, fails, retryIn, wakeVars,
                 state, retryable, resolved, workVars>>
  /\ SupFrame

SupRestart ==
  /\ supPc = "join" /\ Joined(supSrc)
  /\ StartWorker(supSrc, supRef)
  /\ fails' = [fails EXCEPT ![supSrc] = OneMore(@)]
  /\ retryIn' = [retryIn EXCEPT ![supSrc] = RetryBackoff(fails'[supSrc])]
  /\ lock' = "free" /\ supPc' = "pass" /\ supSrc' = supSrc + 1
  /\ supRef' = NoRef
  /\ UNCHANGED <<woken, supGen, handled, wakeVars>>
  /\ SupFrame

SupPassed ==
  /\ supPc = "pass" /\ supSrc \notin Sources
  /\ supPc' = "wait" /\ woken' = FALSE
  /\ UNCHANGED <<supGen, handled, supSrc, supRef, fails, retryIn, wakeVars, lock>>
  /\ StreamsAlone /\ SupFrame

SupStep ==
  \/ SupWake \/ SupDebounce \/ SupBegin \/ SupSync
  \/ SupSkip \/ SupStop \/ SupRestart \/ SupPassed

-----------------------------------------------------------------------------
(* Capture worker of source s.                                             *)

WorkFrame == UNCHANGED <<winVars, configVars, lock, uiVars, wakeVars, supVars,
                         quit, plugs, edits, clicks>>
Goto(s, pc) == wPc' = [wPc EXCEPT ![s] = pc]
Fault == faults < MaxFaults /\ faults' = faults + 1

(* openDevice, first half: which endpoint?                                 *)
WResolve(s) ==
  /\ wPc[s] = "open"
  /\ retryable' = [retryable EXCEPT ![s] = ~Ambiguous(wRef[s])]
  /\ IF Resolves(wRef[s])
     THEN /\ wFound' = [wFound EXCEPT ![s] = Match(wRef[s])]
          /\ resolved' = [resolved EXCEPT ![s] = Match(wRef[s])]
          /\ Goto(s, "activate")
     ELSE Goto(s, "refused") /\ UNCHANGED <<wFound, resolved>>
  /\ UNCHANGED <<state, wRef, faults>>
  /\ WorkFrame

(* openDevice, second half: may fail by itself, or for want of a device.   *)
WActivate(s) ==
  /\ wPc[s] = "activate"
  /\ \/ /\ wFound[s] \in present /\ Goto(s, "running")
        /\ state' = [state EXCEPT ![s] = "Running"] /\ UNCHANGED faults
     \/ wFound[s] \notin present /\ Goto(s, "refused")
          /\ UNCHANGED <<state, faults>>
     \/ Fault /\ Goto(s, "refused") /\ UNCHANGED state
  /\ UNCHANGED <<retryable, resolved, wRef, wFound>>
  /\ WorkFrame

WRefused(s) ==
  /\ wPc[s] = "refused" /\ Goto(s, "closing")
  /\ state' = [state EXCEPT ![s] = "Failed"]
  /\ UNCHANGED <<retryable, resolved, wRef, wFound, faults>>
  /\ WorkFrame

(* The packet loop ends: told to stop ...                                  *)
WQuit(s) ==
  /\ wPc[s] = "running" /\ quit[s] /\ Goto(s, "closing")
  /\ UNCHANGED <<state, retryable, resolved, wRef, wFound, faults>>
  /\ WorkFrame

(* ... or the endpoint is gone, or an error.                               *)
LoopFails(s) ==
  /\ wPc[s] = "running" /\ Goto(s, "closing")
  /\ state' = [state EXCEPT ![s] = "Failed"]
  /\ UNCHANGED <<retryable, resolved, wRef, wFound>>
  /\ WorkFrame

WGone(s)  == wFound[s] \notin present /\ LoopFails(s) /\ UNCHANGED faults
WError(s) == Fault /\ LoopFails(s)

WClose(s) ==
  /\ wPc[s] = "closing" /\ Goto(s, "none")
  /\ wRef' = [wRef EXCEPT ![s] = NoRef]
  /\ wFound' = [wFound EXCEPT ![s] = NoEndpoint]
  /\ UNCHANGED <<state, retryable, resolved, faults>>
  /\ WorkFrame

WorkerStep(s) ==
  \/ WResolve(s) \/ WActivate(s) \/ WRefused(s) \/ WQuit(s) \/ WGone(s)
  \/ WClose(s)

-----------------------------------------------------------------------------
Next ==
  \/ \E e \in Endpoints : Plug(e)
  \/ Notify
  \/ UiCall \/ UiStep
  \/ SupStep \/ SupPoll
  \/ \E s \in Sources : WorkerStep(s) \/ WError(s)

Spec == Init /\ [][Next]_vars

(* Threads run, waits time out and Windows announces what it did.  Nothing *)
(* obliges a user to click or a device to change or to fail.               *)
FairSpec ==
  /\ Spec
  /\ WF_vars(Notify) /\ WF_vars(UiStep)
  /\ WF_vars(SupStep) /\ WF_vars(SupPoll)
  /\ \A s \in Sources : WF_vars(WorkerStep(s))

-----------------------------------------------------------------------------
TypeOK ==
  /\ present \subseteq Endpoints /\ unannounced \in BOOLEAN
  /\ wanted \in [Sources -> Refs] /\ enabled \in [Sources -> BOOLEAN]
  /\ saved \in [Sources -> Endpoints \cup {NoEndpoint}]
  /\ lock \in {"free", "ui", "sup"}
  /\ uiPc \in {"idle", "restart", "stop", "save"}
  /\ uiSrc \in Sources \cup {0}
  /\ wake \in BOOLEAN /\ monWake \in BOOLEAN /\ gen \in Nat
  /\ supPc \in {"wait", "debounce", "begin", "sync", "pass", "join"}
  /\ woken \in BOOLEAN /\ supGen \in Nat /\ handled \in Nat
  /\ supSrc \in 0 .. NumSources + 1 /\ supRef \in Refs \cup {NoRef}
  /\ fails \in [Sources -> 0 .. MaxShift + 1]
  /\ retryIn \in [Sources -> 0 .. MaxWait]
  /\ state \in [Sources -> StreamState]
  /\ retryable \in [Sources -> BOOLEAN] /\ quit \in [Sources -> BOOLEAN]
  /\ resolved \in [Sources -> Endpoints \cup {NoEndpoint}]
  /\ wPc \in [Sources -> {"none", "open", "activate", "refused", "running",
                          "closing"}]
  /\ wRef \in [Sources -> Refs \cup {NoRef}]
  /\ wFound \in [Sources -> Endpoints \cup {NoEndpoint}]
  /\ plugs \in Nat /\ edits \in Nat /\ clicks \in Nat /\ faults \in Nat

(* A stream that nobody is restarting was started for the selection the    *)
(* user has made last, and not at all for a source that is disabled: a     *)
(* supervisor that retries a failed stream never undoes a choice made      *)
(* while it was about to ("a stale restart", supervisorMain).              *)
BeingChanged(s) ==
  \/ lock = "ui" /\ uiSrc = s
  \/ lock = "sup" /\ supSrc = s

StreamFollowsSelection ==
  \A s \in Sources :
    wPc[s] # "none" /\ ~BeingChanged(s) => enabled[s] /\ wRef[s] = wanted[s]

(* The id that would be saved is the chosen one, or one that answers to    *)
(* the chosen name: a restart caused by a new choice never brings the old  *)
(* endpoint's id back to disk (the comment in CaptureStream::start).       *)
Answers(ref) ==
  {ref.id} \cup IF ref.name = NoName THEN {}
                ELSE FullName[ref.name] \cup PartName[ref.name]

SavedIdSelected ==
  \A s \in Sources : saved[s] = NoEndpoint \/ saved[s] \in Answers(wanted[s])

(* A source nobody is restarting shows what became of its worker: Failed,  *)
(* which the supervisor looks for, when it ended by itself, and Stopped    *)
(* only when it was disabled (stop and the ends of threadMain).            *)
EndsAreFailures ==
  \A s \in Sources : ~BeingChanged(s) =>
    IF enabled[s] THEN wPc[s] = "none" => state[s] = "Failed"
                  ELSE wPc[s] = "none" /\ state[s] = "Stopped"

(* A failure that can be retried is: the back-off always runs out, and a   *)
(* notification, a click or a change of another source never postpones it  *)
(* for ever (supervisorMain's pass over the captures).                     *)
RetriesGoOn ==
  \A s \in Sources : []<>~(state[s] = "Failed" /\ retryable[s] /\ enabled[s])

(* A source whose endpoint is there to stay is captured again, whatever    *)
(* failed, vanished or was re-plugged before (supervisorMain, threadMain). *)
PluggedInIsCaptured ==
  \A s \in Sources :
    <>[](enabled[s] /\ retryable[s] /\ Resolves(wanted[s])) =>
      []<>(state[s] = "Running")

(* What RetryPolicy.h promises: a device notification that the supervisor  *)
(* has taken retries every failed capture, an ambiguous one included.  It  *)
(* does not hold of the code: a click can make the supervisor forget it.   *)
NotificationRetries ==
  \A s \in Sources :
    (supPc = "begin" /\ woken /\ state[s] = "Failed" /\ enabled[s]) ~>
      (state[s] # "Failed" \/ ~enabled[s])

(* And what that is for: a name that has become unique for good, as        *)
(* endpoints disappeared, is captured in the end.  It does not hold: the   *)
(* only notification may be served while the stream is still Opening.      *)
UniqueNameIsCaptured ==
  \A s \in Sources :
    <>[](enabled[s] /\ Resolves(wanted[s])) => <>(state[s] = "Running")
=============================================================================
