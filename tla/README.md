# Audio Monitor: specifications

Audio Monitor captures several sources (loopback of a render endpoint, a
microphone, one application), mixes them, and forwards the mix to one or more
output devices without ever touching the system's device configuration.  This
directory specifies the parts of it that are hard to test: threads that share
lock-free state, devices that vanish, retries, restarts and files.

* `X.tla` models a component, `MCX.tla` with `MCX*.cfg` give TLC an instance of
  it, `X_proofs.tla` holds its theorems (`Capture_proofs.tla` those of StereoRing and
  of CaptureRecovery, `OutputBus_proofs.tla` those of OutputBus and, through an
  instance, of OutputRecovery).
* `PROJECT.json` says which lines every definition translates, which hazards of
  the code the properties are for, and which mutation of the code breaks which
  property.

To check: `tlc -config MCX.cfg MCX.tla`, `tlapm X_proofs.tla`.

## 1. The system

### Threads and how they interact

| thread | runs | talks to |
|---|---|---|
| UI | `wWinMain`, `MixerWindow`; calls `AudioEngine::start/stop/setMonitoring/setEnabled/updateConfigFromRuntime`, `Hotkeys::apply/clear`, `Config::save` | the engine, by calls; atomics for faders; the configuration file; Windows, for shortcuts |
| supervisor | `AudioEngine::supervisorMain` | woken by `superWake_` (device notification) and `monitoringWake_` (click); restarts workers under `configMutex_` |
| mix pump | `AudioEngine::mixPumpMain`, one block of 480 frames every 10 ms | reads every capture ring, writes every `OutputBus`; acknowledges `monitoringState_` in `pumpObservedState_` |
| capture worker, one per source | `CaptureStream::threadMain` | writes its `StereoRing`, `epoch_`, `flowing_`, `state_` |
| render worker, one per output | `RenderStream::threadMain` | calls `OutputGate::renderMix`, which reads one `OutputBus` |
| Windows | device notifications (`Notifier`) | `requestRebuild`, from a thread of its own |
| Windows | the answer to an application capture (`Activation::ActivateCompleted`) | an object that the capture worker shares with it by reference count |

### Components

| component | state it keeps | operations | what is hard | what makes it correct |
|---|---|---|---|---|
| Monitoring hand-off (`AudioEngine`) | `running_`, `quit_`, `monitoringState_` (generation and on/off), `pumpObservedState_`, `outputReadyState_`, wake flags, `configMutex_` | `start`, `stop`, `setMonitoring`, `setOutputDevice`, supervisor pass, pump block, gate callback | six kinds of thread; a click never joins one; workers are joined under a mutex | no audio of an earlier session, a paused or failed engine holds no device, no join waits in a circle, an output is always recoverable |
| `StereoRing` | two wrapping cursors and the slots | `beginWrite/endWrite`, `beginRead/endRead`, `dropAllFromConsumer`, `available` | no lock; cursors wrap | a queue: order, no loss, no shared slot |
| `OutputBus` | ring, `timelineEpoch_`, `seenEpoch_`, priming, fade, target depth | `publish`, `requestReset`, `renderMix`, `onRenderFormat`, `onRenderPeriod` | the consumer alone may drop, but the producer breaks timelines | old timelines end in a fade, priming ends, backlogs are trimmed |
| Capture recovery (`supervisorMain`, `CaptureStream`) | `state_`, `retryable_`, `resolvedId_`, back-off per source, the selection | `start`, `stop`, `openDevice`, retry pass, `setChannelDevice`, `setEnabled`, `updateConfigFromRuntime` | devices and selections change while a worker is being joined | a stream follows the last selection; retries go on; a stale id is not saved |
| Output recovery (`supervisorMain`, `RenderStream`) | `state_`, `exclusive_`, `wantsRetry_`, back-off | `openDevice` with its default gate, the loop's exits, passivity check, retry | the gate is asked once, before the endpoint is opened | exclusive control of a default endpoint is given up; no dead stream is silent for ever |
| Channel mixing | per channel `lastEpoch`, priming, idle tail, resampler, fade | `renderMix`, `handleMixPumpDiscontinuity` | epoch, `flowing_`, `state_` and depth are separate loads | old frames are dropped, a short sound is played to its end |
| `MixPumpScheduler` | anchor, next deadline, timer, stop event | `start`, `wait`, `signalStop`, `close` | overdue deadlines, catching up | no drift, no burst, stop is heard |
| `Meter` | an atomic peak, ballistics | `store max`, `take`, `update` | producer and reader race | no peak is lost or shown twice |
| Application capture (`AppAudio`, `CaptureStream::openProcess`) | the process handle, the activation object and its count | `findAppProcess`, `activateProcessCapture`, the system's callback | the answer may come after a timeout, a stop or a restart, or never | the object lives as long as its users; a stop is never held up |
| `DeviceManager`, `DeviceMatch` | COM enumerator, notifier | `resolve`, `isDefaultForAnyRole`, notifications | names are ambiguous, ids are reissued | never guesses |
| Configuration store (`Config::load`, `save`, `saveConfigIfDirty`) | the file, its temporary and its backup, a dirty flag, three timers | `load`, `save`, the flushes | crashes and failures between the steps of a save | one whole configuration survives; nothing is forgotten |
| Output list (`Config::addOutput`, the output dialog) | the list, the engine's copy, the streams' ids, the dialog's draft and snapshot | add, configure, remove, `updateConfigFromRuntime`, save, launch | ids go stale while a dialog or an engine still uses them | one output per endpoint, an id stays with its entry |
| `Hotkeys` | registered shortcuts | `apply`, `clear` | registration fails half-way; shortcuts name entries by index | all or the old set, never another device |
| `MixerWindow`, `gui_main` | dialogs, drafts, visibility, `meteringStartAttempted_` | mutes, dialogs, settings, `restart`, show, hide, launch | shortcuts go on while a dialog is open; saves fail half-way | what the user did last holds; the tray captures nothing unheard |
| `Diagnostics`, `DiagnosticExport`, `Log` | bounded history, counters, files | `push`, `snapshot`, export | counters are reset while read | bounded, monotone |
| `Renderer`, `TrayIcon`, `Theme`, `Spectrum`, `Json` | view state, text | draw, parse | | |
| `RateController`, `Resampler`, `MixMode`, `SampleFormat` | filters | per sample | floating point | numeric |

## 2. The modules

### MonitorHandoff

The protocol by which a click pauses or resumes forwarding.  `mon` is
`monitoringState_`, a record `[gen, on]`; `observed`, `ready` are the other
atomics; `configLock` is `configMutex_`; each thread has a program counter
(`uiPc`, `supPc`, `pumpPc`, `wPc[o]`) with one label per load, store, lock, join
or call that another thread can come between.  A bus is a sequence of blocks,
and a block is the generation it was mixed in, since that is all that "stale"
depends on; a callback takes any prefix and may drop the rest, which covers all
that module OutputBus does.  UI actions: `start`, `stop`, `setMonitoring`,
`setOutputDevice`; supervisor: waiting, debounce, `synchronizeOutputs`, the
passes, `failSupervisor`; pump: a block, the publication output by output, the
acknowledgement; render worker: open, start, the gate's first load, the
bus, the gate's second look, `ReleaseBuffer`, failing and closing.

Safety: `NoStaleReplay` (no callback takes a block of another generation),
`OneGenerationReady`, `HeardWasWanted` (what is on its way to a device was current
and wanted at the gate's last look; a click after that look does not recall the
block, which then comes before the click is handled), `PausedHoldsNoDevice`,
`FailedHoldsNoDevice`, `ForwardingIsRecoverable`.  Liveness: `RequestsHandled`
(a request is served without the 2 s poll), `CallsReturn` (start and stop
return).

### StereoRing and BoundedFifo

`StereoRing` (its specification is `RingSpec`) has one step per atomic access, cursors modulo `CursorSize`
(2^32 in the code) and slots modulo `Capacity`.  `BoundedFifo` is what it
promises: a bounded queue.  `IsFifo` is the refinement; the mapping reads the
queue off the counts of frames ever written and read, which are history.
The acquire and release orders are taken at their word: a load sees the store
it synchronises with and all before it.

### TimelineQueue

What a capture ring and an output's ring have in common: a `StereoRing` as two
counts, frames of timelines that have ended (`old`) in front of the current ones
(`new`), the epoch that ends a timeline, and `DriftResampler::produce` as a
choice of how many frames it takes and makes: between `MinInput` and `MaxInput`,
which follow from the bounds of the ratio (the two sides' nominal rates times
0.995 and 1.005, the constants `RatioLo`, `RatioHi` and `RatioUnit`) and from where the
read position can be.

### CaptureTimeline

One capture channel.  The worker (`wPc`): a start's epoch and `Opening`, a packet
with or without a discontinuity, the space it sees, `flowing_`, the frames, the
overflow's epoch, the verdict on `kIdleAfterSeconds`, failing and closing.  The
pump (`pc`): the loads of epoch, `flowing_`, `state_` and depth, the decision
between fading, priming and silence, the trim of a backlog, a block, the reset;
and `handleMixPumpDiscontinuity` when it is late.  `BrokenTimelineDropped`
says of a channel what it says of a bus below.  `FadedInUnlessCut`: whatever
interrupted a channel, a late pump included, it leaves priming in silence, so that it
fades in; the block that drops a timeline too short to fade is excepted (section 6).
`BypassOnlyIdle`: priming is cut short (`stableIdleTail`) only when no frame was
published since the worker's last verdict that the source is idle, as of the
load of `flowing_`.  `TailPlayed`: a sound that ends is played, however short.
`PrimingEnds`: while packets come, the channel comes out of priming.
`DeadIsSilent`: a source that is gone leaves an empty ring and no level.

### OutputBus

One output's TimelineQueue.  Publishing is two or three steps (the room,
the frames, the overflow's epoch), `renderMix` one step per load of a shared
variable; `presence` counts the steps of `FadeEnvelope`.  `BrokenTimelineDropped`:
once the render thread has taken note of an epoch, no older frame is left.
`DropsInSilence`: the queue is dropped when nothing is audible, or too few
frames are left to interpolate.  `PrimingSuffices`: the callback that leaves
priming has enough input.  `PrimingEnds`, `BacklogTrimmed`: liveness.

### RetryPolicy, CaptureRecovery, OutputRecovery

`RetryPolicy` is `RetryPolicy.h` with time counted in supervisor polls of 2 s.
`CaptureRecovery` has Windows (endpoints appear and disappear; some time later a
notification), the UI thread, the supervisor and the capture workers.  A join
under `configMutex_` is two actions with `lock` held in between, so that what
another thread can do meanwhile is explored.  `resolve` is modelled by what it
decides: the id if it is active, else the only endpoint of that whole name, else
the only one that contains it.  `OutputRecovery` is one output while forwarding
is on: the gate that refuses exclusive mode for a default endpoint, the formats
and the shared fallback as choices, every exit of the render loop, the
passivity check and the retry.  Besides the properties of the runs, three facts
about what the supervisor sees of a worker it does not wait for are stated and
proved: `EndsAreFailures` in both modules (a worker that ended by itself leaves its
stream `Failed`, which is what `ShouldRestart` looks for) and `HoldIsKnown` (of a
`Running` output the flags say what its client holds, except between
`closeDevice` and the last store of the state, when there is no client any more).

`setChannelDevice` and `setOutputDevice` belong to the engine's interface; the
window of this version restarts the engine after a change of device instead and
calls only `setEnabled`.  The models keep them, with the caller's copy of the
id changed in the same step.

### ConfigStore and DurableConfig

`Config::save` one file operation at a time (`pc`): the backup of a file that it
could not have written itself, the temporary file, its flush, the replacement; a
file is its content (a configuration number, a foreign file, or something torn)
and whether it has been flushed.  A kill forgets the program, a power failure
also what was not flushed.  `saveConfigIfDirty` is the guard in front of it:
`Coalesced` and `TooSoon` are its timers, counted in frames.  The callers are a
frame, a shortcut in the tray, `hideWindow`, and the end of `wWinMain`.
`DurableConfig` is what it promises: the file goes from one whole configuration
to a newer one, in one step; `SavesAtomically` is the refinement.
`NothingForgotten`: what is not marked as unsaved is in the file.
`FlushedWhenLeft`: the tray and the exit leave nothing unsaved unless a save has
failed.  `OriginalKept`: a corrupt or older file is replaced only when its backup has
its content, or when a backup of that name was there before the save began (`older`:
an earlier original, or what a crash left of a copy; then this content is lost, see
section 6); a complete backup is never altered.  `ChangesReachDisk`: while the window is shown and the disk recovers, a
change is written.

### OutputList

The list of outputs in its four copies: the configuration, the file, the list
the engine was started with, and the draft of the dialog, together with the ids
the render streams resolve and `updateConfigFromRuntime` writes back.  A driver
that is reinstalled is an endpoint that disappears and another of the same name.
`OutputsDistinct`: no two outputs hold the same endpoint.  It holds as long as names
tell devices apart, which `Unambiguous` spells out: no two active endpoints share a
name, no part of a name in the lists fits two devices, and two entries of the file
found at first are for different devices unless `sameEndpointSelection` sees that they
are not.  `IdOfOwnDevice`: the id of an entry is the id of a device of the entry's own
name, so nothing that a stream finds out is written into another entry.
`OutputListAssumption` says what a first file is: entries whose ids came with their
names.

### Desktop

The window thread, with the supervisor giving the engine up at any point.  Every
handler that changes the configuration, the registered shortcuts or the engine is
an action: dialogs of sources and outputs, settings with their two ways to fail
(a shortcut is refused, the start-up entry cannot be written), mutes, toggling,
showing, hiding, launching, quitting.  A binding records, beside the index the
code keeps, which entry it was registered for.  `NeverAnotherDevice`,
`UserIsObeyed` (the configuration and a running engine are as the user last said,
through whichever of click, shortcut and dialog), `TrayHoldsNoMeters`,
`ShortcutsAreSaved` (registered are the saved shortcuts, all or none).

### AppCapture

The processes (which come, go, and reuse ids that no handle holds), the capture
worker through `findAppProcess`, `OpenProcess` and `activateProcessCapture`, the
`Activation` objects with their counts, and the system's answer in three steps: the
result, the event, the return of the callback.  The pairs of `start` and `stop`
around them may leave older activations behind.  `ActivationOutlivesUsers`,
`StopReturns`.

## 3. Runs and bounds

| run | module, config | properties | shows |
|---|---|---|---|
| handoff | MCMonitorHandoff, `MCMonitorHandoff.cfg` | `NoStaleReplay`, `PausedHoldsNoDevice`, `FailedHoldsNoDevice`, `ForwardingIsRecoverable`, `OneGenerationReady`, `HeardWasWanted` | Two outputs, two UI calls and one device or thread failure: no interleaving of clicks, pump blocks, callbacks, worker restarts and a failing supervisor replays old audio, hands a device audio that was paused when the gate last looked (or, in flight from there, once the click is handled), leaves outputs ready for different generations, keeps a paused or failed engine's device open, or wedges an output. |
| handoff_live | MCMonitorHandoff, `MCMonitorHandoffLive.cfg` | `RequestsHandled`, `CallsReturn` | Under fair threads every pause or resume request is served without the 2 s poll, and start and stop return: the joins never wait in a circle. |
| ring | MCStereoRing, `MCStereoRing.cfg` | `NoRace`, `IsFifo` | One producer and one consumer batch through a ring of four slots whose cursors wrap twice: no slot is shared, frames keep their order, and the ring implements the bounded queue. |
| output_bus | MCOutputBus, `MCOutputBus.cfg` | `BrokenTimelineDropped`, `DropsInSilence`, `PrimingSuffices`, `PrimingEnds`, `BacklogTrimmed` | Pump, resets and render callbacks interleaved at every shared load, with periods shorter and longer than a block and one that needs the whole ring: old audio goes, only in silence; priming ends, with enough input; a backlog is fetched in. |
| capture_timeline | MCCaptureTimeline, `MCCaptureTimeline.cfg` | `BrokenTimelineDropped`, `FadedInUnlessCut`, `BypassOnlyIdle`, `TailPlayed`, `PrimingEnds`, `DeadIsSilent` | Packets of three frames into a ring of eight, with two breaks from restarts, discontinuities and overflows, against a pump that loads epoch, flowing, state and depth one by one and may be late: old audio goes; an interrupted channel fades in again; a resumed producer is not an idle tail; tails are played, priming ends, a dead source leaves nothing. |
| capture_recovery | MCCaptureRecovery, `MCCaptureRecovery.cfg` | `StreamFollowsSelection`, `SavedIdSelected`, `RetriesGoOn`, `PluggedInIsCaptured` | One source, two endpoints that share part of a name, two selections: endpoints come and go, the selection changes and streams fail while the supervisor retries; no restart undoes a choice, no stale id is saved, every retryable failure is retried and an endpoint that stays is captured. |
| output_recovery | MCOutputRecovery, `MCOutputRecovery.cfg` | `DefaultIsYielded`, `PluggedInIsHeard` | One output against two changes of endpoints or defaults, a call of the UI and a device error: a default endpoint is never held exclusively for ever, an endpoint that stays is heard, whichever way the worker ended. |
| config_store | MCConfigStore, `MCConfigStore.cfg` | `NothingForgotten`, `FlushedWhenLeft`, `SavesAtomically`, `OriginalKept`, `ChangesReachDisk` | Edits, hotkeys, hiding, exit, two failing file operations, a kill or a power failure between any two steps of save(), and a foreign file between two launches: the file is always whole, a foreign file is replaced only when its content is in its backup or another backup was there before, which is never altered, and no change is lost without a failure. |
| output_list | MCOutputList, `MCOutputList.cfg` | `OutputsDistinct`, `IdOfOwnDevice` | Two outputs and three ids, of which two are one device before and after its driver is reinstalled; dialogs over a stale snapshot, streams that write their ids back, saves, kills and relaunches: no two outputs end on one endpoint, and no id lands in another entry. |
| output_list_twins | MCOutputList, `MCOutputListTwins.cfg` (violation) | `OutputsDistinct` | With two active devices of one name, which the dialog admits on purpose: when one is unplugged its output resolves to the other's endpoint and takes over its id. |
| desktop | MCDesktop, `MCDesktop.cfg` | `NeverAnotherDevice`, `UserIsObeyed`, `TrayHoldsNoMeters`, `ShortcutsAreSaved` | Sources and outputs with shortcuts, two changes of the system, dialogs, settings, tray and engine failures, shortcuts pressed at any moment and registrations refused half-way: a shortcut acts on its own entry, what the user did last holds, the tray runs no meters, what is registered is what is saved. |
| app_capture | MCAppCapture, `MCAppCapture.cfg` | `ActivationOutlivesUsers`, `StopReturns` | Two process ids that come, go and are reused, two activations under way, starts and stops at any time, and a system that answers late or never: the activation object lives exactly as long as someone may touch it, and a start or stop comes back. |

Every passing run has a mutant for each of its properties (`PROJECT.json`): a
definition changed as a plausible slip would change the code.

Why the bounds are enough.  *Hand-off*: a start and a click, with two outputs and a
fault, is the shortest history in which a resume is abandoned between two outputs;
the live run has a third call, in which a resume overtakes a pause that overtook a
resume; one fault reaches each cleanup.  *Ring*: cursors wrap twice.  *Bus*: two
timeline breaks let one interrupt the fade of the other; the periods are one
shorter and one longer than a block, and one that needs the whole ring, at equal
nominal rates; `FirstBlockWhole` is for any rates.
*Channel*: packets are longer than a block, so that residues of every length
occur, the ring holds more than a backlog (eight frames against a target of two),
and two breaks make a restart followed by a discontinuity or an overflow.
*Recovery*: two endpoints of which one name matches both; one endpoint may come
and go twice; the back-off is capped after one or two doublings.  *Store*: one
edit whose save may fail twice and be interrupted once, between any two steps,
with a foreign file laid down at most once; a second edit repeats the first,
since the file is whole after each.  *Output list*: two entries, and three ids
of which two are one device before and after a reinstallation (`Twins` FALSE) or
two devices of one name (TRUE); the first of these satisfies `Unambiguous`, which the
instance asserts.  *Desktop*: up to two sources
and one output (the limit of each list is reached, indices shift, the last output
goes), two chords, and two shortcuts that differ from the saved ones
(`MaxChanges`), which is what exchanging two chords takes; names and chords are
symmetric, the properties being invariants that treat them alike.
*Application capture*: two ids are a parent with its child or two instances,
and a reused id; two slots are the activation the worker gave up and the
next one (without a free slot `New` fails, as without memory).  The theorems of
section 5 do without these bounds.

## 4. Fairness

Weak fairness of a step says that its thread is scheduled or its wait times
out.  It is assumed for the threads of the engine (`WF` of UI steps inside a
call, supervisor, pump, each worker), for the supervisor's poll where a timer
drives it, and for Windows delivering an announcement.  It is never assumed
that a user calls anything, that a device changes or fails, that a notification
comes without a change, or, in MonitorHandoff, that the poll saves a lost
wake-up: `RequestsHandled` holds without it.  In `CaptureTimeline` the
worker finishes a packet it has begun, the pump runs, and in the end it is on
time (`OnTime`): each late block resets the channel.  In `OutputBus` the pump and the
render thread are scheduled; `PrimingEnds` has as its hypothesis that the pump
is in the end never more than two blocks (`MaxLead`) ahead from one callback to
the next, which two clocks of nearly the same rate guarantee.  In `ConfigStore` a
visible window has frames and `save` finishes what it has begun, while failures
and edits are never forced.  In `AppCapture` the worker and the joining thread are
scheduled; neither the processes nor the system's answers are, so `StopReturns`
rests on the stop event and the five seconds alone.

## 5. Proofs

| theorem | property | establishes |
|---|---|---|
| `MonitorHandoff_proofs!TypeCorrect` |  | Type correctness, including that no bus exceeds its capacity, for any number of outputs, calls and failures. |
| `MonitorHandoff_proofs!StaleReplayFree` | `NoStaleReplay` | No render callback takes a block mixed in another generation, for any number of outputs, any bus size and any history of requests and failures. |
| `MonitorHandoff_proofs!SingleReadyGeneration` | `OneGenerationReady` | Two outputs are never ready for different generations, wherever a resume was abandoned. |
| `MonitorHandoff_proofs!OnlyWantedAudio` | `HeardWasWanted` | A block on its way to a device is of the generation that was current, with monitoring on, at the gate's last look; if a click has overtaken it since, the supervisor has not handled that click yet. For any number of outputs, requests and failures. |
| `MonitorHandoff_proofs!OwnershipInvariant` |  | Who holds configMutex_, who joins which worker, in which order requests are handled and what the supervisor has done for the present one, for any number of outputs, clicks and failures. |
| `MonitorHandoff_proofs!PauseReleasesDevices` | `PausedHoldsNoDevice` | Between a handled pause and the next request no output device is held, even if setOutputDevice, a failing stream or a newer click interleaves. |
| `MonitorHandoff_proofs!ResumeLeavesNoneWedged` | `ForwardingIsRecoverable` | Once a resume is handled every output is ready for it and has a worker, or is Failed and will be retried, or is being restarted by setOutputDevice. |
| `MonitorHandoff_proofs!FailureReleasesDevices` | `FailedHoldsNoDevice` | An engine that gave up holds no output device, even if its failure raced with setOutputDevice. |
| `MonitorHandoff_proofs!JoinsAreAnswered` |  | A thread that is being joined has been told to end and does not wait for the thread that joins it: no join waits in a circle, with any number of outputs. |
| `Capture_proofs!RingTypes` |  | The cursors, headrooms and counts of a ring stay in range for every power-of-two capacity and cursor width. |
| `Capture_proofs!RaceFree` | `NoRace` | Producer and consumer never touch the same slot, for every capacity and cursor width, wrapped or not. |
| `Capture_proofs!OldestFirst` |  | A consumer's batch reads the oldest frames in the order they were written. |
| `Capture_proofs!RingIsFifo` | `IsFifo` | The ring implements the bounded queue of frames, for every capacity and cursor width. |
| `OutputBus_proofs!BusTypes` |  | An output's queue stays within its ring and its target within reach, for all sizes, periods and breaks. |
| `OutputBus_proofs!OldTimelineGone` | `BrokenTimelineDropped` | When the render thread has taken note of an epoch, no older frame is left, wherever overflow, reset and drop interleave. |
| `OutputBus_proofs!SilentDrop` | `DropsInSilence` | The queue is dropped only in silence, at a reopening, or with too few frames to interpolate. |
| `OutputBus_proofs!FirstBlockWhole` | `PrimingSuffices` | The callback that leaves priming never runs dry: for every callback length, and every ratio between any two bounds, that is any pair of nominal rates with the controller's half percent. |
| `CaptureTimeline_proofs!ChannelTypes` |  | A packet under way always fits the ring, and the channel keeps its types, for every ring, packet and block length. |
| `CaptureTimeline_proofs!NoBrokenTimeline` | `BrokenTimelineDropped` | The pump never plays or keeps a frame from before an epoch it has noted, for any number of restarts, discontinuities, overflows and missed periods. |
| `CaptureTimeline_proofs!FadesInAgain` | `FadedInUnlessCut` | A channel that starved, faded, was dropped or was skipped by a late pump leaves priming in silence and fades in, except in the block that has dropped a timeline too short to fade. |
| `CaptureTimeline_proofs!BypassWhenIdle` | `BypassOnlyIdle` | Priming is bypassed only for a producer that was idle when the pump looked at it. |
| `Capture_proofs!CapturesShowTheirEnd` |  | EndsAreFailures of CaptureRecovery: a capture that lost its worker and is not being restarted is Failed, where the supervisor finds it, or its source is disabled and it is Stopped. |
| `OutputBus_proofs!NoWorkerEndsUnseen` |  | EndsAreFailures of OutputRecovery: no error, stop or restart leaves an output without a worker in any state but Failed, the only one that is retried. |
| `OutputBus_proofs!HoldsAreKnown` |  | HoldIsKnown of OutputRecovery: while a stream is Running, its flag says whether the client holds the endpoint exclusively, or the worker has closed the client and is about to leave Running. The flag outlives clients and is read without a lock; still the passivity check overlooks no exclusive hold and yields no shared one. |
| `Capture_proofs!RetriesFollowTheUser` | `StreamFollowsSelection` | No retry, back-off or join undoes a selection: a stream that nobody is restarting runs for the device chosen last, and never for a disabled source. |
| `Capture_proofs!SavedIdsAnswer` | `SavedIdSelected` | An id that is written back belongs to a device that answers to the present selection, for any endpoints, names and interleaving of choices and restarts. |
| `ConfigStore_proofs!SavingIsAtomic` | `SavesAtomically` | config.json goes from one whole file to the whole configuration in memory, whatever fails or dies between the steps of save(), for any number of failures and crashes. |
| `ConfigStore_proofs!ChangesAreRemembered` | `NothingForgotten` | While nothing is marked as unsaved the file holds the configuration, or it was never changed. |
| `ConfigStore_proofs!TrayPathsFlush` | `FlushedWhenLeft` | No path into the tray and no exit leaves a change unsaved unless a save has failed, for every length of the interval. |
| `ConfigStore_proofs!OriginalsSurvive` | `OriginalKept` | A corrupt or older file is replaced only when its backup has its content, or when another backup of its kind or a torn one was there before the save; a complete backup is never altered; wherever copies, replacements and the program fail. |
| `ConfigStore_proofs!ConfigTypes` |  | Type correctness of the configuration store. |
| `OutputList_proofs!IdsStayWithTheirEntry` | `IdOfOwnDevice` | Through dialogs, restarts, write-backs, kills and launches the id of an output is one of a device of that output's name, for any endpoints, names and lists. |
| `OutputList_proofs!OutputsStayDistinct` | `OutputsDistinct` | If names tell devices apart (Unambiguous), no two outputs ever hold one endpoint, however stale ids and snapshots are and however often a driver is reinstalled. |
| `Desktop_proofs!TrayReleasesDevices` | `TrayHoldsNoMeters` | Behind a hidden window the engine runs only to be heard, for any lists of devices, any shortcuts and any order of dialogs, failures and presses. |
| `Desktop_proofs!ShortcutsNeverStray` | `NeverAnotherDevice` | A registered shortcut names the entry it was registered for, however lists are edited, settings saved or taken back, and registrations refused. |
| `Desktop_proofs!ShortcutsFollowConfig` | `ShortcutsAreSaved` | What is registered is what the configuration says, all of it or nothing, unless a Save that failed half-way could not be taken back. |
| `Desktop_proofs!MutesAreObeyed` | `UserIsObeyed` | A device is muted, in the configuration and in a running engine, as the user last said: a press behind an open dialog is not taken back by its draft. |
| `AppCapture_proofs!ActivationsOutlive` | `ActivationOutlivesUsers` | An activation object lives exactly as long as the worker or the system may touch it, for any number of processes and of activations under way. |

*Hand-off.*  `NoStaleReplay` is not inductive: the invariant `Generations` adds
where every generation in flight may stand: nobody is ahead of `mon`, the pump
is never ahead of what it will acknowledge, `ready[o]` is a generation the pump
has acknowledged, and a bus whose output is ready holds only blocks of it or of
later ones.  Each action of each thread preserves it (one lemma per thread).
What a handled request guarantees needs a second invariant, `Ownership`, proved
on top of the first: who holds `configMutex_` (`LockOwner`), which threads exist
at each step of start, stop and failure (`Lifecycle`), that requests are handled in
the order in which they are made, where within one generation the bit is only ever
withdrawn (`Requests`), that a worker told to stop is being joined
(`JoinedOrJoining`), and what the loop over the outputs has achieved so far
(`PausedSoFar`, `ResumedSoFar`).  `PausedHandled` and `ResumedHandled` carry that
from the loop to the next request: a click in between changes `mon`, and
`setOutputDevice` holds the lock only while the engine forwards (`PickHolds`).
A block that a click overtakes between the gate and `ReleaseBuffer` is followed by
`Carried`: as long as its worker has not been joined for the new request, the
supervisor has not got past that output (`NotYetJoined`).
`JoinsAreAnswered` follows with `Told`, that the thread that is waited for has
been told to end; it is the safety half of `CallsReturn`.

*Ring.*  `RInv` relates the wrapping cursors to counts that never wrap; the
lemmas about `%` come first, and `DistanceIs` turns the unsigned difference of
two cursors into the difference of the counts.  The refinement follows step by
step.

*Channel.*  `Others` adds to the types that the pump's epochs lag, that a pending
break still has enough frames for its fade (`BreakFades`: the worker only adds),
when old frames may be there (`OldKnown`), that the depth the pump loaded is
still there (`DepthKnown`), and what `flowing_` says of unjudged frames
(`Judged`).  What `Consume` and `Produced` of TimelineQueue do to the two counts
is a lemma of its own, here (`ConsumeOk`, `ProducedOk`) as in the bus.

*Recovery.*  That a stream follows the selection is not inductive, because the
supervisor reads a selection in one step and restarts a worker in a later one.
`IInv` says who may come between: whoever joins a worker holds the lock
(`LockOwner`), the supervisor's copy is still the selection (`SupHolds`), and a
worker, like the id it has found, belongs to the present selection unless its
restart is under way (`WorkerFollows`, `FoundSelected`).  The retry timers do not
matter and are left out of the types (the prover has no facts about 2^n).  On top of
it `Shown` relates the state of a stream to the step of its worker, and says who may
have told it to stop: `CapturesShowTheirEnd` follows.  For an output `WorkerInv`
does the same (`Shown`, `Asked`) and adds that a client is held from its opening to
its closing, in the mode the flag says (`Held`): a flag that an earlier client left
is stale only while the stream is not `Running`, or in the moment between
`closeDevice` (`WClose`) and the store that leaves `Running` (`WEnd`).

*Output list.*  The ids stay with their entries because the engine's copy and the
window's list have the same names in the same order whenever the engine runs
(`Audio`; every change of the list restarts the engine) and because
`resolve` answers only with a device of the entry's name (`ResolvedFits`): `ListInv`
is inductive, and `IdsStayWithTheirEntry` follows for any endpoints, names, first
files and limit.  A launch filters the list with `Added` entry by entry; what that
keeps of *every* list (`FromJsonDraws`) is proved by induction on its length, which
the prover can do when it is said of a set of numbers: a set with 0 and all successors
of its members is `Nat`, since a least missing number would be a successor (`Induct`,
from `WFMin`).  That the recursive definition has a solution is `StepByStep`.
`OutputsStayDistinct` needs more than ids, which go stale: `ApartInv` says that no
device at all answers to two entries (`Pairs`), nor to the dialog's draft and another
entry.  The step that counts is `PickedApart`: a device that answers to another
entry's name is what that entry resolves to, so `outputSelectionsCollide` refuses it,
however old the snapshot is.

*Bus.*  `IInv` adds to the types that the consumer's epochs lag (`EpochsLag`),
what is old when they agree (`OldKnown`), what silence implies (`SilentWhen`),
what the first block may count on (`FirstBlock`) and which epochs are spoken for
(`EpochReserved`).  How much input a block takes enters only as `Inputs`: a natural
number at any ratio.  *Channel*: a channel that is priming between two blocks is
silent, and inside a block unless the block has cut audio off (`FadesIn`); the other
parts say what a break, the loads of a block and the worker's verdict leave behind.

*Store*.  That the file is whole (`DiskWhole`) is not inductive by itself: the
move is safe because the temporary file is complete and flushed by then
(`TempWritten`), and nothing is forgotten because a save under way is still
marked (`SavingIsDirty`).  `SavingIsAtomic` is the refinement of `DurableConfig`:
every step maps to an atomic save, a foreign change or a stutter.
`OriginalsSurvive` needs that a backup holds a file of the kind it is named for,
or what a crash left of one (`BackupKinds`), and that past the backup the foreign
file's content is in it, or an older backup was found (`BackupMade`).

*Application capture*.  A count of references says nothing about who holds them:
`IInv` adds where the worker stands when it has an object (`WorkerOwns`) and that
the callback stores before it announces (`AnswerStored`).

*Desktop*.  `TrayInv` adds to `TrayHoldsNoMeters` only the shape of the engine's
record; the steps that matter are those that need no window: the launch, hiding,
shortcuts, a failing engine.  `KeyInv` proves `NeverAnotherDevice` and
`ShortcutsAreSaved` together: a shortcut is for what is at its place (`Aims`).
That survives a Save that is taken back only if the settings still have as many
shortcuts as the lists have entries (`SettingsFit`), and a removal only if the
dialog is about an entry there is (`EditFits`).  `WishInv` proves `UserIsObeyed`:
the lists have the mutes that were asked for (`Granted`), a running engine has those
of the lists (`Steers`), and the draft of an open dialog has the mute its Save would
bring, which a press behind the dialog changes too (`DraftFits`).  Names must tell
entries apart (`OneEach`), or a wish could not be granted for one and not the other.

The assumptions are the named ones on the constants: facts of the code (capacities
are positive, a ring's capacity is a power of two that divides the cursor size, a
target fits its ring), and in Desktop `SetupAssumption`, that no name occurs twice in
a configuration, which is about the model's own labels: `who` stands for the entry
itself, not for a device or a text of the code.  One theorem has a hypothesis
besides: `OutputsStayDistinct` assumes `Unambiguous`, which the code does not
guarantee and section 6 shows to be needed.

Only model-checked:

* liveness, including `DeadIsSilent`, `TailPlayed` and the two properties of the
  run `output_recovery` (outside the prover's reach); what they rest on is proved as
  far as it is safety (`NoStaleReplay`, `JoinsAreAnswered`, `EndsAreFailures`,
  `HoldIsKnown`);
* the types of the retry timers.

## 6. What the models found

* `OutputsDistinct` with two devices of one name (run `output_list_twins`): when
  one is unplugged, its output resolves to the other's endpoint and takes over
  its id; the next launch drops one of the two outputs as a duplicate.  The proof
  that it holds otherwise (`OutputsStayDistinct`) needs a second condition, and
  without it there is a second history: an entry whose name is a part
  of two devices' names (an older or hand-edited file) resolves to one, keeps its
  id, the other is added as a second output, and when the first is unplugged both
  entries open the other.  `PartOf = {<<NameA, PartOfA>>, <<NameB, PartOfA>>}` in
  the instance shows it; the run `output_list` has a part that fits one name.

Six more disagreements with comments are stated in the modules as formulas
that do not hold.  They are not among the runs; adding the formula to the
configuration of the module's run gives the history.

* `OutputBus!FadeStaysOnTimeline`: the fade that ends a broken timeline can run
  past its last frame into the next one; OutputBus.cpp:205 says that the taper
  lands on the old timeline's end.
* `CaptureRecovery!NotificationRetries` (one click): a notification is consumed
  when the supervisor wakes and dropped by `continue` (AudioEngine.cpp:849) when
  a newer click makes it abandon `synchronizeOutputs`.
* `CaptureRecovery!UniqueNameIsCaptured`: a notification served while the stream
  it concerns is still opening is not remembered, and an ambiguous name that has
  become unique stays failed; RetryPolicy.h:10 promises the retry.
* `OutputRecovery!DefaultChangeIsInert`: README.md:118 and DeviceManager.h:8 say
  that a change of default does nothing; it wakes the supervisor.
* `ConfigStore!EveryOriginalKept`: Config.cpp:387 and src/README.md:273 say that an
  invalid file is preserved before it is replaced.  A second one is not, since the
  first backup is kept (config_test.cpp:383 expects that); and after a kill in the
  middle of the copy the torn backup is taken for an older one, so that the next save
  destroys the only original.
* `CaptureTimeline!AlwaysFadedIn`: AudioEngine.cpp:505 fades a channel at either edge
  of a gap.  A broken timeline of fewer than four frames is dropped with the presence
  left up; if a target's worth of new frames arrives before the depth is loaded, the
  new timeline starts at full level.

Behaviour that the models contain and no property forbids, because the code says
as much or cannot know better: a click between the gate's second look and
`ReleaseBuffer` lets one more block through; a forced flush within 1500 ms of a failed save is
skipped; a file that another program holds open for a moment loads as the defaults
and is then replaced without a backup; the backup itself is copied without a
flush; a roll-back of shortcuts that fails in turn is ignored (`stuck`); a launch
that cannot show its window leaves the meters running (`unseen`); a process id
reused between `findAppProcess` and `OpenProcess` captures another program.

## 7. What is not modelled

Sample values (mixing, resampling, meters' ballistics, formats), text and JSON,
drawing, COM and WASAPI beyond success, failure and the events they deliver,
weak-memory reorderings beyond the orders the code asks for, exceptions thrown
to the UI thread from `setOutputDevice` (only thread creation can throw there),
the picker's list of applications (`listAudioApps`), changes of the buffer
setting and of the sample rate while running (a queue's bounds of the ratio are
constants: an output reopened at another rate has others).  Within what is modelled,
`BypassOnlyIdle` is said as of the load of `flowing_`: a producer that resumes after it,
while the depth is what it was, is outside it; `CaptureRecovery` has one source, so that
sources do not interfere; a shortcut that is already queued when Settings gives its
registration id another chord (Hotkeys.cpp:115) is left out.  `PROJECT.json` lists each
component with its reason.

## 8. Plan

1. *MixPumpScheduler* with `mixPumpMain`: deadlines, missed periods, the degraded
   wait, stopping.
2. *DiagnosticExport* and its worker in the window; *Meter* (AtomicPeak),
   *DiagnosticHistory*, *Overlap*.
3. *CaptureTimeline*: changes of the buffer setting and of the sample rate.
4. Proofs: the doubling of the retry delay, with the facts about 2^n stated as a
   recursive function of `RetryPolicy`; that TimelineQueue is what `StereoRing` and an
   epoch implement.
