------------------------------ MODULE Desktop ------------------------------
(***************************************************************************)
(* The window thread: the mixer window with its dialogs, the global         *)
(* shortcuts that go on working while a dialog is open or the window is in  *)
(* the tray, and the engine they both steer.  The supervisor may give the   *)
(* engine up between any two steps.                                         *)
(*                                                                          *)
(* Entries of the two lists carry a name the code does not have, by which   *)
(* the properties recognise them after the list has changed.  A shortcut    *)
(* pressed before its chord was given back is dropped by the code, because  *)
(* registration ids are never used twice: here it is not pressed at all.    *)
(***************************************************************************)
EXTENDS Naturals, Sequences, FiniteSets, SequencesExt

CONSTANTS Who,          \* names of sources and outputs
          Chords,       \* keyboard shortcuts
          NoKey,        \* the empty Keybind
          NoOne,        \* the name in a draft of nothing
          MaxChanges,   \* bound: shortcuts that differ from the saved ones
          Limit,        \* kMaxSources and kMaxOutputs
          Setups        \* what the configuration file holds at first

Kinds == {"source", "output"}
Keys == Chords \cup {NoKey}
Entry == [who : Who, key : Keys, muted : BOOLEAN]

ASSUME DesktopAssumption ==
    /\ NoOne \notin Who /\ MaxChanges \in Nat
    /\ NoKey \notin Chords /\ Limit \in [Kinds -> Nat]
    /\ Setups \subseteq [entries : [Kinds -> Seq(Entry)], monitorKey : Keys, exclusive : BOOLEAN]

VARIABLES
    up, visible,        \* the program runs, and its window is shown
    config,             \* app.config: entries, monitorKey, exclusive
    bindings,           \* Hotkeys::bindings_
    engine,             \* running, monitoring and its copies of what it was told
    attempted,          \* meteringStartAttempted_
    dialog, edit,       \* the open modal, and editSource_ or editOutput_ (0: adding)
    draft,              \* draft_ or outputDraft_
    prefs, reset,       \* settingsDraft_, resetDevicesOnSave_
    target,             \* keybindTarget_
    wish, draftWish,    \* history: muted or not, as the user last said
    stuck,              \* history: a failed Save could not be taken back
    unseen              \* history: the window could not be shown at the launch

shortcuts == <<bindings, stuck>>
editing == <<dialog, edit, draft, draftWish>>
settings == <<prefs, reset, target>>
vars == <<up, visible, config, shortcuts, engine, attempted, editing, settings, wish, unseen>>

Places(l) == UNION {{<<k, i>> : i \in DOMAIN l[k]} : k \in Kinds}
At(c, p) == c.entries[p[1]][p[2]]

\* The names tell the entries of a configuration apart.
ASSUME SetupAssumption ==
    \A c \in Setups : \A p, q \in Places(c.entries) : At(c, p).who = At(c, q).who => p = q

NoEntries == [k \in Kinds |-> <<>>]
Bare(l) == l["source"] = <<>> /\ l["output"] = <<>>
NewEntry(w) == [who |-> w, key |-> NoKey, muted |-> FALSE]

------------------------------------------------------------------------------
(* Hotkeys.                                                                 *)

\* What apply() wants to register for the configuration c.
Desired(c) ==
    (IF c.monitorKey = NoKey THEN {}
     ELSE {[key |-> c.monitorKey, kind |-> "monitoring", index |-> 1, whose |-> {}]})
    \cup {[key |-> At(c, p).key, kind |-> p[1], index |-> p[2], whose |-> {At(c, p).who}] :
             p \in {q \in Places(c.entries) : At(c, q).key # NoKey}}

Twice(desired) == \E a, b \in desired : a # b /\ a.key = b.key
New(desired, old) == {b \in desired : \A o \in old : o.key # b.key}

\* A chord that is registered already is kept, another may be refused.
CanApply(desired) == ~Twice(desired)
CanFail(desired, old) == Twice(desired) \/ New(desired, old) # {}

\* Mutant: the chords registered before the one that was refused stay.
PartlyRegistered(desired, old) == old \cup {b \in New(desired, old) : b.kind = "monitoring"}
\* After a refusal the chords registered so far are given back.
AfterRefusal(desired, old) == old

\* Mutant: the shortcuts are left as they were.
NotCleared(old) == old
\* Hotkeys::clear
Cleared(old) == {}

\* MixerWindow::init and restart(): all shortcuts of c, or none.
Rebind(c) ==
    \/ CanApply(Desired(c)) /\ bindings' = Desired(c)
    \/ CanFail(Desired(c), bindings) /\ bindings' = Cleared(bindings)

------------------------------------------------------------------------------
(* The engine.                                                              *)

NoMutes == [k \in Kinds |-> <<>>]
Off == [running |-> FALSE, monitoring |-> FALSE, exclusive |-> FALSE, muted |-> NoMutes]
Running(c, monitoring) ==
    [running |-> TRUE,
     monitoring |-> monitoring /\ c.entries["output"] # <<>>,
     exclusive |-> c.exclusive,
     muted |-> [k \in Kinds |-> [i \in DOMAIN c.entries[k] |-> c.entries[k][i].muted]]]

\* AudioEngine::start, which begins with stop().
Started(c, monitoring) == {Off, Running(c, monitoring)}

\* setMuted and setOutputMuted
MuteEngine(e, k, i, m) ==
    IF e.running /\ i \in DOMAIN e.muted[k] THEN [e EXCEPT !.muted[k][i] = m] ELSE e

\* MixerWindow::restart
Restart(c, e) ==
    /\ Rebind(c) /\ stuck' = FALSE
    /\ engine' \in IF e.running THEN Started(c, e.monitoring) ELSE {e}
    /\ attempted' = FALSE

\* Mutant: in the tray too, a stop leaves the meters.
MetersInTray(e) == e
InTray(e) == IF e.monitoring THEN e ELSE Off

\* MixerWindow::toggleMonitoring
Toggled ==
    IF engine.running THEN {[engine EXCEPT !.monitoring = ~@ /\ engine.muted["output"] # <<>>]}
    ELSE Started(config, TRUE)
ToggleMonitoring ==
    /\ config.entries["output"] # <<>>
    /\ \E e \in Toggled : engine' = IF visible THEN e ELSE InTray(e)

------------------------------------------------------------------------------
NoDraft == NewEntry(NoOne)
Closed == dialog' = "none" /\ edit' = 0 /\ draft' = NoDraft /\ draftWish' = FALSE
NoPrefs == [monitorKey |-> NoKey, exclusive |-> TRUE, keys |-> [k \in Kinds |-> <<>>]]
NotCapturing == target' = <<>>
SettingsClosed == prefs' = NoPrefs /\ reset' = FALSE /\ NotCapturing

Init ==
    /\ config \in Setups
    /\ up = FALSE /\ visible = FALSE /\ bindings = {} /\ engine = Off /\ attempted = FALSE
    /\ dialog = "none" /\ edit = 0 /\ draft = NoDraft
    /\ prefs = NoPrefs /\ reset = FALSE /\ target = <<>>
    /\ wish = [w \in Who |-> \E p \in Places(config.entries) :
                                 At(config, p).who = w /\ At(config, p).muted]
    /\ draftWish = FALSE /\ stuck = FALSE /\ unseen = FALSE

\* wWinMain, from Config::load to the first message.
Launch(startHidden) ==
    /\ ~up /\ up' = TRUE
    /\ Rebind(config)
    /\ IF config.entries["output"] # <<>> \/ (~startHidden /\ config.entries["source"] # <<>>)
       THEN engine' \in Started(config, TRUE) ELSE engine' = Off
    /\ visible' \in IF startHidden THEN {FALSE} ELSE BOOLEAN
    /\ unseen' = (~startHidden /\ ~visible')
    /\ attempted' = FALSE
    /\ UNCHANGED <<config, editing, settings, wish, stuck>>

\* The end of wWinMain.
Quit ==
    /\ up /\ up' = FALSE /\ visible' = FALSE
    /\ engine' = Off /\ bindings' = {} /\ attempted' = FALSE
    /\ stuck' = FALSE /\ unseen' = FALSE
    /\ Closed /\ SettingsClosed
    /\ UNCHANGED <<config, wish>>

\* showWindow; without a renderer nothing changes.
Show ==
    /\ up /\ ~visible
    /\ visible' = TRUE /\ attempted' = FALSE /\ unseen' = FALSE
    /\ UNCHANGED <<up, config, shortcuts, engine, editing, settings, wish>>

\* hideWindow
Hide ==
    /\ visible
    /\ visible' = FALSE /\ attempted' = FALSE
    /\ NotCapturing
    /\ engine' = InTray(engine)
    /\ UNCHANGED <<up, config, shortcuts, editing, prefs, reset, wish, unseen>>

\* AudioEngine::failSupervisor
EngineFails ==
    /\ engine.running /\ engine' = Off
    /\ UNCHANGED <<up, visible, config, shortcuts, attempted, editing, settings, wish, unseen>>

\* syncMeteringVisibility, at the start of a frame.
SyncMetering ==
    /\ visible /\ ~engine.running /\ ~attempted /\ ~Bare(config.entries)
    /\ attempted' = TRUE /\ engine' \in Started(config, FALSE)
    /\ UNCHANGED <<up, visible, config, shortcuts, editing, settings, wish, unseen>>

------------------------------------------------------------------------------
(* Muting, and starting and stopping.                                       *)

\* Mutant: the open dialog keeps what it was opened with.
DraftKept(k, i, m) == draft
DraftAfterMute(k, i, m) == IF dialog = k /\ edit = i THEN [draft EXCEPT !.muted = m] ELSE draft

FlipMute(k, i) ==
    LET m == ~config.entries[k][i].muted IN
    /\ config' = [config EXCEPT !.entries[k][i].muted = m]
    /\ engine' = MuteEngine(engine, k, i, m)
    /\ wish' = [wish EXCEPT ![config.entries[k][i].who] = m]

\* handleHotkey and executeHotkeyAction; a chord that is being recorded does nothing.
PressHotkey(b) ==
    /\ target = <<>>
    /\ IF b.kind = "monitoring"
       THEN ToggleMonitoring /\ UNCHANGED <<config, wish, draft, draftWish>>
       ELSE /\ b.index \in DOMAIN config.entries[b.kind]
            /\ FlipMute(b.kind, b.index)
            /\ draft' = DraftAfterMute(b.kind, b.index, ~config.entries[b.kind][b.index].muted)
            /\ draftWish' = IF dialog = b.kind /\ edit = b.index
                            THEN ~config.entries[b.kind][b.index].muted ELSE draftWish
    /\ UNCHANGED <<up, visible, shortcuts, attempted, dialog, edit, settings, unseen>>

Dashboard == visible /\ dialog = "none"

ClickMute(k, i) ==
    /\ Dashboard /\ FlipMute(k, i)
    /\ UNCHANGED <<up, visible, shortcuts, attempted, editing, settings, unseen>>

ClickToggle ==
    /\ Dashboard /\ ToggleMonitoring
    /\ UNCHANGED <<up, visible, config, shortcuts, attempted, editing, settings, wish, unseen>>

------------------------------------------------------------------------------
(* The source dialog and the output dialog.                                 *)

Present(l) == {l[p[1]][p[2]].who : p \in Places(l)}

OpenAdd(k) ==
    /\ Dashboard /\ Len(config.entries[k]) < Limit[k]
    /\ dialog' = k /\ edit' = 0 /\ draftWish' = FALSE
    /\ \E w \in Who \ Present(config.entries) : draft' = NewEntry(w)
    /\ UNCHANGED <<up, visible, config, shortcuts, engine, attempted, settings, wish, unseen>>

OpenConfigure(k, i) ==
    /\ Dashboard /\ dialog' = k /\ edit' = i
    /\ draft' = config.entries[k][i] /\ draftWish' = config.entries[k][i].muted
    /\ UNCHANGED <<up, visible, config, shortcuts, engine, attempted, settings, wish, unseen>>

InDialog == visible /\ dialog \in Kinds

\* The "muted" checkbox
TickMuted ==
    /\ InDialog
    /\ draft' = [draft EXCEPT !.muted = ~@] /\ draftWish' = draft'.muted
    /\ UNCHANGED <<up, visible, config, shortcuts, engine, attempted, dialog, edit, settings,
                   wish, unseen>>

SaveDialog ==
    /\ InDialog
    /\ config' = [config EXCEPT !.entries[dialog] =
                    IF edit = 0 THEN Append(@, draft) ELSE [@ EXCEPT ![edit] = draft]]
    /\ Restart(config', engine)
    /\ wish' = [wish EXCEPT ![draft.who] = draftWish]
    /\ Closed /\ UNCHANGED <<up, visible, settings, unseen>>

\* The last output takes monitoring with it.
RemoveDialog ==
    /\ InDialog /\ edit # 0
    /\ config' = [config EXCEPT !.entries[dialog] = RemoveAt(@, edit)]
    /\ Restart(config', IF config'.entries["output"] = <<>>
                        THEN [engine EXCEPT !.monitoring = FALSE] ELSE engine)
    /\ wish' = [wish EXCEPT ![config.entries[dialog][edit].who] = FALSE]
    /\ Closed /\ UNCHANGED <<up, visible, settings, unseen>>

CancelDialog ==
    /\ InDialog /\ Closed
    /\ UNCHANGED <<up, visible, config, shortcuts, engine, attempted, settings, wish, unseen>>

------------------------------------------------------------------------------
(* The settings.                                                            *)

OpenSettings ==
    /\ Dashboard /\ dialog' = "settings"
    /\ prefs' = [monitorKey |-> config.monitorKey, exclusive |-> config.exclusive,
                 keys |-> [k \in Kinds |-> [i \in DOMAIN config.entries[k] |->
                                               config.entries[k][i].key]]]
    /\ reset' = FALSE /\ NotCapturing
    /\ UNCHANGED <<up, visible, config, shortcuts, engine, attempted, edit, draft, draftWish,
                   wish, unseen>>

InSettings == visible /\ dialog = "settings"
OnlySettings == UNCHANGED <<up, visible, config, shortcuts, engine, attempted, editing, wish, unseen>>

Targets == {<<"monitoring", 1>>} \cup Places(prefs.keys)
Assigned(t, key) ==
    IF t = <<"monitoring", 1>> THEN [prefs EXCEPT !.monitorKey = key]
    ELSE [prefs EXCEPT !.keys[t[1]][t[2]] = key]
Changes ==
    {p \in Places(prefs.keys) : prefs.keys[p[1]][p[2]] # At(config, p).key}
    \cup {p \in {<<"monitoring", 1>>} : prefs.monitorKey # config.monitorKey}
Bounded == reset \/ Cardinality(Changes') <= MaxChanges

SetKeybind(t) ==
    /\ InSettings /\ target = <<>> /\ target' = t
    /\ UNCHANGED <<prefs, reset>> /\ OnlySettings

\* captureKeybind, with the chord that was there or the last one recorded: it may
\* have come as a key or as a registered shortcut, which does nothing else now.
AcceptKey(key) ==
    /\ InSettings /\ target # <<>>
    /\ prefs' = Assigned(target, key) /\ NotCapturing
    /\ UNCHANGED reset /\ OnlySettings /\ Bounded

CancelCapture ==
    /\ InSettings /\ target # <<>> /\ NotCapturing
    /\ UNCHANGED <<prefs, reset>> /\ OnlySettings

ClearKeybind(t) ==
    /\ InSettings /\ target = <<>> /\ prefs' = Assigned(t, NoKey)
    /\ UNCHANGED <<reset, target>> /\ OnlySettings /\ Bounded

TickExclusive ==
    /\ InSettings /\ target = <<>> /\ prefs' = [prefs EXCEPT !.exclusive = ~@]
    /\ UNCHANGED <<reset, target>> /\ OnlySettings

RestoreDefaults ==
    /\ InSettings /\ target = <<>>
    /\ prefs' = NoPrefs /\ reset' = TRUE
    /\ UNCHANGED target /\ OnlySettings

CancelSettings ==
    /\ InSettings /\ target = <<>> /\ Closed /\ SettingsClosed
    /\ UNCHANGED <<up, visible, config, shortcuts, engine, attempted, wish, unseen>>

\* The configuration Save is about to make.
Candidate ==
    [entries |-> [k \in Kinds |-> IF reset THEN <<>>
                     ELSE [i \in DOMAIN config.entries[k] |->
                              [config.entries[k][i] EXCEPT !.key = prefs.keys[k][i]]]],
     monitorKey |-> prefs.monitorKey, exclusive |-> prefs.exclusive]

Saving == InSettings /\ target = <<>>

\* The page with the shortcuts is shown again.
SaveRefused ==
    /\ Saving /\ CanFail(Desired(Candidate), bindings)
    /\ bindings' = AfterRefusal(Desired(Candidate), bindings)
    /\ UNCHANGED <<stuck, settings, up, visible, config, engine, attempted, editing, wish, unseen>>

\* The start-up entry cannot be written: the old shortcuts come back, if they can.
SaveTakenBack ==
    /\ Saving /\ CanApply(Desired(Candidate))
    /\ \/ CanApply(Desired(config)) /\ bindings' = Desired(config) /\ stuck' = FALSE
       \/ /\ CanFail(Desired(config), Desired(Candidate))
          /\ bindings' = Desired(Candidate) /\ stuck' = TRUE
    /\ UNCHANGED <<settings, up, visible, config, engine, attempted, editing, wish, unseen>>

SaveSettings ==
    /\ Saving /\ CanApply(Desired(Candidate))
    /\ config' = Candidate /\ bindings' = Desired(Candidate) /\ stuck' = FALSE
    /\ IF reset THEN engine' = Off /\ attempted' = FALSE
       ELSE IF prefs.exclusive # config.exclusive /\ engine.running
            THEN engine' \in Started(Candidate, engine.monitoring) /\ attempted' = FALSE
            ELSE UNCHANGED <<engine, attempted>>
    /\ wish' = [w \in Who |-> w \in Present(Candidate.entries) /\ wish[w]]
    /\ Closed /\ SettingsClosed
    /\ UNCHANGED <<up, visible, unseen>>

------------------------------------------------------------------------------
Program ==
    \/ \E startHidden \in BOOLEAN : Launch(startHidden)
    \/ Quit \/ Show \/ Hide \/ EngineFails \/ SyncMetering
    \/ \E b \in bindings : PressHotkey(b)
    \/ ClickToggle

Dialogs ==
    \/ \E k \in Kinds : OpenAdd(k)
    \/ \E p \in Places(config.entries) : ClickMute(p[1], p[2]) \/ OpenConfigure(p[1], p[2])
    \/ TickMuted \/ SaveDialog \/ RemoveDialog \/ CancelDialog

Settings ==
    \/ OpenSettings \/ CancelSettings \/ TickExclusive \/ RestoreDefaults
    \/ \E t \in Targets : SetKeybind(t) \/ ClearKeybind(t)
    \/ \E key \in Keys : AcceptKey(key)
    \/ CancelCapture
    \/ SaveRefused \/ SaveTakenBack \/ SaveSettings

Next == Program \/ Dialogs \/ Settings

Spec == Init /\ [][Next]_vars

------------------------------------------------------------------------------
(* Properties.                                                              *)

Prefs == [monitorKey : Keys, exclusive : BOOLEAN, keys : [Kinds -> Seq(Keys)]]
Binding == [key : Chords, kind : Kinds \cup {"monitoring"}, index : Nat, whose : SUBSET Who]
Engine == [running : BOOLEAN, monitoring : BOOLEAN, exclusive : BOOLEAN,
           muted : [Kinds -> Seq(BOOLEAN)]]

TypeOK ==
    /\ up \in BOOLEAN /\ visible \in BOOLEAN /\ attempted \in BOOLEAN
    /\ config \in [entries : [Kinds -> Seq(Entry)], monitorKey : Keys, exclusive : BOOLEAN]
    /\ bindings \subseteq Binding /\ engine \in Engine
    /\ dialog \in Kinds \cup {"none", "settings"} /\ edit \in Nat
    /\ draft \in Entry \cup {NoDraft} /\ prefs \in Prefs /\ reset \in BOOLEAN
    /\ target \in {<<>>} \cup (Kinds \cup {"monitoring"}) \X Nat
    /\ wish \in [Who -> BOOLEAN] /\ draftWish \in BOOLEAN
    /\ stuck \in BOOLEAN /\ unseen \in BOOLEAN

\* A shortcut never acts on another device than the one it was registered for,
\* however the lists have changed since (restart(), "never leave an old index
\* targeting another device").
NeverAnotherDevice ==
    \A b \in bindings :
        b.kind # "monitoring" =>
            /\ b.index \in DOMAIN config.entries[b.kind]
            /\ b.whose = {config.entries[b.kind][b.index].who}

\* Whatever was muted and unmuted last, on the dashboard, by a shortcut or in a
\* dialog a shortcut was pressed behind, is what the configuration says and what a
\* running engine does.
UserIsObeyed ==
    /\ \A p \in Places(config.entries) : At(config, p).muted = wish[At(config, p).who]
    /\ engine.running => /\ engine = Running(config, engine.monitoring)
                         /\ engine.monitoring => config.entries["output"] # <<>>

\* In the tray the devices are open only to be heard (setVisible: "With
\* forwarding stopped there are no visible meters, so release capture"), except
\* after a launch that could not show its window.
TrayHoldsNoMeters == ~visible /\ engine.running => engine.monitoring \/ unseen

\* The shortcuts registered are those of the configuration, all of them or none,
\* unless a Save that failed half way could not be taken back.
ShortcutsAreSaved == up => bindings \in {{}, Desired(config)} \/ stuck

==============================================================================
