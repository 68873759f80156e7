--------------------------- MODULE Desktop_proofs ---------------------------
(***************************************************************************)
(* The window thread, for any lists of devices and any shortcuts.           *)
(*                                                                          *)
(* TrayInv: the program in the tray never holds a device only for its       *)
(* meters.  Most steps need the window; the ones that do not are taken one  *)
(* by one.  Muting by a shortcut changes one field of the engine and so     *)
(* needs to know which fields there are.                                    *)
(*                                                                          *)
(* KeyInv: a shortcut is for what is at its place in the lists, and what is *)
(* registered is what is saved.  The lists change under open dialogs, so    *)
(* it includes that dialogs and settings still fit them.                    *)
(*                                                                          *)
(* WishInv: the lists, the draft of an open dialog and a running engine all *)
(* have the mutes the user last asked for.  It needs that no two entries    *)
(* share a name and that a dialog is about the entry it was opened for.     *)
(***************************************************************************)
EXTENDS Desktop, SequenceTheorems, TLAPS

Fields == {"running", "monitoring", "exclusive", "muted"}

TrayInv == DOMAIN engine = Fields /\ TrayHoldsNoMeters

-----------------------------------------------------------------------------
(* The engine.                                                              *)

LEMMA OffIs == DOMAIN Off = Fields /\ ~Off.running
  BY DEF Off, Fields

LEMMA RunningIs ==
  ASSUME NEW c, NEW m
  PROVE  /\ DOMAIN Running(c, m) = Fields
         /\ Running(c, m).monitoring = (m /\ c.entries["output"] # <<>>)
  BY DEF Running, Fields

LEMMA StartedIs ==
  ASSUME NEW c, NEW m, NEW e \in Started(c, m)
  PROVE  /\ DOMAIN e = Fields
         /\ m /\ c.entries["output"] # <<>> => (e.running => e.monitoring)
<1>1. CASE e = Off
  BY <1>1, OffIs
<1>2. CASE e = Running(c, m)
  BY <1>2, RunningIs, Zenon
<1> QED
  BY <1>1, <1>2 DEF Started

\* What the engine becomes in the tray is heard, or off.
LEMMA InTrayIs ==
  ASSUME NEW e, DOMAIN e = Fields
  PROVE  /\ DOMAIN InTray(e) = Fields
         /\ InTray(e).running => InTray(e).monitoring
  BY OffIs DEF InTray

LEMMA MuteIs ==
  ASSUME NEW e, DOMAIN e = Fields, NEW k, NEW i, NEW m
  PROVE  /\ DOMAIN MuteEngine(e, k, i, m) = Fields
         /\ MuteEngine(e, k, i, m).running = e.running
         /\ MuteEngine(e, k, i, m).monitoring = e.monitoring
  BY Zenon DEF MuteEngine, Fields

LEMMA ToggledIs ==
  ASSUME DOMAIN engine = Fields, NEW e \in Toggled
  PROVE  DOMAIN e = Fields
  BY StartedIs DEF Toggled

-----------------------------------------------------------------------------
(* The steps.                                                               *)

LEMMA InitTrayInv == Init => TrayInv
  BY OffIs DEF Init, TrayInv, TrayHoldsNoMeters

\* Steps in the window leave it open.
LEMMA InWindow == ASSUME visible' = TRUE, DOMAIN engine' = Fields PROVE TrayInv'
  BY DEF TrayInv, TrayHoldsNoMeters

LEMMA EngineAlone ==
  ASSUME TrayInv, UNCHANGED <<visible, engine, unseen>> PROVE TrayInv'
  BY DEF TrayInv, TrayHoldsNoMeters

\* Without the window the engine is started to monitor, or not at all.
LEMMA LaunchKeeps == ASSUME NEW h \in BOOLEAN, Launch(h) PROVE TrayInv'
<1>1. engine' = Off \/ engine' \in Started(config, TRUE)
  BY DEF Launch
<1>2. DOMAIN engine' = Fields
  BY <1>1, OffIs, StartedIs
<1>3. CASE ~h
  BY <1>2, <1>3 DEF Launch, TrayInv, TrayHoldsNoMeters
<1>4. CASE h
  <2>1. engine'.running => engine'.monitoring
    <3>1. CASE config.entries["output"] # <<>>
      <4>1. engine' \in Started(config, TRUE)
        BY <3>1 DEF Launch
      <4> QED
        BY <3>1, <4>1, StartedIs
    <3>2. CASE config.entries["output"] = <<>>
      <4>1. engine' = Off
        BY <1>4, <3>2 DEF Launch
      <4> QED
        BY <4>1, OffIs
    <3> QED
      BY <3>1, <3>2
  <2> QED
    BY <1>2, <2>1 DEF TrayInv, TrayHoldsNoMeters
<1> QED
  BY <1>3, <1>4

LEMMA HideKeeps == ASSUME TrayInv, Hide PROVE TrayInv'
<1>1. engine' = InTray(engine)
  BY DEF Hide
<1> QED
  BY <1>1, InTrayIs DEF TrayInv, TrayHoldsNoMeters

LEMMA ToggleKeeps ==
  ASSUME TrayInv, ToggleMonitoring, UNCHANGED <<visible, unseen>> PROVE TrayInv'
<1>1. PICK e \in Toggled : engine' = IF visible THEN e ELSE InTray(e)
  BY DEF ToggleMonitoring
<1>2. DOMAIN e = Fields
  BY ToggledIs DEF TrayInv
<1>3. CASE visible
  BY <1>1, <1>2, <1>3 DEF TrayInv, TrayHoldsNoMeters
<1>4. CASE ~visible
  BY <1>1, <1>2, <1>4, InTrayIs DEF TrayInv, TrayHoldsNoMeters
<1> QED
  BY <1>3, <1>4

LEMMA FlipKeeps ==
  ASSUME TrayInv, NEW k, NEW i, FlipMute(k, i), UNCHANGED <<visible, unseen>>
  PROVE  TrayInv'
<1>1. engine' = MuteEngine(engine, k, i, ~config.entries[k][i].muted)
  BY DEF FlipMute
<1> QED
  BY <1>1, MuteIs DEF TrayInv, TrayHoldsNoMeters

LEMMA PressKeeps == ASSUME TrayInv, NEW b, PressHotkey(b) PROVE TrayInv'
<1>1. CASE b.kind = "monitoring"
  BY <1>1, ToggleKeeps DEF PressHotkey
<1>2. CASE b.kind # "monitoring"
  BY <1>2, FlipKeeps DEF PressHotkey
<1> QED
  BY <1>1, <1>2

LEMMA RestartKeepsFields ==
  ASSUME NEW c, NEW e, DOMAIN e = Fields, Restart(c, e)
  PROVE  DOMAIN engine' = Fields
  BY StartedIs DEF Restart

LEMMA DialogsKeep == ASSUME TrayInv, Dialogs PROVE TrayInv'
<1>1. CASE \E k \in Kinds : OpenAdd(k)
  BY <1>1, EngineAlone DEF OpenAdd
<1>2. CASE \E p \in Places(config.entries) : ClickMute(p[1], p[2])
  BY <1>2, FlipKeeps DEF ClickMute
<1>3. CASE \E p \in Places(config.entries) : OpenConfigure(p[1], p[2])
  BY <1>3, EngineAlone DEF OpenConfigure
<1>4. CASE TickMuted \/ CancelDialog
  BY <1>4, EngineAlone DEF TickMuted, CancelDialog
<1>5. CASE SaveDialog
  <2>1. Restart(config', engine) /\ visible' = TRUE
    BY <1>5, EngineAlone DEF SaveDialog, InDialog, TrayInv
  <2> QED
    BY <2>1, RestartKeepsFields, InWindow DEF TrayInv
<1>6. CASE RemoveDialog
  <2>1. PICK e : Restart(config', e) /\ DOMAIN e = Fields
    BY <1>6 DEF RemoveDialog, TrayInv
  <2> QED
    BY <1>6, <2>1, RestartKeepsFields, InWindow DEF RemoveDialog, InDialog
<1> QED
  BY <1>1, <1>2, <1>3, <1>4, <1>5, <1>6 DEF Dialogs

LEMMA SettingsKeep == ASSUME TrayInv, Settings PROVE TrayInv'
<1>1. CASE OpenSettings \/ CancelSettings \/ SaveRefused \/ SaveTakenBack
  BY <1>1, EngineAlone DEF OpenSettings, CancelSettings, SaveRefused, SaveTakenBack
<1>2. CASE OnlySettings
  BY <1>2, EngineAlone DEF OnlySettings
<1>3. CASE SaveSettings
  <2>1. \/ engine' = Off
        \/ engine' \in Started(Candidate, engine.monitoring)
        \/ engine' = engine
    BY <1>3 DEF SaveSettings
  <2>2. DOMAIN engine' = Fields
    BY <2>1, OffIs, StartedIs DEF TrayInv
  <2> QED
    BY <1>3, <2>2, InWindow DEF SaveSettings, Saving, InSettings
<1> QED
  BY <1>1, <1>2, <1>3 DEF Settings, TickExclusive, RestoreDefaults, SetKeybind,
     ClearKeybind, AcceptKey, CancelCapture

LEMMA NextKeepsTrayInv == TrayInv /\ [Next]_vars => TrayInv'
<1> SUFFICES ASSUME TrayInv, [Next]_vars PROVE TrayInv'
  OBVIOUS
<1>1. CASE UNCHANGED vars
  BY <1>1, EngineAlone DEF vars
<1>2. CASE \E h \in BOOLEAN : Launch(h)
  BY <1>2, LaunchKeeps
<1>3. CASE Quit \/ EngineFails
  BY <1>3, OffIs DEF Quit, EngineFails, TrayInv, TrayHoldsNoMeters
<1>4. CASE Show
  BY <1>4, InWindow DEF Show, TrayInv
<1>5. CASE Hide
  BY <1>5, HideKeeps
<1>6. CASE SyncMetering
  <2>1. engine' \in Started(config, FALSE) /\ visible' = visible /\ visible
    BY <1>6 DEF SyncMetering
  <2>2. DOMAIN engine' = Fields
    BY <2>1, StartedIs
  <2> QED
    BY <2>1, <2>2 DEF TrayInv, TrayHoldsNoMeters
<1>7. CASE \E b \in bindings : PressHotkey(b)
  BY <1>7, PressKeeps
<1>8. CASE ClickToggle
  BY <1>8, ToggleKeeps DEF ClickToggle
<1>9. CASE Dialogs
  BY <1>9, DialogsKeep
<1>10. CASE Settings
  BY <1>10, SettingsKeep
<1> QED
  BY <1>1, <1>2, <1>3, <1>4, <1>5, <1>6, <1>7, <1>8, <1>9, <1>10 DEF Next, Program

\* In the tray the devices are open only to be heard (MixerWindow::setVisible, Hide
\* and every shortcut), except after a launch that could not show its window.
THEOREM TrayReleasesDevices == Spec => []TrayHoldsNoMeters
<1>1. Spec => []TrayInv
  BY InitTrayInv, NextKeepsTrayInv, PTL DEF Spec
<1> QED
  BY <1>1, PTL DEF TrayInv

-----------------------------------------------------------------------------
(* Names and types of what the lists, the drafts and the settings hold.     *)

Draft == [who : Who \cup {NoOne}, key : Keys, muted : BOOLEAN]
Lists == [Kinds -> Seq(Draft)]
Configs == [entries : Lists, monitorKey : Keys, exclusive : BOOLEAN]

\* The settings have a shortcut for each entry, until the lists are given up.
SettingsFit ==
    dialog = "settings" /\ ~reset =>
        \A k \in Kinds : Len(prefs.keys[k]) = Len(config.entries[k])

\* The dialog is about an entry there is, or a new one.
EditFits == dialog \in Kinds => edit \in {0} \cup DOMAIN config.entries[dialog]

DataOK == /\ config \in Configs /\ draft \in Draft /\ prefs \in Prefs
          /\ SettingsFit /\ EditFits

\* The shortcut is for what is at its place in c.
Aims(b, c) ==
    /\ b.kind \in Kinds \cup {"monitoring"}
    /\ b.kind # "monitoring" =>
          /\ b.index \in DOMAIN c.entries[b.kind]
          /\ b.whose = {c.entries[b.kind][b.index].who}

KeyInv == DataOK /\ (\A b \in bindings : Aims(b, config)) /\ ShortcutsAreSaved

-----------------------------------------------------------------------------
(* Places and shortcuts.                                                    *)

LEMMA PlacesAre ==
  ASSUME NEW l, NEW p
  PROVE  p \in Places(l) <=> \E k \in Kinds : \E i \in DOMAIN l[k] : p = <<k, i>>
  BY DEF Places

\* The lists have the same entries at the same places, but for their mutes and keys.
SameNames(c, d) ==
    \A k \in Kinds :
        /\ DOMAIN d.entries[k] = DOMAIN c.entries[k]
        /\ \A i \in DOMAIN c.entries[k] : d.entries[k][i].who = c.entries[k][i].who

SameKeys(c, d) ==
    /\ d.monitorKey = c.monitorKey
    /\ \A k \in Kinds :
          \A i \in DOMAIN c.entries[k] : d.entries[k][i].key = c.entries[k][i].key

LEMMA DesiredAims == ASSUME NEW c, NEW b \in Desired(c) PROVE Aims(b, c)
<1>1. CASE b = [key |-> c.monitorKey, kind |-> "monitoring", index |-> 1, whose |-> {}]
  BY <1>1 DEF Aims
<1>2. CASE \E p \in Places(c.entries) :
              b = [key |-> At(c, p).key, kind |-> p[1], index |-> p[2],
                   whose |-> {At(c, p).who}]
  <2>1. PICK p \in Places(c.entries) :
           b = [key |-> At(c, p).key, kind |-> p[1], index |-> p[2],
                whose |-> {At(c, p).who}]
    BY <1>2
  <2>2. PICK k \in Kinds : \E i \in DOMAIN c.entries[k] : p = <<k, i>>
    BY PlacesAre
  <2>3. PICK i \in DOMAIN c.entries[k] : p = <<k, i>>
    BY <2>2
  <2>4. b.kind = k /\ b.index = i /\ b.whose = {c.entries[k][i].who}
    BY <2>1, <2>3 DEF At
  <2> QED
    BY <2>4 DEF Aims
<1> QED
  BY <1>1, <1>2 DEF Desired

LEMMA AimKept ==
  ASSUME NEW c, NEW d, SameNames(c, d), NEW b
  PROVE  Aims(b, c) <=> Aims(b, d)
  BY DEF SameNames, Aims, Kinds

LEMMA DesiredKept ==
  ASSUME NEW c, NEW d, SameNames(c, d), SameKeys(c, d)
  PROVE  Desired(d) = Desired(c)
<1>1. ASSUME NEW p PROVE p \in Places(d.entries) <=> p \in Places(c.entries)
  BY PlacesAre DEF SameNames
<1>2. ASSUME NEW p \in Places(c.entries)
      PROVE  At(d, p).key = At(c, p).key /\ At(d, p).who = At(c, p).who
  <2>1. PICK k \in Kinds : \E i \in DOMAIN c.entries[k] : p = <<k, i>>
    BY PlacesAre
  <2>2. PICK i \in DOMAIN c.entries[k] : p = <<k, i>>
    BY <2>1
  <2>3. p[1] = k /\ p[2] = i
    BY <2>2
  <2> QED
    BY <2>3 DEF SameNames, SameKeys, At
<1>3. Places(d.entries) = Places(c.entries)
  BY <1>1
<1> DEFINE P == Places(c.entries)
           Of(e, p) == [key |-> At(e, p).key, kind |-> p[1], index |-> p[2],
                        whose |-> {At(e, p).who}]
<1>4. {q \in P : At(d, q).key # NoKey} = {q \in P : At(c, q).key # NoKey}
  BY <1>2
<1>5. \A p \in P : Of(d, p) = Of(c, p)
  BY <1>2
<1>6. {Of(d, p) : p \in {q \in P : At(d, q).key # NoKey}}
      = {Of(c, p) : p \in {q \in P : At(c, q).key # NoKey}}
  <2> HIDE DEF P, Of
  <2> QED
    BY <1>4, <1>5
<1> QED
  BY <1>3, <1>6 DEF Desired, SameKeys

-----------------------------------------------------------------------------
(* Changes of the lists.                                                    *)

LEMMA EntriesAre ==
  ASSUME NEW c \in Configs, NEW k \in Kinds
  PROVE  /\ c.entries[k] \in Seq(Draft)
         /\ \A i \in DOMAIN c.entries[k] : c.entries[k][i] \in Draft
<1>1. c.entries[k] \in Seq(Draft)
  BY DEF Configs, Lists
<1> QED
  BY <1>1, ElementOfSeq

LEMMA ListReplaced ==
  ASSUME NEW c \in Configs, NEW k \in Kinds, NEW l \in Seq(Draft)
  PROVE  LET d == [c EXCEPT !.entries = [c.entries EXCEPT ![k] = l]] IN
         /\ d \in Configs /\ d.entries[k] = l /\ d.monitorKey = c.monitorKey
         /\ \A j \in Kinds \ {k} : d.entries[j] = c.entries[j]
<1> DEFINE e == [c.entries EXCEPT ![k] = l]
<1>1. c.entries \in Lists
  BY DEF Configs
<1>2. e \in Lists /\ e[k] = l /\ \A j \in Kinds \ {k} : e[j] = c.entries[j]
  BY <1>1 DEF Lists
<1> HIDE DEF e
<1>3. [c EXCEPT !.entries = e] \in Configs
      /\ [c EXCEPT !.entries = e].entries = e
      /\ [c EXCEPT !.entries = e].monitorKey = c.monitorKey
  BY <1>2 DEF Configs
<1> QED
  BY <1>2, <1>3 DEF e

LEMMA RemovedIsList ==
  ASSUME NEW S, NEW s \in Seq(S), NEW i \in 1 .. Len(s)
  PROVE  RemoveAt(s, i) \in Seq(S)
<1>1. Len(s) \in Nat /\ \A j \in 1 .. Len(s) : s[j] \in S
  BY ElementOfSeq
<1>2. SubSeq(s, 1, i - 1) \in Seq(S)
  BY <1>1, SubSeqProperties
<1>3. SubSeq(s, i + 1, Len(s)) \in Seq(S)
  BY <1>1, SubSeqProperties
<1> QED
  BY <1>2, <1>3, ConcatProperties DEF RemoveAt

-----------------------------------------------------------------------------
(* What a step needs to show.                                               *)

LEMMA NewIsDraft == ASSUME NEW w \in Who \cup {NoOne} PROVE NewEntry(w) \in Draft
  BY DEF NewEntry, Draft, Keys

LEMMA NoDraftIsDraft == NoDraft \in Draft
  BY NewIsDraft DEF NoDraft

LEMMA MutedIsDraft ==
  ASSUME NEW r \in Draft, NEW m \in BOOLEAN
  PROVE  LET q == [r EXCEPT !.muted = m] IN
         q \in Draft /\ q.who = r.who /\ q.key = r.key
  BY DEF Draft

LEMMA KeyedIsDraft ==
  ASSUME NEW r \in Draft, NEW key \in Keys
  PROVE  LET q == [r EXCEPT !.key = key] IN q \in Draft /\ q.who = r.who
  BY DEF Draft

LEMMA NoPrefsIsPrefs == NoPrefs \in Prefs
<1>1. <<>> \in Seq(Keys)
  BY EmptySeq
<1>2. [k \in Kinds |-> <<>>] \in [Kinds -> Seq(Keys)]
  BY <1>1
<1> QED
  BY <1>2 DEF NoPrefs, Prefs, Keys

LEMMA SameLength ==
  ASSUME NEW S, NEW s \in Seq(S), NEW T, NEW t \in Seq(T), DOMAIN s = DOMAIN t
  PROVE  Len(s) = Len(t)
<1>1. Len(s) \in Nat /\ Len(t) \in Nat /\ 1 .. Len(s) = 1 .. Len(t)
  OBVIOUS
<1> QED
  BY <1>1

\* Shortcuts and their configuration are left alone, or it changes only in mutes.
LEMMA ShortcutsKept ==
  ASSUME KeyInv, SameNames(config, config'), SameKeys(config, config'),
         UNCHANGED <<bindings, stuck>>, up' => up
  PROVE  (\A b \in bindings : Aims(b, config))' /\ ShortcutsAreSaved'
<1>1. \A b \in bindings' : Aims(b, config')
  BY AimKept DEF KeyInv
<1>2. Desired(config') = Desired(config)
  BY DesiredKept
<1> QED
  BY <1>1, <1>2 DEF KeyInv, ShortcutsAreSaved

LEMMA NothingRenamed == SameNames(config, config) /\ SameKeys(config, config)
  BY DEF SameNames, SameKeys

\* All shortcuts of a configuration, or none.
LEMMA ReboundHolds ==
  ASSUME Rebind(config')
  PROVE  (\A b \in bindings : Aims(b, config))' /\ ShortcutsAreSaved'
<1>1. bindings' = Desired(config') \/ bindings' = {}
  BY DEF Rebind, Cleared
<1> QED
  BY <1>1, DesiredAims DEF ShortcutsAreSaved

LEMMA DataKept ==
  ASSUME DataOK, UNCHANGED <<config, editing, prefs, reset>> PROVE DataOK'
  BY DEF DataOK, SettingsFit, EditFits, editing

\* A closed dialog leaves nothing to fit.
LEMMA DataClosed ==
  ASSUME config' \in Configs, prefs' \in Prefs, Closed PROVE DataOK'
  BY NoDraftIsDraft DEF DataOK, SettingsFit, EditFits, Closed, Kinds

\* Steps that touch neither the shortcuts nor the configuration.
LEMMA OnlyData ==
  ASSUME KeyInv, DataOK', UNCHANGED <<up, config, bindings, stuck>> PROVE KeyInv'
  BY ShortcutsKept, NothingRenamed DEF KeyInv

LEMMA Untouched ==
  ASSUME KeyInv, UNCHANGED <<up, config, bindings, stuck, editing, prefs, reset>>
  PROVE  KeyInv'
  BY DataKept, OnlyData DEF KeyInv

-----------------------------------------------------------------------------
(* The program.                                                             *)

LEMMA InitKeyInv == Init => KeyInv
<1> SUFFICES ASSUME Init PROVE KeyInv
  OBVIOUS
<1>1. config \in Configs
  <2>1. Entry \subseteq Draft
    BY DEF Entry, Draft
  <2>2. Seq(Entry) \subseteq Seq(Draft)
    BY <2>1
  <2>3. config \in [entries : [Kinds -> Seq(Entry)], monitorKey : Keys, exclusive : BOOLEAN]
    BY DesktopAssumption DEF Init
  <2> QED
    BY <2>2, <2>3 DEF Configs, Lists
<1>2. DataOK
  BY <1>1, NoDraftIsDraft, NoPrefsIsPrefs DEF Init, DataOK, SettingsFit, EditFits, Kinds
<1> QED
  BY <1>2 DEF Init, KeyInv, ShortcutsAreSaved

LEMMA LaunchKeyInv == ASSUME KeyInv, NEW h \in BOOLEAN, Launch(h) PROVE KeyInv'
<1>1. DataOK'
  BY DataKept DEF Launch, KeyInv, settings
<1>2. Rebind(config')
  BY DEF Launch
<1> QED
  BY <1>1, <1>2, ReboundHolds DEF KeyInv

LEMMA QuitKeyInv == ASSUME KeyInv, Quit PROVE KeyInv'
<1>1. DataOK'
  BY DataClosed, NoPrefsIsPrefs DEF Quit, SettingsClosed, KeyInv, DataOK
<1> QED
  BY <1>1 DEF Quit, KeyInv, ShortcutsAreSaved

LEMMA FlipIs ==
  ASSUME config \in Configs, NEW k \in Kinds, NEW i \in DOMAIN config.entries[k],
         FlipMute(k, i)
  PROVE  /\ config' \in Configs
         /\ SameNames(config, config') /\ SameKeys(config, config')
<1> DEFINE l == config.entries[k]
           m == ~l[i].muted
           r == [l[i] EXCEPT !.muted = m]
           n == [l EXCEPT ![i] = r]
<1>1. l \in Seq(Draft) /\ l[i] \in Draft /\ i \in 1 .. Len(l)
  BY EntriesAre
<1>2. m \in BOOLEAN
  OBVIOUS
<1>3. config' = [config EXCEPT !.entries = [config.entries EXCEPT ![k] = n]]
  BY DEF FlipMute
<1> HIDE DEF m
<1>4. r \in Draft /\ r.who = l[i].who /\ r.key = l[i].key
  BY <1>1, <1>2, MutedIsDraft
<1> HIDE DEF r
<1>5. /\ n \in Seq(Draft) /\ DOMAIN n = DOMAIN l
      /\ \A j \in DOMAIN l : n[j].who = l[j].who /\ n[j].key = l[j].key
  BY <1>1, <1>4, ExceptSeq
<1> HIDE DEF n, l
<1>6. /\ config' \in Configs /\ config'.entries[k] = n
      /\ config'.monitorKey = config.monitorKey
      /\ \A j \in Kinds \ {k} : config'.entries[j] = config.entries[j]
  BY <1>3, <1>5, ListReplaced
<1> QED
  BY <1>5, <1>6 DEF SameNames, SameKeys, l

LEMMA FlipKeyInv ==
  ASSUME KeyInv, NEW k \in Kinds, NEW i \in DOMAIN config.entries[k], FlipMute(k, i),
         UNCHANGED <<up, bindings, stuck, dialog, edit, prefs, reset>>, draft' \in Draft
  PROVE  KeyInv'
<1>1. /\ config' \in Configs
      /\ SameNames(config, config') /\ SameKeys(config, config')
  BY FlipIs DEF KeyInv, DataOK
<1>2. ASSUME NEW j \in Kinds
      PROVE  Len(config'.entries[j]) = Len(config.entries[j])
  BY <1>1, EntriesAre, SameLength DEF SameNames, KeyInv, DataOK
<1>3. DataOK'
  BY <1>1, <1>2 DEF KeyInv, DataOK, SettingsFit, EditFits, SameNames
<1> QED
  BY <1>1, <1>3, ShortcutsKept DEF KeyInv

LEMMA PressKeyInv == ASSUME KeyInv, NEW b \in bindings, PressHotkey(b) PROVE KeyInv'
<1>1. CASE b.kind = "monitoring"
  BY <1>1, Untouched DEF PressHotkey, shortcuts, editing, settings
<1>2. CASE b.kind # "monitoring"
  <2>1. b.kind \in Kinds
    BY <1>2 DEF KeyInv, Aims
  <2>2. b.index \in DOMAIN config.entries[b.kind] /\ FlipMute(b.kind, b.index)
    BY <1>2 DEF PressHotkey
  <2>3. draft' \in Draft
    <3>1. draft \in Draft
      BY DEF KeyInv, DataOK
    <3> DEFINE m == ~config.entries[b.kind][b.index].muted
    <3>2. m \in BOOLEAN
      OBVIOUS
    <3>3. draft' = draft \/ draft' = [draft EXCEPT !.muted = m]
      BY <1>2 DEF PressHotkey, DraftAfterMute
    <3> HIDE DEF m
    <3> QED
      BY <3>1, <3>2, <3>3, MutedIsDraft
  <2> QED
    BY <1>2, <2>1, <2>2, <2>3, FlipKeyInv DEF PressHotkey, shortcuts, settings
<1> QED
  BY <1>1, <1>2

-----------------------------------------------------------------------------
(* The dialogs.                                                             *)

LEMMA RestartKeyInv ==
  ASSUME NEW e, Restart(config', e), DataOK' PROVE KeyInv'
  BY ReboundHolds DEF Restart, KeyInv

LEMMA OpenAddKeyInv == ASSUME KeyInv, NEW k \in Kinds, OpenAdd(k) PROVE KeyInv'
<1>1. PICK w \in Who : draft' = NewEntry(w)
  BY DEF OpenAdd
<1>2. draft' \in Draft
  BY <1>1, NewIsDraft
<1>3. DataOK'
  BY <1>2 DEF OpenAdd, settings, KeyInv, DataOK, SettingsFit, EditFits, Kinds
<1> QED
  BY <1>3, OnlyData DEF OpenAdd, shortcuts

LEMMA OpenConfigureKeyInv ==
  ASSUME KeyInv, NEW k \in Kinds, NEW i \in DOMAIN config.entries[k], OpenConfigure(k, i)
  PROVE  KeyInv'
<1>1. draft' \in Draft
  BY EntriesAre DEF OpenConfigure, KeyInv, DataOK
<1>2. DataOK'
  BY <1>1 DEF OpenConfigure, settings, KeyInv, DataOK, SettingsFit, EditFits, Kinds
<1> QED
  BY <1>2, OnlyData DEF OpenConfigure, shortcuts

LEMMA TickMutedKeyInv == ASSUME KeyInv, TickMuted PROVE KeyInv'
<1> DEFINE m == ~draft.muted
<1>1. m \in BOOLEAN /\ draft' = [draft EXCEPT !.muted = m]
  BY DEF TickMuted
<1> HIDE DEF m
<1>2. draft' \in Draft
  BY <1>1, MutedIsDraft DEF KeyInv, DataOK
<1>3. DataOK'
  BY <1>2 DEF TickMuted, settings, KeyInv, DataOK, SettingsFit, EditFits
<1> QED
  BY <1>3, OnlyData DEF TickMuted, shortcuts

LEMMA SaveDialogKeyInv == ASSUME KeyInv, SaveDialog PROVE KeyInv'
<1> DEFINE old == config.entries[dialog]
           new == IF edit = 0 THEN Append(old, draft) ELSE [old EXCEPT ![edit] = draft]
<1>1. dialog \in Kinds /\ old \in Seq(Draft) /\ draft \in Draft
  BY EntriesAre DEF SaveDialog, InDialog, KeyInv, DataOK
<1>2. new \in Seq(Draft)
  <2>1. CASE edit = 0
    BY <1>1, <2>1, AppendProperties
  <2>2. CASE edit # 0
    <3>1. edit \in 1 .. Len(old)
      BY <1>1, <2>2 DEF KeyInv, DataOK, EditFits
    <3> QED
      BY <1>1, <2>2, <3>1, ExceptSeq
  <2> QED
    BY <2>1, <2>2
<1>3. config' = [config EXCEPT !.entries = [config.entries EXCEPT ![dialog] = new]]
  BY DEF SaveDialog
<1> HIDE DEF new
<1>4. config' \in Configs
  BY <1>1, <1>2, <1>3, ListReplaced DEF KeyInv, DataOK
<1>5. DataOK'
  BY <1>4, DataClosed DEF SaveDialog, settings, KeyInv, DataOK
<1> QED
  BY <1>5, RestartKeyInv DEF SaveDialog

LEMMA RemoveDialogKeyInv == ASSUME KeyInv, RemoveDialog PROVE KeyInv'
<1> DEFINE old == config.entries[dialog]
           new == RemoveAt(old, edit)
<1>1. dialog \in Kinds /\ old \in Seq(Draft)
  BY EntriesAre DEF RemoveDialog, InDialog, KeyInv, DataOK
<1>2. edit \in 1 .. Len(old)
  BY <1>1 DEF RemoveDialog, KeyInv, DataOK, EditFits
<1>3. new \in Seq(Draft)
  BY <1>1, <1>2, RemovedIsList
<1>4. config' = [config EXCEPT !.entries = [config.entries EXCEPT ![dialog] = new]]
  BY DEF RemoveDialog
<1> HIDE DEF new
<1>5. config' \in Configs
  BY <1>1, <1>3, <1>4, ListReplaced DEF KeyInv, DataOK
<1>6. DataOK'
  BY <1>5, DataClosed DEF RemoveDialog, settings, KeyInv, DataOK
<1>7. PICK e : Restart(config', e)
  BY DEF RemoveDialog
<1> QED
  BY <1>6, <1>7, RestartKeyInv

LEMMA DialogsKeyInv == ASSUME KeyInv, Dialogs PROVE KeyInv'
<1>1. CASE \E k \in Kinds : OpenAdd(k)
  BY <1>1, OpenAddKeyInv
<1>2. CASE \E p \in Places(config.entries) : ClickMute(p[1], p[2]) \/ OpenConfigure(p[1], p[2])
  <2>1. PICK p \in Places(config.entries) :
            ClickMute(p[1], p[2]) \/ OpenConfigure(p[1], p[2])
    BY <1>2
  <2>2. PICK k \in Kinds : \E i \in DOMAIN config.entries[k] : p = <<k, i>>
    BY PlacesAre
  <2>3. PICK i \in DOMAIN config.entries[k] : p = <<k, i>>
    BY <2>2
  <2>4. CASE ClickMute(k, i)
    BY <2>4, FlipKeyInv DEF ClickMute, shortcuts, editing, settings, KeyInv, DataOK
  <2>5. CASE OpenConfigure(k, i)
    BY <2>5, OpenConfigureKeyInv
  <2> QED
    BY <2>1, <2>3, <2>4, <2>5
<1>3. CASE TickMuted
  BY <1>3, TickMutedKeyInv
<1>4. CASE CancelDialog
  <2>1. DataOK'
    BY <1>4, DataClosed DEF CancelDialog, settings, KeyInv, DataOK
  <2> QED
    BY <1>4, <2>1, OnlyData DEF CancelDialog, shortcuts
<1>5. CASE SaveDialog
  BY <1>5, SaveDialogKeyInv
<1>6. CASE RemoveDialog
  BY <1>6, RemoveDialogKeyInv
<1> QED
  BY <1>1, <1>2, <1>3, <1>4, <1>5, <1>6 DEF Dialogs

-----------------------------------------------------------------------------
(* The settings.                                                            *)

LEMMA OpenSettingsKeyInv == ASSUME KeyInv, OpenSettings PROVE KeyInv'
<1> DEFINE keys == [k \in Kinds |-> [i \in DOMAIN config.entries[k] |->
                                        config.entries[k][i].key]]
<1>1. ASSUME NEW k \in Kinds
      PROVE  keys[k] \in Seq(Keys) /\ Len(keys[k]) = Len(config.entries[k])
  <2> DEFINE l == config.entries[k]
  <2>1. l \in Seq(Draft) /\ Len(l) \in Nat /\ DOMAIN l = 1 .. Len(l)
    BY EntriesAre DEF KeyInv, DataOK
  <2>2. ASSUME NEW i \in 1 .. Len(l) PROVE l[i].key \in Keys
    <3>1. l[i] \in Draft
      BY <2>1, ElementOfSeq
    <3> HIDE DEF l
    <3> QED
      BY <3>1 DEF Draft
  <2>3. keys[k] = [i \in 1 .. Len(l) |-> l[i].key]
    BY <2>1
  <2> HIDE DEF keys, l
  <2>4. keys[k] \in Seq(Keys) /\ Len(keys[k]) = Len(l)
    BY <2>1, <2>2, <2>3
  <2> QED
    BY <2>4 DEF l
<1>2. keys \in [Kinds -> Seq(Keys)]
  BY <1>1
<1>3. prefs' = [monitorKey |-> config.monitorKey, exclusive |-> config.exclusive,
                keys |-> keys]
  BY DEF OpenSettings
<1> HIDE DEF keys
<1>4. prefs' \in Prefs /\ prefs'.keys = keys
  BY <1>2, <1>3 DEF KeyInv, DataOK, Configs, Prefs
<1>5. DataOK'
  BY <1>1, <1>4 DEF OpenSettings, KeyInv, DataOK, SettingsFit, EditFits, Kinds
<1> QED
  BY <1>5, OnlyData DEF OpenSettings, shortcuts

\* A shortcut assigned in the settings is one of as many as before.
LEMMA AssignedIs ==
  ASSUME prefs \in Prefs, NEW t, NEW key \in Keys
  PROVE  /\ Assigned(t, key) \in Prefs
         /\ \A k \in Kinds : Len(Assigned(t, key).keys[k]) = Len(prefs.keys[k])
<1>1. prefs.keys \in [Kinds -> Seq(Keys)]
  BY DEF Prefs
<1>2. CASE t = <<"monitoring", 1>>
  <2>1. Assigned(t, key) = [prefs EXCEPT !.monitorKey = key]
    BY <1>2 DEF Assigned
  <2> QED
    BY <2>1 DEF Prefs
<1>3. CASE t # <<"monitoring", 1>>
  <2> DEFINE old == prefs.keys[t[1]]
             new == [old EXCEPT ![t[2]] = key]
             keys == [prefs.keys EXCEPT ![t[1]] = new]
  <2>1. Assigned(t, key) = [prefs EXCEPT !.keys = keys]
    BY <1>3 DEF Assigned
  <2>2. CASE t[1] \in Kinds
    <3>1. old \in Seq(Keys)
      BY <1>1, <2>2
    <3>2. new \in Seq(Keys) /\ Len(new) = Len(old)
      <4>1. CASE t[2] \in 1 .. Len(old)
        BY <3>1, <4>1, ExceptSeq
      <4>2. CASE t[2] \notin 1 .. Len(old)
        <5>1. new = old
          BY <3>1, <4>2
        <5> QED
          BY <3>1, <5>1
      <4> QED
        BY <4>1, <4>2
    <3> HIDE DEF new
    <3>3. /\ keys \in [Kinds -> Seq(Keys)]
          /\ \A k \in Kinds : Len(keys[k]) = Len(prefs.keys[k])
      BY <1>1, <2>2, <3>2
    <3> HIDE DEF keys
    <3> QED
      BY <2>1, <3>3 DEF Prefs
  <2>3. CASE t[1] \notin Kinds
    <3>1. keys = prefs.keys
      BY <1>1, <2>3
    <3> HIDE DEF keys
    <3> QED
      BY <1>1, <2>1, <3>1 DEF Prefs
  <2> QED
    BY <2>2, <2>3
<1> QED
  BY <1>2, <1>3

LEMMA AssignKeyInv ==
  ASSUME KeyInv, NEW t, NEW key \in Keys, prefs' = Assigned(t, key), UNCHANGED reset,
         OnlySettings
  PROVE  KeyInv'
<1>1. /\ prefs' \in Prefs
      /\ \A k \in Kinds : Len(prefs'.keys[k]) = Len(prefs.keys[k])
  BY AssignedIs DEF KeyInv, DataOK
<1>2. DataOK'
  BY <1>1 DEF OnlySettings, editing, KeyInv, DataOK, SettingsFit, EditFits
<1> QED
  BY <1>2, OnlyData DEF OnlySettings, shortcuts

LEMMA TickExclusiveKeyInv == ASSUME KeyInv, TickExclusive PROVE KeyInv'
<1> DEFINE x == ~prefs.exclusive
<1>1. x \in BOOLEAN /\ prefs' = [prefs EXCEPT !.exclusive = x]
  BY DEF TickExclusive
<1> HIDE DEF x
<1>2. prefs' \in Prefs /\ prefs'.keys = prefs.keys
  BY <1>1 DEF KeyInv, DataOK, Prefs
<1>3. DataOK'
  BY <1>2 DEF TickExclusive, OnlySettings, editing, KeyInv, DataOK, SettingsFit, EditFits
<1> QED
  BY <1>3, OnlyData DEF TickExclusive, OnlySettings, shortcuts

LEMMA RestoreKeyInv == ASSUME KeyInv, RestoreDefaults PROVE KeyInv'
<1>1. DataOK'
  BY NoPrefsIsPrefs
     DEF RestoreDefaults, OnlySettings, editing, KeyInv, DataOK, SettingsFit, EditFits
<1> QED
  BY <1>1, OnlyData DEF RestoreDefaults, OnlySettings, shortcuts

\* What Save is about to make has the entries of the configuration, or none.
LEMMA CandidateIs ==
  ASSUME KeyInv, dialog = "settings"
  PROVE  /\ Candidate \in Configs
         /\ ~reset => SameNames(config, Candidate)
         /\ reset => \A k \in Kinds : Candidate.entries[k] = <<>>
<1> DEFINE Keyed(k) == [i \in DOMAIN config.entries[k] |->
                            [config.entries[k][i] EXCEPT !.key = prefs.keys[k][i]]]
           lists == [k \in Kinds |-> IF reset THEN <<>> ELSE Keyed(k)]
<1>1. prefs \in Prefs /\ config \in Configs
  BY DEF KeyInv, DataOK
<1>2. ASSUME ~reset, NEW k \in Kinds
      PROVE  /\ Keyed(k) \in Seq(Draft) /\ DOMAIN Keyed(k) = DOMAIN config.entries[k]
             /\ \A i \in DOMAIN config.entries[k] :
                    Keyed(k)[i].who = config.entries[k][i].who
  <2> DEFINE l == config.entries[k]
             keys == prefs.keys[k]
  <2>1. l \in Seq(Draft) /\ Len(l) \in Nat /\ DOMAIN l = 1 .. Len(l)
    BY <1>1, EntriesAre
  <2>2. keys \in Seq(Keys) /\ Len(keys) = Len(l)
    BY <1>1, <1>2 DEF Prefs, KeyInv, DataOK, SettingsFit
  <2>3. ASSUME NEW i \in 1 .. Len(l)
        PROVE  /\ [l[i] EXCEPT !.key = keys[i]] \in Draft
               /\ [l[i] EXCEPT !.key = keys[i]].who = l[i].who
    <3>1. l[i] \in Draft /\ keys[i] \in Keys
      BY <2>1, <2>2, ElementOfSeq
    <3> QED
      BY <3>1, KeyedIsDraft
  <2>4. Keyed(k) = [i \in 1 .. Len(l) |-> [l[i] EXCEPT !.key = keys[i]]]
    BY <2>1
  <2> HIDE DEF Keyed, l, keys
  <2>5. Keyed(k) \in Seq(Draft)
    BY <2>1, <2>3, <2>4
  <2>6. DOMAIN Keyed(k) = 1 .. Len(l) /\ \A i \in 1 .. Len(l) : Keyed(k)[i].who = l[i].who
    BY <2>3, <2>4
  <2> QED
    BY <2>1, <2>5, <2>6 DEF l
<1>3. Candidate = [entries |-> lists, monitorKey |-> prefs.monitorKey,
                   exclusive |-> prefs.exclusive]
  BY DEF Candidate
<1>4. \A k \in Kinds : lists[k] = IF reset THEN <<>> ELSE Keyed(k)
  OBVIOUS
<1> HIDE DEF Keyed
<1>5. lists \in Lists
  <2>1. <<>> \in Seq(Draft)
    BY EmptySeq
  <2> QED
    BY <1>2, <2>1 DEF Lists
<1> HIDE DEF lists
<1>6. Candidate \in Configs
  BY <1>1, <1>3, <1>5 DEF Configs, Prefs
<1>7. Candidate.entries = lists
  BY <1>3
<1>8. ASSUME ~reset PROVE SameNames(config, Candidate)
  BY <1>2, <1>4, <1>7, <1>8 DEF SameNames
<1> QED
  BY <1>4, <1>6, <1>7, <1>8

\* So its shortcuts are for what is at their places already.
LEMMA CandidateAims ==
  ASSUME KeyInv, dialog = "settings", NEW b \in Desired(Candidate)
  PROVE  Aims(b, config)
<1>1. Aims(b, Candidate)
  BY DesiredAims
<1>2. CASE ~reset
  BY <1>1, <1>2, CandidateIs, AimKept
<1>3. CASE reset
  <2>1. b.kind \notin Kinds
    <3> SUFFICES ASSUME b.kind \in Kinds PROVE FALSE
      OBVIOUS
    <3>1. b.kind # "monitoring"
      BY DEF Kinds
    <3>2. b.index \in DOMAIN Candidate.entries[b.kind]
      BY <1>1, <3>1 DEF Aims
    <3>3. DOMAIN Candidate.entries[b.kind] = {}
      <4>1. Candidate.entries[b.kind] = <<>>
        BY <1>3, CandidateIs
      <4> QED
        BY <4>1
    <3> QED
      BY <3>2, <3>3
  <2> QED
    BY <1>1, <2>1 DEF Aims
<1> QED
  BY <1>2, <1>3

LEMMA RefusedKeyInv == ASSUME KeyInv, SaveRefused PROVE KeyInv'
<1>1. bindings' = bindings
  BY DEF SaveRefused, AfterRefusal
<1> QED
  BY <1>1, Untouched DEF SaveRefused, settings

LEMMA TakenBackKeyInv == ASSUME KeyInv, SaveTakenBack PROVE KeyInv'
<1>1. DataOK' /\ config' = config /\ dialog = "settings"
  BY DataKept DEF SaveTakenBack, Saving, InSettings, settings, KeyInv
<1>2. CASE bindings' = Desired(config)
  BY <1>1, <1>2, DesiredAims DEF KeyInv, ShortcutsAreSaved
<1>3. CASE bindings' = Desired(Candidate) /\ stuck'
  BY <1>1, <1>3, CandidateAims DEF KeyInv, ShortcutsAreSaved
<1> QED
  BY <1>2, <1>3 DEF SaveTakenBack

LEMMA SaveSettingsKeyInv == ASSUME KeyInv, SaveSettings PROVE KeyInv'
<1>1. dialog = "settings" /\ config' = Candidate /\ bindings' = Desired(config')
  BY DEF SaveSettings, Saving, InSettings
<1>2. DataOK'
  BY <1>1, CandidateIs, DataClosed, NoPrefsIsPrefs DEF SaveSettings, SettingsClosed
<1> QED
  BY <1>1, <1>2, DesiredAims DEF KeyInv, ShortcutsAreSaved

LEMMA SettingsKeyInv == ASSUME KeyInv, Settings PROVE KeyInv'
<1>1. CASE OpenSettings
  BY <1>1, OpenSettingsKeyInv
<1>2. CASE CancelSettings
  <2>1. DataOK'
    BY <1>2, DataClosed, NoPrefsIsPrefs DEF CancelSettings, SettingsClosed, KeyInv, DataOK
  <2> QED
    BY <1>2, <2>1, OnlyData DEF CancelSettings, shortcuts
<1>3. CASE TickExclusive
  BY <1>3, TickExclusiveKeyInv
<1>4. CASE RestoreDefaults
  BY <1>4, RestoreKeyInv
<1>5. CASE CancelCapture \/ \E t \in Targets : SetKeybind(t)
  BY <1>5, Untouched DEF CancelCapture, SetKeybind, OnlySettings, shortcuts
<1>6. CASE \E t \in Targets : ClearKeybind(t)
  BY <1>6, AssignKeyInv DEF ClearKeybind, Keys
<1>7. CASE \E key \in Keys : AcceptKey(key)
  BY <1>7, AssignKeyInv DEF AcceptKey
<1>8. CASE SaveRefused \/ SaveTakenBack \/ SaveSettings
  BY <1>8, RefusedKeyInv, TakenBackKeyInv, SaveSettingsKeyInv
<1> QED
  BY <1>1, <1>2, <1>3, <1>4, <1>5, <1>6, <1>7, <1>8 DEF Settings

-----------------------------------------------------------------------------
LEMMA NextKeepsKeyInv == KeyInv /\ [Next]_vars => KeyInv'
<1> SUFFICES ASSUME KeyInv, [Next]_vars PROVE KeyInv'
  OBVIOUS
<1>1. CASE UNCHANGED vars
  BY <1>1, Untouched DEF vars, shortcuts, settings
<1>2. CASE \E h \in BOOLEAN : Launch(h)
  BY <1>2, LaunchKeyInv
<1>3. CASE Quit
  BY <1>3, QuitKeyInv
<1>4. CASE Show \/ Hide \/ EngineFails \/ SyncMetering \/ ClickToggle
  BY <1>4, Untouched
     DEF Show, Hide, EngineFails, SyncMetering, ClickToggle, shortcuts, settings
<1>5. CASE \E b \in bindings : PressHotkey(b)
  BY <1>5, PressKeyInv
<1>6. CASE Dialogs
  BY <1>6, DialogsKeyInv
<1>7. CASE Settings
  BY <1>7, SettingsKeyInv
<1> QED
  BY <1>1, <1>2, <1>3, <1>4, <1>5, <1>6, <1>7 DEF Next, Program

LEMMA SpecKeepsKeyInv == Spec => []KeyInv
  BY InitKeyInv, NextKeepsKeyInv, PTL DEF Spec

\* A shortcut never acts on another device than the one it was registered for
\* (MixerWindow::restart, handleHotkey, Hotkeys::apply), for any lists of devices,
\* any shortcuts, and any number of changes and failed registrations.
THEOREM ShortcutsNeverStray == Spec => []NeverAnotherDevice
<1>1. KeyInv => NeverAnotherDevice
  BY DEF KeyInv, Aims, NeverAnotherDevice
<1> QED
  BY <1>1, SpecKeepsKeyInv, PTL

\* What is registered is what the configuration says, all of it or nothing, unless a
\* Save that failed half way could not be taken back (Hotkeys::apply, saveSettings).
THEOREM ShortcutsFollowConfig == Spec => []ShortcutsAreSaved
<1>1. KeyInv => ShortcutsAreSaved
  BY DEF KeyInv
<1> QED
  BY <1>1, SpecKeepsKeyInv, PTL

-----------------------------------------------------------------------------
(* What the user said last.                                                 *)

\* The names in the lists are names, and no two entries share one.
Named(c) ==
    \A k \in Kinds : \A i \in DOMAIN c.entries[k] : c.entries[k][i].who \in Who
OneEach(c) ==
    \A k, j \in Kinds : \A i \in DOMAIN c.entries[k], n \in DOMAIN c.entries[j] :
        c.entries[k][i].who = c.entries[j][n].who => k = j /\ i = n

\* The lists say what was wished of each name.
Granted(c, w) ==
    \A k \in Kinds : \A i \in DOMAIN c.entries[k] :
        c.entries[k][i].muted = w[c.entries[k][i].who]

\* The dialog holds what was wished of the entry it is about, whose name it has,
\* or of a new one, whose name no entry has.
NewName(c, w) == \A k \in Kinds : \A i \in DOMAIN c.entries[k] : c.entries[k][i].who # w
DraftFits ==
    dialog \in Kinds =>
        /\ draft.who \in Who /\ draft.muted = draftWish
        /\ edit # 0 => draft.who = config.entries[dialog][edit].who
        /\ edit = 0 => NewName(config, draft.who)

\* A running engine does what c says.
Steers(e, c) == e.running => \E m \in BOOLEAN : e = Running(c, m)

WishesOK == wish \in [Who -> BOOLEAN] /\ draftWish \in BOOLEAN

WishInv == /\ WishesOK /\ Named(config) /\ OneEach(config) /\ Granted(config, wish)
           /\ DraftFits /\ Steers(engine, config)

Mutes(c) == [k \in Kinds |-> [i \in DOMAIN c.entries[k] |-> c.entries[k][i].muted]]

-----------------------------------------------------------------------------
(* The engine does what it was told.                                        *)

LEMMA RunningAgain ==
  ASSUME NEW c, NEW m \in BOOLEAN
  PROVE  LET e == Running(c, m) IN
         /\ e.running /\ e.monitoring \in BOOLEAN /\ e.muted = Mutes(c)
         /\ e.exclusive = c.exclusive
         /\ e = Running(c, e.monitoring)
         /\ e.monitoring => c.entries["output"] # <<>>
<1> DEFINE some == c.entries["output"] # <<>>
<1>1. /\ Running(c, m).running = TRUE /\ Running(c, m).monitoring = (m /\ some)
      /\ Running(c, m).muted = Mutes(c) /\ Running(c, m).exclusive = c.exclusive
  BY DEF Running, Mutes
<1>2. (m /\ some) \in BOOLEAN /\ ((m /\ some) /\ some) = (m /\ some)
  OBVIOUS
<1>3. Running(c, m /\ some) = Running(c, m)
  BY <1>2 DEF Running
<1> QED
  BY <1>1, <1>2, <1>3

LEMMA StartedSteers ==
  ASSUME NEW c, NEW m \in BOOLEAN, NEW e \in Started(c, m) PROVE Steers(e, c)
  BY OffIs DEF Started, Steers

LEMMA OffSteers == ASSUME NEW c PROVE Steers(Off, c)
  BY OffIs DEF Steers

\* Two configurations of which the engine cannot tell which it was given.
LEMMA SteersAlike ==
  ASSUME NEW c, NEW d, NEW e, Steers(e, c), Mutes(d) = Mutes(c),
         d.exclusive = c.exclusive,
         d.entries["output"] = <<>> <=> c.entries["output"] = <<>>
  PROVE  Steers(e, d)
<1>1. ASSUME NEW m \in BOOLEAN PROVE Running(d, m) = Running(c, m)
  BY DEF Running, Mutes
<1> QED
  BY <1>1 DEF Steers

LEMMA EmptyAlike ==
  ASSUME NEW c \in Configs, NEW d \in Configs, NEW k \in Kinds,
         DOMAIN d.entries[k] = DOMAIN c.entries[k]
  PROVE  d.entries[k] = <<>> <=> c.entries[k] = <<>>
<1>1. c.entries[k] \in Seq(Draft) /\ d.entries[k] \in Seq(Draft)
  BY EntriesAre
<1>2. Len(d.entries[k]) = Len(c.entries[k])
  BY <1>1, SameLength
<1> QED
  BY <1>1, <1>2, EmptySeq

LEMMA InTraySteers ==
  ASSUME NEW e, NEW c, Steers(e, c) PROVE Steers(InTray(e), c)
  BY OffSteers DEF InTray

\* Starting and stopping to monitor tells a running engine nothing else.
LEMMA ToggleSteers ==
  ASSUME Steers(engine, config), ToggleMonitoring, config' = config
  PROVE  Steers(engine', config')
<1>1. PICK e \in Toggled : engine' = IF visible THEN e ELSE InTray(e)
  BY DEF ToggleMonitoring
<1>2. Steers(e, config)
  <2>1. CASE engine.running
    <3> DEFINE b == ~engine.monitoring /\ engine.muted["output"] # <<>>
    <3>1. e = [engine EXCEPT !.monitoring = b] /\ b \in BOOLEAN
      BY <1>1, <2>1 DEF Toggled
    <3> HIDE DEF b
    <3>2. PICK m \in BOOLEAN : engine = Running(config, m)
      BY <2>1 DEF Steers
    <3>3. config.entries["output"] # <<>>
      BY DEF ToggleMonitoring
    <3>4. (b /\ config.entries["output"] # <<>>) = b
      BY <3>1, <3>3
    <3>5. e = Running(config, b)
      BY <3>1, <3>2, <3>4, Zenon DEF Running
    <3> QED
      BY <3>1, <3>5 DEF Steers
  <2>2. CASE ~engine.running
    BY <1>1, <2>2, StartedSteers DEF Toggled
  <2> QED
    BY <2>1, <2>2
<1> QED
  BY <1>1, <1>2, InTraySteers

\* What holds of a launch that monitors, or starts nothing.
LEMMA LaunchSteers == ASSUME NEW h \in BOOLEAN, Launch(h) PROVE Steers(engine', config')
<1>1. config' = config /\ (engine' = Off \/ engine' \in Started(config, TRUE))
  BY DEF Launch
<1> QED
  BY <1>1, OffSteers, StartedSteers

LEMMA RestartSteers ==
  ASSUME NEW c, NEW e, NEW d, Restart(c, e), Steers(e, d) PROVE Steers(engine', c)
<1>1. CASE e.running
  <2>1. e.monitoring \in BOOLEAN
    BY <1>1, RunningAgain DEF Steers
  <2>2. engine' \in Started(c, e.monitoring)
    BY <1>1 DEF Restart
  <2> QED
    BY <2>1, <2>2, StartedSteers
<1>2. CASE ~e.running
  BY <1>2 DEF Restart, Steers
<1> QED
  BY <1>1, <1>2

-----------------------------------------------------------------------------
(* Muting.                                                                  *)

\* The mute of one entry is set to m, and nothing else of the lists changes.
MutedAt(c, d, k, i, m) ==
    /\ d.exclusive = c.exclusive
    /\ \A j \in Kinds :
          /\ DOMAIN d.entries[j] = DOMAIN c.entries[j]
          /\ \A n \in DOMAIN c.entries[j] :
                /\ d.entries[j][n].who = c.entries[j][n].who
                /\ d.entries[j][n].muted = IF j = k /\ n = i THEN m ELSE c.entries[j][n].muted

LEMMA FlipMutes ==
  ASSUME config \in Configs, NEW k \in Kinds, NEW i \in DOMAIN config.entries[k],
         FlipMute(k, i)
  PROVE  MutedAt(config, config', k, i, ~config.entries[k][i].muted)
<1> DEFINE l == config.entries[k]
           m == ~l[i].muted
           r == [l[i] EXCEPT !.muted = m]
           n == [l EXCEPT ![i] = r]
           lists == [config.entries EXCEPT ![k] = n]
<1>1. l \in Seq(Draft) /\ l[i] \in Draft /\ i \in 1 .. Len(l)
  BY EntriesAre
<1>2. m \in BOOLEAN
  OBVIOUS
<1>3. config' = [config EXCEPT !.entries = lists]
  BY DEF FlipMute
<1> SUFFICES MutedAt(config, config', k, i, m)
  OBVIOUS
<1> HIDE DEF m
<1>4. r \in Draft /\ r.who = l[i].who /\ r.muted = m
  BY <1>1, <1>2, MutedIsDraft DEF Draft
<1> HIDE DEF r
<1>5. /\ n \in Seq(Draft) /\ DOMAIN n = DOMAIN l
      /\ \A j \in DOMAIN l : n[j] = IF j = i THEN r ELSE l[j]
  BY <1>1, <1>4, ExceptSeq
<1>6. ASSUME NEW j \in DOMAIN l
      PROVE  n[j].who = l[j].who /\ n[j].muted = IF j = i THEN m ELSE l[j].muted
  BY <1>4, <1>5
<1> HIDE DEF n, l
<1>7. lists[k] = n /\ \A j \in Kinds \ {k} : lists[j] = config.entries[j]
  BY DEF Configs, Lists
<1>8. config'.entries = lists /\ config'.exclusive = config.exclusive
  <2> HIDE DEF lists
  <2> QED
    BY <1>3 DEF Configs
<1> HIDE DEF lists
<1> QED
  BY <1>5, <1>6, <1>7, <1>8 DEF MutedAt, l

\* The engine is told of it.
Told(f, e, k, i, m) == f = [e EXCEPT ![k][i] = m]

LEMMA MutedMutes ==
  ASSUME NEW c, NEW d, NEW k \in Kinds, NEW i \in DOMAIN c.entries[k], NEW m,
         MutedAt(c, d, k, i, m), NEW f, Told(f, Mutes(c), k, i, m)
  PROVE  Mutes(d) = f
<1> DEFINE Row(e, j) == [n \in DOMAIN e.entries[j] |-> e.entries[j][n].muted]
<1>1. ASSUME NEW j \in Kinds \ {k} PROVE Row(d, j) = Row(c, j)
  BY DEF MutedAt
<1>2. Row(d, k) = [Row(c, k) EXCEPT ![i] = m]
  BY DEF MutedAt
<1>3. Mutes(c) = [j \in Kinds |-> Row(c, j)] /\ Mutes(d) = [j \in Kinds |-> Row(d, j)]
  BY DEF Mutes
<1> HIDE DEF Row
<1>4. Mutes(d) = [Mutes(c) EXCEPT ![k][i] = m]
  BY <1>1, <1>2, <1>3
<1> QED
  BY <1>4 DEF Told

\* An engine by its fields, and one that differs in its mutes.
Fresh(running, monitoring, exclusive, muted) ==
    [running |-> running, monitoring |-> monitoring, exclusive |-> exclusive, muted |-> muted]
Remuted(f, e, muted) == f = [e EXCEPT !.muted = muted]

LEMMA FieldMuted ==
  ASSUME NEW r, NEW m, NEW x, NEW old, NEW new, NEW f, Remuted(f, Fresh(r, m, x, old), new)
  PROVE  f = Fresh(r, m, x, new)
  BY DEF Fresh, Remuted

LEMMA RunningIsFresh ==
  ASSUME NEW c, NEW b
  PROVE  Running(c, b) = Fresh(TRUE, b /\ c.entries["output"] # <<>>, c.exclusive, Mutes(c))
  BY DEF Running, Mutes, Fresh

\* Engines that were given configurations of which only the mutes differ.
LEMMA OtherMutes ==
  ASSUME NEW c, NEW d, NEW b \in BOOLEAN, d.exclusive = c.exclusive,
         d.entries["output"] = <<>> <=> c.entries["output"] = <<>>,
         NEW f, Remuted(f, Running(c, b), Mutes(d))
  PROVE  f = Running(d, b)
<1> DEFINE some == b /\ c.entries["output"] # <<>>
<1>1. Running(c, b) = Fresh(TRUE, some, c.exclusive, Mutes(c))
  BY RunningIsFresh
<1>2. Running(d, b) = Fresh(TRUE, some, c.exclusive, Mutes(d))
  BY DEF Running, Mutes, Fresh
<1> HIDE DEF some
<1> QED
  BY <1>1, <1>2, FieldMuted

LEMMA FlipSteers ==
  ASSUME KeyInv, Steers(engine, config), NEW k \in Kinds, NEW i \in DOMAIN config.entries[k],
         FlipMute(k, i)
  PROVE  Steers(engine', config')
<1> DEFINE m == ~config.entries[k][i].muted
<1>1. engine' = MuteEngine(engine, k, i, m) /\ MutedAt(config, config', k, i, m)
  BY FlipMutes DEF FlipMute, KeyInv, DataOK
<1>2. config \in Configs /\ config' \in Configs
  BY FlipIs DEF KeyInv, DataOK
<1> HIDE DEF m
<1>3. CASE engine.running
  <2>1. PICK b \in BOOLEAN : engine = Running(config, b)
    BY <1>3 DEF Steers
  <2>2. engine.muted = Mutes(config) /\ i \in DOMAIN Mutes(config)[k]
    BY <2>1, RunningAgain DEF Mutes
  <2> DEFINE new == [Mutes(config) EXCEPT ![k][i] = m]
  <2>3. engine' = [engine EXCEPT !.muted = new]
    BY <1>1, <1>3, <2>2, Zenon DEF MuteEngine
  <2> HIDE DEF new
  <2>4. Mutes(config') = new
    <3>1. Told(new, Mutes(config), k, i, m)
      BY DEF Told, new
    <3> QED
      BY <1>1, <3>1, MutedMutes
  <2>5. config'.entries["output"] = <<>> <=> config.entries["output"] = <<>>
    BY <1>1, <1>2, EmptyAlike DEF MutedAt, Kinds
  <2>6. Remuted(engine', engine, new)
    BY <2>3 DEF Remuted
  <2>7. engine' = Running(config', b)
    BY <1>1, <2>1, <2>4, <2>5, <2>6, OtherMutes DEF MutedAt
  <2> QED
    BY <2>7 DEF Steers
<1>4. CASE ~engine.running
  BY <1>1, <1>4 DEF MuteEngine, Steers
<1> QED
  BY <1>3, <1>4

\* What is wished of the entry is what the list says, and nothing of any other.
LEMMA FlipGrants ==
  ASSUME KeyInv, WishInv, NEW k \in Kinds, NEW i \in DOMAIN config.entries[k], FlipMute(k, i)
  PROVE  /\ wish' \in [Who -> BOOLEAN]
         /\ Named(config') /\ OneEach(config') /\ Granted(config', wish')
<1> DEFINE m == ~config.entries[k][i].muted
           w == config.entries[k][i].who
<1>1. /\ MutedAt(config, config', k, i, m) /\ m \in BOOLEAN
      /\ wish' = [wish EXCEPT ![w] = m]
  BY FlipMutes DEF FlipMute, KeyInv, DataOK
<1> HIDE DEF m
<1>2. wish \in [Who -> BOOLEAN] /\ w \in Who
  BY DEF WishInv, WishesOK, Named
<1>3. wish' \in [Who -> BOOLEAN] /\ wish'[w] = m /\ \A x \in Who \ {w} : wish'[x] = wish[x]
  <2> HIDE DEF w
  <2> QED
    BY <1>1, <1>2
<1>4. Named(config') /\ OneEach(config')
  BY <1>1 DEF WishInv, Named, OneEach, MutedAt
<1>5. ASSUME NEW j \in Kinds, NEW n \in DOMAIN config.entries[j]
      PROVE  config'.entries[j][n].muted = wish'[config'.entries[j][n].who]
  <2>1. config'.entries[j][n].who = config.entries[j][n].who
        /\ config.entries[j][n].who \in Who
    BY <1>1 DEF MutedAt, WishInv, Named
  <2>2. CASE j = k /\ n = i
    BY <1>1, <1>3, <2>1, <2>2 DEF MutedAt
  <2>3. CASE ~(j = k /\ n = i)
    <3>1. config.entries[j][n].who # w
      BY <2>3 DEF WishInv, OneEach
    <3>2. config.entries[j][n].muted = wish[config.entries[j][n].who]
      BY DEF WishInv, Granted
    <3>3. config'.entries[j][n].muted = config.entries[j][n].muted
      BY <1>1, <2>3 DEF MutedAt
    <3> QED
      BY <1>3, <2>1, <3>1, <3>2, <3>3
  <2> QED
    BY <2>2, <2>3
<1> QED
  BY <1>1, <1>3, <1>4, <1>5 DEF Granted, MutedAt

-----------------------------------------------------------------------------
(* What a step needs to show of the wishes.                                 *)

LEMMA WishesKept ==
  ASSUME WishInv, UNCHANGED <<config, editing, wish>>, Steers(engine', config')
  PROVE  WishInv'
  BY DEF WishInv, WishesOK, DraftFits, editing

\* The lists are as they were, and the dialog is closed or has a draft that fits.
LEMMA ListsKept ==
  ASSUME WishInv, UNCHANGED <<config, engine, wish>>, draftWish' \in BOOLEAN, DraftFits'
  PROVE  WishInv'
  BY DEF WishInv, WishesOK

LEMMA ClosedFits == ASSUME Closed PROVE DraftFits' /\ draftWish' \in BOOLEAN
  BY DEF Closed, DraftFits, Kinds

LEMMA SettingsOpenFits == ASSUME dialog' \notin Kinds PROVE DraftFits'
  BY DEF DraftFits

\* A mute flipped behind a dialog reaches its draft if it is about that entry.
LEMMA DraftFollows ==
  ASSUME KeyInv, WishInv, NEW k \in Kinds, NEW i \in DOMAIN config.entries[k],
         NEW m \in BOOLEAN, MutedAt(config, config', k, i, m),
         UNCHANGED <<dialog, edit>>,
         \/ UNCHANGED <<draft, draftWish>>
         \/ draft' = [draft EXCEPT !.muted = m] /\ draftWish' = m
  PROVE  DraftFits' /\ draftWish' \in BOOLEAN
<1>1. draft \in Draft /\ draftWish \in BOOLEAN
  BY DEF KeyInv, DataOK, WishInv, WishesOK
<1>2. draftWish' \in BOOLEAN /\ draft'.who = draft.who
      /\ (draft.muted = draftWish => draft'.muted = draftWish')
  BY <1>1 DEF Draft
<1> SUFFICES ASSUME dialog \in Kinds PROVE DraftFits'
  BY <1>2 DEF DraftFits
<1>3. draft.who \in Who /\ draft.muted = draftWish
  BY DEF WishInv, DraftFits
<1>4. ASSUME edit # 0 PROVE draft.who = config'.entries[dialog][edit].who
  <2>1. edit \in DOMAIN config.entries[dialog]
    BY <1>4 DEF KeyInv, DataOK, EditFits
  <2> QED
    BY <1>4, <2>1 DEF WishInv, DraftFits, MutedAt
<1>5. ASSUME edit = 0 PROVE NewName(config', draft.who)
  BY <1>5 DEF WishInv, DraftFits, NewName, MutedAt
<1> QED
  BY <1>2, <1>3, <1>4, <1>5 DEF DraftFits

-----------------------------------------------------------------------------
(* The program.                                                             *)

LEMMA InitWishInv == Init => WishInv
<1> SUFFICES ASSUME Init PROVE WishInv
  OBVIOUS
<1>1. config \in Configs /\ config.entries \in [Kinds -> Seq(Entry)]
  <2>1. config \in Configs
    BY InitKeyInv DEF KeyInv, DataOK
  <2>2. config \in [entries : [Kinds -> Seq(Entry)], monitorKey : Keys, exclusive : BOOLEAN]
    BY DesktopAssumption DEF Init
  <2> QED
    BY <2>1, <2>2
<1>2. ASSUME NEW k \in Kinds, NEW i \in DOMAIN config.entries[k]
      PROVE  /\ config.entries[k][i] \in Entry
             /\ <<k, i>> \in Places(config.entries)
             /\ At(config, <<k, i>>) = config.entries[k][i]
  <2>1. config.entries[k] \in Seq(Entry)
    BY <1>1
  <2>2. config.entries[k][i] \in Entry
    BY <2>1, ElementOfSeq
  <2> QED
    BY <2>2, PlacesAre DEF At
<1>3. Named(config)
  BY <1>2 DEF Named, Entry
<1>4. ASSUME NEW p \in Places(config.entries), NEW q \in Places(config.entries),
             At(config, p).who = At(config, q).who
      PROVE  p = q
  BY <1>4, SetupAssumption DEF Init
<1>5. OneEach(config)
  <2> SUFFICES ASSUME NEW k \in Kinds, NEW j \in Kinds,
                      NEW i \in DOMAIN config.entries[k], NEW n \in DOMAIN config.entries[j],
                      config.entries[k][i].who = config.entries[j][n].who
               PROVE  k = j /\ i = n
    BY DEF OneEach
  <2>1. <<k, i>> = <<j, n>>
    BY <1>2, <1>4
  <2> QED
    BY <2>1
<1>6. wish \in [Who -> BOOLEAN]
  BY DEF Init
<1>7. ASSUME NEW k \in Kinds, NEW i \in DOMAIN config.entries[k]
      PROVE  config.entries[k][i].muted = wish[config.entries[k][i].who]
  <2> DEFINE w == config.entries[k][i].who
             said == \E p \in Places(config.entries) :
                         At(config, p).who = w /\ At(config, p).muted
  <2>1. w \in Who /\ config.entries[k][i].muted \in BOOLEAN
    BY <1>2 DEF Entry
  <2>2. wish[w] = said
    BY <2>1 DEF Init
  <2>3. ASSUME said PROVE config.entries[k][i].muted = TRUE
    <3>1. PICK p \in Places(config.entries) : At(config, p).who = w /\ At(config, p).muted
      BY <2>3
    <3>2. p = <<k, i>>
      BY <1>2, <1>4, <3>1
    <3> QED
      BY <1>2, <2>1, <3>1, <3>2
  <2>4. ASSUME config.entries[k][i].muted = TRUE PROVE said
    BY <1>2, <2>4
  <2> HIDE DEF said
  <2>5. wish[w] \in BOOLEAN
    BY <1>6, <2>1
  <2> QED
    BY <2>1, <2>2, <2>3, <2>4, <2>5
<1>8. DraftFits /\ draftWish \in BOOLEAN /\ Steers(engine, config)
  BY OffSteers DEF Init, DraftFits, Kinds
<1> QED
  BY <1>3, <1>5, <1>6, <1>7, <1>8 DEF WishInv, WishesOK, Granted

LEMMA ClickMuteWishInv ==
  ASSUME KeyInv, WishInv, NEW k \in Kinds, NEW i \in DOMAIN config.entries[k], ClickMute(k, i)
  PROVE  WishInv'
<1>1. FlipMute(k, i) /\ UNCHANGED editing /\ dialog = "none"
  BY DEF ClickMute, Dashboard
<1>2. DraftFits' /\ draftWish' \in BOOLEAN
  BY <1>1 DEF editing, DraftFits, Kinds, WishInv, WishesOK
<1>3. Steers(engine', config')
  BY <1>1, FlipSteers DEF WishInv
<1> QED
  BY <1>1, <1>2, <1>3, FlipGrants DEF WishInv, WishesOK

LEMMA PressWishInv ==
  ASSUME KeyInv, WishInv, NEW b \in bindings, PressHotkey(b) PROVE WishInv'
<1>1. CASE b.kind = "monitoring"
  <2>1. ToggleMonitoring /\ UNCHANGED <<config, editing, wish>>
    BY <1>1 DEF PressHotkey, editing
  <2> QED
    BY <2>1, ToggleSteers, WishesKept DEF WishInv
<1>2. CASE b.kind # "monitoring"
  <2> DEFINE k == b.kind
             i == b.index
             m == ~config.entries[k][i].muted
  <2>1. k \in Kinds /\ i \in DOMAIN config.entries[k]
    BY <1>2 DEF KeyInv, Aims
  <2>2. FlipMute(k, i) /\ UNCHANGED <<dialog, edit>>
    BY <1>2 DEF PressHotkey
  <2>3. MutedAt(config, config', k, i, m) /\ m \in BOOLEAN
    BY <2>1, <2>2, FlipMutes DEF KeyInv, DataOK
  <2>4. \/ UNCHANGED <<draft, draftWish>>
        \/ draft' = [draft EXCEPT !.muted = m] /\ draftWish' = m
    BY <1>2 DEF PressHotkey, DraftAfterMute
  <2>5. DraftFits' /\ draftWish' \in BOOLEAN
    <3> HIDE DEF m
    <3> QED
      BY <2>1, <2>2, <2>3, <2>4, DraftFollows
  <2>6. Steers(engine', config')
    BY <2>1, <2>2, FlipSteers DEF WishInv
  <2> QED
    BY <2>1, <2>2, <2>5, <2>6, FlipGrants DEF WishInv, WishesOK
<1> QED
  BY <1>1, <1>2

-----------------------------------------------------------------------------
(* The dialogs.                                                             *)

LEMMA OpenAddWishInv == ASSUME WishInv, NEW k \in Kinds, OpenAdd(k) PROVE WishInv'
<1>1. PICK w \in Who \ Present(config.entries) : draft' = NewEntry(w)
  BY DEF OpenAdd
<1>2. ASSUME NEW j \in Kinds, NEW i \in DOMAIN config.entries[j]
      PROVE  config.entries[j][i].who # w
  <2>1. <<j, i>> \in Places(config.entries)
    BY PlacesAre
  <2>2. config.entries[j][i].who \in Present(config.entries)
    BY <2>1 DEF Present
  <2> QED
    BY <2>2
<1>3. draft'.who = w /\ draft'.muted = FALSE
  BY <1>1 DEF NewEntry
<1>4. edit' = 0 /\ draftWish' = FALSE /\ UNCHANGED <<config, engine, wish>>
  BY DEF OpenAdd
<1>5. DraftFits'
  BY <1>2, <1>3, <1>4 DEF DraftFits, NewName
<1> QED
  BY <1>4, <1>5, ListsKept

LEMMA OpenConfigureWishInv ==
  ASSUME KeyInv, WishInv, NEW k \in Kinds, NEW i \in DOMAIN config.entries[k],
         OpenConfigure(k, i)
  PROVE  WishInv'
<1>1. config.entries[k] \in Seq(Draft) /\ config.entries[k][i] \in Draft
  BY EntriesAre DEF KeyInv, DataOK
<1>2. i # 0 /\ config.entries[k][i].muted \in BOOLEAN
  BY <1>1 DEF Draft
<1>3. DraftFits' /\ draftWish' \in BOOLEAN
  BY <1>2 DEF OpenConfigure, DraftFits, WishInv, Named
<1> QED
  BY <1>3, ListsKept DEF OpenConfigure

LEMMA TickMutedWishInv == ASSUME KeyInv, WishInv, TickMuted PROVE WishInv'
<1> DEFINE m == ~draft.muted
<1>1. m \in BOOLEAN /\ draft' = [draft EXCEPT !.muted = m] /\ draftWish' = draft'.muted
  BY DEF TickMuted
<1> HIDE DEF m
<1>2. draft'.who = draft.who /\ draft'.muted = m
  BY <1>1 DEF KeyInv, DataOK, Draft
<1>3. UNCHANGED <<config, engine, wish, dialog, edit>>
  BY DEF TickMuted
<1>4. DraftFits'
  BY <1>1, <1>2, <1>3 DEF WishInv, DraftFits, NewName
<1> QED
  BY <1>1, <1>2, <1>3, <1>4, ListsKept

\* Save puts the draft in its place, and every other entry has another name.
LEMMA SavedEntries ==
  ASSUME KeyInv, WishInv, SaveDialog, NEW j \in Kinds, NEW n \in DOMAIN config'.entries[j]
  PROVE  LET place == IF edit = 0 THEN Len(config.entries[dialog]) + 1 ELSE edit IN
         \/ j = dialog /\ n = place /\ config'.entries[j][n] = draft
         \/ /\ ~(j = dialog /\ n = place)
            /\ n \in DOMAIN config.entries[j]
            /\ config'.entries[j][n] = config.entries[j][n]
            /\ config.entries[j][n].who # draft.who
<1> DEFINE old == config.entries[dialog]
           new == IF edit = 0 THEN Append(old, draft) ELSE [old EXCEPT ![edit] = draft]
           place == IF edit = 0 THEN Len(old) + 1 ELSE edit
<1>1. /\ dialog \in Kinds /\ old \in Seq(Draft) /\ draft \in Draft
      /\ Len(old) \in Nat /\ DOMAIN old = 1 .. Len(old)
  BY EntriesAre DEF SaveDialog, InDialog, KeyInv, DataOK
<1>2. edit # 0 => edit \in 1 .. Len(old)
  BY <1>1 DEF KeyInv, DataOK, EditFits
<1>3. /\ new \in Seq(Draft)
      /\ DOMAIN new = IF edit = 0 THEN 1 .. Len(old) + 1 ELSE 1 .. Len(old)
      /\ \A i \in DOMAIN new : new[i] = IF i = place THEN draft ELSE old[i]
  <2>1. CASE edit = 0
    BY <1>1, <2>1, AppendProperties
  <2>2. CASE edit # 0
    BY <1>1, <1>2, <2>2, ExceptSeq
  <2> QED
    BY <2>1, <2>2
<1>4. config' = [config EXCEPT !.entries = [config.entries EXCEPT ![dialog] = new]]
  BY DEF SaveDialog
<1> HIDE DEF new
<1>5. /\ config'.entries[dialog] = new
      /\ \A k \in Kinds \ {dialog} : config'.entries[k] = config.entries[k]
  BY <1>1, <1>3, <1>4, ListReplaced DEF KeyInv, DataOK
<1>6. ASSUME NEW k \in Kinds, NEW i \in DOMAIN config.entries[k], ~(k = dialog /\ i = place)
      PROVE  config.entries[k][i].who # draft.who
  <2>1. CASE edit = 0
    BY <1>1, <2>1 DEF WishInv, DraftFits, NewName
  <2>2. CASE edit # 0
    <3>1. draft.who = old[edit].who /\ edit \in DOMAIN old
      BY <1>1, <1>2, <2>2 DEF WishInv, DraftFits
    <3> QED
      BY <1>1, <1>6, <2>2, <3>1 DEF WishInv, OneEach
  <2> QED
    BY <2>1, <2>2
<1>7. CASE j # dialog
  BY <1>5, <1>6, <1>7
<1>8. CASE j = dialog /\ n = place
  BY <1>3, <1>5, <1>8
<1>9. CASE j = dialog /\ n # place
  <2>1. n \in DOMAIN old
    BY <1>1, <1>2, <1>3, <1>5, <1>9
  <2> QED
    BY <1>3, <1>5, <1>6, <1>9, <2>1
<1> QED
  BY <1>7, <1>8, <1>9

LEMMA SaveDialogWishInv == ASSUME KeyInv, WishInv, SaveDialog PROVE WishInv'
<1> DEFINE place == IF edit = 0 THEN Len(config.entries[dialog]) + 1 ELSE edit
<1>1. /\ dialog \in Kinds /\ Closed /\ Restart(config', engine)
      /\ wish' = [wish EXCEPT ![draft.who] = draftWish]
  BY DEF SaveDialog, InDialog
<1>2. draft.who \in Who /\ draft.muted = draftWish /\ draftWish \in BOOLEAN
  BY <1>1 DEF WishInv, WishesOK, DraftFits
<1>3. /\ wish' \in [Who -> BOOLEAN] /\ wish'[draft.who] = draftWish
      /\ \A w \in Who \ {draft.who} : wish'[w] = wish[w]
  BY <1>1, <1>2 DEF WishInv, WishesOK
<1> DEFINE Drafted(j, n) == j = dialog /\ n = place /\ config'.entries[j][n] = draft
           Old(j, n) == /\ ~(j = dialog /\ n = place)
                        /\ n \in DOMAIN config.entries[j]
                        /\ config'.entries[j][n] = config.entries[j][n]
                        /\ config.entries[j][n].who # draft.who
<1>4. \A j \in Kinds : \A n \in DOMAIN config'.entries[j] : Drafted(j, n) \/ Old(j, n)
  BY SavedEntries
<1> HIDE DEF place
<1>5. Named(config')
  BY <1>2, <1>4 DEF Named, WishInv
<1>6. OneEach(config')
  <2> SUFFICES ASSUME NEW k \in Kinds, NEW j \in Kinds,
                      NEW i \in DOMAIN config'.entries[k], NEW n \in DOMAIN config'.entries[j],
                      config'.entries[k][i].who = config'.entries[j][n].who
               PROVE  k = j /\ i = n
    BY DEF OneEach
  <2>1. CASE Drafted(k, i)
    BY <1>4, <2>1
  <2>2. CASE Old(k, i)
    <3>1. CASE Drafted(j, n)
      BY <2>2, <3>1
    <3>2. CASE Old(j, n)
      BY <2>2, <3>2 DEF WishInv, OneEach
    <3> QED
      BY <1>4, <3>1, <3>2
  <2> QED
    BY <1>4, <2>1, <2>2
<1>7. Granted(config', wish')
  <2> SUFFICES ASSUME NEW j \in Kinds, NEW n \in DOMAIN config'.entries[j]
               PROVE  config'.entries[j][n].muted = wish'[config'.entries[j][n].who]
    BY DEF Granted
  <2>1. CASE Drafted(j, n)
    BY <1>2, <1>3, <2>1
  <2>2. CASE Old(j, n)
    <3>1. config.entries[j][n].who \in Who
          /\ config.entries[j][n].muted = wish[config.entries[j][n].who]
      BY <2>2 DEF WishInv, Named, Granted
    <3> QED
      BY <1>3, <2>2, <3>1
  <2> QED
    BY <1>4, <2>1, <2>2
<1>8. Steers(engine', config')
  BY <1>1, RestartSteers DEF WishInv
<1> QED
  BY <1>1, <1>3, <1>5, <1>6, <1>7, <1>8, ClosedFits DEF WishInv, WishesOK

\* Where an entry was before the one at i was removed.
Before(i, n) == IF n < i THEN n ELSE n + 1

LEMMA RemovedIs ==
  ASSUME NEW S, NEW s \in Seq(S), NEW i \in 1 .. Len(s)
  PROVE  /\ DOMAIN RemoveAt(s, i) = 1 .. Len(s) - 1
         /\ \A n \in 1 .. Len(s) - 1 : RemoveAt(s, i)[n] = s[Before(i, n)]
<1> DEFINE a == SubSeq(s, 1, i - 1)
           b == SubSeq(s, i + 1, Len(s))
<1>1. Len(s) \in Nat /\ \A j \in 1 .. Len(s) : s[j] \in S
  BY ElementOfSeq
<1>2. a \in Seq(S) /\ Len(a) = i - 1 /\ \A n \in 1 .. i - 1 : a[n] = s[n]
  BY <1>1, SubSeqProperties
<1>3. b \in Seq(S) /\ Len(b) = Len(s) - i /\ \A n \in 1 .. Len(s) - i : b[n] = s[i + n]
  BY <1>1, SubSeqProperties
<1>4. RemoveAt(s, i) = a \o b
  BY DEF RemoveAt
<1> HIDE DEF a, b
<1>5. /\ a \o b \in Seq(S) /\ Len(a \o b) = Len(s) - 1
      /\ \A n \in 1 .. Len(s) - 1 : (a \o b)[n] = IF n <= i - 1 THEN a[n] ELSE b[n - (i - 1)]
  <2>1. Len(a) + Len(b) = Len(s) - 1
    BY <1>1, <1>2, <1>3
  <2>2. /\ a \o b \in Seq(S) /\ Len(a \o b) = Len(a) + Len(b)
        /\ \A n \in 1 .. Len(a) + Len(b) :
               (a \o b)[n] = IF n <= Len(a) THEN a[n] ELSE b[n - Len(a)]
    BY <1>2, <1>3, ConcatProperties
  <2> QED
    BY <1>2, <2>1, <2>2
<1>6. ASSUME NEW n \in 1 .. Len(s) - 1 PROVE (a \o b)[n] = s[Before(i, n)]
  <2>1. CASE n < i
    BY <1>1, <1>2, <1>5, <2>1 DEF Before
  <2>2. CASE n >= i
    <3> DEFINE r == n - (i - 1)
    <3>1. r \in 1 .. Len(s) - i /\ i + r = n + 1 /\ ~(n <= i - 1)
      BY <1>1, <2>2
    <3>2. (a \o b)[n] = b[r]
      BY <1>5, <3>1
    <3> HIDE DEF r
    <3>3. b[r] = s[n + 1]
      BY <1>3, <3>1
    <3> QED
      BY <1>1, <2>2, <3>2, <3>3 DEF Before
  <2>3. n < i \/ n >= i
    BY <1>1
  <2> QED
    BY <2>1, <2>2, <2>3
<1> QED
  BY <1>1, <1>4, <1>5, <1>6

\* Every entry that is left is one of before, and none that was removed.
LEMMA LeftEntries ==
  ASSUME KeyInv, RemoveDialog, NEW j \in Kinds, NEW n \in DOMAIN config'.entries[j]
  PROVE  LET was == IF j = dialog THEN Before(edit, n) ELSE n IN
         /\ was \in DOMAIN config.entries[j]
         /\ config'.entries[j][n] = config.entries[j][was]
         /\ ~(j = dialog /\ was = edit)
         /\ j = dialog => n \in Nat
<1> DEFINE old == config.entries[dialog]
           new == RemoveAt(old, edit)
<1>1. dialog \in Kinds /\ old \in Seq(Draft) /\ Len(old) \in Nat /\ DOMAIN old = 1 .. Len(old)
  BY EntriesAre DEF RemoveDialog, InDialog, KeyInv, DataOK
<1>2. edit \in 1 .. Len(old)
  BY <1>1 DEF RemoveDialog, KeyInv, DataOK, EditFits
<1>3. /\ new \in Seq(Draft) /\ DOMAIN new = 1 .. Len(old) - 1
      /\ \A i \in 1 .. Len(old) - 1 : new[i] = old[Before(edit, i)]
  BY <1>1, <1>2, RemovedIsList, RemovedIs
<1>4. config' = [config EXCEPT !.entries = [config.entries EXCEPT ![dialog] = new]]
  BY DEF RemoveDialog
<1> HIDE DEF new
<1>5. /\ config'.entries[dialog] = new
      /\ \A k \in Kinds \ {dialog} : config'.entries[k] = config.entries[k]
  BY <1>1, <1>3, <1>4, ListReplaced DEF KeyInv, DataOK
<1>6. CASE j # dialog
  BY <1>5, <1>6
<1>7. CASE j = dialog
  <2>1. n \in 1 .. Len(old) - 1 /\ config'.entries[j][n] = old[Before(edit, n)]
    BY <1>3, <1>5, <1>7
  <2>2. Before(edit, n) \in 1 .. Len(old) /\ Before(edit, n) # edit
    BY <1>1, <1>2, <2>1 DEF Before
  <2> QED
    BY <1>1, <1>7, <2>1, <2>2
<1> QED
  BY <1>6, <1>7

LEMMA RemoveDialogWishInv == ASSUME KeyInv, WishInv, RemoveDialog, DOMAIN engine = Fields
                             PROVE  WishInv'
<1> DEFINE gone == config.entries[dialog][edit].who
           Was(j, n) == IF j = dialog THEN Before(edit, n) ELSE n
<1>1. /\ dialog \in Kinds /\ Closed /\ edit \in DOMAIN config.entries[dialog] /\ edit \in Nat
      /\ wish' = [wish EXCEPT ![gone] = FALSE]
  BY EntriesAre DEF RemoveDialog, InDialog, KeyInv, DataOK, EditFits
<1>2. gone \in Who /\ wish \in [Who -> BOOLEAN]
  BY <1>1 DEF WishInv, WishesOK, Named
<1>3. ASSUME NEW j \in Kinds, NEW n \in DOMAIN config'.entries[j]
      PROVE  /\ Was(j, n) \in DOMAIN config.entries[j]
             /\ config'.entries[j][n] = config.entries[j][Was(j, n)]
             /\ config.entries[j][Was(j, n)].who # gone
             /\ j = dialog => n \in Nat
  <2>1. /\ Was(j, n) \in DOMAIN config.entries[j]
        /\ config'.entries[j][n] = config.entries[j][Was(j, n)]
        /\ ~(j = dialog /\ Was(j, n) = edit)
        /\ j = dialog => n \in Nat
    BY LeftEntries
  <2> QED
    BY <1>1, <2>1 DEF WishInv, OneEach
<1>4. wish' \in [Who -> BOOLEAN] /\ \A w \in Who \ {gone} : wish'[w] = wish[w]
  <2> HIDE DEF gone
  <2> QED
    BY <1>1, <1>2
<1>5. ASSUME NEW j, NEW n \in Nat, NEW i \in Nat, Was(j, n) = Was(j, i) PROVE n = i
  BY <1>1, <1>5 DEF Before
<1> HIDE DEF gone
<1>6. Named(config')
  BY <1>3 DEF Named, WishInv
<1>7. OneEach(config')
  <2> SUFFICES ASSUME NEW k \in Kinds, NEW j \in Kinds,
                      NEW i \in DOMAIN config'.entries[k], NEW n \in DOMAIN config'.entries[j],
                      config'.entries[k][i].who = config'.entries[j][n].who
               PROVE  k = j /\ i = n
    BY DEF OneEach
  <2>1. k = j /\ Was(k, i) = Was(j, n)
    <3>1. config.entries[k][Was(k, i)].who = config.entries[j][Was(j, n)].who
      BY <1>3
    <3> HIDE DEF Was
    <3> QED
      BY <1>3, <3>1 DEF WishInv, OneEach
  <2>2. CASE k = dialog
    BY <1>3, <1>5, <2>1, <2>2
  <2>3. CASE k # dialog
    BY <2>1, <2>3
  <2> QED
    BY <2>1, <2>2, <2>3
<1>8. Granted(config', wish')
  <2> SUFFICES ASSUME NEW j \in Kinds, NEW n \in DOMAIN config'.entries[j]
               PROVE  config'.entries[j][n].muted = wish'[config'.entries[j][n].who]
    BY DEF Granted
  <2> HIDE DEF Was
  <2>1. config.entries[j][Was(j, n)].who \in Who
        /\ config.entries[j][Was(j, n)].muted = wish[config.entries[j][Was(j, n)].who]
    BY <1>3 DEF WishInv, Named, Granted
  <2> QED
    BY <1>3, <1>4, <2>1
<1>9. Steers(engine', config')
  <2> DEFINE e == IF config'.entries["output"] = <<>>
                  THEN [engine EXCEPT !.monitoring = FALSE] ELSE engine
  <2>1. Restart(config', e)
    BY DEF RemoveDialog
  <2>2. e.running = engine.running /\ e.monitoring \in {FALSE, engine.monitoring}
    BY DEF Fields
  <2> HIDE DEF e
  <2>3. CASE engine.running
    <3>1. engine.monitoring \in BOOLEAN
      BY <2>3, RunningAgain DEF Steers, WishInv
    <3>2. engine' \in Started(config', e.monitoring) /\ e.monitoring \in BOOLEAN
      BY <2>1, <2>2, <2>3, <3>1 DEF Restart
    <3> QED
      BY <3>2, StartedSteers
  <2>4. CASE ~engine.running
    <3>1. engine' = e
      BY <2>1, <2>2, <2>4 DEF Restart
    <3> QED
      BY <2>2, <2>4, <3>1 DEF Steers
  <2> QED
    BY <2>3, <2>4
<1> QED
  BY <1>1, <1>4, <1>6, <1>7, <1>8, <1>9, ClosedFits DEF WishInv, WishesOK

LEMMA DialogsWishInv ==
  ASSUME KeyInv, WishInv, DOMAIN engine = Fields, Dialogs PROVE WishInv'
<1>1. CASE \E k \in Kinds : OpenAdd(k)
  BY <1>1, OpenAddWishInv
<1>2. CASE \E p \in Places(config.entries) : ClickMute(p[1], p[2]) \/ OpenConfigure(p[1], p[2])
  <2>1. PICK p \in Places(config.entries) :
            ClickMute(p[1], p[2]) \/ OpenConfigure(p[1], p[2])
    BY <1>2
  <2>2. PICK k \in Kinds : \E i \in DOMAIN config.entries[k] : p = <<k, i>>
    BY PlacesAre
  <2>3. PICK i \in DOMAIN config.entries[k] : p = <<k, i>>
    BY <2>2
  <2>4. ClickMute(k, i) \/ OpenConfigure(k, i)
    BY <2>1, <2>3
  <2> QED
    BY <2>4, ClickMuteWishInv, OpenConfigureWishInv
<1>3. CASE TickMuted
  BY <1>3, TickMutedWishInv
<1>4. CASE CancelDialog
  BY <1>4, ClosedFits, ListsKept DEF CancelDialog
<1>5. CASE SaveDialog
  BY <1>5, SaveDialogWishInv
<1>6. CASE RemoveDialog
  BY <1>6, RemoveDialogWishInv
<1> QED
  BY <1>1, <1>2, <1>3, <1>4, <1>5, <1>6 DEF Dialogs

-----------------------------------------------------------------------------
(* The settings.                                                            *)

\* What Save is about to make differs from the configuration in no mute, unless
\* the lists are given up.
LEMMA CandidateMutes ==
  ASSUME KeyInv, dialog = "settings", ~reset
  PROVE  /\ Candidate \in Configs /\ Candidate.exclusive = prefs.exclusive
         /\ \A k \in Kinds :
               /\ DOMAIN Candidate.entries[k] = DOMAIN config.entries[k]
               /\ \A i \in DOMAIN config.entries[k] :
                     /\ Candidate.entries[k][i].who = config.entries[k][i].who
                     /\ Candidate.entries[k][i].muted = config.entries[k][i].muted
<1> DEFINE Keyed(k) == [i \in DOMAIN config.entries[k] |->
                            [config.entries[k][i] EXCEPT !.key = prefs.keys[k][i]]]
           lists == [k \in Kinds |-> Keyed(k)]
<1>1. Candidate \in Configs /\ SameNames(config, Candidate)
  BY CandidateIs
<1>2. Candidate = [entries |-> lists, monitorKey |-> prefs.monitorKey,
                   exclusive |-> prefs.exclusive]
  BY DEF Candidate
<1>3. ASSUME NEW k \in Kinds, NEW i \in DOMAIN config.entries[k]
      PROVE  lists[k][i].muted = config.entries[k][i].muted
  <2> DEFINE r == config.entries[k][i]
             key == prefs.keys[k][i]
  <2>1. lists[k][i] = [r EXCEPT !.key = key]
    OBVIOUS
  <2>2. r \in Draft
    BY EntriesAre DEF KeyInv, DataOK
  <2> HIDE DEF lists, Keyed, r, key
  <2>3. lists[k][i].muted = r.muted
    BY <2>1, <2>2 DEF Draft
  <2> QED
    BY <2>3 DEF r
<1> HIDE DEF lists
<1>4. Candidate.entries = lists /\ Candidate.exclusive = prefs.exclusive
  BY <1>2
<1> QED
  BY <1>1, <1>3, <1>4 DEF SameNames

LEMMA SaveSettingsWishInv == ASSUME KeyInv, WishInv, SaveSettings PROVE WishInv'
<1>1. /\ dialog = "settings" /\ config' = Candidate /\ Closed
      /\ wish' = [w \in Who |-> w \in Present(Candidate.entries) /\ wish[w]]
  BY DEF SaveSettings, Saving, InSettings
<1>2. wish' \in [Who -> BOOLEAN] /\ wish \in [Who -> BOOLEAN]
  BY <1>1 DEF WishInv, WishesOK
<1>3. CASE reset
  <2>1. \A k \in Kinds : DOMAIN config'.entries[k] = {}
    <3>1. \A k \in Kinds : config'.entries[k] = <<>>
      BY <1>1, <1>3, CandidateIs
    <3> QED
      BY <3>1
  <2>2. Named(config') /\ OneEach(config') /\ Granted(config', wish')
    BY <2>1 DEF Named, OneEach, Granted
  <2>3. Steers(engine', config')
    BY <1>3, OffSteers DEF SaveSettings
  <2> QED
    BY <1>1, <1>2, <2>2, <2>3, ClosedFits DEF WishInv, WishesOK
<1>4. CASE ~reset
  <2>1. /\ config' \in Configs /\ config'.exclusive = prefs.exclusive
        /\ \A k \in Kinds :
              /\ DOMAIN config'.entries[k] = DOMAIN config.entries[k]
              /\ \A i \in DOMAIN config.entries[k] :
                    /\ config'.entries[k][i].who = config.entries[k][i].who
                    /\ config'.entries[k][i].muted = config.entries[k][i].muted
    BY <1>1, <1>4, CandidateMutes
  <2>2. Named(config')
    BY <2>1 DEF Named, WishInv
  <2>3. OneEach(config')
    BY <2>1 DEF OneEach, WishInv
  <2>4. ASSUME NEW k \in Kinds, NEW i \in DOMAIN config'.entries[k]
        PROVE  config'.entries[k][i].muted = wish'[config'.entries[k][i].who]
    <3> DEFINE w == config'.entries[k][i].who
    <3>1. w \in Who /\ config'.entries[k][i].muted = wish[w]
      BY <2>1, <2>2 DEF WishInv, Named, Granted
    <3>2. w \in Present(Candidate.entries)
      <4>1. <<k, i>> \in Places(Candidate.entries)
        BY <1>1, PlacesAre
      <4> QED
        BY <1>1, <4>1 DEF Present
    <3> HIDE DEF w
    <3>3. wish'[w] = (w \in Present(Candidate.entries) /\ wish[w])
      BY <1>1, <3>1
    <3>4. wish'[w] = wish[w]
      BY <1>2, <3>1, <3>2, <3>3
    <3> QED
      BY <3>1, <3>4 DEF w
  <2>5. Granted(config', wish')
    BY <2>4 DEF Granted
  <2>6. Steers(engine', config')
    <3>1. CASE prefs.exclusive # config.exclusive /\ engine.running
      <4>1. engine.monitoring \in BOOLEAN
        BY <3>1, RunningAgain DEF Steers, WishInv
      <4>2. engine' \in Started(config', engine.monitoring)
        BY <1>1, <1>4, <3>1 DEF SaveSettings
      <4> QED
        BY <4>1, <4>2, StartedSteers
    <3>2. CASE ~engine.running
      BY <1>4, <3>2 DEF SaveSettings, Steers
    <3>3. CASE prefs.exclusive = config.exclusive
      <4>1. engine' = engine
        BY <1>4, <3>3 DEF SaveSettings
      <4>2. Mutes(config') = Mutes(config)
        BY <2>1 DEF Mutes
      <4>3. config'.entries["output"] = <<>> <=> config.entries["output"] = <<>>
        BY <2>1, EmptyAlike DEF KeyInv, DataOK, Kinds
      <4> QED
        BY <2>1, <3>3, <4>1, <4>2, <4>3, SteersAlike DEF WishInv
    <3> QED
      BY <3>1, <3>2, <3>3
  <2> QED
    BY <1>1, <1>2, <2>2, <2>3, <2>5, <2>6, ClosedFits DEF WishInv, WishesOK
<1> QED
  BY <1>3, <1>4

LEMMA SettingsWishInv == ASSUME KeyInv, WishInv, Settings PROVE WishInv'
<1>1. CASE OpenSettings
  <2>1. DraftFits' /\ draftWish' \in BOOLEAN
    BY <1>1 DEF OpenSettings, DraftFits, Kinds, WishInv, WishesOK
  <2> QED
    BY <1>1, <2>1, ListsKept DEF OpenSettings
<1>2. CASE CancelSettings
  BY <1>2, ClosedFits, ListsKept DEF CancelSettings
<1>3. CASE OnlySettings
  BY <1>3, WishesKept DEF OnlySettings, WishInv
<1>4. CASE SaveRefused \/ SaveTakenBack
  BY <1>4, WishesKept DEF SaveRefused, SaveTakenBack, WishInv
<1>5. CASE SaveSettings
  BY <1>5, SaveSettingsWishInv
<1> QED
  BY <1>1, <1>2, <1>3, <1>4, <1>5 DEF Settings, TickExclusive, RestoreDefaults, SetKeybind,
     ClearKeybind, AcceptKey, CancelCapture

-----------------------------------------------------------------------------
LEMMA NextKeepsWishInv == TrayInv /\ KeyInv /\ WishInv /\ [Next]_vars => WishInv'
<1> SUFFICES ASSUME TrayInv, KeyInv, WishInv, [Next]_vars PROVE WishInv'
  OBVIOUS
<1>1. CASE UNCHANGED vars \/ Show
  BY <1>1, WishesKept DEF vars, Show, WishInv
<1>2. CASE \E h \in BOOLEAN : Launch(h)
  BY <1>2, LaunchSteers, WishesKept DEF Launch
<1>3. CASE Quit
  <2>1. Steers(engine', config') /\ UNCHANGED <<config, wish>> /\ Closed
    BY <1>3, OffSteers DEF Quit
  <2> QED
    BY <2>1, ClosedFits DEF WishInv, WishesOK
<1>4. CASE Hide
  BY <1>4, InTraySteers, WishesKept DEF Hide, WishInv
<1>5. CASE EngineFails
  BY <1>5, OffSteers, WishesKept DEF EngineFails
<1>6. CASE SyncMetering
  BY <1>6, StartedSteers, WishesKept DEF SyncMetering
<1>7. CASE ClickToggle
  BY <1>7, ToggleSteers, WishesKept DEF ClickToggle, WishInv
<1>8. CASE \E b \in bindings : PressHotkey(b)
  BY <1>8, PressWishInv
<1>9. CASE Dialogs
  BY <1>9, DialogsWishInv DEF TrayInv
<1>10. CASE Settings
  BY <1>10, SettingsWishInv
<1> QED
  BY <1>1, <1>2, <1>3, <1>4, <1>5, <1>6, <1>7, <1>8, <1>9, <1>10 DEF Next, Program

\* Muted or not, as the user last said it: by a shortcut, on the dashboard, or in a
\* dialog behind which a shortcut was pressed (FlipMute, the drafts of MixerWindow,
\* MixerWindow::restart), in the configuration and in a running engine.
THEOREM MutesAreObeyed == Spec => []UserIsObeyed
<1>1. ASSUME KeyInv, WishInv PROVE UserIsObeyed
  <2>1. ASSUME NEW p \in Places(config.entries)
        PROVE  At(config, p).muted = wish[At(config, p).who]
    <3>1. PICK k \in Kinds : \E i \in DOMAIN config.entries[k] : p = <<k, i>>
      BY PlacesAre
    <3>2. PICK i \in DOMAIN config.entries[k] : p = <<k, i>>
      BY <3>1
    <3>3. At(config, p) = config.entries[k][i]
      BY <3>2 DEF At
    <3> QED
      BY <1>1, <3>3 DEF WishInv, Granted
  <2>2. ASSUME engine.running
        PROVE  /\ engine = Running(config, engine.monitoring)
               /\ engine.monitoring => config.entries["output"] # <<>>
    BY <1>1, <2>2, RunningAgain DEF WishInv, Steers
  <2> QED
    BY <2>1, <2>2 DEF UserIsObeyed
<1>2. Spec => []TrayInv
  BY InitTrayInv, NextKeepsTrayInv, PTL DEF Spec
<1>3. Spec => []WishInv
  BY <1>2, SpecKeepsKeyInv, InitWishInv, NextKeepsWishInv, PTL DEF Spec
<1> QED
  BY <1>1, <1>3, SpecKeepsKeyInv, PTL

=============================================================================
