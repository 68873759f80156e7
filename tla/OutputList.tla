------------------------------ MODULE OutputList ------------------------------
(***************************************************************************)
(* The ordered list of destinations: what the output dialog lets in, what   *)
(* the running streams write back into it, and what the configuration file  *)
(* gives back at the next launch.                                           *)
(*                                                                          *)
(* An endpoint is known by its id.  A driver that is reinstalled gives the  *)
(* same device another id: to the model one endpoint disappears and another *)
(* of the same name appears.  Labels, faders and shortcuts stay with their  *)
(* entry of the list and are left out.                                      *)
(***************************************************************************)
EXTENDS Naturals, FiniteSets, SequencesExt

CONSTANTS Endpoints,    \* ids of render endpoints
          Name,         \* the friendly name of each
          PartOf,       \* <<a, b>>: name a contains name b, and is another name
          NoId, NoName, \* the empty strings
          Presets,      \* lists of outputs the file may hold at first
          Twins,        \* two endpoints of one name may be active together
          MaxOutputs    \* kMaxOutputs

Names == {Name[e] : e \in Endpoints} \cup UNION {{p[1], p[2]} : p \in PartOf}
Nothing == [id |-> NoId, name |-> NoName]
Selection == [id : Endpoints \cup {NoId}, name : Names \cup {NoName}]

Fits(name, part) == name = part \/ <<name, part>> \in PartOf

\* An id is saved together with the name of its device, or with a part of it.
OwnId(sel) == sel.id # NoId => Fits(Name[sel.id], sel.name)

ASSUME OutputListAssumption ==
    /\ NoId \notin Endpoints /\ NoName \notin Names
    /\ Twins \in BOOLEAN /\ MaxOutputs \in Nat \ {0}
    /\ Presets \subseteq Seq(Selection)
    /\ \A l \in Presets : \A i \in DOMAIN l : OwnId(l[i])

VARIABLES
    present,    \* the active endpoints
    up,         \* the program runs
    outputs,    \* config.output and config.additionalOutputs
    file,       \* the outputs of config.json
    engine,     \* "off", "meters" (running, not monitoring) or "forwarding"
    given,      \* the engine's own copy of the list
    streams,    \* resolvedId() of each Running render stream, else NoId
    dialog,     \* 0: none, i: output i is edited, MaxOutputs + 1: one is added
    draft,      \* outputDraft_
    seen        \* playback_, the picker's snapshot

list == <<outputs, file>>
audio == <<engine, given, streams>>
picker == <<dialog, draft, seen>>
vars == <<present, up, list, audio, picker>>

------------------------------------------------------------------------------
(* Matching.                                                                *)

\* sameEndpointSelection
SameSelection(a, b) ==
    IF a.id # NoId /\ b.id # NoId THEN a.id = b.id
    ELSE /\ a.name # NoName /\ b.name # NoName
         /\ Fits(a.name, b.name) \/ Fits(b.name, a.name)

\* decideDeviceNameMatch: the whole name before a part of it, and only if unique.
NameMatches(name, active) ==
    LET exact == {e \in active : Name[e] = name} IN
    IF exact # {} THEN exact ELSE {e \in active : Fits(Name[e], name)}
MatchByName(name, active) ==
    IF Cardinality(NameMatches(name, active)) = 1
    THEN CHOOSE e \in NameMatches(name, active) : TRUE ELSE NoId

\* DeviceManager::resolve, and activeEndpointIdFor in the dialog.
Resolved(sel, active) ==
    IF sel.id \in active THEN sel.id ELSE MatchByName(sel.name, active)

\* Mutant: stale ids are taken for different endpoints.
SameIdOnly(a, b, active) == SameSelection(a, b)
\* outputSelectionsCollide
Collide(a, b, active) ==
    \/ SameSelection(a, b)
    \/ Resolved(a, active) # NoId /\ Resolved(a, active) = Resolved(b, active)

------------------------------------------------------------------------------
(* The list.                                                                *)

\* Config::addOutput
Added(l, c) ==
    IF c = Nothing \/ Len(l) >= MaxOutputs \/ \E i \in DOMAIN l : SameSelection(c, l[i])
    THEN l ELSE Append(l, c)

\* Config::removeOutput: without the first one the next is promoted.
Removed(l, i) == RemoveAt(l, i)

\* Config::fromJson: the first entry is taken as it is, the others through addOutput.
FromJson(saved) ==
    LET kept[n \in 0 .. Len(saved)] ==
            CASE n = 0 -> <<>>
              [] n = 1 -> <<saved[1]>>
              [] OTHER -> Added(kept[n - 1], saved[n])
    IN kept[Len(saved)]

\* AudioEngine::updateConfigFromRuntime
Refreshed(l) ==
    [i \in DOMAIN l |-> IF i \in DOMAIN streams /\ streams[i] # NoId
                        THEN [l[i] EXCEPT !.id = streams[i]] ELSE l[i]]

\* DeviceManager::list: active endpoints, with the names they have now.
Listed == present
\* MixerWindow::refreshDevices: without an enumerator the snapshot stays.
RefreshDevices == seen' \in {Listed, seen}

NoStreams(l) == [i \in DOMAIN l |-> NoId]

\* AudioEngine::start with the list l
Run(how, l) == engine' = how /\ given' = l /\ streams' = NoStreams(l)

\* Mutant: the engine is left as it is.
RestartForgotten(l) == UNCHANGED audio
\* MixerWindow::restart
Restart(l) == IF engine = "off" THEN UNCHANGED audio ELSE Run(engine, l)

------------------------------------------------------------------------------
Init ==
    /\ present \in SUBSET Endpoints
    /\ Twins \/ \A e, f \in present : Name[e] = Name[f] => e = f
    /\ up = FALSE /\ outputs = <<>> /\ file \in Presets
    /\ engine = "off" /\ given = <<>> /\ streams = <<>>
    /\ dialog = 0 /\ draft = Nothing /\ seen = {}

\* wWinMain: load, then start with an output, or with meters, or not at all.
Launch ==
    /\ ~up /\ up' = TRUE
    /\ outputs' = FromJson(file)
    /\ IF outputs' # <<>> THEN Run("forwarding", outputs') \/ Run("off", <<>>)
       ELSE \E how \in {"off", "meters"} : Run(how, <<>>)
    /\ RefreshDevices
    /\ UNCHANGED <<present, file, dialog, draft>>

Stopped == engine' = "off" /\ given' = <<>> /\ streams' = <<>>
Ended == up' = FALSE /\ outputs' = <<>> /\ Stopped /\ dialog' = 0 /\ draft' = Nothing /\ seen' = {}

\* The end of wWinMain: the last save comes before the engine is stopped.
Exit == up /\ file' = Refreshed(outputs) /\ Ended /\ UNCHANGED present

Kill == up /\ Ended /\ UNCHANGED <<present, file>>

\* saveConfigIfDirty: the runtime ids are looked at, and the file is written or not.
Save ==
    /\ up /\ engine # "off"
    /\ outputs' = Refreshed(outputs) /\ file' \in {file, outputs'}
    /\ UNCHANGED <<present, up, audio, picker>>

\* MixerWindow::toggleMonitoring, from the dashboard or from a shortcut.
Toggle ==
    /\ up /\ outputs # <<>>
    /\ CASE engine = "off" -> Run("forwarding", outputs)
         [] engine = "meters" -> Run("forwarding", given)
         [] engine = "forwarding" -> Run("meters", given) \/ Stopped
    /\ UNCHANGED <<present, up, list, picker>>

\* The meters of a window that is shown, or hidden.
Meters ==
    /\ up
    /\ \/ engine = "off" /\ Run("meters", outputs)
       \/ engine = "meters" /\ Stopped
    /\ UNCHANGED <<present, up, list, picker>>

------------------------------------------------------------------------------
(* The render streams and the devices.                                      *)

Open(i) ==
    /\ engine = "forwarding" /\ streams[i] = NoId
    /\ Resolved(given[i], present) # NoId
    /\ streams' = [streams EXCEPT ![i] = Resolved(given[i], present)]
    /\ UNCHANGED <<present, up, list, engine, given, picker>>

Fail(i) ==
    /\ streams[i] # NoId
    /\ streams' = [streams EXCEPT ![i] = NoId]
    /\ UNCHANGED <<present, up, list, engine, given, picker>>

Plug(e) ==
    /\ e \notin present
    /\ Twins \/ \A f \in present : Name[f] # Name[e]
    /\ present' = present \cup {e}
    /\ UNCHANGED <<up, list, audio, picker>>

Unplug(e) ==
    /\ e \in present /\ present' = present \ {e}
    /\ UNCHANGED <<up, list, audio, picker>>

------------------------------------------------------------------------------
(* The output dialog.                                                       *)

Adding == dialog = MaxOutputs + 1
Close == dialog' = 0 /\ draft' = Nothing

OpenAdd ==
    /\ up /\ dialog = 0 /\ Len(outputs) < MaxOutputs
    /\ dialog' = MaxOutputs + 1 /\ draft' = Nothing /\ RefreshDevices
    /\ UNCHANGED <<present, up, list, audio>>

OpenConfigure(i) ==
    /\ up /\ dialog = 0
    /\ dialog' = i /\ draft' = outputs[i] /\ RefreshDevices
    /\ UNCHANGED <<present, up, list, audio>>

RefreshChoices ==
    /\ dialog # 0 /\ RefreshDevices
    /\ UNCHANGED <<present, up, list, audio, dialog, draft>>

Others == {outputs[i] : i \in DOMAIN outputs \ {dialog}}

\* A device another output already sends to is disabled.
Pick(e) ==
    /\ dialog # 0
    /\ \A other \in Others : ~Collide([id |-> e, name |-> Name[e]], other, seen)
    /\ draft' = [id |-> e, name |-> Name[e]]
    /\ UNCHANGED <<present, up, list, audio, dialog, seen>>

SaveDialog ==
    /\ dialog # 0 /\ draft # Nothing
    /\ \A other \in Others : ~Collide(draft, other, seen)
    /\ IF Adding THEN Len(outputs) < MaxOutputs /\ outputs' = Added(outputs, draft)
       ELSE outputs' = [outputs EXCEPT ![dialog] = draft]
    /\ Restart(outputs') /\ RefreshDevices /\ Close
    /\ UNCHANGED <<present, up, file>>

\* Without an output monitoring is switched off before the restart.
RemoveDialog ==
    /\ dialog \in DOMAIN outputs
    /\ outputs' = Removed(outputs, dialog)
    /\ IF outputs' = <<>> /\ engine # "off" THEN Run("meters", <<>>) ELSE Restart(outputs')
    /\ RefreshDevices /\ Close
    /\ UNCHANGED <<present, up, file>>

Cancel == dialog # 0 /\ Close /\ UNCHANGED <<present, up, list, audio, seen>>

Next ==
    \/ Launch \/ Exit \/ Kill \/ Save \/ Toggle \/ Meters
    \/ \E i \in DOMAIN streams : Open(i) \/ Fail(i)
    \/ \E e \in Endpoints : Plug(e) \/ Unplug(e)
    \/ OpenAdd \/ RefreshChoices \/ SaveDialog \/ RemoveDialog \/ Cancel
    \/ \E i \in DOMAIN outputs : OpenConfigure(i)
    \/ \E e \in seen : Pick(e)

Spec == Init /\ [][Next]_vars

------------------------------------------------------------------------------
(* Properties.                                                              *)

TypeOK ==
    /\ present \subseteq Endpoints /\ seen \subseteq Endpoints /\ up \in BOOLEAN
    /\ outputs \in Seq(Selection) /\ file \in Seq(Selection) /\ given \in Seq(Selection)
    /\ Len(outputs) <= MaxOutputs
    /\ engine \in {"off", "meters", "forwarding"}
    /\ streams \in Seq(Endpoints \cup {NoId}) /\ Len(streams) = Len(given)
    /\ dialog \in 0 .. MaxOutputs + 1 /\ draft \in Selection

\* No two outputs have been given, or have found, the same endpoint.
OutputsDistinct ==
    \A i, j \in DOMAIN outputs :
        i # j => outputs[i].id = NoId \/ outputs[i].id # outputs[j].id

\* That rests on names: no two active endpoints answer to one name (twins do, and
\* so may two devices to a part of their names in an older file), and two entries
\* of the first file are for different devices unless it is plain that they are not.
NoDeviceFitsBoth(a, b) ==
    ~\E e \in Endpoints : Fits(Name[e], a.name) /\ Fits(Name[e], b.name)
Unambiguous ==
    /\ ~Twins
    /\ \A n \in Names : \A e, f \in Endpoints :
           Fits(Name[e], n) /\ Fits(Name[f], n) => Name[e] = Name[f]
    /\ \A l \in Presets : \A i, j \in DOMAIN l :
           i # j => SameSelection(l[i], l[j]) \/ NoDeviceFitsBoth(l[i], l[j])

\* An entry's id is the id of a device of the entry's own name: nothing that a
\* stream finds out is written into another entry.
IdOfOwnDevice == \A i \in DOMAIN outputs : OwnId(outputs[i])

==============================================================================
