---------------------------- MODULE ConfigStore ----------------------------
(***************************************************************************)
(* The configuration file and the window thread that saves it: Config::load *)
(* and Config::save one file operation at a time, saveConfigIfDirty with its *)
(* three timers, and every path of the window procedure and of the frame    *)
(* loop that flushes.  File operations fail, the process is killed and the  *)
(* machine loses power between any two of them.                             *)
(*                                                                          *)
(* A configuration is a number: 0 stands for Config::defaults(), 1 for the  *)
(* one the user had before, and every edit makes a new one.                 *)
(***************************************************************************)
EXTENDS Naturals

CONSTANTS Interval,     \* 1500 ms, in ticks
          MaxEdits,     \* bound: changes of the configuration
          MaxFaults,    \* bound: file operations that fail
          MaxCrashes,   \* bound: kills and power failures
          MaxTampers    \* bound: foreign edits between two launches

ASSUME ConfigStoreAssumption ==
    /\ Interval \in Nat \ {0} /\ MaxEdits \in Nat /\ MaxFaults \in Nat
    /\ MaxCrashes \in Nat /\ MaxTampers \in Nat

VARIABLES
    disk, tmp,          \* config.json and config.json.tmp
    corruptBak, v1Bak,  \* config.json.corrupt.bak and config.json.v1.bak
    pc,                 \* where the window thread is
    caller,             \* the path that called saveConfigIfDirty, while it saves
    older,              \* this save has found an older backup in place (history)
    mem,                \* app.config
    loaded,             \* what load() returned (history)
    dirty,              \* app.configDirty
    failed,             \* app.saveFailureLogged
    sinceSave, sinceAttempt, sinceSync,  \* now - lastSave, ... in ticks
    visible, occluded,  \* app.visible, app.occluded
    running, found,     \* engine.running(), and a stream has resolved a new id
    edits, faults, crashes, tampers

files == <<disk, tmp, corruptBak, v1Bak>>
timers == <<sinceSave, sinceAttempt, sinceSync>>
window == <<visible, occluded>>
engine == <<running, found>>
budget == <<faults, crashes, tampers>>
vars == <<files, pc, caller, older, mem, loaded, dirty, failed, timers, window,
          engine, edits, budget>>

------------------------------------------------------------------------------
(* Files.  A "torn" file is one whose writing was cut short; a file that is  *)
(* not flushed is still in the system's cache and does not survive a power   *)
(* failure.                                                                  *)

Kinds == {"none", "torn", "corrupt", "legacy", "config"}
File(kind, version, flushed) == [kind |-> kind, version |-> version, flushed |-> flushed]
None == File("none", 0, TRUE)
Torn == File("torn", 0, TRUE)
Corrupt(n) == File("corrupt", n, TRUE)
Legacy == File("legacy", 1, TRUE)
Config(version, flushed) == File("config", version, flushed)
Flushed(f) == File(f.kind, f.version, TRUE)
FileSet == [kind : Kinds, version : Nat, flushed : BOOLEAN]

\* Config::load of a readable file, with JsonValue::parse and fromJson.
Parse(f) == IF f.kind \in {"config", "legacy"} THEN f.version ELSE 0

\* Where save() puts a file it is about to replace, if anywhere.
BackupOf(f) == IF f.kind \in {"corrupt", "torn"} THEN "corrupt"
               ELSE IF f.kind = "legacy" THEN "v1" ELSE "no"
Backup(which) == IF which = "corrupt" THEN corruptBak ELSE v1Bak
SetBackup(which, f) ==
    /\ corruptBak' = IF which = "corrupt" THEN f ELSE corruptBak
    /\ v1Bak' = IF which = "v1" THEN f ELSE v1Bak

Fault == faults < MaxFaults /\ faults' = faults + 1
NoFault == UNCHANGED faults

------------------------------------------------------------------------------
Idle == pc = "idle"
Saving == pc \in {"probe", "backup", "copying", "create", "write", "flush", "move", "remove"}
Up == pc # "off"

Init ==
    /\ disk \in {None, Corrupt(0), Legacy, Config(1, TRUE)}
    /\ tmp = None /\ corruptBak = None /\ v1Bak = None
    /\ pc = "off" /\ caller = "frame" /\ older = FALSE
    /\ mem = 0 /\ loaded = 0 /\ dirty = FALSE /\ failed = FALSE
    /\ sinceSave = 0 /\ sinceAttempt = Interval /\ sinceSync = 0
    /\ visible = FALSE /\ occluded = FALSE
    /\ running = FALSE /\ found = FALSE
    /\ edits = 0 /\ faults = 0 /\ crashes = 0 /\ tampers = 0

\* wWinMain up to its loop.  An unreadable file gives the defaults too.
Launch ==
    /\ pc = "off"
    /\ \/ mem' = Parse(disk) /\ NoFault
       \/ mem' = 0 /\ Fault
    /\ loaded' = mem'
    /\ pc' = "idle" /\ dirty' = FALSE /\ failed' = FALSE
    /\ sinceSave' = 0 /\ sinceAttempt' = Interval /\ sinceSync' = 0
    /\ visible' \in BOOLEAN /\ occluded' = FALSE
    /\ running' \in BOOLEAN /\ found' = FALSE
    /\ UNCHANGED <<files, caller, older, edits, crashes, tampers>>

\* What the path that asked for the save does once it is over.
Return(who) ==
    /\ pc' = IF who = "exit" THEN "closing" ELSE "idle"
    /\ visible' = (visible /\ who # "hide")
    /\ caller' = "frame" /\ older' = FALSE

\* The engine's endpoint ids are looked at on a forced save, else every Interval.
SyncDue(force) == running /\ (force \/ sinceSync >= Interval)
\* Mutants: a forced flush is coalesced like any other; after one failure only
\* a success lets the next attempt through.
CoalescedToo(force) == sinceSave < Interval
AfterFailure == failed
Coalesced(force) == ~force /\ sinceSave < Interval
TooSoon == failed /\ sinceAttempt < Interval

\* saveConfigIfDirty(app, force), after "who" has changed the configuration
\* ("edit") or only said that it has ("mark": starting or stopping to monitor).
SaveIfDirty(force, who, what) ==
    LET learnt == SyncDue(force) /\ found
        changed == learnt \/ what = "edit" IN
    /\ edits' = IF changed THEN edits + 1 ELSE edits
    /\ mem' = IF changed THEN edits + 2 ELSE mem
    /\ dirty' = (dirty \/ learnt \/ what # "none")
    /\ found' = (found /\ ~learnt)
    /\ sinceSync' = IF SyncDue(force) THEN 0 ELSE sinceSync
    /\ IF dirty' /\ ~Coalesced(force) /\ ~TooSoon
          THEN /\ pc' = "probe" /\ caller' = who /\ sinceAttempt' = 0
               /\ UNCHANGED <<visible, older>>
          ELSE Return(who) /\ UNCHANGED sinceAttempt
    /\ UNCHANGED <<files, loaded, failed, sinceSave, running, budget>>

MayEdit == edits + (IF found THEN 1 ELSE 0) < MaxEdits
Whats == {"none", "mark"} \cup (IF MayEdit THEN {"edit"} ELSE {})

\* One frame: MixerWindow::draw, endFrame, then the coalesced save.
Frame ==
    /\ Idle /\ visible /\ ~occluded
    /\ occluded' \in BOOLEAN
    /\ \E what \in Whats : SaveIfDirty(FALSE, "frame", what)

\* WM_HOTKEY, in the tray too.
Hotkey ==
    /\ Idle
    /\ \E what \in Whats \ {"none"} : SaveIfDirty(TRUE, "hotkey", what)
    /\ UNCHANGED occluded

\* hideWindow: minimising, closing to the tray, or a renderer that has failed.
Hide == Idle /\ visible /\ SaveIfDirty(TRUE, "hide", "none") /\ occluded' = FALSE

\* The message loop has ended.
Exit == Idle /\ SaveIfDirty(TRUE, "exit", "none") /\ UNCHANGED occluded

\* engine.stop() and the rest of wWinMain: nothing of the process is left.
Gone ==
    /\ pc' = "off" /\ mem' = 0 /\ loaded' = 0 /\ dirty' = FALSE /\ failed' = FALSE
    /\ caller' = "frame" /\ older' = FALSE /\ sinceSave' = 0 /\ sinceAttempt' = Interval /\ sinceSync' = 0
    /\ visible' = FALSE /\ occluded' = FALSE /\ running' = FALSE /\ found' = FALSE
Close == pc = "closing" /\ Gone /\ UNCHANGED <<files, edits, budget>>

------------------------------------------------------------------------------
(* Config::save.                                                            *)

same == <<mem, loaded, timers, window, engine, edits, crashes, tampers, caller>>
kept == <<same, older>>

\* Mutant: the flag is cleared whatever save() has returned.
ForgetsOnFailure ==
    /\ failed' = TRUE /\ dirty' = FALSE /\ Return(caller)
    /\ UNCHANGED <<mem, loaded, timers, occluded, engine, edits, crashes, tampers>>

\* save() has returned false.
Fails ==
    /\ failed' = TRUE /\ Return(caller)
    /\ UNCHANGED <<mem, loaded, dirty, timers, occluded, engine, edits, crashes, tampers>>

\* GetFileAttributesW, then readWholeFile of a file that is there.
Probe ==
    /\ pc = "probe"
    /\ \/ /\ NoFault
          /\ pc' = IF BackupOf(disk) = "no" THEN "create" ELSE "backup"
          /\ UNCHANGED <<failed, dirty, kept>>
       \/ Fault /\ Fails
    /\ UNCHANGED files

\* Mutant: a backup that cannot be made does not stop the save.
CopyAtBest ==
    LET which == BackupOf(disk) IN
    /\ pc = "backup"
    /\ \/ /\ Backup(which).kind # "none"
          /\ NoFault /\ pc' = "create" /\ older' = TRUE
          /\ UNCHANGED <<files, failed, dirty, same>>
       \/ /\ Backup(which).kind = "none"
          /\ NoFault /\ SetBackup(which, Torn) /\ pc' = "copying"
          /\ UNCHANGED <<disk, tmp, failed, dirty, kept>>
       \/ Fault /\ pc' = "create" /\ UNCHANGED <<files, failed, dirty, kept>>

\* CopyFileW with bFailIfExists: an older backup is left alone.
StartCopy ==
    LET which == BackupOf(disk) IN
    /\ pc = "backup"
    /\ \/ /\ Backup(which).kind # "none"
          /\ NoFault /\ pc' = "create" /\ older' = TRUE
          /\ UNCHANGED <<files, failed, dirty, same>>
       \/ /\ Backup(which).kind = "none"
          /\ NoFault /\ SetBackup(which, Torn) /\ pc' = "copying"
          /\ UNCHANGED <<disk, tmp, failed, dirty, kept>>
       \/ Fault /\ Fails /\ UNCHANGED files

\* The copy is complete, or has failed and left nothing.  CopyFileW does not flush.
EndCopy ==
    LET which == BackupOf(disk) IN
    /\ pc = "copying"
    /\ \/ /\ NoFault /\ SetBackup(which, File(disk.kind, disk.version, FALSE))
          /\ pc' = "create" /\ UNCHANGED <<failed, dirty, kept>>
       \/ Fault /\ SetBackup(which, None) /\ Fails
    /\ UNCHANGED <<disk, tmp>>

\* CreateFileW(CREATE_ALWAYS): a temporary file left by a crash is truncated.
CreateTemp ==
    /\ pc = "create"
    /\ \/ NoFault /\ tmp' = Torn /\ pc' = "write" /\ UNCHANGED <<failed, dirty, kept>>
       \/ Fault /\ Fails /\ UNCHANGED tmp
    /\ UNCHANGED <<disk, corruptBak, v1Bak>>

\* Mutant: a short write is taken for a whole one.
ShortWriteUnseen ==
    /\ pc = "write"
    /\ pc' = "flush"
    /\ \/ NoFault /\ tmp' = Config(mem, FALSE)
       \/ Fault /\ UNCHANGED tmp
    /\ UNCHANGED <<disk, corruptBak, v1Bak, failed, dirty, kept>>

\* WriteFile; a short write is a failure too.
WriteTemp ==
    /\ pc = "write"
    /\ \/ NoFault /\ tmp' = Config(mem, FALSE) /\ pc' = "flush"
       \/ Fault /\ pc' = "remove" /\ UNCHANGED tmp
    /\ UNCHANGED <<disk, corruptBak, v1Bak, failed, dirty, kept>>

\* FlushFileBuffers and CloseHandle.
FlushTemp ==
    /\ pc = "flush"
    /\ \/ NoFault /\ tmp' = Flushed(tmp) /\ pc' = "move"
       \/ Fault /\ pc' = "remove" /\ UNCHANGED tmp
    /\ UNCHANGED <<disk, corruptBak, v1Bak, failed, dirty, kept>>

\* MoveFileExW(MOVEFILE_REPLACE_EXISTING | MOVEFILE_WRITE_THROUGH), and what
\* saveConfigIfDirty does when save() has returned true.
MoveTemp ==
    /\ pc = "move"
    /\ \/ /\ NoFault /\ disk' = tmp /\ tmp' = None
          /\ dirty' = FALSE /\ failed' = FALSE /\ sinceSave' = sinceAttempt
          /\ Return(caller)
          /\ UNCHANGED <<mem, loaded, sinceAttempt, sinceSync, occluded, engine, edits,
                         crashes, tampers>>
       \/ /\ Fault /\ pc' = "remove" /\ UNCHANGED <<disk, tmp, failed, dirty, kept>>
    /\ UNCHANGED <<corruptBak, v1Bak>>

\* removeTempFile: its own failure is only logged.
RemoveTemp ==
    /\ pc = "remove"
    /\ \/ NoFault /\ tmp' = None
       \/ Fault /\ UNCHANGED tmp
    /\ Fails
    /\ UNCHANGED <<disk, corruptBak, v1Bak>>

SaveStep == \/ Probe \/ StartCopy \/ EndCopy \/ CreateTemp \/ WriteTemp \/ FlushTemp
            \/ MoveTemp \/ RemoveTemp

------------------------------------------------------------------------------
(* The rest of the program and of the world.                                *)

\* showWindow, when the renderer can be created.
Show == /\ Idle /\ visible' = TRUE /\ occluded' = FALSE
        /\ UNCHANGED <<files, pc, caller, older, mem, loaded, dirty, failed, timers, engine, edits, budget>>

\* The poll of an occluded window finds that it can be seen again.
Unocclude == /\ Idle /\ visible /\ occluded /\ occluded' = FALSE
             /\ UNCHANGED <<files, pc, caller, older, mem, loaded, dirty, failed, timers, visible, engine,
                            edits, budget>>

\* The engine is started or stopped: what a stream had found goes with it.
RunEngine == /\ Idle /\ running' = ~running /\ found' = FALSE
             /\ UNCHANGED <<files, pc, caller, older, mem, loaded, dirty, failed, timers, window, edits,
                            budget>>

\* A running stream has resolved its name to another endpoint id.
Resolve == /\ Up /\ running /\ MayEdit /\ found' = TRUE
           /\ UNCHANGED <<files, pc, caller, older, mem, loaded, dirty, failed, timers, window, running,
                          edits, budget>>

Older(t) == IF t < Interval THEN t + 1 ELSE t
Tick == /\ Up
        /\ sinceSave' = Older(sinceSave) /\ sinceAttempt' = Older(sinceAttempt)
        /\ sinceSync' = Older(sinceSync)
        /\ UNCHANGED <<files, pc, caller, older, mem, loaded, dirty, failed, window, engine, edits, budget>>

\* The process is killed.
Kill == /\ Up /\ crashes < MaxCrashes /\ crashes' = crashes + 1 /\ Gone
        /\ UNCHANGED <<files, edits, faults, tampers>>

\* A power failure keeps of each unflushed file as much as it likes.
AfterPowerLoss(f) == IF f.flushed THEN {f} ELSE {Flushed(f), Torn}
PowerLoss == /\ crashes < MaxCrashes /\ crashes' = crashes + 1 /\ Gone
             /\ disk' \in AfterPowerLoss(disk) /\ tmp' \in AfterPowerLoss(tmp)
             /\ corruptBak' \in AfterPowerLoss(corruptBak) /\ v1Bak' \in AfterPowerLoss(v1Bak)
             /\ UNCHANGED <<edits, faults, tampers>>

\* The user deletes or breaks the file, or restores the version 1 backup.
Tamper == /\ pc = "off" /\ tampers < MaxTampers /\ tampers' = tampers + 1
          /\ \/ disk' \in {None, Corrupt(tampers + 1)}
             \/ v1Bak.kind = "legacy" /\ disk' = Legacy
          /\ UNCHANGED <<tmp, corruptBak, v1Bak, pc, caller, older, mem, loaded, dirty, failed, timers,
                         window, engine, edits, faults, crashes>>

Next == \/ Launch \/ Frame \/ Hotkey \/ Hide \/ Exit \/ Close \/ SaveStep
        \/ Show \/ Unocclude \/ RunEngine \/ Resolve \/ Tick \/ Kill \/ PowerLoss \/ Tamper

Spec == Init /\ [][Next]_vars

\* The loop draws while it can, system calls return, time passes.
FairSpec == Spec /\ WF_vars(Frame) /\ WF_vars(SaveStep) /\ WF_vars(Tick)

------------------------------------------------------------------------------
(* Properties.                                                              *)

Pcs == {"off", "idle", "closing", "probe", "backup", "copying", "create", "write", "flush",
        "move", "remove"}
FilesOK == disk \in FileSet /\ tmp \in FileSet /\ corruptBak \in FileSet /\ v1Bak \in FileSet
ControlOK == pc \in Pcs /\ caller \in {"frame", "hotkey", "hide", "exit"}
CountsOK == /\ mem \in Nat /\ loaded \in Nat /\ edits \in Nat
            /\ faults \in Nat /\ crashes \in Nat /\ tampers \in Nat
TimersOK == \A t \in {sinceSave, sinceAttempt, sinceSync} : t \in 0 .. Interval
FlagsOK == /\ dirty \in BOOLEAN /\ failed \in BOOLEAN
           /\ visible \in BOOLEAN /\ occluded \in BOOLEAN
           /\ running \in BOOLEAN /\ found \in BOOLEAN /\ older \in BOOLEAN
TypeOK == FilesOK /\ ControlOK /\ CountsOK /\ TimersOK /\ FlagsOK

\* The whole of save(), with its failures, kills and power failures, is one
\* step from a whole file to the configuration in memory (Config.h: "a crash
\* mid-write cannot leave a truncated config behind").
Durable == INSTANCE DurableConfig WITH
    file <- [kind |-> disk.kind, version |-> disk.version], up <- Up, current <- mem
SavesAtomically == Durable!Spec

\* When save() replaces a file that it did not write, its backup has what the
\* file had; or, by CopyFileW's bFailIfExists, it is an earlier original or what
\* a crash has left of a copy, there before this save began.  And a complete
\* backup is never replaced or altered, although a power failure may tear it:
\* it is copied without a flush.
Foreign == {"corrupt", "legacy"}
SameFile(f, g) == f.kind = g.kind /\ f.version = g.version
Replaced == disk.kind \in Foreign /\ disk'.kind = "config"
BackedUp(f, bak) == SameFile(f, bak) \/ (older /\ bak.kind \in {f.kind, "torn"})
OriginalKept ==
    [][/\ Replaced => BackedUp(disk, Backup(BackupOf(disk)))
       /\ \A which \in {"corrupt", "v1"} :
              Backup(which).kind \in Foreign =>
                  SameFile(Backup(which), Backup(which)') \/ Backup(which)'.kind = "torn"]_vars

\* What the comment at Config.cpp:387 and src/README.md:273 say of every invalid
\* file does not hold: the content of a second one is nowhere when it is replaced.
EveryOriginalKept == [][Replaced => SameFile(disk, Backup(BackupOf(disk)))]_vars

\* While nothing is marked as unsaved, the file holds the configuration in
\* memory, or nobody has touched it since it was loaded.
NothingForgotten ==
    Up /\ ~dirty => mem = loaded \/ SameFile(disk, Config(mem, TRUE))

\* In the tray, and when the process ends, a change is unsaved only if writing
\* it has failed before ("every path into the tray flushes first").
FlushedWhenLeft ==
    (Idle /\ ~visible) \/ pc = "closing" => (dirty => failed)

\* A window that keeps drawing saves its changes in the end, however often
\* single writes have failed.
ChangesReachDisk == []<>(~dirty \/ ~visible \/ occluded \/ pc \in {"closing", "off"})

============================================================================
