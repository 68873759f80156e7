-------------------------- MODULE ConfigStore_proofs --------------------------
(***************************************************************************)
(* Proofs about ConfigStore.  The file is whole because only a flushed,     *)
(* complete temporary file is moved over it; nothing is forgotten because a *)
(* save in progress is still marked as unsaved; a file save() did not write *)
(* is copied before the temporary file that will replace it is begun.       *)
(***************************************************************************)
EXTENDS ConfigStore, TLAPS

\* config.json holds something whole, and all of it is on the disk.
DiskWhole == disk.kind # "torn" /\ disk.flushed = TRUE

\* What the temporary file holds between two steps of save().
TempWritten == /\ pc = "flush" => tmp = Config(mem, FALSE)
               /\ pc = "move" => tmp = Config(mem, TRUE)

\* The mark is only taken back by a save that has succeeded.
SavingIsDirty == Saving => dirty

IInv == /\ DiskWhole /\ TempWritten /\ SavingIsDirty
        /\ NothingForgotten /\ FlushedWhenLeft

\* The files the program and the world make are files.
LEMMA FileTypes ==
    /\ None \in FileSet /\ Torn \in FileSet /\ Legacy \in FileSet
    /\ \A n \in Nat : Corrupt(n) \in FileSet
    /\ \A n \in Nat, b \in BOOLEAN : Config(n, b) \in FileSet
    /\ \A f \in FileSet, b \in BOOLEAN : File(f.kind, f.version, b) \in FileSet
    /\ \A f \in FileSet : Parse(f) \in Nat /\ f.kind \in Kinds
BY DEF File, None, Torn, Corrupt, Legacy, Config, FileSet, Kinds, Parse

\* Two positions of the timers.
LEMMA TimerTypes == 0 \in 0 .. Interval /\ Interval \in 0 .. Interval
                    /\ \A t \in 0 .. Interval : Older(t) \in 0 .. Interval
BY ConfigStoreAssumption DEF Older

------------------------------------------------------------------------------
(* Type correctness.                                                        *)

\* Every action of the specification keeps the types.
LEMMA TypeStep == TypeOK /\ [Next]_vars => TypeOK'
<1> SUFFICES ASSUME TypeOK, [Next]_vars PROVE TypeOK'
  OBVIOUS
<1> USE DEF TypeOK
<1>1. CASE Launch
  <2>1. FilesOK'
    BY <1>1 DEF Launch, files, FilesOK
  <2>2. ControlOK'
    BY <1>1 DEF Launch, Pcs, ControlOK
  <2>3. CountsOK'
    <3>1. Parse(disk) \in Nat
      BY FileTypes DEF FilesOK
    <3>2. mem' \in Nat /\ loaded' \in Nat
      BY <1>1, <3>1 DEF Launch
    <3>3. faults' \in Nat
      BY <1>1 DEF Launch, Fault, NoFault, CountsOK
    <3> QED BY <1>1, <3>2, <3>3 DEF Launch, CountsOK
  <2>4. TimersOK'
    BY <1>1, TimerTypes DEF Launch, TimersOK
  <2>5. FlagsOK'
    BY <1>1 DEF Launch, FlagsOK
  <2> QED BY <2>1, <2>2, <2>3, <2>4, <2>5
<1>2. ASSUME NEW force \in BOOLEAN, NEW who \in {"frame", "hotkey", "hide", "exit"},
             NEW what \in {"none", "mark", "edit"}, SaveIfDirty(force, who, what),
             occluded' \in BOOLEAN
      PROVE  TypeOK'
  <2>1. FilesOK'
    BY <1>2 DEF SaveIfDirty, files, FilesOK
  <2>2. ControlOK'
    BY <1>2 DEF SaveIfDirty, Return, Pcs, ControlOK
  <2>3. CountsOK'
    BY <1>2 DEF SaveIfDirty, budget, CountsOK
  <2>4. TimersOK'
    BY <1>2, TimerTypes DEF SaveIfDirty, Return, TimersOK
  <2>5. FlagsOK'
    BY <1>2 DEF SaveIfDirty, Return, FlagsOK
  <2> QED BY <2>1, <2>2, <2>3, <2>4, <2>5
<1>3. CASE Frame
  BY <1>2, <1>3 DEF Frame, Whats
<1>4. CASE Hotkey
  BY <1>2, <1>4 DEF Hotkey, Whats, FlagsOK
<1>5. CASE Hide
  BY <1>2, <1>5 DEF Hide
<1>6. CASE Exit
  BY <1>2, <1>6 DEF Exit, FlagsOK
<1>7. CASE Gone /\ FilesOK' /\ edits' \in Nat /\ faults' \in Nat /\ crashes' \in Nat
           /\ tampers' \in Nat
  BY <1>7, TimerTypes DEF Gone, ControlOK, Pcs, CountsOK, TimersOK, FlagsOK
<1>8. CASE Close
  BY <1>7, <1>8 DEF Close, FilesOK, CountsOK, files, budget
<1>9. CASE SaveStep
  <2>1. CASE Probe
    <3>1. FilesOK'
      BY <2>1 DEF Probe, files, FilesOK
    <3>2. ControlOK'
      BY <2>1 DEF Probe, Fails, kept, same, Return, Pcs, ControlOK
    <3>3. CountsOK'
      BY <2>1 DEF Probe, Fails, kept, same, Return, Fault, NoFault, CountsOK
    <3>4. TimersOK'
      BY <2>1 DEF Probe, Fails, kept, same, Return, timers, TimersOK
    <3>5. FlagsOK'
      BY <2>1 DEF Probe, Fails, kept, same, Return, window, engine, FlagsOK
    <3> QED BY <3>1, <3>2, <3>3, <3>4, <3>5
  <2>2. CASE StartCopy
    <3>1. FilesOK'
      BY <2>2, FileTypes DEF StartCopy, SetBackup, files, FilesOK
    <3>2. ControlOK'
      BY <2>2 DEF StartCopy, Fails, kept, same, Return, Pcs, ControlOK
    <3>3. CountsOK'
      BY <2>2 DEF StartCopy, Fails, kept, same, Return, Fault, NoFault, CountsOK
    <3>4. TimersOK'
      BY <2>2 DEF StartCopy, Fails, kept, same, Return, timers, TimersOK
    <3>5. FlagsOK'
      BY <2>2 DEF StartCopy, Fails, kept, same, Return, window, engine, FlagsOK
    <3> QED BY <3>1, <3>2, <3>3, <3>4, <3>5
  <2>3. CASE EndCopy
    <3>1. FilesOK'
      BY <2>3, FileTypes DEF EndCopy, SetBackup, FilesOK
    <3>2. ControlOK'
      BY <2>3 DEF EndCopy, Fails, kept, same, Return, Pcs, ControlOK
    <3>3. CountsOK'
      BY <2>3 DEF EndCopy, File, Fails, kept, same, Return, Fault, NoFault, CountsOK
    <3>4. TimersOK'
      BY <2>3 DEF EndCopy, Fails, kept, same, Return, timers, TimersOK
    <3>5. FlagsOK'
      BY <2>3 DEF EndCopy, Fails, kept, same, Return, window, engine, FlagsOK
    <3> QED BY <3>1, <3>2, <3>3, <3>4, <3>5
  <2>4. CASE CreateTemp
    <3>1. FilesOK'
      BY <2>4, FileTypes DEF CreateTemp, FilesOK
    <3>2. ControlOK'
      BY <2>4 DEF CreateTemp, Fails, kept, same, Return, Pcs, ControlOK
    <3>3. CountsOK'
      BY <2>4 DEF CreateTemp, Fails, kept, same, Return, Fault, NoFault, CountsOK
    <3>4. TimersOK'
      BY <2>4 DEF CreateTemp, Fails, kept, same, Return, timers, TimersOK
    <3>5. FlagsOK'
      BY <2>4 DEF CreateTemp, Fails, kept, same, Return, window, engine, FlagsOK
    <3> QED BY <3>1, <3>2, <3>3, <3>4, <3>5
  <2>5. CASE WriteTemp
    <3>1. FilesOK'
      BY <2>5, FileTypes DEF WriteTemp, CountsOK, FilesOK
    <3>2. ControlOK'
      BY <2>5 DEF WriteTemp, kept, same, Pcs, ControlOK
    <3>3. CountsOK'
      BY <2>5 DEF WriteTemp, Config, File, kept, same, Fault, NoFault, CountsOK
    <3>4. TimersOK'
      BY <2>5 DEF WriteTemp, kept, same, timers, TimersOK
    <3>5. FlagsOK'
      BY <2>5 DEF WriteTemp, kept, same, window, engine, FlagsOK
    <3> QED BY <3>1, <3>2, <3>3, <3>4, <3>5
  <2>6. CASE FlushTemp
    <3>1. FilesOK'
      BY <2>6, FileTypes DEF FlushTemp, Flushed, FilesOK
    <3>2. ControlOK'
      BY <2>6 DEF FlushTemp, kept, same, Pcs, ControlOK
    <3>3. CountsOK'
      BY <2>6 DEF FlushTemp, kept, same, Fault, NoFault, CountsOK
    <3>4. TimersOK'
      BY <2>6 DEF FlushTemp, kept, same, timers, TimersOK
    <3>5. FlagsOK'
      BY <2>6 DEF FlushTemp, kept, same, window, engine, FlagsOK
    <3> QED BY <3>1, <3>2, <3>3, <3>4, <3>5
  <2>7. CASE MoveTemp
    <3>1. FilesOK'
      BY <2>7, FileTypes DEF MoveTemp, FilesOK
    <3>2. ControlOK'
      BY <2>7 DEF MoveTemp, kept, same, Return, Pcs, ControlOK
    <3>3. CountsOK'
      BY <2>7 DEF MoveTemp, kept, same, Return, Fault, NoFault, CountsOK
    <3>4. TimersOK'
      BY <2>7 DEF MoveTemp, kept, same, Return, timers, TimersOK
    <3>5. FlagsOK'
      BY <2>7 DEF MoveTemp, kept, same, Return, window, engine, FlagsOK
    <3> QED BY <3>1, <3>2, <3>3, <3>4, <3>5
  <2>8. CASE RemoveTemp
    <3>1. FilesOK'
      BY <2>8, FileTypes DEF RemoveTemp, FilesOK
    <3>2. ControlOK'
      BY <2>8 DEF RemoveTemp, Fails, Return, Pcs, ControlOK
    <3>3. CountsOK'
      BY <2>8 DEF RemoveTemp, Fails, Return, Fault, NoFault, CountsOK
    <3>4. TimersOK'
      BY <2>8 DEF RemoveTemp, Fails, Return, timers, TimersOK
    <3>5. FlagsOK'
      BY <2>8 DEF RemoveTemp, Fails, Return, window, engine, FlagsOK
    <3> QED BY <3>1, <3>2, <3>3, <3>4, <3>5
  <2> QED BY <1>9, <2>1, <2>2, <2>3, <2>4, <2>5, <2>6, <2>7, <2>8 DEF SaveStep
<1>10. CASE Show
  BY <1>10 DEF Show, FilesOK, ControlOK, CountsOK, TimersOK, FlagsOK, files, timers, engine, budget
<1>11. CASE Unocclude
  BY <1>11 DEF Unocclude, FilesOK, ControlOK, CountsOK, TimersOK, FlagsOK, files, timers, engine,
               budget
<1>12. CASE RunEngine
  BY <1>12 DEF RunEngine, FilesOK, ControlOK, CountsOK, TimersOK, FlagsOK, files, timers, window,
               budget
<1>13. CASE Resolve
  BY <1>13 DEF Resolve, FilesOK, ControlOK, CountsOK, TimersOK, FlagsOK, files, timers, window,
               budget
<1>14. CASE Tick
  BY <1>14, TimerTypes DEF Tick, FilesOK, ControlOK, CountsOK, TimersOK, FlagsOK, files, window,
                           engine, budget
<1>15. CASE Kill
  BY <1>7, <1>15 DEF Kill, FilesOK, CountsOK, files
<1>16. CASE PowerLoss
  <2>1. FilesOK'
    BY <1>16, FileTypes DEF PowerLoss, AfterPowerLoss, Flushed, FilesOK
  <2> QED BY <1>7, <1>16, <2>1 DEF PowerLoss, CountsOK
<1>17. CASE Tamper
  <2>1. FilesOK'
    BY <1>17, FileTypes DEF Tamper, CountsOK, FilesOK
  <2>2. ControlOK'
    BY <1>17 DEF Tamper, ControlOK
  <2>3. CountsOK'
    BY <1>17 DEF Tamper, CountsOK
  <2>4. TimersOK'
    BY <1>17 DEF Tamper, timers, TimersOK
  <2>5. FlagsOK'
    BY <1>17 DEF Tamper, window, engine, FlagsOK
  <2> QED BY <2>1, <2>2, <2>3, <2>4, <2>5
<1>18. CASE UNCHANGED vars
  BY <1>18 DEF vars, FilesOK, ControlOK, CountsOK, TimersOK, FlagsOK, files, timers, window, engine,
               budget
<1> QED
  BY <1>1, <1>3, <1>4, <1>5, <1>6, <1>8, <1>9, <1>10, <1>11, <1>12, <1>13, <1>14, <1>15,
     <1>16, <1>17, <1>18 DEF Next

\* Every reachable state has the types.
THEOREM ConfigTypes == Spec => []TypeOK
<1>1. Init => TypeOK
  <2> SUFFICES ASSUME Init PROVE TypeOK
    OBVIOUS
  <2>1. FilesOK
    BY FileTypes DEF Init, FilesOK
  <2>2. ControlOK /\ CountsOK /\ TimersOK /\ FlagsOK
    BY TimerTypes DEF Init, ControlOK, Pcs, CountsOK, TimersOK, FlagsOK
  <2> QED BY <2>1, <2>2 DEF TypeOK
<1> QED BY <1>1, TypeStep, PTL DEF Spec

------------------------------------------------------------------------------
(* The inductive invariant, one part at a time.                             *)

\* config.json is replaced only by a temporary file that is complete and flushed.
LEMMA DiskWholeStep == IInv /\ [Next]_vars => DiskWhole'
<1> SUFFICES ASSUME IInv, [Next]_vars PROVE DiskWhole'
  OBVIOUS
<1> USE DEF IInv, DiskWhole
<1>1. CASE MoveTemp
  BY <1>1 DEF MoveTemp, TempWritten, Config, File
<1>2. CASE PowerLoss
  BY <1>2 DEF PowerLoss, AfterPowerLoss
<1>3. CASE Tamper
  BY <1>3 DEF Tamper, None, Corrupt, Legacy, File
<1>4. CASE UNCHANGED disk
  BY <1>4
<1>5. CASE Launch \/ Frame \/ Hotkey \/ Hide \/ Exit \/ Close \/ Kill
  BY <1>4, <1>5 DEF Launch, Frame, Hotkey, Hide, Exit, SaveIfDirty, Close, Kill, files
<1>6. CASE Probe \/ StartCopy \/ EndCopy \/ CreateTemp \/ WriteTemp \/ FlushTemp \/ RemoveTemp
  BY <1>4, <1>6 DEF Probe, StartCopy, EndCopy, CreateTemp, WriteTemp, FlushTemp, RemoveTemp, files
<1>7. CASE Show \/ Unocclude \/ RunEngine \/ Resolve \/ Tick \/ UNCHANGED vars
  BY <1>4, <1>7 DEF Show, Unocclude, RunEngine, Resolve, Tick, vars, files
<1> QED BY <1>1, <1>2, <1>3, <1>5, <1>6, <1>7 DEF Next, SaveStep

\* Only save() writes the temporary file, and nobody edits while it does.
LEMMA TempWrittenStep == IInv /\ [Next]_vars => TempWritten'
<1> SUFFICES ASSUME IInv, [Next]_vars PROVE TempWritten'
  OBVIOUS
<1> USE DEF IInv, TempWritten
<1>1. CASE WriteTemp
  BY <1>1 DEF WriteTemp, kept, same
<1>2. CASE FlushTemp
  BY <1>2 DEF FlushTemp, kept, same, Flushed, Config, File
<1>3. CASE pc' \notin {"flush", "move"}
  BY <1>3
<1>4. CASE UNCHANGED <<pc, tmp, mem>>
  BY <1>4
<1>5. CASE Launch \/ Close \/ Kill \/ PowerLoss
  BY <1>3, <1>5 DEF Launch, Close, Kill, PowerLoss, Gone
<1>6. CASE Frame \/ Hotkey \/ Hide \/ Exit
  BY <1>3, <1>6 DEF Frame, Hotkey, Hide, Exit, SaveIfDirty, Return
<1>7. CASE Probe \/ StartCopy \/ EndCopy \/ CreateTemp \/ RemoveTemp
  BY <1>3, <1>7 DEF Probe, StartCopy, EndCopy, CreateTemp, RemoveTemp, Fails, Return
<1>8. CASE MoveTemp
  BY <1>3, <1>8 DEF MoveTemp, Return
<1>9. CASE Show \/ Unocclude \/ RunEngine \/ Resolve \/ Tick \/ Tamper \/ UNCHANGED vars
  BY <1>4, <1>9 DEF Show, Unocclude, RunEngine, Resolve, Tick, Tamper, vars, files
<1> QED BY <1>1, <1>2, <1>5, <1>6, <1>7, <1>8, <1>9 DEF Next, SaveStep

\* A save begins with the mark set, and only its success takes the mark back.
LEMMA SavingIsDirtyStep == IInv /\ [Next]_vars => SavingIsDirty'
<1> SUFFICES ASSUME IInv, [Next]_vars PROVE SavingIsDirty'
  OBVIOUS
<1> USE DEF IInv, SavingIsDirty, Saving
<1>1. CASE ~Saving'
  BY <1>1
<1>2. CASE UNCHANGED <<pc, dirty>>
  BY <1>2
<1>3. CASE Launch \/ Close \/ Kill \/ PowerLoss
  BY <1>1, <1>3 DEF Launch, Close, Kill, PowerLoss, Gone
<1>4. CASE Frame \/ Hotkey \/ Hide \/ Exit
  BY <1>1, <1>4 DEF Frame, Hotkey, Hide, Exit, SaveIfDirty, Return
<1>5. CASE Probe \/ StartCopy \/ EndCopy \/ CreateTemp \/ WriteTemp \/ FlushTemp \/ RemoveTemp
  BY <1>1, <1>5 DEF Probe, StartCopy, EndCopy, CreateTemp, WriteTemp, FlushTemp, RemoveTemp, Fails,
                    Return
<1>6. CASE MoveTemp
  BY <1>1, <1>6 DEF MoveTemp, Return
<1>7. CASE Show \/ Unocclude \/ RunEngine \/ Resolve \/ Tick \/ Tamper \/ UNCHANGED vars
  BY <1>2, <1>7 DEF Show, Unocclude, RunEngine, Resolve, Tick, Tamper, vars
<1> QED BY <1>3, <1>4, <1>5, <1>6, <1>7 DEF Next, SaveStep

\* The configuration changes only together with the mark, and config.json
\* only under the mark or while the program is not running.
LEMMA NothingForgottenStep == IInv /\ [Next]_vars => NothingForgotten'
<1> SUFFICES ASSUME IInv, [Next]_vars PROVE NothingForgotten'
  OBVIOUS
<1> USE DEF IInv, NothingForgotten, Up
<1>1. CASE Launch
  BY <1>1 DEF Launch
<1>2. CASE Close \/ Kill \/ PowerLoss
  BY <1>2 DEF Close, Kill, PowerLoss, Gone
<1>3. CASE Tamper
  BY <1>3 DEF Tamper
<1>4. ASSUME NEW force, NEW who, NEW what, SaveIfDirty(force, who, what), Idle
      PROVE  NothingForgotten'
  <2>1. CASE dirty'
    BY <2>1
  <2>2. CASE ~dirty'
    <3>1. ~dirty /\ mem' = mem /\ disk' = disk /\ loaded' = loaded
      BY <1>4, <2>2 DEF SaveIfDirty, files
    <3> QED BY <1>4, <3>1 DEF Idle, SameFile, Config, File
  <2> QED BY <2>1, <2>2
<1>5. CASE Frame \/ Hotkey \/ Hide \/ Exit
  BY <1>4, <1>5 DEF Frame, Hotkey, Hide, Exit, Whats
<1>6. CASE dirty'
  BY <1>6
<1>7. CASE Probe \/ StartCopy \/ EndCopy \/ CreateTemp \/ WriteTemp \/ FlushTemp \/ RemoveTemp
  <2>1. Saving /\ dirty' = dirty
    BY <1>7 DEF Probe, StartCopy, EndCopy, CreateTemp, WriteTemp, FlushTemp, RemoveTemp, Fails,
                Saving
  <2> QED BY <1>6, <2>1 DEF SavingIsDirty
<1>8. CASE MoveTemp
  BY <1>6, <1>8 DEF MoveTemp, TempWritten, kept, same, SameFile, Config, File, SavingIsDirty, Saving
<1>9. CASE Show \/ Unocclude \/ RunEngine \/ Resolve \/ Tick \/ UNCHANGED vars
  BY <1>9 DEF Show, Unocclude, RunEngine, Resolve, Tick, vars, files, SameFile, Config, File
<1> QED BY <1>1, <1>2, <1>3, <1>5, <1>7, <1>8, <1>9 DEF Next, SaveStep

\* A forced flush is put off only by an earlier failure.
LEMMA FlushedWhenLeftStep == IInv /\ [Next]_vars => FlushedWhenLeft'
<1> SUFFICES ASSUME IInv, [Next]_vars PROVE FlushedWhenLeft'
  OBVIOUS
<1> USE DEF IInv, FlushedWhenLeft, Idle
<1>1. CASE ~dirty'
  BY <1>1
<1>2. CASE failed'
  BY <1>2
<1>3. CASE pc' \notin {"idle", "closing"}
  BY <1>3
<1>4. ASSUME NEW who, NEW what, SaveIfDirty(TRUE, who, what)
      PROVE  FlushedWhenLeft'
  BY <1>1, <1>2, <1>3, <1>4 DEF SaveIfDirty, Coalesced, TooSoon
<1>5. CASE Hotkey \/ Hide \/ Exit
  BY <1>4, <1>5 DEF Hotkey, Hide, Exit
<1>6. CASE Frame
  BY <1>3, <1>6 DEF Frame, SaveIfDirty, Return
<1>7. CASE Launch \/ Close \/ Kill \/ PowerLoss
  BY <1>1, <1>7 DEF Launch, Close, Kill, PowerLoss, Gone
<1>8. CASE Probe \/ StartCopy \/ EndCopy \/ CreateTemp \/ WriteTemp \/ FlushTemp \/ RemoveTemp
  BY <1>2, <1>3, <1>8 DEF Probe, StartCopy, EndCopy, CreateTemp, WriteTemp, FlushTemp, RemoveTemp,
                          Fails
<1>9. CASE MoveTemp
  BY <1>1, <1>3, <1>9 DEF MoveTemp
<1>10. CASE Show
  BY <1>10 DEF Show
<1>11. CASE Unocclude \/ RunEngine \/ Resolve \/ Tick \/ Tamper \/ UNCHANGED vars
  BY <1>11 DEF Unocclude, RunEngine, Resolve, Tick, Tamper, vars, window
<1> QED BY <1>5, <1>6, <1>7, <1>8, <1>9, <1>10, <1>11 DEF Next, SaveStep

\* The inductive invariant holds in every reachable state.
LEMMA Inductive == Spec => []IInv
<1>1. Init => IInv
  BY DEF Init, IInv, DiskWhole, TempWritten, SavingIsDirty, Saving, NothingForgotten, Up,
         FlushedWhenLeft, Idle, None, Corrupt, Legacy, Config, File
<1>2. IInv /\ [Next]_vars => IInv'
  BY DiskWholeStep, TempWrittenStep, SavingIsDirtyStep, NothingForgottenStep, FlushedWhenLeftStep
     DEF IInv
<1> QED BY <1>1, <1>2, PTL DEF Spec

------------------------------------------------------------------------------
(* The theorems.                                                            *)

\* saveConfigIfDirty: what is not marked is on the disk, or was never changed.
THEOREM ChangesAreRemembered == Spec => []NothingForgotten
<1>1. IInv => NothingForgotten
  BY DEF IInv
<1> QED BY <1>1, Inductive, PTL

\* hideWindow, WM_HOTKEY in the tray, the end of wWinMain: the flush was tried.
THEOREM TrayPathsFlush == Spec => []FlushedWhenLeft
<1>1. IInv => FlushedWhenLeft
  BY DEF IInv
<1> QED BY <1>1, Inductive, PTL

\* A step that leaves config.json alone while the program runs.
LEMMA EditOrStutter ==
    ASSUME disk' = disk, Up, Up', mem' \in Nat
    PROVE  Durable!Edit
BY DEF Durable!Edit

\* The steps of Config::save, with all that can go wrong between them, are one
\* step from a whole file to the whole configuration in memory.
THEOREM SavingIsAtomic == Spec => SavesAtomically
<1> DEFINE mapped == <<[kind |-> disk.kind, version |-> disk.version], Up, mem>>
<1>1. Init => Durable!Init
  BY DEF Init, Durable!Init, Durable!Whole, Durable!Foreign, Up, None, Corrupt, Legacy, Config, File
<1>2. ASSUME IInv, TypeOK, TypeOK', [Next]_vars
      PROVE  [Durable!Next]_mapped
  <2> USE <1>2 DEF Durable!Next
  <2>1. CASE Launch
    BY <2>1 DEF Launch, Parse, Durable!Load, Up, files
  <2>2. CASE disk' = disk /\ pc # "off" /\ pc' # "off"
    BY <2>2, EditOrStutter DEF Up, TypeOK, CountsOK
  <2>3. CASE Frame \/ Hotkey \/ Hide \/ Exit
    BY <2>2, <2>3 DEF Frame, Hotkey, Hide, Exit, SaveIfDirty, Return, Idle, files
  <2>4. CASE Probe \/ StartCopy \/ EndCopy \/ CreateTemp \/ WriteTemp \/ FlushTemp \/ RemoveTemp
    BY <2>2, <2>4 DEF Probe, StartCopy, EndCopy, CreateTemp, WriteTemp, FlushTemp, RemoveTemp,
                      Fails, Return, files
  <2>5. CASE MoveTemp
    <3>1. CASE disk' = tmp
      <4>1. tmp = Config(mem, TRUE) /\ Up /\ Up' /\ mem' = mem
        BY <2>5 DEF MoveTemp, Return, kept, same, IInv, TempWritten, Up
      <4>2. Durable!Commit
        BY <3>1, <4>1 DEF Durable!Commit, Durable!Saved, Config, File
      <4> QED BY <4>2
    <3>2. CASE disk' = disk
      BY <2>2, <2>5, <3>2 DEF MoveTemp, Return
    <3> QED BY <2>5, <3>1, <3>2 DEF MoveTemp
  <2>6. CASE Close \/ Kill \/ PowerLoss
    <3>1. disk' = disk
      BY <2>6 DEF Close, Kill, PowerLoss, AfterPowerLoss, IInv, DiskWhole, files
    <3>2. pc' = "off" /\ mem' = 0
      BY <2>6 DEF Close, Kill, PowerLoss, Gone
    <3> QED BY <3>1, <3>2 DEF Durable!Stop, Up
  <2>7. CASE Show \/ Unocclude \/ RunEngine \/ Resolve \/ Tick \/ UNCHANGED vars
    BY <2>7 DEF Show, Unocclude, RunEngine, Resolve, Tick, vars, files, Up
  <2>8. CASE Tamper
    <3>1. disk' \in {None, Corrupt(tampers + 1), Legacy} /\ tampers + 1 \in Nat
      BY <2>8 DEF Tamper, TypeOK, CountsOK
    <3>2. [kind |-> disk'.kind, version |-> disk'.version] \in Durable!Foreign
      BY <3>1 DEF Durable!Foreign, None, Corrupt, Legacy, File
    <3> QED BY <2>8, <3>2 DEF Tamper, Durable!Tamper, Up
  <2> QED BY <2>1, <2>3, <2>4, <2>5, <2>6, <2>7, <2>8 DEF Next, SaveStep
<1>3. Spec => []TypeOK /\ []IInv
  BY ConfigTypes, Inductive, PTL
<1> QED BY <1>1, <1>2, <1>3, PTL DEF Spec, SavesAtomically, Durable!Spec

------------------------------------------------------------------------------
(* What becomes of a file that save() did not write.                        *)

\* Each backup is a copy of the kind of file it is named for, or what a crash
\* has left of one.
BackupKinds == /\ corruptBak.kind \in {"none", "torn", "corrupt"}
               /\ v1Bak.kind \in {"none", "torn", "legacy"}

\* save() copies a foreign file into a backup it has just created, and goes on
\* to the temporary file only with that copy made or an older backup found.
BackupMade ==
    /\ pc \in {"backup", "copying"} => BackupOf(disk) # "no"
    /\ pc = "copying" => Backup(BackupOf(disk)).kind = "torn"
    /\ pc \in {"create", "write", "flush", "move"} /\ disk.kind \in Foreign =>
           BackedUp(disk, Backup(BackupOf(disk)))

BackupInv == DiskWhole /\ BackupKinds /\ BackupMade

\* A file that is whole is backed up under the name of its kind.
LEMMA BackupNames ==
    /\ disk.kind = "corrupt" => BackupOf(disk) = "corrupt"
    /\ disk.kind = "legacy" => BackupOf(disk) = "v1"
    /\ DiskWhole /\ BackupOf(disk) # "no" => disk.kind \in Foreign
BY DEF BackupOf, DiskWhole, Foreign

\* A step that touches neither the file nor its backups keeps the invariant if
\* save() goes on behind the copy, or not at all.
LEMMA BackupsLeftAlone ==
    ASSUME BackupInv, UNCHANGED <<disk, corruptBak, v1Bak>>,
           \/ pc' = pc /\ older' = older
           \/ pc' \notin {"backup", "copying", "create", "write", "flush", "move"}
           \/ /\ pc \in {"create", "write", "flush", "move"}
              /\ pc' \in {"write", "flush", "move"} /\ older' = older
    PROVE  BackupInv'
BY DEF BackupInv, DiskWhole, BackupKinds, BackupMade, Backup, BackupOf, BackedUp, SameFile

\* Probe sends a foreign file to its backup, and any other past it.
LEMMA ProbeBacksUp == ASSUME BackupInv, Probe PROVE BackupInv'
<1>1. UNCHANGED <<disk, corruptBak, v1Bak>>
  BY DEF Probe, files
<1>2. CASE pc' \notin {"backup", "copying", "create", "write", "flush", "move"}
  BY <1>1, <1>2, BackupsLeftAlone
<1>3. CASE pc' = IF BackupOf(disk) = "no" THEN "create" ELSE "backup"
  BY <1>1, <1>3 DEF BackupInv, DiskWhole, BackupKinds, BackupMade, Backup, BackupOf, Foreign
<1> QED BY <1>2, <1>3 DEF Probe, Fails, Return

\* StartCopy finds a backup of the right kind, or begins one.
LEMMA StartCopyBacksUp == ASSUME BackupInv, StartCopy PROVE BackupInv'
<1>1. disk.kind \in Foreign /\ disk' = disk
  BY BackupNames DEF StartCopy, BackupInv, BackupMade, files
<1>2. CASE UNCHANGED files /\ pc' = "create" /\ older' /\ Backup(BackupOf(disk)).kind # "none"
  BY <1>1, <1>2 DEF BackupInv, DiskWhole, BackupKinds, BackupMade, Backup, BackupOf, Foreign, files,
                    BackedUp
<1>3. CASE SetBackup(BackupOf(disk), Torn) /\ pc' = "copying"
  BY <1>1, <1>3 DEF BackupInv, DiskWhole, BackupKinds, BackupMade, Backup, BackupOf, Foreign,
                    SetBackup, Torn, File
<1>4. CASE UNCHANGED files /\ Fails
  BY <1>4, BackupsLeftAlone DEF Fails, Return, files
<1> QED BY <1>2, <1>3, <1>4 DEF StartCopy

\* EndCopy leaves the whole of the file in its backup, or nothing.
LEMMA EndCopyBacksUp == ASSUME BackupInv, EndCopy PROVE BackupInv'
<1>1. disk.kind \in Foreign /\ disk' = disk
  BY BackupNames DEF EndCopy, BackupInv, BackupMade
<1>2. CASE SetBackup(BackupOf(disk), File(disk.kind, disk.version, FALSE)) /\ pc' = "create"
  BY <1>1, <1>2 DEF BackupInv, DiskWhole, BackupKinds, BackupMade, Backup, BackupOf, Foreign,
                    SetBackup, File, BackedUp, SameFile
<1>3. CASE SetBackup(BackupOf(disk), None) /\ Fails
  BY <1>1, <1>3 DEF BackupInv, DiskWhole, BackupKinds, BackupMade, SetBackup, None, File, Fails,
                    Return
<1> QED BY <1>2, <1>3 DEF EndCopy

\* The file is replaced only when save() is over.
LEMMA MoveBacksUp == ASSUME BackupInv, MoveTemp, DiskWhole' PROVE BackupInv'
<1>1. pc' \notin {"backup", "copying", "create", "write", "flush", "move"}
  BY DEF MoveTemp, Return
<1> QED BY <1>1 DEF MoveTemp, BackupInv, BackupKinds, BackupMade

\* A power failure may tear a copy that was not flushed; it makes no other file of it.
LEMMA PowerLossBacksUp == ASSUME BackupInv, PowerLoss, DiskWhole' PROVE BackupInv'
BY DEF PowerLoss, Gone, AfterPowerLoss, Flushed, Torn, File, BackupInv, BackupKinds, BackupMade

\* No step breaks it.
LEMMA BackupStep == IInv /\ BackupInv /\ [Next]_vars => BackupInv'
<1> SUFFICES ASSUME IInv, BackupInv, [Next]_vars PROVE BackupInv'
  OBVIOUS
<1>1. DiskWhole'
  BY DiskWholeStep
<1>2. CASE Launch \/ Close \/ Kill
  BY <1>2, BackupsLeftAlone DEF Launch, Close, Kill, Gone, files
<1>3. CASE Frame \/ Hotkey \/ Hide \/ Exit
  BY <1>3, BackupsLeftAlone DEF Frame, Hotkey, Hide, Exit, SaveIfDirty, Return, files
<1>4. CASE CreateTemp \/ WriteTemp \/ FlushTemp \/ RemoveTemp
  BY <1>4, BackupsLeftAlone DEF CreateTemp, WriteTemp, FlushTemp, RemoveTemp, Fails, Return,
                                          kept
<1>5. CASE Show \/ Unocclude \/ RunEngine \/ Resolve \/ Tick \/ UNCHANGED vars
  BY <1>5, BackupsLeftAlone DEF Show, Unocclude, RunEngine, Resolve, Tick, vars, files
<1>6. CASE Tamper
  BY <1>1, <1>6 DEF Tamper, BackupInv, BackupKinds, BackupMade
<1> QED
  BY <1>1, <1>2, <1>3, <1>4, <1>5, <1>6, ProbeBacksUp, StartCopyBacksUp, EndCopyBacksUp,
     MoveBacksUp, PowerLossBacksUp DEF Next, SaveStep

\* It holds in every reachable state.
LEMMA BackupsHold == Spec => []BackupInv
<1>1. Init => BackupInv
  BY DEF Init, BackupInv, DiskWhole, BackupKinds, BackupMade, None, Corrupt, Legacy, Config, File
<1> QED BY <1>1, BackupStep, Inductive, PTL DEF Spec

\* save() replaces a file it did not write only with its backup made or found.
LEMMA ReplacedWithBackup ==
    ASSUME BackupInv, Next, disk.kind \in Foreign, disk'.kind = "config"
    PROVE  BackedUp(disk, Backup(BackupOf(disk)))
<1>1. CASE MoveTemp
  BY <1>1 DEF MoveTemp, BackupInv, BackupMade
<1>2. disk'.kind # disk.kind
  BY DEF Foreign
<1>3. CASE Launch \/ Frame \/ Hotkey \/ Hide \/ Exit \/ Close \/ Kill
  BY <1>2, <1>3 DEF Launch, Frame, Hotkey, Hide, Exit, SaveIfDirty, Close, Kill, files
<1>4. CASE Probe \/ StartCopy \/ EndCopy \/ CreateTemp \/ WriteTemp \/ FlushTemp \/ RemoveTemp
  BY <1>2, <1>4 DEF Probe, StartCopy, EndCopy, CreateTemp, WriteTemp, FlushTemp, RemoveTemp, files
<1>5. CASE Show \/ Unocclude \/ RunEngine \/ Resolve \/ Tick
  BY <1>2, <1>5 DEF Show, Unocclude, RunEngine, Resolve, Tick, files
<1>6. CASE PowerLoss
  BY <1>2, <1>6 DEF PowerLoss, AfterPowerLoss, BackupInv, DiskWhole
<1>7. CASE Tamper
  BY <1>7 DEF Tamper, None, Corrupt, Legacy, File
<1> QED BY <1>1, <1>3, <1>4, <1>5, <1>6, <1>7 DEF Next, SaveStep

\* A backup that is complete stays what it is; a power failure may tear it.
LEMMA BackupsStay ==
    ASSUME BackupInv, Next, NEW which \in {"corrupt", "v1"}, Backup(which).kind \in Foreign
    PROVE  SameFile(Backup(which), Backup(which)') \/ Backup(which)'.kind = "torn"
<1>1. CASE UNCHANGED <<corruptBak, v1Bak>>
  BY <1>1 DEF Backup, SameFile
<1>2. CASE StartCopy
  <2>1. CASE Backup(BackupOf(disk)).kind = "none" /\ SetBackup(BackupOf(disk), Torn)
    BY <2>1 DEF SetBackup, Backup, SameFile, Foreign
  <2> QED BY <1>1, <1>2, <2>1 DEF StartCopy, files
<1>3. CASE EndCopy
  <2>1. Backup(BackupOf(disk)).kind = "torn"
    BY <1>3 DEF EndCopy, BackupInv, BackupMade
  <2> QED BY <1>3, <2>1 DEF EndCopy, SetBackup, Backup, SameFile, Foreign
<1>4. CASE PowerLoss
  BY <1>4 DEF PowerLoss, AfterPowerLoss, Flushed, Torn, File, Backup, SameFile
<1>5. CASE Launch \/ Frame \/ Hotkey \/ Hide \/ Exit \/ Close \/ Kill
  BY <1>1, <1>5 DEF Launch, Frame, Hotkey, Hide, Exit, SaveIfDirty, Close, Kill, files
<1>6. CASE Probe \/ CreateTemp \/ WriteTemp \/ FlushTemp \/ MoveTemp \/ RemoveTemp
  BY <1>1, <1>6 DEF Probe, CreateTemp, WriteTemp, FlushTemp, MoveTemp, RemoveTemp, files
<1>7. CASE Show \/ Unocclude \/ RunEngine \/ Resolve \/ Tick \/ Tamper
  BY <1>1, <1>7 DEF Show, Unocclude, RunEngine, Resolve, Tick, Tamper, files
<1> QED BY <1>2, <1>3, <1>4, <1>5, <1>6, <1>7 DEF Next, SaveStep

\* Config::save: whatever fails between its steps, a file it did not write is
\* replaced only when its backup has its content, or when another backup of its
\* kind, or a torn one, was there before the save; a complete one is never altered.
THEOREM OriginalsSurvive == Spec => OriginalKept
<1> DEFINE Kept ==
      /\ Replaced => BackedUp(disk, Backup(BackupOf(disk)))
      /\ \A which \in {"corrupt", "v1"} :
             Backup(which).kind \in Foreign =>
                 SameFile(Backup(which), Backup(which)') \/ Backup(which)'.kind = "torn"
<1>1. ASSUME BackupInv, [Next]_vars PROVE [Kept]_vars
  BY <1>1, ReplacedWithBackup, BackupsStay DEF Replaced
<1> QED BY <1>1, BackupsHold, PTL DEF Spec, OriginalKept

==============================================================================
