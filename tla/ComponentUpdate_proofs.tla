------------------------- MODULE ComponentUpdate_proofs -------------------------
(***************************************************************************)
(* Theorems about ComponentUpdate: type correctness, its safety properties *)
(* and that it implements Replacement, for every set of entries and all    *)
(* bounds.                                                                 *)
(***************************************************************************)
EXTENDS ComponentUpdate, TLAPS

-----------------------------------------------------------------------------
(* The inductive invariant *)

\* the phases of a run in which the archive is still there, those after the
\* old installation was taken in hand, those after it was backed up
Unfinished == {"unpack", "stop", "drop", "rename", "copy", "remove", "mkdir", "move", "unlink"}
Stopped    == {"drop", "rename", "copy", "remove", "mkdir", "move", "unlink", "start"}
BackedUp   == {"remove", "mkdir", "move", "unlink", "start"}

\* The archive of a run stays the one it began with, has passed the checks
\* once unpacked, and is newer than anything installed.
ArchiveInv ==
    /\ pc \in Unfinished => archive # NoArchive /\ begun.archive = archive
    /\ pc \in Unfinished \ {"unpack"} => Unpacks(archive)
    /\ archive # NoArchive => /\ archive.version = offered
                              /\ component # "plugin" => archive.files = Files
    /\ pc = "start" => begun.archive # NoArchive
    /\ begun.archive # NoArchive /\ component # "plugin" => begun.archive.files = Files
    /\ \A f \in Files : Content(dir)[f] <= offered /\ Content(backup)[f] <= offered

\* The service stands still from its stop to its start; what to do with it in
\* the end was decided by how it was found.
ServiceInv ==
    /\ pc \in Stopped \cup {"off"} => ~service
    /\ pc \in Stopped => remembered = (begun.service \/ component = "plugin")
    /\ pc \in {"unpack", "stop"} => service = begun.service
    /\ pc # "idle" => outcome = "none"
    /\ component = "app" => pc \notin Stopped

\* A plugin directory is only ever added to.
PluginInv ==
    component = "plugin" => /\ dir # NoDir
                            /\ \A f \in Files : dir[f] # Absent
                            /\ pc \notin {"rename", "remove"}

\* Where the old version is, in each phase.
OldInv ==
    /\ pc \in {"unpack", "stop", "drop", "rename", "copy"} => dir = begun.dir
    /\ pc \in {"rename", "copy", "remove", "move", "unlink", "start"} => dir # NoDir
    /\ pc = "copy" => \A f \in Files : Content(backup)[f] # Absent => Content(backup)[f] = dir[f]
    /\ pc \in BackedUp /\ begun.dir # NoDir => backup = begun.dir

\* Where the new version is: moved entries in the directory, the others in
\* TMPDIR; entries no archive brings are the old ones.
NewInv ==
    /\ pc \in {"stop", "drop", "rename", "copy", "remove", "mkdir"} => tmp = archive.files
    /\ pc = "mkdir" /\ component = "plugin" => dir = begun.dir
    /\ pc = "move" => tmp # {} /\ tmp \subseteq archive.files
    /\ pc \in {"unlink", "start"} => tmp = {}
    /\ pc \in {"move", "unlink"} =>
          \A f \in archive.files \ tmp : dir[f] = archive.version
    /\ pc = "start" =>
          \A f \in begun.archive.files : dir[f] = begun.archive.version
    /\ component = "plugin" /\ pc \in {"move", "unlink", "start"} =>
          \A f \in Files : f \in begun.archive.files \/ dir[f] = begun.dir[f]

\* Between runs the installation, the backup or an archive is whole.
WholeInv == pc = "start" => Complete(dir)

\* What a step takes away or overwrites is in the backup: a plugin not yet
\* replaced is the one the run found; of the others nothing is in the place
\* of what is to come, and what is not yet removed is what the run found.
SavedInv ==
    /\ component = "plugin" => begun.dir # NoDir /\ \A f \in Files : begun.dir[f] # Absent
    /\ component = "plugin" /\ pc = "move" => \A f \in tmp : dir[f] = begun.dir[f]
    /\ component # "plugin" /\ pc = "mkdir" => dir = NoDir
    /\ component # "plugin" /\ pc = "move" => \A f \in tmp : dir[f] = Absent
    /\ pc = "remove" => /\ begun.dir # NoDir
                        /\ \A f \in Files : dir[f] = Absent \/ dir[f] = begun.dir[f]

IInv == /\ ArchiveInv /\ ServiceInv /\ PluginInv /\ OldInv /\ NewInv /\ WholeInv /\ SavedInv
        /\ CompleteSomewhere /\ SuccessInstallsAll /\ SuccessKeepsBackup

-----------------------------------------------------------------------------
\* The factory state satisfies the invariant.
LEMMA InitHolds == Init => TypeOK /\ IInv
<1> SUFFICES ASSUME Init PROVE TypeOK /\ IInv
    OBVIOUS
<1>1. dir \in Dir /\ dir # NoDir /\ \A f \in Files : dir[f] = 1
      BY NoDirAssumption DEF Init, Dir
<1>2. TypeOK
  <2>1. service \in BOOLEAN
        BY Zenon DEF Init
  <2>2. begun \in [archive : Archive \cup {NoArchive}, dir : Dir \cup {NoDir}, service : BOOLEAN]
        BY <1>1, <2>1 DEF Init
  <2>3. offered \in 1..(MaxOffers + 1) /\ faults \in 0..MaxFaults /\ cuts \in 0..MaxCuts
        BY UpdateBounds DEF Init
  <2> QED
      BY <1>1, <2>1, <2>2, <2>3 DEF Init, TypeOK, Phases
<1>3. Complete(dir)
      BY <1>1 DEF Complete, Absent
<1>4. ArchiveInv /\ ServiceInv /\ OldInv /\ NewInv /\ WholeInv
      BY <1>1, NoArchiveAssumption
      DEF Init, ArchiveInv, ServiceInv, OldInv, NewInv, WholeInv, Unfinished, Stopped, BackedUp,
          Content, EmptyDir, Absent
<1>5. PluginInv /\ SavedInv /\ CompleteSomewhere /\ SuccessInstallsAll /\ SuccessKeepsBackup
      BY <1>1, <1>3 DEF Init, PluginInv, SavedInv, CompleteSomewhere, SuccessInstallsAll,
         SuccessKeepsBackup, Absent
<1> QED
    BY <1>2, <1>4, <1>5 DEF IInv

\* Every step keeps the types; the invariant gives the archive and directory
\* that a phase works on.
LEMMA TypeStep == TypeOK /\ IInv /\ [Next]_vars => TypeOK'
<1> SUFFICES ASSUME TypeOK, IInv, [Next]_vars PROVE TypeOK'
    OBVIOUS
<1> USE NoDirAssumption, NoArchiveAssumption, UpdateBounds, OffersAssumption
    DEF TypeOK, Phases, Dir, EmptyDir, Absent
<1> DEFINE Known == ArchiveInv /\ OldInv
<1>0. Known
      BY DEF IInv
<1>1. CASE Offer
      BY <1>1 DEF Offer, Archive, script, history
<1>2. CASE Discard
      BY <1>2 DEF Discard, script, history, bounds
<1>3. CASE SwitchWebServer
      BY <1>3 DEF SwitchWebServer, stored, script, history, bounds
<1>4. CASE CommandFails
      BY <1>4 DEF CommandFails, Fail, stored
<1>5. CASE PowerCut
  <2>1. UNCHANGED <<component, dir, upper, backup, offered, faults, begun, disturbed>>
        BY <1>5 DEF PowerCut
  <2>2. pc' = "off" /\ tmp' = {} /\ remembered' = FALSE /\ service' = FALSE /\ outcome' = "none"
        BY <1>5, Zenon DEF PowerCut
  <2>3. cuts' \in 0..MaxCuts
        BY <1>5 DEF PowerCut
  <2>4. archive' \in Archive \cup {NoArchive}
        BY <1>5, Zenon DEF PowerCut
  <2>5. lost' \in BOOLEAN
        BY <1>5, Zenon DEF PowerCut
  <2> QED
      BY <2>1, <2>2, <2>3, <2>4, <2>5
<1>6. CASE Boot
      BY <1>6 DEF Boot, history, bounds
<1>7. CASE Begin
      BY <1>7 DEF Begin, stored, bounds
<1>8. CASE Unpack
      BY <1>8, <1>0 DEF Unpack, stored, bounds, history, ArchiveInv, Unfinished, Archive
<1>9. CASE UnpackFails
      BY <1>9 DEF UnpackFails, Fail, stored, bounds
<1>10. CASE StopService
      BY <1>10 DEF StopService, stored, bounds, history
<1>11. CASE StopServiceUnknown
      BY <1>11 DEF StopServiceUnknown, Fail, stored, bounds
<1>12. CASE NothingToSave \/ DropBackup
      BY <1>12 DEF NothingToSave, DropBackup, BackupStep, stored, bounds, history
<1>13. CASE RenameDir
      BY <1>13 DEF RenameDir, bounds, history
<1>14. CASE CopyFile
      BY <1>14, <1>0 DEF CopyFile, ToCopy, Content, script, bounds, history, OldInv
<1>15. CASE CopyDone
      BY <1>15 DEF CopyDone, Content, bounds, history
<1>16. CASE RemoveFile
      BY <1>16, <1>0 DEF RemoveFile, script, bounds, history, OldInv
<1>17. CASE RemoveDone
      BY <1>17 DEF RemoveDone, bounds, history
<1>18. CASE MakeDir
      BY <1>18 DEF MakeDir, Content, bounds, history
<1>19. CASE MoveFile
      BY <1>19, <1>0 DEF MoveFile, bounds, history, OldInv, ArchiveInv, Unfinished, Archive
<1>20. CASE RemoveArchive
      BY <1>20 DEF RemoveArchive, bounds, history
<1>21. CASE FinishFails
      BY <1>21 DEF FinishFails, Fail, stored, bounds
<1>22. CASE StartService
      BY <1>22 DEF StartService, stored, bounds, IInv, NewInv
<1>23. CASE UNCHANGED vars
      BY <1>23 DEF vars, stored, script, bounds, history
<1> QED
    BY <1>1, <1>2, <1>3, <1>4, <1>5, <1>6, <1>7, <1>8, <1>9, <1>10, <1>11, <1>12, <1>13,
       <1>14, <1>15, <1>16, <1>17, <1>18, <1>19, <1>20, <1>21, <1>22, <1>23
    DEF Next, Updater, Outside, Prepare, SaveOld, Activate, Finish

\* The archive is only replaced between runs, by a newer one, and only
\* moved into the directory.
LEMMA ArchiveStep == TypeOK /\ TypeOK' /\ IInv /\ [Next]_vars => ArchiveInv'
<1> SUFFICES ASSUME TypeOK, TypeOK', IInv, [Next]_vars PROVE ArchiveInv'
    OBVIOUS
<1> USE NoDirAssumption, NoArchiveAssumption
    DEF IInv, stored, script, bounds, history, ArchiveInv, OldInv, Unfinished,
        Content, Dir, EmptyDir, Absent, Archive, TypeOK, Unpacks, Phases
<1>1. CASE Outside
  <2>1. CASE Offer
        BY <2>1 DEF Offer
  <2>2. CASE Discard
        BY <2>2 DEF Discard
  <2>3. CASE SwitchWebServer
        BY <2>3 DEF SwitchWebServer
  <2>4. CASE CommandFails
        BY <2>4 DEF CommandFails, Fail
  <2>5. CASE PowerCut
        BY <2>5 DEF PowerCut
  <2>6. CASE Boot
        BY <2>6 DEF Boot
  <2> QED
      BY <1>1, <2>1, <2>2, <2>3, <2>4, <2>5, <2>6 DEF Outside
<1>2. CASE Prepare
  <2>1. CASE Begin
        BY <2>1 DEF Begin
  <2>2. CASE Unpack
        BY <2>2 DEF Unpack
  <2>3. CASE UnpackFails
        BY <2>3 DEF UnpackFails, Fail
  <2>4. CASE StopService
        BY <2>4 DEF StopService
  <2>5. CASE StopServiceUnknown
        BY <2>5 DEF StopServiceUnknown, Fail
  <2> QED
      BY <1>2, <2>1, <2>2, <2>3, <2>4, <2>5 DEF Prepare
<1>3. CASE SaveOld
      BY <1>3 DEF SaveOld, NothingToSave, DropBackup, BackupStep, RenameDir,
          CopyFile, ToCopy, CopyDone, RemoveFile, RemoveDone
<1>4. CASE Activate
  <2>1. CASE MakeDir
        BY <2>1 DEF MakeDir
  <2>2. CASE MoveFile
        BY <2>2 DEF MoveFile
  <2> QED
      BY <1>4, <2>1, <2>2 DEF Activate
<1>5. CASE Finish
      BY <1>5 DEF Finish, RemoveArchive, FinishFails, Fail, StartService
<1>6. CASE UNCHANGED vars
      BY <1>6 DEF vars
<1> QED
    BY <1>1, <1>2, <1>3, <1>4, <1>5, <1>6 DEF Next, Updater

\* The service is stopped before the phases of Stopped and started when
\* they end; a power cut ends both.
LEMMA ServiceStep == TypeOK /\ TypeOK' /\ IInv /\ [Next]_vars => ServiceInv'
<1> SUFFICES ASSUME TypeOK, TypeOK', IInv, [Next]_vars PROVE ServiceInv'
    OBVIOUS
<1> USE NoDirAssumption, NoArchiveAssumption
    DEF IInv, stored, script, bounds, history, ServiceInv, Stopped, TypeOK,
        Phases
<1>1. CASE Outside
      BY <1>1 DEF Outside, Offer, Discard, SwitchWebServer, CommandFails,
          Fail, PowerCut, Boot
<1>2. CASE Prepare
  <2>1. CASE Begin
        BY <2>1 DEF Begin
  <2>2. CASE Unpack
        BY <2>2 DEF Unpack
  <2>3. CASE UnpackFails
        BY <2>3 DEF UnpackFails, Fail
  <2>4. CASE StopService
        BY <2>4 DEF StopService
  <2>5. CASE StopServiceUnknown
        BY <2>5 DEF StopServiceUnknown, Fail
  <2> QED
      BY <1>2, <2>1, <2>2, <2>3, <2>4, <2>5 DEF Prepare
<1>3. CASE SaveOld
      BY <1>3 DEF SaveOld, NothingToSave, DropBackup, BackupStep, RenameDir,
          CopyFile, ToCopy, CopyDone, RemoveFile, RemoveDone
<1>4. CASE Activate
      BY <1>4 DEF Activate, MakeDir, MoveFile
<1>5. CASE Finish
  <2>1. CASE RemoveArchive
        BY <2>1 DEF RemoveArchive
  <2>2. CASE FinishFails
        BY <2>2 DEF FinishFails, Fail
  <2>3. CASE StartService
        BY <2>3 DEF StartService
  <2> QED
      BY <1>5, <2>1, <2>2, <2>3 DEF Finish
<1>6. CASE UNCHANGED vars
      BY <1>6 DEF vars
<1> QED
    BY <1>1, <1>2, <1>3, <1>4, <1>5, <1>6 DEF Next, Updater

\* No step of the plugin updater removes an entry.
LEMMA PluginStep == TypeOK /\ TypeOK' /\ IInv /\ [Next]_vars => PluginInv'
<1> SUFFICES ASSUME TypeOK, TypeOK', IInv, [Next]_vars PROVE PluginInv'
    OBVIOUS
<1> USE NoDirAssumption, NoArchiveAssumption
    DEF IInv, stored, script, bounds, history, PluginInv, OldInv, ArchiveInv,
        Unfinished, Content, Dir, EmptyDir, Absent, Archive, TypeOK, Phases
<1>1. CASE Outside
      BY <1>1 DEF Outside, Offer, Discard, SwitchWebServer, CommandFails,
          Fail, PowerCut, Boot
<1>2. CASE Prepare
      BY <1>2 DEF Prepare, Begin, Unpack, UnpackFails, Fail, StopService,
          StopServiceUnknown
<1>3. CASE SaveOld
  <2>1. CASE NothingToSave
        BY <2>1 DEF NothingToSave
  <2>2. CASE DropBackup
        BY <2>2 DEF DropBackup, BackupStep
  <2>3. CASE RenameDir
        BY <2>3 DEF RenameDir
  <2>4. CASE CopyFile
        BY <2>4 DEF CopyFile, ToCopy
  <2>5. CASE CopyDone
        BY <2>5 DEF CopyDone, ToCopy
  <2>6. CASE RemoveFile
        BY <2>6 DEF RemoveFile
  <2>7. CASE RemoveDone
        BY <2>7 DEF RemoveDone
  <2> QED
      BY <1>3, <2>1, <2>2, <2>3, <2>4, <2>5, <2>6, <2>7 DEF SaveOld
<1>4. CASE Activate
  <2>1. CASE MakeDir
        BY <2>1 DEF MakeDir
  <2>2. CASE MoveFile
        BY <2>2 DEF MoveFile
  <2> QED
      BY <1>4, <2>1, <2>2 DEF Activate
<1>5. CASE Finish
      BY <1>5 DEF Finish, RemoveArchive, FinishFails, Fail, StartService
<1>6. CASE UNCHANGED vars
      BY <1>6 DEF vars
<1> QED
    BY <1>1, <1>2, <1>3, <1>4, <1>5, <1>6 DEF Next, Updater

\* The backup is filled from the old directory before that is removed.
LEMMA OldStep == TypeOK /\ TypeOK' /\ IInv /\ [Next]_vars => OldInv'
<1> SUFFICES ASSUME TypeOK, TypeOK', IInv, [Next]_vars PROVE OldInv'
    OBVIOUS
<1> USE NoDirAssumption, NoArchiveAssumption
    DEF IInv, stored, script, bounds, history, OldInv, PluginInv, BackedUp,
        Content, Dir, EmptyDir, Absent, TypeOK, Phases
<1>1. CASE Outside
      BY <1>1 DEF Outside, Offer, Discard, SwitchWebServer, CommandFails,
          Fail, PowerCut, Boot
<1>2. CASE Prepare
      BY <1>2 DEF Prepare, Begin, Unpack, UnpackFails, Fail, StopService,
          StopServiceUnknown
<1>3. CASE SaveOld
  <2>1. CASE NothingToSave
        BY <2>1 DEF NothingToSave
  <2>2. CASE DropBackup
        BY <2>2 DEF DropBackup, BackupStep
  <2>3. CASE RenameDir
        BY <2>3 DEF RenameDir
  <2>4. CASE CopyFile
        BY <2>4 DEF CopyFile, ToCopy
  <2>5. CASE CopyDone
        BY <2>5 DEF CopyDone, ToCopy
  <2>6. CASE RemoveFile
        BY <2>6 DEF RemoveFile
  <2>7. CASE RemoveDone
        BY <2>7 DEF RemoveDone
  <2> QED
      BY <1>3, <2>1, <2>2, <2>3, <2>4, <2>5, <2>6, <2>7 DEF SaveOld
<1>4. CASE Activate
  <2>1. CASE MakeDir
        BY <2>1 DEF MakeDir
  <2>2. CASE MoveFile
    <3>1. PICK f \in tmp : /\ dir' = [dir EXCEPT ![f] = archive.version]
                           /\ pc' = IF tmp = {f} THEN "unlink" ELSE "move"
          BY <2>2 DEF MoveFile
    <3>2. dir' # NoDir
      <4>1. dir \in [Files -> Nat]
            BY <2>2 DEF MoveFile
      <4>2. archive \in Archive
            BY <2>2 DEF MoveFile, ArchiveInv, Unfinished
      <4> QED
          BY <3>1, <4>1, <4>2 DEF Archive
    <3> QED
        BY <2>2, <3>1, <3>2 DEF MoveFile
  <2> QED
      BY <1>4, <2>1, <2>2 DEF Activate
<1>5. CASE Finish
      BY <1>5 DEF Finish, RemoveArchive, FinishFails, Fail, StartService
<1>6. CASE UNCHANGED vars
      BY <1>6 DEF vars
<1> QED
    BY <1>1, <1>2, <1>3, <1>4, <1>5, <1>6 DEF Next, Updater

\* Entries leave TMPDIR for the directory, each with the new version.
LEMMA NewStep == TypeOK /\ TypeOK' /\ IInv /\ [Next]_vars => NewInv'
<1> SUFFICES ASSUME TypeOK, TypeOK', IInv, [Next]_vars PROVE NewInv'
    OBVIOUS
<1> USE NoDirAssumption, NoArchiveAssumption
    DEF IInv, stored, script, bounds, history, NewInv, OldInv, ArchiveInv,
        PluginInv, Unfinished, Content, Dir, EmptyDir, Absent, Archive,
        TypeOK, Phases
<1>1. CASE Outside
      BY <1>1 DEF Outside, Offer, Discard, SwitchWebServer, CommandFails,
          Fail, PowerCut, Boot
<1>2. CASE Prepare
  <2>1. CASE Begin
        BY <2>1 DEF Begin
  <2>2. CASE Unpack
        BY <2>2 DEF Unpack
  <2>3. CASE UnpackFails
        BY <2>3 DEF UnpackFails, Fail
  <2>4. CASE StopService
        BY <2>4 DEF StopService
  <2>5. CASE StopServiceUnknown
        BY <2>5 DEF StopServiceUnknown, Fail
  <2> QED
      BY <1>2, <2>1, <2>2, <2>3, <2>4, <2>5 DEF Prepare
<1>3. CASE SaveOld
      BY <1>3 DEF SaveOld, NothingToSave, DropBackup, BackupStep, RenameDir,
          CopyFile, ToCopy, CopyDone, RemoveFile, RemoveDone
<1>4. CASE Activate
  <2>1. CASE MakeDir
        BY <2>1 DEF MakeDir
  <2>2. CASE MoveFile
        BY <2>2 DEF MoveFile
  <2> QED
      BY <1>4, <2>1, <2>2 DEF Activate
<1>5. CASE Finish
      BY <1>5 DEF Finish, RemoveArchive, FinishFails, Fail, StartService
<1>6. CASE UNCHANGED vars
      BY <1>6 DEF vars
<1> QED
    BY <1>1, <1>2, <1>3, <1>4, <1>5, <1>6 DEF Next, Updater

\* When the last entry is moved the installation is complete.
LEMMA WholeStep == TypeOK /\ TypeOK' /\ IInv /\ [Next]_vars => WholeInv'
<1> SUFFICES ASSUME TypeOK, TypeOK', IInv, [Next]_vars PROVE WholeInv'
    OBVIOUS
<1> USE NoDirAssumption, NoArchiveAssumption
    DEF IInv, stored, script, bounds, history, WholeInv, NewInv, OldInv,
        ArchiveInv, PluginInv, Unfinished, Complete, Content, Dir, EmptyDir,
        Absent, Archive, TypeOK, Phases
<1>1. CASE Outside
      BY <1>1 DEF Outside, Offer, Discard, SwitchWebServer, CommandFails,
          Fail, PowerCut, Boot
<1>2. CASE Prepare
      BY <1>2 DEF Prepare, Begin, Unpack, UnpackFails, Fail, StopService,
          StopServiceUnknown
<1>3. CASE SaveOld
      BY <1>3 DEF SaveOld, NothingToSave, DropBackup, BackupStep, RenameDir,
          CopyFile, ToCopy, CopyDone, RemoveFile, RemoveDone
<1>4. CASE Activate
      BY <1>4 DEF Activate, MakeDir, MoveFile
<1>5. CASE Finish
  <2>1. CASE RemoveArchive
        BY <2>1 DEF RemoveArchive
  <2>2. CASE FinishFails
        BY <2>2 DEF FinishFails, Fail
  <2>3. CASE StartService
        BY <2>3 DEF StartService
  <2> QED
      BY <1>5, <2>1, <2>2, <2>3 DEF Finish
<1>6. CASE UNCHANGED vars
      BY <1>6 DEF vars
<1> QED
    BY <1>1, <1>2, <1>3, <1>4, <1>5, <1>6 DEF Next, Updater

\* A run takes in hand what it found; new entries come to where the old ones
\* are saved or gone.
LEMMA SavedStep == TypeOK /\ TypeOK' /\ IInv /\ [Next]_vars => SavedInv'
<1> SUFFICES ASSUME TypeOK, TypeOK', IInv, [Next]_vars PROVE SavedInv'
    OBVIOUS
<1> USE NoDirAssumption, NoArchiveAssumption
    DEF IInv, stored, script, bounds, history, SavedInv, NewInv, OldInv, PluginInv,
        ArchiveInv, Unfinished, Content, Dir, EmptyDir, Absent, Archive, TypeOK, Phases
<1>1. CASE Outside
      BY <1>1 DEF Outside, Offer, Discard, SwitchWebServer, CommandFails,
          Fail, PowerCut, Boot
<1>2. CASE Prepare
      BY <1>2 DEF Prepare, Begin, Unpack, UnpackFails, Fail, StopService,
          StopServiceUnknown
<1>3. CASE SaveOld
  <2>1. CASE NothingToSave
        BY <2>1 DEF NothingToSave
  <2>2. CASE DropBackup
        BY <2>2 DEF DropBackup, BackupStep
  <2>3. CASE RenameDir
        BY <2>3 DEF RenameDir
  <2>4. CASE CopyFile
        BY <2>4 DEF CopyFile, ToCopy
  <2>5. CASE CopyDone
        BY <2>5 DEF CopyDone, ToCopy
  <2>6. CASE RemoveFile
        BY <2>6 DEF RemoveFile
  <2>7. CASE RemoveDone
        BY <2>7 DEF RemoveDone
  <2> QED
      BY <1>3, <2>1, <2>2, <2>3, <2>4, <2>5, <2>6, <2>7 DEF SaveOld
<1>4. CASE Activate
  <2>1. CASE MakeDir
        BY <2>1 DEF MakeDir
  <2>2. CASE MoveFile
        BY <2>2 DEF MoveFile
  <2> QED
      BY <1>4, <2>1, <2>2 DEF Activate
<1>5. CASE Finish
      BY <1>5 DEF Finish, RemoveArchive, FinishFails, Fail, StartService
<1>6. CASE UNCHANGED vars
      BY <1>6 DEF vars
<1> QED
    BY <1>1, <1>2, <1>3, <1>4, <1>5, <1>6 DEF Next, Updater

\* Only a run whose installation is complete deletes its archive.
LEMMA SomewhereStep == TypeOK /\ TypeOK' /\ IInv /\ [Next]_vars /\ WholeInv' => CompleteSomewhere'
<1> SUFFICES ASSUME TypeOK, TypeOK', IInv, [Next]_vars, WholeInv' PROVE CompleteSomewhere'
    OBVIOUS
<1> USE NoDirAssumption, NoArchiveAssumption
    DEF IInv, stored, script, bounds, history, CompleteSomewhere, Complete,
        ArchiveInv, PluginInv, Unfinished, Unpacks, Content, Dir, EmptyDir,
        Absent, Archive, TypeOK, Phases
<1>1. CASE Outside
  <2>1. CASE Offer
        BY <2>1 DEF Offer
  <2>2. CASE Discard
        BY <2>2 DEF Discard
  <2>3. CASE SwitchWebServer
        BY <2>3 DEF SwitchWebServer
  <2>4. CASE CommandFails
        BY <2>4 DEF CommandFails, Fail
  <2>5. CASE PowerCut
        BY <2>5 DEF PowerCut
  <2>6. CASE Boot
        BY <2>6 DEF Boot
  <2> QED
      BY <1>1, <2>1, <2>2, <2>3, <2>4, <2>5, <2>6 DEF Outside
<1>2. CASE Prepare
      BY <1>2 DEF Prepare, Begin, Unpack, UnpackFails, Fail, StopService,
          StopServiceUnknown
<1>3. CASE SaveOld
      BY <1>3 DEF SaveOld, NothingToSave, DropBackup, BackupStep, RenameDir,
          CopyFile, ToCopy, CopyDone, RemoveFile, RemoveDone
<1>4. CASE Activate
      BY <1>4 DEF Activate, MakeDir, MoveFile
<1>5. CASE Finish
  <2>1. CASE RemoveArchive
        BY <2>1 DEF RemoveArchive, WholeInv
  <2>2. CASE FinishFails
        BY <2>2 DEF FinishFails, Fail
  <2>3. CASE StartService
        BY <2>3 DEF StartService
  <2> QED
      BY <1>5, <2>1, <2>2, <2>3 DEF Finish
<1>6. CASE UNCHANGED vars
      BY <1>6 DEF vars
<1> QED
    BY <1>1, <1>2, <1>3, <1>4, <1>5, <1>6 DEF Next, Updater

\* A run succeeds in its last step, after which nothing changes the
\* installation before the next one.
LEMMA InstallsStep == TypeOK /\ TypeOK' /\ IInv /\ [Next]_vars => SuccessInstallsAll'
<1> SUFFICES ASSUME TypeOK, TypeOK', IInv, [Next]_vars PROVE SuccessInstallsAll'
    OBVIOUS
<1> USE NoDirAssumption, NoArchiveAssumption
    DEF IInv, stored, script, bounds, history, SuccessInstallsAll, ServiceInv,
        NewInv, ArchiveInv, OldInv, Content, Dir, EmptyDir, Absent, Archive,
        TypeOK, Phases
<1>1. CASE Outside
      BY <1>1 DEF Outside, Offer, Discard, SwitchWebServer, CommandFails,
          Fail, PowerCut, Boot
<1>2. CASE Prepare
      BY <1>2 DEF Prepare, Begin, Unpack, UnpackFails, Fail, StopService,
          StopServiceUnknown
<1>3. CASE SaveOld
      BY <1>3 DEF SaveOld, NothingToSave, DropBackup, BackupStep, RenameDir,
          CopyFile, ToCopy, CopyDone, RemoveFile, RemoveDone
<1>4. CASE Activate
      BY <1>4 DEF Activate, MakeDir, MoveFile
<1>5. CASE Finish
  <2>1. CASE RemoveArchive
        BY <2>1 DEF RemoveArchive
  <2>2. CASE FinishFails
        BY <2>2 DEF FinishFails, Fail
  <2>3. CASE StartService
        BY <2>3 DEF StartService
  <2> QED
      BY <1>5, <2>1, <2>2, <2>3 DEF Finish
<1>6. CASE UNCHANGED vars
      BY <1>6 DEF vars
<1> QED
    BY <1>1, <1>2, <1>3, <1>4, <1>5, <1>6 DEF Next, Updater

\* Likewise for the backup.
LEMMA KeepsStep == TypeOK /\ TypeOK' /\ IInv /\ [Next]_vars => SuccessKeepsBackup'
<1> SUFFICES ASSUME TypeOK, TypeOK', IInv, [Next]_vars PROVE SuccessKeepsBackup'
    OBVIOUS
<1> USE NoDirAssumption, NoArchiveAssumption
    DEF IInv, stored, script, bounds, history, SuccessKeepsBackup, ServiceInv,
        OldInv, BackedUp, Content, Dir, EmptyDir, Absent, Archive, TypeOK,
        Phases
<1>1. CASE Outside
      BY <1>1 DEF Outside, Offer, Discard, SwitchWebServer, CommandFails,
          Fail, PowerCut, Boot
<1>2. CASE Prepare
      BY <1>2 DEF Prepare, Begin, Unpack, UnpackFails, Fail, StopService,
          StopServiceUnknown
<1>3. CASE SaveOld
      BY <1>3 DEF SaveOld, NothingToSave, DropBackup, BackupStep, RenameDir,
          CopyFile, ToCopy, CopyDone, RemoveFile, RemoveDone
<1>4. CASE Activate
      BY <1>4 DEF Activate, MakeDir, MoveFile
<1>5. CASE Finish
  <2>1. CASE RemoveArchive
        BY <2>1 DEF RemoveArchive
  <2>2. CASE FinishFails
        BY <2>2 DEF FinishFails, Fail
  <2>3. CASE StartService
        BY <2>3 DEF StartService
  <2> QED
      BY <1>5, <2>1, <2>2, <2>3 DEF Finish
<1>6. CASE UNCHANGED vars
      BY <1>6 DEF vars
<1> QED
    BY <1>1, <1>2, <1>3, <1>4, <1>5, <1>6 DEF Next, Updater

-----------------------------------------------------------------------------
(* Theorems *)

\* Every step keeps the invariant.
LEMMA InductiveStep == TypeOK /\ IInv /\ [Next]_vars => TypeOK' /\ IInv'
BY TypeStep, ArchiveStep, ServiceStep, PluginStep, OldStep, NewStep, WholeStep,
   SavedStep, SomewhereStep, InstallsStep, KeepsStep DEF IInv

\* The invariant holds throughout.
THEOREM Invariance == Spec => [](TypeOK /\ IInv)
BY InitHolds, InductiveStep, PTL DEF Spec

\* Every variable keeps its type, and unpacked entries belong to a run.
THEOREM TypeCorrect == Spec => []TypeOK
BY Invariance, PTL

\* However often runs of the updaters fail or are cut, a complete version is
\* installed, in the backup or in the archive.
THEOREM VersionSurvives == Spec => []CompleteSomewhere
BY Invariance, PTL DEF IInv

\* A run that ends well has installed its archive and nothing else, and has
\* backed up what it replaced.
THEOREM SuccessIsComplete == Spec => []SuccessReplacesAll
BY Invariance, PTL DEF IInv, SuccessReplacesAll

\* Only MakeDir and MoveFile touch a plugin directory, and MoveFile puts in
\* the latest version.
LEMMA PluginStepGrows ==
    TypeOK /\ TypeOK' /\ IInv /\ [Next]_vars =>
        (component = "plugin" => \A f \in Files : Content(dir)[f] <= Content(dir')[f])
<1> SUFFICES ASSUME TypeOK, TypeOK', IInv, [Next]_vars, component = "plugin"
             PROVE \A f \in Files : Content(dir)[f] <= Content(dir')[f]
    OBVIOUS
<1>1. dir \in Dir /\ pc \notin {"rename", "remove"}
      BY DEF IInv, PluginInv, TypeOK
<1>2. dir' = dir \/ MakeDir \/ MoveFile
      BY <1>1 DEF Next, Updater, Outside, Offer, Discard, SwitchWebServer, CommandFails, Fail,
         PowerCut, Boot, Prepare, Begin, Unpack, UnpackFails, StopService, StopServiceUnknown,
         SaveOld, NothingToSave, DropBackup, RenameDir, CopyFile, CopyDone, RemoveFile, RemoveDone,
         Activate, Finish, RemoveArchive, FinishFails, StartService, vars, stored
<1>3. CASE dir' = dir \/ MakeDir
      BY <1>1, <1>3, NoDirAssumption DEF MakeDir, Content, Dir
<1>4. CASE MoveFile
  <2>1. PICK f \in tmp : dir' = [dir EXCEPT ![f] = archive.version]
        BY <1>4 DEF MoveFile
  <2>2. archive \in Archive /\ archive.version = offered
        BY <1>4 DEF MoveFile, IInv, ArchiveInv, Unfinished, TypeOK
  <2>3. \A g \in Files : dir[g] <= offered
        BY <1>1, NoDirAssumption DEF IInv, ArchiveInv, Content
  <2> QED
      BY <1>1, <2>1, <2>2, <2>3, NoDirAssumption DEF Content, Dir, TypeOK, Archive
<1> QED
    BY <1>2, <1>3, <1>4

\* No plugin is ever missing or replaced by an older one.
THEOREM PluginsStay == Spec => PluginsNeverLost
<1>1. TypeOK /\ TypeOK' /\ IInv /\ [Next]_vars =>
        [component = "plugin" => \A f \in Files : Content(dir)[f] <= Content(dir')[f]]_vars
      BY PluginStepGrows
<1> QED
    BY <1>1, Invariance, TypeCorrect, PTL DEF Spec, PluginsNeverLost

\* The phases that change the directory are those of Stopped.
LEMMA StoppedStep == TypeOK /\ IInv /\ [Next]_vars => (dir' # dir => ~service)
BY DEF TypeOK, IInv, ServiceInv, Stopped, Next, Updater, Outside, Offer, Discard, SwitchWebServer,
   CommandFails, Fail, PowerCut, Boot, Prepare, Begin, Unpack, UnpackFails, StopService,
   StopServiceUnknown, SaveOld, NothingToSave, DropBackup, RenameDir, CopyFile, CopyDone,
   RemoveFile, RemoveDone, Activate, MakeDir, MoveFile, Finish, RemoveArchive, FinishFails,
   StartService, vars, stored

\* No program runs from a directory that is being changed.
THEOREM StoppedMeanwhile == Spec => ChangedOnlyWhenStopped
<1>1. TypeOK /\ IInv /\ [Next]_vars => [dir' # dir => ~service]_vars
      BY StoppedStep
<1> QED
    BY <1>1, Invariance, PTL DEF Spec, ChangedOnlyWhenStopped

\* Success is reported by StartService alone.
LEMMA RestoreStep ==
    TypeOK /\ IInv /\ [Next]_vars =>
        (outcome' = "success" /\ outcome # "success"
            => service' = (begun.service \/ component = "plugin"))
<1> SUFFICES ASSUME TypeOK, IInv, [Next]_vars, outcome' = "success", outcome # "success"
             PROVE service' = (begun.service \/ component = "plugin")
    OBVIOUS
<1>1. StartService
      BY DEF Next, Updater, Outside, Offer, Discard, SwitchWebServer, CommandFails, Fail,
         PowerCut, Boot, Prepare, Begin, Unpack, UnpackFails, StopService, StopServiceUnknown,
         SaveOld, NothingToSave, DropBackup, RenameDir, CopyFile, CopyDone, RemoveFile, RemoveDone,
         Activate, MakeDir, MoveFile, Finish, RemoveArchive, FinishFails, vars, history
<1> QED
    BY <1>1 DEF StartService, IInv, ServiceInv, Stopped

\* The service is left as it was found, the app running.
THEOREM ServiceIsRestored == Spec => ServiceRestored
<1>1. TypeOK /\ IInv /\ [Next]_vars =>
        [outcome' = "success" /\ outcome # "success"
            => service' = (begun.service \/ component = "plugin")]_vars
      BY RestoreStep
<1> QED
    BY <1>1, Invariance, PTL DEF Spec, ServiceRestored

-----------------------------------------------------------------------------
(* Refinement *)

\* A version is whole in both specifications or in none.
LEMMA WholeOrNothing ==
    ASSUME NEW d PROVE (Whole(d) = NoDir <=> ~Complete(d)) /\ (Complete(d) => Whole(d) = d)
BY DEF Whole, Complete

\* While a script runs that has unpacked its archive, that is the new version.
LEMMA NewsAtHand ==
    ASSUME TypeOK, IInv, pc \in Unfinished \ {"unpack"}
    PROVE  newVersion = archive /\ newVersion # NoArchive /\ archive \in Archive
BY DEF TypeOK, IInv, ArchiveInv, newVersion

\* Steps that leave the component and these things alone keep what is whole.
LEMMA KeepsWhole ==
    /\ UNCHANGED <<component, dir>> => UNCHANGED Whole(dir)
    /\ UNCHANGED <<component, backup>> => UNCHANGED Whole(backup)
    /\ UNCHANGED <<component, archive>> => UNCHANGED newVersion
BY DEF Whole, Complete, newVersion, Unpacks

\* A step that changes neither what is whole nor what is new is not seen.
LEMMA UnseenStep ==
    ASSUME UNCHANGED <<Whole(dir), Whole(backup), newVersion, offered, lost>>
    PROVE  UNCHANGED R!vars
BY DEF R!vars

\* An archive is published; one that will be refused is of no use.
LEMMA OfferIsPublish == TypeOK /\ TypeOK' /\ Offer => R!Next
<1> SUFFICES ASSUME TypeOK, TypeOK', Offer PROVE R!Next
    OBVIOUS
<1>1. newVersion = NoArchive /\ offered' = offered + 1 /\ lost' = lost
      BY DEF Offer, newVersion, history
<1>2. UNCHANGED <<Whole(dir), Whole(backup)>>
      BY KeepsWhole DEF Offer
<1>3. newVersion' # NoArchive => newVersion' = archive' /\ archive' \in Archive
      BY DEF newVersion, TypeOK
<1>4. archive'.version = offered'
      BY DEF Offer
<1>5. newVersion' # NoArchive => /\ newVersion'.version = offered'
                                 /\ newVersion'.files # {} /\ newVersion'.files \subseteq Files
      BY <1>3, <1>4 DEF Archive
<1> QED
    BY <1>1, <1>2, <1>5 DEF R!Next, R!Publish

\* The archive goes: given up or installed when something whole is
\* installed, or with a reboot.  One of no use is not missed.
LEMMA GoneIsWithdraw ==
    ASSUME archive' = NoArchive, UNCHANGED <<component, dir, backup, offered>>,
           newVersion # NoArchive => lost' = (lost \/ ~Complete(dir)),
           newVersion = NoArchive => lost' = lost
    PROVE  [R!Next]_(R!vars)
<1>1. newVersion' = NoArchive
      BY DEF newVersion
<1>2. UNCHANGED <<Whole(dir), Whole(backup)>>
      BY KeepsWhole
<1>3. CASE newVersion = NoArchive
      BY <1>1, <1>2, <1>3, UnseenStep
<1>4. CASE newVersion # NoArchive
  <2>1. lost' = (lost \/ Whole(dir) = NoDir)
        BY <1>4, WholeOrNothing
  <2> QED
      BY <1>1, <1>2, <1>4, <2>1 DEF R!Next, R!Withdraw
<1> QED
    BY <1>3, <1>4

\* What app-launch.sh does for a missing directory.
LEMMA BootIsRestore == TypeOK /\ Boot => [R!Next]_(R!vars)
<1> SUFFICES ASSUME TypeOK, Boot PROVE [R!Next]_(R!vars)
    OBVIOUS
<1>1. UNCHANGED <<component, archive, offered, lost>>
      BY DEF Boot, bounds, history
<1>2. UNCHANGED newVersion
      BY <1>1, KeepsWhole
<1>3. CASE UNCHANGED <<dir, backup>>
      BY <1>1, <1>2, <1>3, KeepsWhole, UnseenStep
<1>4. CASE dir = NoDir /\ dir' = backup /\ backup' = NoDir
  <2>1. Whole(dir) = NoDir /\ Whole(backup)' = NoDir /\ Whole(dir)' = Whole(backup)
        BY <1>1, <1>4 DEF Whole, Complete
  <2> QED
      BY <1>1, <1>2, <2>1 DEF R!Next, R!Restore
<1> QED
    BY <1>3, <1>4 DEF Boot

\* The old backup is deleted when a new version is at hand.
LEMMA DropIsDrop == TypeOK /\ IInv /\ DropBackup => R!Next
<1> SUFFICES ASSUME TypeOK, IInv, DropBackup PROVE R!Next
    OBVIOUS
<1>1. newVersion # NoArchive
      BY NewsAtHand DEF DropBackup, Unfinished
<1>2. UNCHANGED <<component, dir, archive, offered, lost>> /\ backup' = NoDir
      BY DEF DropBackup, bounds, history
<1>3. Whole(backup)' = NoDir
      BY <1>2 DEF Whole
<1> QED
    BY <1>1, <1>2, <1>3, KeepsWhole DEF R!Next, R!DropSaved

\* A directory renamed is in the backup as it was.
LEMMA RenameIsTakeAway == TypeOK /\ IInv /\ RenameDir => R!Next
<1> SUFFICES ASSUME TypeOK, IInv, RenameDir PROVE R!Next
    OBVIOUS
<1>1. newVersion # NoArchive
      BY NewsAtHand DEF RenameDir, Unfinished
<1>2. UNCHANGED <<component, archive, offered, lost>> /\ backup' = dir /\ dir' = NoDir
      BY DEF RenameDir, bounds, history
<1>3. Whole(dir)' = NoDir /\ Whole(backup)' = Whole(dir)
      BY <1>2 DEF Whole, Complete
<1>4. CASE Whole(dir) = NoDir
      BY <1>1, <1>2, <1>3, <1>4, KeepsWhole DEF R!Next, R!DropSaved
<1>5. CASE Whole(dir) # NoDir
      BY <1>1, <1>2, <1>3, <1>5, KeepsWhole DEF R!Next, R!TakeAway
<1> QED
    BY <1>4, <1>5

\* A backup becomes whole with its last entry, and is then the directory.
LEMMA CopyIsSave == TypeOK /\ TypeOK' /\ IInv /\ CopyFile => [R!Next]_(R!vars)
<1> SUFFICES ASSUME TypeOK, TypeOK', IInv, CopyFile PROVE [R!Next]_(R!vars)
    OBVIOUS
<1>1. newVersion # NoArchive
      BY NewsAtHand DEF CopyFile, Unfinished
<1>2. UNCHANGED <<component, dir, archive, offered, lost>>
      BY DEF CopyFile, bounds, history
<1>3. UNCHANGED <<Whole(dir), newVersion>>
      BY <1>2, KeepsWhole
<1>4. dir \in Dir /\ dir # NoDir /\ pc = "copy"
      BY NoDirAssumption DEF CopyFile, IInv, OldInv, TypeOK
<1>5. PICK f \in ToCopy : backup' = [Content(backup) EXCEPT ![f] = dir[f]]
      BY DEF CopyFile
<1>6. f \in Files /\ dir[f] # Absent /\ Content(backup)[f] = Absent
      BY DEF ToCopy
<1>7. Content(backup) \in Dir /\ (backup # NoDir => Content(backup) = backup)
      BY DEF Content, TypeOK, EmptyDir, Dir, Absent
<1>8. Whole(backup) = NoDir
      BY <1>6, <1>7 DEF Whole, Complete
<1>9. backup' \in Dir /\ \A g \in Files : backup'[g] = IF g = f THEN dir[f] ELSE Content(backup)[g]
  <2>1. dir[f] \in Nat
        BY <1>4, <1>6 DEF Dir
  <2> QED
      BY ONLY <1>5, <1>6, <1>7, <2>1 DEF Dir
<1>10. \A g \in Files : Content(backup)[g] # Absent => Content(backup)[g] = dir[g]
      BY <1>4 DEF IInv, OldInv
<1>11. CASE Complete(backup)'
  <2>1. \A g \in Files : backup'[g] = dir[g]
        BY <1>9, <1>10, <1>11 DEF Complete
  <2>2. backup' = dir
        BY <1>4, <1>9, <2>1 DEF Dir
  <2>3. Complete(dir)
        BY <1>2, <1>11, <2>2 DEF Complete
  <2>4. Whole(dir) # NoDir /\ Whole(backup)' = Whole(dir)
        BY <1>4, <1>11, <2>2, <2>3 DEF Whole
  <2> QED
      BY <1>1, <1>2, <1>3, <2>4 DEF R!Next, R!Save
<1>12. CASE ~Complete(backup)'
  <2>1. Whole(backup)' = NoDir
        BY <1>12 DEF Whole
  <2> QED
      BY <1>2, <1>3, <1>8, <2>1, UnseenStep
<1> QED
    BY <1>11, <1>12

\* The first entry removed makes the directory incomplete, and is saved like
\* the others.
LEMMA RemoveIsTakeAway == TypeOK /\ TypeOK' /\ IInv /\ RemoveFile => [R!Next]_(R!vars)
<1> SUFFICES ASSUME TypeOK, TypeOK', IInv, RemoveFile PROVE [R!Next]_(R!vars)
    OBVIOUS
<1>1. newVersion # NoArchive
      BY NewsAtHand DEF RemoveFile, Unfinished
<1>2. UNCHANGED <<component, backup, archive, offered, lost>>
      BY DEF RemoveFile, bounds, history
<1>3. UNCHANGED <<Whole(backup), newVersion>>
      BY <1>2, KeepsWhole
<1>4. dir \in Dir /\ pc = "remove"
      BY DEF RemoveFile, IInv, OldInv, TypeOK
<1>5. backup = begun.dir /\ begun.dir \in Dir
      BY <1>4 DEF IInv, OldInv, SavedInv, BackedUp, TypeOK
<1>6. PICK f \in Files : dir[f] # Absent /\ dir' = [dir EXCEPT ![f] = Absent]
      BY DEF RemoveFile
<1>7. dir'[f] = Absent
      BY <1>4, <1>6 DEF Dir
<1>8. Whole(dir)' = NoDir
      BY <1>7 DEF Whole, Complete
<1>9. CASE Complete(dir)
  <2>1. \A g \in Files : dir[g] = begun.dir[g]
        BY <1>4, <1>9 DEF Complete, IInv, SavedInv
  <2>2. backup = dir
        BY <1>4, <1>5, <2>1 DEF Dir
  <2>3. Whole(dir) # NoDir /\ Whole(backup) = Whole(dir)
        BY <1>9, <2>2, WholeOrNothing
  <2> QED
      BY <1>1, <1>2, <1>3, <1>8, <2>3 DEF R!Next, R!TakeAway
<1>10. CASE ~Complete(dir)
  <2>1. Whole(dir) = NoDir
        BY <1>10 DEF Whole
  <2> QED
      BY <1>2, <1>3, <1>8, <2>1, UnseenStep
<1> QED
    BY <1>9, <1>10

\* A plugin is replaced on the spot, its old version saved.
LEMMA MoveIsInstallPart ==
    TypeOK /\ TypeOK' /\ IInv /\ MoveFile /\ component = "plugin" => R!Next
<1> SUFFICES ASSUME TypeOK, TypeOK', IInv, MoveFile, component = "plugin" PROVE R!Next
    OBVIOUS
<1>1. newVersion = archive /\ newVersion # NoArchive /\ archive \in Archive
      BY NewsAtHand DEF MoveFile, Unfinished
<1>2. UNCHANGED <<component, backup, archive, offered, lost>> /\ pc = "move"
      BY DEF MoveFile, bounds, history
<1>3. PICK f \in tmp : dir' = [dir EXCEPT ![f] = archive.version]
      BY DEF MoveFile
<1>4. f \in archive.files /\ f \in Files
      BY <1>1, <1>2 DEF IInv, NewInv, TypeOK
<1>5. dir \in Dir /\ dir # NoDir /\ \A g \in Files : dir[g] # Absent
      BY DEF IInv, PluginInv, TypeOK
<1>6. begun.dir \in Dir /\ begun.dir # NoDir /\ \A g \in Files : begun.dir[g] # Absent
      BY DEF IInv, SavedInv, TypeOK
<1>7. backup = begun.dir /\ backup[f] = dir[f]
      BY <1>2, <1>6 DEF IInv, OldInv, SavedInv, BackedUp
<1>8. dir' \in Dir /\ \A g \in Files : dir'[g] # Absent
  <2>1. archive.version \in Nat /\ archive.version # Absent
        BY <1>1 DEF Archive, Absent
  <2> QED
      BY ONLY <1>3, <1>4, <1>5, <2>1 DEF Dir
<1>9. Complete(dir) /\ Complete(dir)' /\ Complete(backup)
      BY <1>2, <1>5, <1>6, <1>7, <1>8, NoDirAssumption DEF Complete
<1>10. Whole(dir) = dir /\ Whole(dir)' = dir' /\ Whole(backup) = backup
      BY <1>9 DEF Whole
<1>11. UNCHANGED <<Whole(backup), newVersion>>
      BY <1>2, KeepsWhole
<1>12. dir # NoDir /\ backup # NoDir
      BY <1>5, <1>6, <1>7
<1> QED
    BY ONLY <1>1, <1>2, <1>3, <1>4, <1>7, <1>10, <1>11, <1>12 DEF R!Next, R!InstallPart

\* The other components have all entries in place with the last one moved,
\* and before it none that is whole.
LEMMA MoveIsInstallAll ==
    TypeOK /\ TypeOK' /\ IInv /\ MoveFile /\ component # "plugin" => [R!Next]_(R!vars)
<1> SUFFICES ASSUME TypeOK, TypeOK', IInv, MoveFile, component # "plugin"
             PROVE  [R!Next]_(R!vars)
    OBVIOUS
<1>1. newVersion = archive /\ newVersion # NoArchive /\ archive \in Archive
      BY NewsAtHand DEF MoveFile, Unfinished
<1>2. UNCHANGED <<component, backup, archive, offered, lost>> /\ pc = "move"
      BY DEF MoveFile, bounds, history
<1>3. PICK f \in tmp : dir' = [dir EXCEPT ![f] = archive.version]
      BY DEF MoveFile
<1>4. f \in Files /\ archive.files = Files
      BY <1>1, <1>2, NoArchiveAssumption DEF IInv, ArchiveInv, NewInv, TypeOK
<1>5. dir \in Dir /\ dir # NoDir /\ dir[f] = Absent
      BY <1>2 DEF IInv, OldInv, SavedInv, TypeOK
<1>6. Whole(dir) = NoDir
      BY <1>4, <1>5 DEF Whole, Complete
<1>7. UNCHANGED <<Whole(backup), newVersion>>
      BY <1>2, KeepsWhole
<1>8. dir' \in Dir /\ dir'[f] = archive.version
  <2>1. archive.version \in Nat
        BY <1>1 DEF Archive
  <2> QED
      BY ONLY <1>3, <1>4, <1>5, <2>1 DEF Dir
<1>9. CASE Complete(dir)'
  <2>1. \A g \in Files : dir'[g] = archive.version
        BY <1>2, <1>4, <1>8, <1>9 DEF Complete
  <2>2. dir' = [g \in Files |-> archive.version]
        BY <1>8, <2>1 DEF Dir
  <2>3. Whole(dir)' = dir'
        BY <1>9 DEF Whole
  <2> QED
      BY ONLY <1>1, <1>2, <1>4, <1>6, <1>7, <2>2, <2>3 DEF R!Next, R!InstallAll
<1>10. CASE ~Complete(dir)'
  <2>1. Whole(dir)' = NoDir
        BY <1>10 DEF Whole
  <2> QED
      BY <1>2, <1>6, <1>7, <2>1, UnseenStep
<1> QED
    BY <1>9, <1>10

\* An empty directory is worth as much as none.
LEMMA EmptyIsNothing ==
    ASSUME TypeOK, IInv, pc \in Unfinished
    PROVE  ~Complete(EmptyDir)
<1>1. archive \in Archive
      BY NoArchiveAssumption DEF TypeOK, IInv, ArchiveInv
<1>2. PICK f \in Files : TRUE
      BY <1>1 DEF Archive
<1> QED
    BY <1>2 DEF Complete, EmptyDir

\* Creating it, emptying it out, or an empty backup, changes nothing.
LEMMA EmptyStep ==
    TypeOK /\ IInv /\ (MakeDir \/ RemoveDone \/ CopyDone) => UNCHANGED R!vars
<1> SUFFICES ASSUME TypeOK, IInv, MakeDir \/ RemoveDone \/ CopyDone PROVE UNCHANGED R!vars
    OBVIOUS
<1>1. ~Complete(EmptyDir)
      BY EmptyIsNothing DEF MakeDir, RemoveDone, CopyDone, Unfinished
<1>2. UNCHANGED <<component, archive, offered, lost>>
      BY DEF MakeDir, RemoveDone, CopyDone, bounds, history
<1>3. (Complete(EmptyDir) <=> Complete(EmptyDir)') /\ (Complete(NoDir) <=> Complete(NoDir)')
      BY <1>2 DEF Complete, EmptyDir
<1>4. Whole(EmptyDir) = NoDir /\ Whole(EmptyDir)' = NoDir /\ Whole(NoDir) = NoDir /\ Whole(NoDir)' = NoDir
      BY <1>1, <1>3 DEF Whole
<1>5. UNCHANGED dir \/ {dir, dir'} \subseteq {NoDir, EmptyDir}
      BY DEF MakeDir, RemoveDone, CopyDone, Content
<1>6. UNCHANGED backup \/ {backup, backup'} \subseteq {NoDir, EmptyDir}
      BY DEF MakeDir, RemoveDone, CopyDone, Content
<1>7. UNCHANGED Whole(dir)
  <2>1. CASE UNCHANGED dir
        BY <1>2, <2>1, KeepsWhole
  <2>2. CASE {dir, dir'} \subseteq {NoDir, EmptyDir}
        BY <1>1, <1>2, <2>2 DEF Whole, Complete, EmptyDir
  <2> QED
      BY <1>5, <2>1, <2>2
<1>8. UNCHANGED Whole(backup)
  <2>1. CASE UNCHANGED backup
        BY <1>2, <2>1, KeepsWhole
  <2>2. CASE {backup, backup'} \subseteq {NoDir, EmptyDir}
        BY <1>1, <1>2, <2>2 DEF Whole, Complete, EmptyDir
  <2> QED
      BY <1>6, <2>1, <2>2
<1> QED
    BY <1>2, <1>7, <1>8, KeepsWhole, UnseenStep

\* Only a reboot takes an archive while the installation is not whole.
LEMMA CutIsWithdraw == TypeOK /\ PowerCut => [R!Next]_(R!vars)
<1> SUFFICES ASSUME TypeOK, PowerCut PROVE [R!Next]_(R!vars)
    OBVIOUS
<1>1. UNCHANGED <<component, dir, backup, offered>>
      BY DEF PowerCut
<1>2. CASE UNCHANGED <<archive, lost>>
      BY <1>1, <1>2, KeepsWhole, UnseenStep
<1>3. CASE /\ archive # NoArchive /\ archive.kind = "downloaded"
           /\ archive' = NoArchive /\ lost' = (lost \/ ~Complete(dir))
  <2>1. newVersion # NoArchive
        BY <1>3 DEF newVersion, Unpacks
  <2> QED
      BY <1>1, <1>3, <2>1, GoneIsWithdraw
<1> QED
    BY <1>2, <1>3 DEF PowerCut

\* What is given up, or was installed, goes from a whole installation.
LEMMA DoneIsWithdraw ==
    TypeOK /\ IInv /\ IInv' /\ (Discard \/ RemoveArchive) => [R!Next]_(R!vars)
<1> SUFFICES ASSUME TypeOK, IInv, IInv', Discard \/ RemoveArchive PROVE [R!Next]_(R!vars)
    OBVIOUS
<1>1. archive' = NoArchive /\ UNCHANGED <<component, dir, backup, offered, lost>>
      BY DEF Discard, RemoveArchive, bounds, history
<1>2. Complete(dir)
  <2>1. CASE Discard
        BY <2>1 DEF Discard
  <2>2. CASE RemoveArchive
    <3>1. Complete(dir)'
          BY <2>2 DEF RemoveArchive, IInv, WholeInv
    <3> QED
        BY <1>1, <3>1 DEF Complete
  <2> QED
      BY <2>1, <2>2
<1>3. lost \in BOOLEAN
      BY DEF TypeOK
<1>4. lost' = (lost \/ ~Complete(dir))
      BY <1>1, <1>2, <1>3
<1> QED
    BY <1>1, <1>4, GoneIsWithdraw

\* Nothing is seen of the other steps.
LEMMA HiddenStep ==
    \/ SwitchWebServer \/ CommandFails \/ Begin \/ Unpack \/ UnpackFails \/ StopService
    \/ StopServiceUnknown \/ NothingToSave \/ FinishFails \/ StartService \/ UNCHANGED vars
    => UNCHANGED R!vars
<1> SUFFICES ASSUME UNCHANGED <<component, dir, backup, archive, offered, lost>>
             PROVE  UNCHANGED R!vars
    BY DEF SwitchWebServer, CommandFails, Fail, Begin, Unpack, UnpackFails, StopService,
       StopServiceUnknown, NothingToSave, FinishFails, StartService, vars, stored, bounds, history
<1> QED
    BY KeepsWhole, UnseenStep

\* Every behaviour of an updater, with its faults, power cuts and retries, is
\* one of the replacement of a whole version by another.
THEOREM ReplacementRefined == Spec => ImplementsReplacement
<1>1. Init => R!Init
  <2> SUFFICES ASSUME Init PROVE R!Init
      OBVIOUS
  <2>1. Complete(dir) /\ dir = [f \in Files |-> 1]
        BY NoDirAssumption DEF Init, Complete, Absent, Dir
  <2>2. Whole(dir) = dir /\ Whole(backup) = NoDir /\ newVersion = NoArchive
        BY <2>1 DEF Init, Whole, newVersion
  <2> QED
      BY <2>1, <2>2 DEF Init, R!Init
<1>2. TypeOK /\ IInv /\ TypeOK' /\ IInv' /\ [Next]_vars => [R!Next]_(R!vars)
      BY OfferIsPublish, BootIsRestore, DropIsDrop, RenameIsTakeAway, CopyIsSave,
         RemoveIsTakeAway, MoveIsInstallPart, MoveIsInstallAll, EmptyStep, CutIsWithdraw,
         DoneIsWithdraw, HiddenStep
      DEF Next, Updater, Outside, Prepare, SaveOld, Activate, Finish
<1> QED
    BY <1>1, <1>2, Invariance, PTL DEF Spec, ImplementsReplacement, R!Spec

=============================================================================
